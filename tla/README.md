# Verification of procedural-gfx-asic in TLA+

The repository is a video pipeline for a DE10-Nano board: a 640x480 raster, two
scenes that compute their pixels without a frame buffer, the I2C configuration
of the HDMI transmitter, and the tools for a planned two-hart RV32 controller.
This directory holds TLA+ models of it, the TLC configurations that check them on
small instances, and TLAPS proofs that hold for every value of the constants.

`tlc -config X.cfg M` checks a run, `tlapm M.tla` a proof module; `PROJECT.json`
lists runs, theorems, the source lines of every definition, the hazards, and a
mutant for every property (a plausible bug under which TLC finds the property
violated).

## 1. Inventory

Paths are relative to the repository.

| Part | State | Operations | Talks to |
|---|---|---|---|
| `rtl/sync_reset.sv` | two flops | asynchronous assert, two-clock release | one instance per clock domain |
| `rtl/de10nano_top.sv`, reset | 25-bit power-on counter | KEY0 clears it, the clock counts to 2^24 | `sync_reset`, both domains |
| `rtl/i2c_controller.sv` | divider, FSM, byte/bit/phase counters, two line drivers, busy/done/ack_err | one FSM arm per tick of the divider | walker (start, payload, busy, done, ack_err), the open-drain bus |
| `rtl/adv7513_config.sv` | FSM, ROM index | START_TX, WAIT_DONE on every clock | controller |
| `tb/sim_adv7513_config.cpp`, `TargetModel` | frame, bit and byte position, SDA pull, recorded writes | START, STOP, SCL rise, SCL fall | the bus, after every clock |
| `rtl/apu_vga_timing.sv` | column and line counters, registered beam and prefetch windows, assertion counters | one pixel clock | scenes, pads |
| `rtl/apu_top.sv` | none of its own | selects a scene, sets DEPTH | timing, scenes |
| `rtl/apu_colorbars.sv` | one stage | colour by column | timing's prefetch window |
| `rtl/apu_plasma.sv`, `rtl/apu_cordic.sv` | three phase accumulators; 19 stages | one pixel per clock; phases step once a frame | timing's prefetch window |
| `rtl/de10nano_top.sv`, blinker | toggle flop (pixel clock), two flops, divider, LED (50 MHz) | frame toggles, edge counts | crosses the two clock domains |
| `rtl/pll_25m.sv` | vendor macro | lock, loss of lock | pixel clock and reset |
| `tools/rv32iss.py` | two harts (registers, pc, 32 KiB RAM, halt reason), step count, trace | step, run under three schedules | device callback |
| `tools/rv32enc.py` | the table `ENC` and what is derived from it | pack, unpack, decode | assembler, ISS |
| `tools/rv32asm.py` | expanded lines, location counter, labels, items, errors, image | expand, lay out, emit, refuse | encoder; the ISS runs what it writes |
| `tb/cordic_golden.py` | none | integer CORDIC rotation, self test | the testbench scores the RTL against it |

What is hard about it:

- **Two state machines at different speeds.** The walker runs on every clock, the
  controller on one clock in 250. Every handshake signal between them can be
  missed, seen twice, or seen late.
- **A bus with a second party that sees edges only.** A clock too many, a line
  released early, or a reset in mid-byte is not an error at the controller; it
  is a misframed write at the transmitter.
- **Reset that is asynchronous and partial.** KEY0 resets the board at any clock
  and not the transmitter; loss of PLL lock resets the pixel domain and not the
  50 MHz domain; the CORDIC stages are reset synchronously by a reset that is
  asserted asynchronously.
- **Pixels that must be asked for before they are shown.** The scene needs 1 or
  19 clocks, so timing runs a second window ahead of the beam, across the ends of
  lines and frames; and the plasma's phase changes while pixels are in flight.
- **A clock domain crossing** with no phase relation between the clocks.
- For the tools: two instruction streams under any schedule with one shared
  budget, the order of access checks, and integer width at every boundary; and an
  assembler whose first pass fixes addresses from sizes that the second must
  reproduce, over lines that were multiplied, skipped or refused in between.

`PROJECT.json` lists these as hazards at their lines, with the properties that
cover them.

## 2. Modules

    SyncReset ----+--> ResetTree --------+
                  |    Adv7513Config ----+--> ConfigSystem --implements--> ConfigSequence
                  |    I2CController ----+    ConfigSystem <-- ConfigSystemProofs
                  |    I2CTarget --------+
                  |    I2CController <-- MCI2CController     (inputs free)
                  |    I2CController <-- I2CControllerProofs
                  +--> ApuTop (EXTENDS VgaTiming) <-- ApuTopProofs
                  +--> AliveBlinker <-- AliveBlinkerProofs

    Cordic, PlasmaField <-- MCCordic --compares with--> CordicGolden

    Rv32Alu <-- Rv32Step <--+-- Rv32Machine <-- MCRv32Machine
         |                  +-- Rv32Hart <--implements-- Rv32Machine
         +-- Rv32AluReference <-- MCRv32Machine
    Rv32Machine, FoldTheorems <-- Rv32MachineProofs
    Rv32Encoding <-- Rv32Codec <-- MCRv32Encoding
                     Rv32Codec, FoldTheorems <-- Rv32EncodingProofs
    Rv32Encoding <-- Assembler <-- MCAssembler     (with Rv32Alu)
                     Assembler, Rv32EncodingProofs <-- AssemblerProofs

**Conventions.** A step of an RTL module is one rising clock edge: every primed
register is computed from unprimed values, as non-blocking assignments do, and
modules under one clock take their steps together (a conjunction of their `Clk`
operators). Asynchronous reset is an action of its own. Flags are Booleans and
counters naturals; where a register can wrap, it wraps (`W16`, `W8`, `W12`). The
definition names are those of the source. A definition named `X_Y` under a
comment "Mutant" is a broken variant of `X`; no specification uses it.

**I2CController** (`rtl/i2c_controller.sv`). One action per arm and phase of the
FSM (`IdleArm` .. `DoneArm`), gated by `tick`; `Divide` and `Watch` are the
divider and the registers that exist for the two SystemVerilog assertions, which
are stated under their own names. The payload is a parameter of each step because
the controller latches none of it. `MCI2CController` lets all inputs change at
every clock.

**Adv7513Config** (`rtl/adv7513_config.sv`). The whole ROM; `NUM_REGS` says how
many of its entries a run walks.

**I2CTarget** (`TargetModel`). `Observe` is one pass of the loop in `run_test`:
resolve the lines, derive the four edges, call the handlers in the loop's order.
The testbench scripts one NACK; here `ack` is free for every byte.

**ResetTree, SyncReset.** Power-on counter and synchronizer. `POR_CYCLES` stands
for 2^24: the models need only that it is finite.

**ConfigSystem** composes the four under one clock, adds KEY0 (`PressKey0`,
`ReleaseKey0`), and shows that the composition implements **ConfigSequence**:
the ROM's writes reach the target in order, one at a time, a refused one is the
last, and "done" means all were made and none refused. The mapping: the attempt is
`rom_idx + 1`, what was written is the target's history, refused is `ack_err_o`.

**VgaTiming** (`rtl/apu_vga_timing.sv`) has the numbers of `rtl/apu_pkg.sv` as
constants with the assumptions `GeometryOK`, `WidthsOK` (10-bit coordinates) and
`DepthOK` (the contract `1 <= DEPTH <= H_BP`). **ApuTop** adds the selected scene
and the pixel domain's reset. A pixel's colour is a function of the coordinates
and the phase it was computed from, so a stage carries the valid bit, those
coordinates and that phase, and "the right colour in the right place" becomes
"what leaves the last stage is the place the beam is at, with the current phase".
`frame` stands for `frame_x`; the other two accumulators step with it. The ghosts
`steps`, `pixels` and `started` count what was shown since the last start of
frame; they stop one past the right value (`MaxSteps`, `MaxPixels`).

**AliveBlinker** (`rtl/de10nano_top.sv:106-151`) has both clocks as separate
actions, so any number of edges of one may fall between two of the other. A flop
that samples a toggle which moved since its last edge may take either value
(`Sampled`). With `Settles = FALSE` it may in addition be unsettled for a clock,
and each of its readers sees what it sees (`Readings`). `SofGap` is a lower bound
on the 50 MHz clocks between two frames: three stand for about 833,000.

**Cordic** (`rtl/apu_cordic.sv`) follows one sample through fold, sixteen rotations
and quadrant at the code's widths. Samples do not meet in the pipeline, and when
they arrive is ApuTop's business. The ghost `exact` remembers that no register
wrapped. **CordicGolden** (`tb/cordic_golden.py`, `cordic_fixed`) is the oracle of the
testbench, translated on its own as it is written on its own: its own table, fold,
sign extension and quadrant select. Two of its self test's parts, the known answers
and the symmetries, are assumptions that TLC evaluates when it runs `MCCordic`.

**PlasmaField** (`rtl/apu_plasma.sv:34-63`) is the hue wheel: the colour as a
function of the field `F`. It has no state; that the wheel has no seam and that its
halves, which are written separately, are complementary are assumptions that TLC
evaluates for every colour change when it runs `MCCordic`.

**Rv32Alu** (`tools/rv32iss.py`) has the arithmetic of the instruction families
(**Rv32AluReference** has the instruction set's definition of it, bit by bit, with
which run `iss` compares what programs compute),
**Rv32Step** one instruction: `Outcomes(id, h)` is the set of what a running hart may
come to, each with the hart afterwards, the trace row and the device calls it made.
There is more than one only where a device answers. The machine is scaled down, not
simplified: registers have XLEN bits, a word is four bytes of XLEN/4 bits, and
`Decoded` says which instruction a word is, so that programs live in memory and may
overwrite themselves. Decoding proper is Rv32Encoding's subject. **Rv32Machine** is
`Machine`: private memories, one trace, one budget, `step` and `run` with one action
per way through the body of `run`'s loops; `mode` says which schedule was asked for,
`"client"` being a program that calls `step` itself, as the tests do. The two
places the budget is checked after a retirement and before one are `Take` and
`Step`; an instruction that decodes and is not implemented (CSR access) raises, and
`status` says so. The random schedule is any choice. `calls` is the device
callback's side; `Setups` are the memories a machine may be constructed with and the
schedule and budget it may be asked for. **Rv32Hart** is the abstract specification: one hart alone, which a
budget may end at any moment.

**Rv32Encoding** (`tools/rv32enc.py`, and the choice of packing in
`tools/rv32asm.py`, `instruction_handler`) works at full width. A word is the set of
its one bits, which keeps 32-bit words within TLC's integers, and a packing is the
set of words a call may return, empty when it raises ValueError. `Tables` are the rows of
`ENC` by the family the source writes them in. **Rv32Codec** is encoder and decoder
together: one request to the assembler, or one word found in memory, which no encoder
need have made.

**Assembler** (`tools/rv32asm.py`) is `assemble` as three passes over lines that are
already split into label, operation and operands. `ExpandLine` is one turn of
`expand_pseudoinstructions`, which keeps the line number and gives the label to the
first of two instructions. `LayBlank`, `LayOrg` and `LayStatement` are the ways through
the body of `layout_source`'s loop; each does the label part first (`LabelErrors`,
`LabelItems`, `Defined`), as the code does. `LayBareColon` is the way out of it by an
exception (section 6), after which nothing happens: the phase is `"aborted"`. `EndLayout` is the point where errors found
so far end it. `EmitNothing`, `EmitData` and `EmitError` are the ways through
`assemble`'s loop: what may raise is a set of results, so that `Data(item, symbols)` is
empty exactly when the code's `try` fails. `Finish` pads and writes, or refuses. The code
runs expansion inside `layout_source`; nothing but `errors` connects the two, so
expansion is a phase of its own. Numbers of 32 bits are pairs (4096 times the first and
the second), since TLC's integers are narrower; the image has the bytes written so far,
and the others are the zeros of the `bytearray`. Numbers past 2^30 are as good as none
except to 32-bit fields and to `.space`, whose size then counts as one byte more than an
image may have (`Sizes`). `MCAssembler` adds what the
pseudoinstructions should do to a register, with the simulator's arithmetic
(`Rv32Alu`) and decoder.

## 3. Runs

| Run | Instance | What it shows |
|---|---|---|
| `controller` | CLK_DIV 3, two payloads that differ in every bit, all inputs free, resets at any clock | types; both RTL assertions; `done_o` is gone before the next start |
| `config_sequence` | CLK_DIV 3, all 13 entries, any byte refused | controller and target agree on the bit they are at; one driver on SDA; error exactly on a NACK; the refinement |
| `config_reset` | CLK_DIV 2, 2 entries, up to 2 presses of KEY0 at any clock | bus quiet at rest and in reset; done means exactly the ROM was written since the last reset; payload stable; the walker always halts |
| `plasma` | 4x3 active area, DEPTH = H_BP = 3, synchronous pipeline reset, resets at any moment | scene on the beam; one phase per frame; the RTL's sync assertions, with DE clear of the syncs; one phase step a frame; whole frames; frames never stop |
| `blinker` | 30 frames a blink, two losses of lock, KEY0 at any time | every frame counted once, a loss of lock costs or adds at most one; the LED keeps blinking |
| `blinker_unsettled` | the same, no loss of lock, `Settles = FALSE` | expected violation, section 6 |
| `cordic` | all 65536 phases, N 16, W 24, FZ 24, NA 16 | the angle left can be reached by the stages to come; no register wraps; every output is the golden model's to the bit |
| `iss` | 2 harts, XLEN 8, 12 words of RAM, 4 registers; seven longer programs in pairs, six short ones under all schedules, a client, and budgets 0, 3, 7; five that compute, on 16 pairs of words | the trace alone determines registers, pc, memory and device traffic, and no device access is misaligned; halt rows; exact budget; run() halts all and returns; each hart implements the lone hart; results and branches are those the instruction set defines |
| `iss_halt_word` | one hart, no device | expected violation, section 6 |
| `encoding` | every mnemonic, fields around every power of two and past their ends, every opcode x funct3 x funct7 | round trip; refused exactly when lost; the decoder against the table |
| `assembler` | image limit 2^20, 6381 sources of up to four lines | both passes agree on every address; no line is lost and no file has a hole; labels are reached; pseudoinstructions mean what they say |
| `assembler_abort` | the same sources | expected violation, section 6 |

**Why the bounds are enough.** Nothing in the FSMs depends on CLK_DIV except that
ticks are apart; 3 gives a tick, a clock after it and a clock before the next, and
2 is the least for which the target's answer, one clock after it saw an edge, is
there before the next tick (`SlowBusAssumption`; on the board CLK_DIV is 250). The
theorems of section 5 remove the bounds on the divider, the ROM's length and the
presses for the safety properties of these two runs, those on the divisor and the
losses of lock for `FramesCounted`, those on programs, harts and budgets for every
safety property of the simulator, and the choice of operands and words for the encoder
and the decoder. The full ROM is walked
once; two entries have a first, a last and a step between them, which is all a
reset can fall into. Two presses allow a reset during the recovery from a reset.
The raster instance has all eight intervals non-empty, and DEPTH at the contract's
upper edge; the theorems of section 5 cover the others, among them the colorbars
scene (DEPTH = 1, reset asynchronously). The history of the target is at most the
writes of `MaxPresses + 1` walks.

`cordic` and `encoding` run at the code's widths. Nothing in `rv32iss.py` depends
on the width of a word except through `MASK32`, the sign bit, the shift mask, and
the number of bits in a byte, all of which are derived from XLEN; at 8 bits every
access width has its own lanes, an immediate can be negative, and a word can hold
an address in RAM, in the gap and on the device. Twelve words of RAM hold a program
and two words of data, of which one happens to decode. Two harts are what the code
has by default. `Setups` says what is loaded and asked for. The longer programs run to their end
(a budget of 20 is more than any two of them need): every ordered pair in turns, each with
the one that rewrites itself at every interleaving, and all pairs at every interleaving
of the first six steps; the harts' memories are private, and `SchedulesDoNotMatter` of
section 5 covers the rest. Budgets of 0, 3 and 7 fall before, within and after the short
programs, which end in every way there is. The computing programs load two of the words
1, 127, 128 and 255 and run every register and immediate operation and branch on them:
signs, carries out and shifts turn over between those. A wider sweep, every operation on
every pair of `Corners`, is an assumption of Rv32AluReference, which TLC evaluates with the
run.

`assembler` runs at the code's widths too, with the code's limit on the image. Its
sources are: every pseudoinstruction, format, directive and way to refuse a line, alone
and behind each of 17 lines that define or use a label or move the location counter; all
sequences of three of those 17 (duplicate, empty, numeric and missing labels, labels
before a line that expands to two words, misaligned and overlapping `.org`); and jumps
up to and past the ends of their ranges. Three lines are enough for a label to be
used before and after it, with one line between that is multiplied, refused or moves
the counter. Outside TLC the final states of all 6381 sources were compared with
what `rv32asm.py` itself does: the image (1464 sources), the lines reported by the first
(2131) or by the second pass (2767), or an IndexError (19). There is no difference.

**Fairness.** `FairSpec` assumes weak fairness of clock edges only where a clock
exists whatever the logic does: the 50 MHz oscillator (`config_*`), the pixel clock
while the PLL is locked (`plasma`). In the `blinker` run frames come as long as the pixel domain is out of reset (what `FramesFlow`
shows of the raster), the PLL relocks, and the power-on counter runs out. Nobody
is assumed to release KEY0, and no target is assumed to acknowledge: `Settles`
asks only that the key be released for good in the end. `run()` of the simulator is
a loop of one thread without waiting, so weak fairness of its body (`RunNext`) is
the statement that the program goes on; a client's `step` calls have none.

**Deadlock** is checked in every run of the boards' state machines: a stopped
walker still has clock edges. It is off where the system ends: a sample leaves the
CORDIC, `run()` has raised, a word has been decoded or `assemble` has returned.

## 4. What the properties say

`BothEndsAgree` relates the controller's counters to the target's, which are
driven by nothing but edges of the lines. `DoneMeansConfigured` survives resets
that leave the target inside a frame or holding SDA low: what the broken frame may
cause is a refused byte and LED1, or a write recorded before the new walk's
first, which then is not "done". `PayloadHeldWhileBusy` is the obligation the
controller puts on its caller by not latching. `SceneOnBeam` is the D18
alignment, also in the first frame after a reset; `OnePhasePerFrame` says a frame
is computed from one phase although the phase moves before the beam's frame
starts. `FramesCounted` gives the crossing's error as a function of the number of
losses of lock.

For the simulator the trace is the interface: cosimulation will compare it with
hardware row by row. `RegistersFollowTrace`, `PcFollowsTrace` and
`MemoryFollowsTrace` say that nothing happens to a hart that its rows do not tell,
by replaying them from reset; `DeviceCallsTraced` says the same of the device.
`ScheduleIndependent` is a refinement for each hart: what it does, with its rows
and its device calls, is a behaviour of a hart alone. `BudgetIsExact` relates the
one counter to the rows of all harts. `AngleInReach` is the convergence argument of
CORDIC as an invariant of the pipeline's stages; `MatchesGolden` is the testbench's
comparison, which depends on the direction of rounding of negative shifts and on the
tie at z = 0. `RefusedIffLost` states each range
check by what it protects: an operand is refused exactly when its field cannot hold
it.

For the assembler, `PassesAgree` is what makes the slice assignment in `assemble` safe,
which would silently grow or overlap the image if a size differed. `TargetsReached` does
not look at the symbol table: it decodes the branch, jump or `la` from the image and
compares where it leads with the statement that follows the label in the source.
`NoLineLost` says what the collected errors are worth: after the second pass each line
has all of its bytes, or is reported, for a reason, and then no file is written: none has
a hole. `PseudosMean` assembles, decodes and executes.

`QuietAtRest` covers both ways the bus is given up: the controller's reset, which must
act in the middle of a bit and stay in force until the synchronizer lets go, and the end
of the walk. Both lines of the board are released in one observation of the target in
`PressKey0`, because one asynchronous reset clears both drivers. `ResultsAsDefined`
compares executed programs with adders, flags and shifts made of single bits, so that
nothing of Python's unbounded integers is shared by the two sides. `DecodesTheTable`
calls a word reserved if it satisfies no row of `ENC`; the rows of `ecall` and `ebreak`
ask nothing about `rd` and `rs1`, and neither does the decoder, so those words decode.

Each property's comment in its module names the code it is about.

## 5. Proofs

The theorems hold for every value of the constants within the named assumptions, which
TLC evaluates on the runs' instances. None of the properties is inductive; what each
paragraph is about is the invariant that is.

**I2CControllerProofs**, for every CLK_DIV > 0 and every set of payloads:
`TypeCorrect`, `SclLowWidth`, `SdaStable`, `BusFree`, `DoneNotStale`. `IInv` adds:
`Shape`, which ties the lines, `busy_o` and the counters to the FSM's state (SCL is low
exactly in phase 1 and in one step of STOP); `LowCount`, which says that while SCL is
low the counter of low clocks is the divider's count (modulo 2^16), so that it equals
CLK_DIV when the tick releases SCL; and `DoneShape`. The induction has one step per FSM
arm.

**ConfigSystemProofs**, for every CLK_DIV from 2 (`SlowBusAssumption`), every prefix of
the ROM and any number of presses of KEY0: `PayloadHeld`, `RestsQuiet`,
`DoneIsConfigured`. As long as KEY0 was not pressed also `EndsAgree`, `OneDriver`,
`ErrorIffNack`, and with `MaxPresses = 0` `SequenceImplemented`, the refinement of
`ConfigSequence` (which says nothing of progress; that a walk ends is `Settles`). `RestsQuiet` has an invariant of its own for its first half, `ResetInv`: while the
reset tree holds the board in reset, the controller is where its reset branch puts it,
from the press of KEY0 to the edge that lets go. `IInv` has five parts. `Handshake`
says what walker and controller can see of each other at each moment of a write;
`SdaSeen` that the target's last look at SDA is at most the clock after its own answer
old. `InStep` says for each state of the controller which bits of which byte the target
has (`BitDue`, `BitOut`, ... one named case each), and `Accounted` what the history and
the refusals are worth: the ROM's entries below `rom_idx`, at the history's end. A press
in mid-write breaks both: the target may be left inside a frame, holding SDA low. Then
it sees no START and takes the next write's bytes for the rest of its old frame, and is
`Astray`. There it is ahead of the controller by at least a byte, and so has nothing to
answer to the last one: every such write ends with `ack_err_o`, and the walker in error
rather than done. That is why `DoneIsConfigured` needs no assumption on presses and
`EndsAgree` does.

**ApuTopProofs**, for every geometry within the assumptions, every DEPTH from 1 to
H_BP, any number of resets at any moments: `TypeCorrect`, `Prefetched` (`SceneOnBeam`),
`NoTearing` (`OnePhasePerFrame`), `SyncsKeepWidth` (`SyncAssertions`),
`DeClearOfSyncs`, `StepsOncePerFrame`, `FramesAreWhole`. The induction hypothesis
follows each pixel through the pipeline: `AheadH(k)`, `AheadV(k)` is the place the beam
reaches in k clocks; the prefetch registers hold the place `DEPTH - 1` ahead (`PreInv`),
stage i the place `DEPTH - 1 - i` ahead (`PipeInv`), the last stage the place the beam
registers show (`OutInv`). The lemma `AheadStep` says that a clock turns "k + 1 ahead"
into "k ahead" across ends of lines and frames. The phase moves only at column
PRE_START of the last line, where `BlankAhead` leaves nothing active in the pipe
(`PhaseInv`). `ResetInv` says where reset leaves the raster until the synchronizer lets
go, which is what makes the first frame whole. For the counted properties `JInv` gives
every counter as a function of the raster's place: the low counts of HSYNC and VSYNC
(modulo 2^8 and 2^12, as the registers are, so that a longer pulse wraps on both sides
of the assertion), the phase steps, and the pixels shown. A reset that cuts a VSYNC
short leaves a case of its own in `VsyncInv`.

**AliveBlinkerProofs**, for every divisor, any number of losses of lock and every order
of the two clocks' edges: `EveryFrameCounted` (`FramesCounted`). `Balance` is the
argument: frames counted, edges on their way through the flops and a slip `d` of at most
the losses of lock add up to the frames shown, but for whole blinks. A loss of lock
clears the toggle, which may take back an edge not yet sampled, or make one. One that
was taken back may still be sampled, and then counts twice, so it is owed two
(`Retracted`). `Resets` and `Sampling` say that no frame comes while a flop of the chain
is still in reset. The theorem has two hypotheses: the first flop settles within a clock
(section 6 shows what happens otherwise), and frames are three 50 MHz clocks apart; with
two a frame can be lost at the release of reset. On the board they are 833,000 apart.

**Rv32MachineProofs**, for any number of harts, memories, programs, devices, schedules
and budgets: `SchedulesDoNotMatter` (the refinement of a lone hart, `Rv32Hart`),
`HaltRowsAreLast`, `RegistersAreTraced`, `TheBudgetIsExact`. The central lemma is
`StepsOfOneHart`: a step of the machine is, for each hart with its rows and its calls, a
step of its own, the end of a budget, both, or nothing. It rests on what every outcome
of an instruction has in common (`OutcomesAreOrdinary`), and on what appending one row
does to a filtered or replayed trace. The model writes those with the library's folds,
which are recursive functions chosen by CHOOSE. **FoldTheorems** shows that such folds
exist and are what they should be: from the least-number principle it gets induction
over naturals for sets (`Induction`), from that a function that satisfies a fold's
recursion (`FoldExists`), and that two of them agree (`FoldsAgree`). `SumIsInteger` and
`SequenceInduction` are by-products.

The second half of the module is what the instructions compute, for words of 4, 8, 16
or 32 bits (`XlenAssumption`): `TypeCorrect`, `PcIsTraced`, `MemoryIsTraced`,
`DeviceCallsAreTraced`. First arithmetic: every family of the ALU gives an integer, and
cutting it to a word leaves a word; the bytes of a value are those of its lanes
(`LanesKeepBytes`), the lanes of the low bytes fit in a word, and a lane of a word is
that lane of the number it was cut from (`LanesAndWords`). Then one lemma per family says
that its outcomes are typed and that the row tells memory and pc (`Told`): for a store
the bytes the row's lanes give are those merged into RAM, for a branch the condition the
row's word gives on the replayed registers is the one that was taken. `Asked` says for
each outcome what was asked of the device: nothing, and the row has no device address;
or one aligned call, which the row shows if it was answered, and which left a bus halt if
not. The invariants then pair rows with prefixes of the trace (`Leads`), stores with a
fold over it, and device rows with answered calls (`Pairs`).

**AssemblerProofs**, for every set of source programs and every limit on the image:
`AddressesAgree` (`PassesAgree`), `EveryLineCounts` (`NoLineLost`) and
`TargetsAreReached` (`TargetsReached`). That an item's
bytes are as many as were reserved is decided in the first pass, from the operation and
the operands of an expanded line. `IInv` says so in four parts. `ExpandedInv`: every
expanded line has a size that is a natural number (a replaced one never is a directive).
`ItemsInv`: items lie in order and end at or below the location counter, and their size
is the one their kind and operation call for; `LaidTogether` and `StatementLaid` carry
it over a line's label and statement, and over `.org`, which only moves forward.
`ImageInv`: while emitting, the image is as long as the counter got, and its bytes are
those reserved by the items that went through without error (`Filled`). `DataFills`
shows that data, when there is any, has the reserved size, and `WrittenInPlace` that
writing it then changes no length. The sequences have no fixed set of elements, so
`IsSequence` types them by their own. `LInv` adds to `IInv` where each source line is:
reported, or, if it has something to emit, among the expanded lines with its number
(`Accounted`), then among the items (`Laying`); and that while emitting, the reported lines
are exactly those of the refused items that went through (`ErrorsInv`), which holds
because layout ends in an error or with none. The lemmas `ElementsOf...` say what
concatenation does to the elements of such sequences.

`TargetsAreReached` follows a label from the source to the bits of the image, and `TInv`
adds to `LInv` what that takes. `OrderInv`: expanded lines are in the order of the
source, a line's label is on the first of those it became and on no later one, and no
label is lost unless an error was reported. `PlacesInv`: as long as nothing was reported,
each entry of the symbol table is that of the first line with the label, and its value
is the address of the first item at or after that line that is no label, or the counter
while there is none (`PlacedIn`). Items are only added behind, so a place once found
stays (`PlacedAfterLabel`, `PlacedAfterItem`), and a new name is placed at the end because
all items so far are of earlier lines (`NamesPlaced`); that it is the first of its name
is what the check for duplicates is worth (`NewIsFirst`). `BytesInv`: the data of every
item that went through is still in the image, because later items are written behind
(`DataStays`). On the side of the bits, `WordRead` says that a word read byte by byte at
any address has the fields of the word that was written there, `BranchesAim` and
`JumpsAim` take from Rv32EncodingProofs that unpacking gives the offset back, and
`HalvesAdd` that the rounded upper half of `auipc` and the signed lower half of `addi`
make up any distance within 2^30. The theorem joins the two in `RelativeLeads` and
`LoadLeads`. A label that was dropped, moved to another line of an expansion, defined
twice or placed before an `.org` would break a part of `TInv`.

**Rv32EncodingProofs**, for every mnemonic of the table with any set of register numbers
and any sets of immediates, out of all integers: `AssembledRoundTrips` (`RoundTrips`),
`RefusedIfAndOnlyIfLost` (`RefusedIffLost`), `EveryWordDecodes` (`DecodesTheTable`). The
run sweeps the boundaries; the theorems leave no immediate out. A word is a set of bits
and a field of it a sum over some of them, so the proof begins with what such a sum is
(`SumOfRange` of FoldTheorems): one more bit of a slice adds its weight (`SliceGrows`),
a number placed at a bit and cut to a width is read back modulo that width
(`SliceOfPlaced`), and a slice of a placed slice is the slice of the number
(`SliceOfSlice`). `FieldsOfEncode` says that the six fields of a word do not disturb each
other. Then one lemma per format says which bits its packing leaves where
(`BitsOfR` .. `BitsOfJ`), and `ImmediateOfS`, `ImmediateOfB`, `ImmediateOfJ` that the
pieces an unpacking puts together again are the number, sign included. On the side of the
table, `RowsOf` finds each row through its family and `OneRow` shows that no two
mnemonics agree in all fixed fields. `DecodesAny` is the decoder's lookups on any word at
all, assembled or not; from it `DecodesTo` follows for a word that has a row's fixed
fields. `HandlerMakes` and `HandlerRefuses` join packing and range checks for each
mnemonic, and the invariant `Kept` is what the assembler answered to the request.

**Assumptions.** On the board: `ClkDivAssumption`, `PayloadsAssumption`,
`SlowBusAssumption` (CLK_DIV at least 2), `NumRegsAssumption` (1 to 13 entries),
`PressesAssumption`, `PorAssumption`, `GeometryAssumption`, `WidthsAssumption`,
`DepthAssumption`, `SceneAssumption`, `BlinkerAssumption`. Of the tools:
`ImageAssumption` (an image of less than 2^30 bytes; the code's limit is 2^20),
`XlenAssumption`, `RegionsAssumption` (RAM below the devices, and a multiple of words),
`InstructionsAssumption` (a decoded instruction names registers there are),
`MachineAssumption` (at least one hart, whose memory is bytes), `AssemblerAssumption`,
`CodecAssumption` (registers and immediates are integers). `DecodeUnique` is what the
tests call `validate_decode_uniqueness` for; it is evaluated, and no proof uses it.

**Only model-checked.** Four properties are liveness: `Settles` (every walk ends),
`FramesFlow`, `LedBlinks` and `RunReturns`. They need fairness, and with it ENABLED,
which the prover does not handle. The refinements (`ImplementsSequence`,
`ScheduleIndependent`) are of specifications without fairness, and proved in full.
`ResultsAsDefined` is about what the simulator computes at 8 bits. `AngleInReach`, `NothingWraps` and `MatchesGolden`
are about fixed widths and an arctangent table, and their run is exhaustive.
`PseudosMean` of the assembler executes what `li` and the other pseudoinstructions became
and compares with what they mean, over immediates at the boundaries. `BusFree` (a controller that is not busy drives neither line),
`DeClearOfSyncs` and the type invariant of the pixel path (`TypeCorrect` of ApuTopProofs)
are proved, and no run checks them.

## 6. Findings

**The blinker's synchronizer.**
`rtl/de10nano_top.sv:121-124` says the blinker syncs the toggle "with two flops"
and edge-detects "on the synchronized copies". Line 142 computes
`tgl_sync[1] ^ tgl_sync[0]`, and `tgl_sync[0]` is the flop that samples the other
domain. One flop, not two, stands between the crossing and the counters (the
archived `docs/artifacts/d18/metastability.rpt` reports a chain of length 1).
Run `blinker_unsettled` shows what follows if that flop is still unsettled at its
next edge: the second flop sees the new value, the edge detector the old one, and
the frame is never counted. Run `blinker` shows that the counting is right when it
settles in time, which at 20 ns is overwhelmingly likely: a matter of margin and
of the comment, not of a malfunction seen on the board.

**The word of a halted device access.** `docs/cpu-contract.md:270-272` says that a halt
row's `inst_word` "is the fetched word when one was available". A bus fault found by
`mem_read` or `mem_write` carries it; one found by `dispatch_device`
(`tools/rv32iss.py:125` and `:134`) does not, and
`tools/tests/test_rv32iss.py:420` pins the empty field. Run `iss_halt_word` shows
it. Hardware that follows the document would differ from the ISS in that row.

**A line that is a colon.** `layout_source` notes "empty label" for a line `:`
(`tools/rv32asm.py:109-111`), goes on with the empty rest and takes `parts[0]` of an
empty list at line 155. The IndexError is not the AssemblyError `main` expects (lines
35-39): the assembler ends with a traceback, and what was noted for that line and those
before it is not shown, where `tools/tests/test_rv32asm.py:267` says "assembly reports
all errors instead of aborting early". Run `assembler_abort` shows such a source. No
file is written in that case either, and a colon followed by something is reported as it
should be.

A lesser remark: `rtl/apu_cordic.sv:4` and `docs/cpu-contract.md:180` say
"|result| <= 1"; at twelve phases next to the axes (16379, 16381, 16383, 32763 and
others) a result is 2^22 + 1 in magnitude, in the golden model too. No register is
near its limit (`NothingWraps`). Its only consumer here is the plasma, whose comment
bounds the sum of three sines by 3 * 2^22: there the wheel would jump from red to
magenta (`Fn` = 6 * 65536 is put into the last segment, whose fraction has wrapped
to 0). An exhaustive sum over all frame phases and pixels, made outside TLC, stays
within 12582894, 18 counts short of it, so `PlasmaField` sweeps the half-open range.

Two remarks on the assembler, which no run needs to show. A label may be spelled like a
number: `4:` is accepted, and `beq x1, x2, 4` and `.word 4` then mean that label, while
`.half 4` and `.byte 4` still mean the integer; `tools/rv32asm.py:18-19` says "integer
targets are relative offsets, symbols absolute". And errors are collected in two
groups: an error in expansion or layout ends assembly before the second pass looks for
errors of its own, so a source with both kinds has to be assembled twice to see them all.

## 7. Not modelled

- The colorbars' colours and the phases of the plasma's gratings: multiplication by
  constants and comparison with constants.
- How `tools/rv32asm.py` splits text into labels, mnemonics and operands (case,
  spaces, comments, bases of numbers), its command line and its file; `--lst`, which it
  refuses; and the formats of trace lines.
- The floating point instrument of `tb/cordic_golden.py`, its accuracy figures against
  libm, and the file it emits: TLA+ has no reals to compare with. Its check that the
  datapath has room is `NothingWraps`.
- `tb/ppm2png.py` and the C++ harnesses: drivers and file formats.
- The PLL macro, pads and pin assignments, timing constraints, build and CI.
- The target's clock stretching and arbitration: the controller ignores `scl_i`.
- RGB output while the pixel domain is in reset and the pixel clock stopped: the
  CORDIC stages keep their last pixel, and the pads show it without a clock.
- The SoC of `docs/cpu-contract.md` (mailbox, register interfaces): no code yet.

## 8. Plan

Built so far: the I2C path from the controller up to the board, the pixel path, the
blinker, the simulator, the encoder, the CORDIC and its golden model, the hue wheel, the
assembler; and the proofs of section 5, which state every safety invariant of the I2C
path, the pixel path, the blinker, the simulator and the encoder, and three of the
assembler's four.

Next:

1. `PseudosMean` of the assembler for every 32-bit immediate of `li`: `HalvesAdd` is its
   arithmetic; what is missing is the execution of two instructions on 32-bit words, which
   Rv32Alu computes and Rv32MachineProofs only types.
2. `NothingWraps` of the CORDIC for other widths: the run covers every phase at the
   code's widths, so a proof would add only what a change of N, W or FZ may do.
