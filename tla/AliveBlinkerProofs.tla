------------------------ MODULE AliveBlinkerProofs ------------------------
(***************************************************************************)
(* The frame counting of rtl/de10nano_top.sv across its two clocks, for    *)
(* every divisor, any number of losses of lock and every order of the      *)
(* clocks' edges, provided that the first flop settles within a clock and  *)
(* that frames are three 50 MHz clocks apart.                              *)
(***************************************************************************)
EXTENDS AliveBlinker, Integers, TLAPS

(* The edges that the counters have yet to see.                            *)
InFlight == (IF tgl1 # tgl0 THEN 1 ELSE 0) + (IF tgl0 # pix_alive_tgl THEN 1 ELSE 0)

(* A toggle that came and was taken back between two samples may still be  *)
(* seen, and then makes two edges.                                         *)
Retracted == moved /\ tgl0 = pix_alive_tgl

(* The frames are those counted, those on their way, and at most one more  *)
(* or one less for every loss of lock, but for whole blinks.               *)
Owed(d, k) ==
  /\ d \in Int /\ k \in Int
  /\ -unlocks <= d /\ d <= unlocks
  /\ Retracted => 2 - unlocks <= d
  /\ Counted + InFlight + d = frames + k * Blink

Balance == \E d, k : Owed(d, k)

Ranges ==
  /\ sys_rst_n \in BOOLEAN /\ pll_locked \in BOOLEAN
  /\ s0 \in BOOLEAN /\ s1 \in BOOLEAN /\ p0 \in BOOLEAN /\ p1 \in BOOLEAN
  /\ pix_alive_tgl \in BOOLEAN /\ moved \in BOOLEAN
  /\ tgl0 \in BOOLEAN /\ tgl1 \in BOOLEAN /\ unsettled = FALSE
  /\ alive_div \in 0..FRAMES_PER_BLINK - 1 /\ led_alive \in BOOLEAN
  /\ gap \in 0..SofGap /\ frames \in 0..Blink - 1 /\ unlocks \in Nat

(* The synchronizers' flops follow their resets in order.                  *)
Resets ==
  /\ s1 => s0
  /\ s0 => sys_rst_n
  /\ p1 => p0
  /\ p0 => sys_rst_n
  /\ pix_alive_tgl => sys_rst_n

(* A toggle is sampled within three clocks of a domain that is coming out  *)
(* of reset, and no frame comes before.                                    *)
Sampling ==
  /\ moved => gap = 0
  /\ tgl0 # pix_alive_tgl =>
       /\ sys_rst_n /\ gap <= 2
       /\ gap >= 1 => s0
       /\ gap >= 2 => s1

IInv == Ranges /\ Resets /\ Sampling /\ Balance

-----------------------------------------------------------------------------
LEMMA Numbers ==
  /\ FRAMES_PER_BLINK \in Nat /\ FRAMES_PER_BLINK >= 1 /\ SofGap \in Nat
  /\ Blink \in Nat /\ Blink = 2 * FRAMES_PER_BLINK /\ Blink >= 2
BY BlinkerAssumption, SMT DEF BlinkerOK, Blink

(* Whole blinks more or less do not show.                                  *)
LEMMA WholeBlinks ==
  ASSUME NEW k \in Int
  PROVE  /\ k * Blink \in Int
         /\ (k + 1) * Blink = k * Blink + Blink
         /\ (k - 1) * Blink = k * Blink - Blink
         /\ 0 * Blink = 0
BY Numbers, SMT

LEMMA RemainderOf ==
  ASSUME NEW b \in Nat, b >= 1, NEW n \in 0..b - 1, NEW k \in Int
  PROVE  (n + k * b) % b = n
BY SMT

LEMMA Remainder ==
  ASSUME NEW n \in 0..Blink - 1, NEW k \in Int
  PROVE  (n + k * Blink) % Blink = n
<1>1. Blink \in Nat /\ Blink >= 1
  BY Numbers, SMT
<1> QED BY <1>1, RemainderOf

LEMMA NextFrame ==
  ASSUME NEW n \in 0..Blink - 1
  PROVE  (n + 1) % Blink = IF n = Blink - 1 THEN 0 ELSE n + 1
<1>1. CASE n = Blink - 1
  <2>1. n + 1 = 0 + 1 * Blink /\ 0 \in 0..Blink - 1
    BY <1>1, Numbers, SMT
  <2>2. (0 + 1 * Blink) % Blink = 0
    BY <2>1, Remainder
  <2> QED BY <1>1, <2>1, <2>2
<1>2. CASE n # Blink - 1
  <2>1. n + 1 = (n + 1) + 0 * Blink /\ n + 1 \in 0..Blink - 1
    BY <1>2, Numbers, SMT
  <2>2. ((n + 1) + 0 * Blink) % Blink = n + 1
    BY <2>1, Remainder
  <2> QED BY <1>2, <2>1, <2>2
<1> QED BY <1>1, <1>2

(* What Owed says of the numbers alone.                                    *)
LEMMA CountedIsNumber ==
  ASSUME Ranges
  PROVE  Counted \in 0..Blink - 1 /\ InFlight \in 0..2
BY Numbers, SMT DEF Ranges, Counted, InFlight

LEMMA OwedNumbers ==
  ASSUME IInv, NEW d, NEW k, Owed(d, k)
  PROVE  /\ Counted \in Nat /\ Counted < Blink /\ InFlight \in Nat /\ frames \in Nat
         /\ frames < Blink /\ unlocks \in Nat /\ d \in Int /\ k \in Int
         /\ -unlocks <= d /\ d <= unlocks
         /\ k * Blink \in Int /\ (k + 1) * Blink = k * Blink + Blink
         /\ (k - 1) * Blink = k * Blink - Blink
         /\ k + 1 \in Int /\ k - 1 \in Int
         /\ Counted + InFlight + d = frames + k * Blink
         /\ Retracted => 2 - unlocks <= d
<1>1. Counted \in 0..Blink - 1 /\ InFlight \in 0..2
  BY CountedIsNumber DEF IInv
<1>2. frames \in 0..Blink - 1 /\ unlocks \in Nat
  BY DEF IInv, Ranges
<1>3. /\ d \in Int /\ k \in Int /\ -unlocks <= d /\ d <= unlocks
      /\ Counted + InFlight + d = frames + k * Blink
      /\ Retracted => 2 - unlocks <= d
  BY DEF Owed
<1>4. /\ k * Blink \in Int /\ (k + 1) * Blink = k * Blink + Blink
      /\ (k - 1) * Blink = k * Blink - Blink
  BY <1>3, WholeBlinks
<1>5. k + 1 \in Int /\ k - 1 \in Int
  BY <1>3, SMT
<1>6. /\ Counted \in Nat /\ Counted < Blink /\ InFlight \in Nat
      /\ frames \in Nat /\ frames < Blink
  BY <1>1, <1>2, Numbers, SMT
<1> QED BY <1>2, <1>3, <1>4, <1>5, <1>6

-----------------------------------------------------------------------------
LEMMA InitHolds == Init => IInv
<1> SUFFICES ASSUME Init PROVE IInv
  OBVIOUS
<1>1. Ranges
  <2>1. 0 \in 0..FRAMES_PER_BLINK - 1 /\ 0 \in 0..SofGap /\ 0 \in 0..Blink - 1 /\ 0 \in Nat
    BY Numbers, SMT
  <2> QED BY <2>1 DEF Init, Sync!Init, PixSync!Init, Ranges
<1>2. Resets /\ Sampling
  BY DEF Init, Sync!Init, PixSync!Init, Resets, Sampling
<1>3. Balance
  <2>1. Counted = 0 /\ InFlight = 0
    <3>1. /\ Counted = 0 + (IF FALSE THEN FRAMES_PER_BLINK ELSE 0)
          /\ InFlight = (IF FALSE # FALSE THEN 1 ELSE 0) + (IF FALSE # FALSE THEN 1 ELSE 0)
      BY DEF Init, Counted, InFlight
    <3> QED BY <3>1, SMT
  <2>2. 0 * Blink = 0
    BY WholeBlinks
  <2>3. Owed(0, 0)
    BY <2>1, <2>2, SMT DEF Init, Owed, Retracted
  <2> QED BY <2>3 DEF Balance
<1> QED BY <1>1, <1>2, <1>3 DEF IInv

(* A start of frame finds the last one sampled and puts one more on its    *)
(* way.                                                                    *)
LEMMA FrameHolds ==
  ASSUME SofGap >= 3, IInv, ClkPix(TRUE)
  PROVE  IInv'
<1> USE DEF Sync!rst_sync_n_o, PixSync!rst_sync_n_o, PixSync!Clk, counterVars
<1>1. /\ p1 /\ gap = SofGap /\ gap' = 0 /\ moved' = TRUE
      /\ pix_alive_tgl' = ~pix_alive_tgl
      /\ frames' = (frames + 1) % Blink
      /\ UNCHANGED <<sys_rst_n, pll_locked, s0, s1, tgl0, tgl1, unsettled, alive_div,
                     led_alive, unlocks>>
  BY DEF ClkPix, pix_rst_n, IInv, Ranges
<1>2. sys_rst_n /\ ~moved /\ tgl0 = pix_alive_tgl
  <2>1. gap >= 3
    BY <1>1
  <2>2. sys_rst_n
    BY <1>1 DEF IInv, Resets
  <2>3. ~moved /\ tgl0 = pix_alive_tgl
    BY <2>1, Numbers, SMT DEF IInv, Ranges, Sampling
  <2> QED BY <2>2, <2>3
<1>3. frames' = IF frames = Blink - 1 THEN 0 ELSE frames + 1
  BY <1>1, NextFrame DEF IInv, Ranges
<1>4. frames' \in 0..Blink - 1
  BY <1>3, Numbers, SMT DEF IInv, Ranges
<1>5. Ranges' /\ Resets' /\ Sampling'
  <2>1. p0' \in BOOLEAN /\ p1' \in BOOLEAN /\ (p1' => p0') /\ (p0' => sys_rst_n)
    BY DEF ClkPix, IInv, Ranges
  <2>2. 0 \in 0..SofGap
    BY Numbers, SMT
  <2>3. Ranges'
    BY <1>1, <1>4, <2>1, <2>2 DEF IInv, Ranges, Blink
  <2>4. Resets'
    BY <1>1, <1>2, <2>1 DEF IInv, Resets
  <2>5. Sampling'
    BY <1>1, <1>2, SMT DEF Sampling
  <2> QED BY <2>3, <2>4, <2>5
<1>6. Counted' = Counted /\ InFlight' = InFlight + 1 /\ ~Retracted'
  <2>1. Counted' = Counted
    BY <1>1 DEF Counted
  <2>2. tgl0' = tgl0 /\ tgl1' = tgl1 /\ tgl0' # pix_alive_tgl'
    BY <1>1, <1>2 DEF IInv, Ranges
  <2>3. InFlight' = InFlight + 1
    BY <1>2, <2>2, SMT DEF InFlight
  <2>4. ~Retracted'
    BY <2>2 DEF Retracted
  <2> QED BY <2>1, <2>3, <2>4
<1>7. PICK d, k : Owed(d, k)
  BY DEF IInv, Balance
<1>8. Balance'
  <2>1. Counted + InFlight + d = frames + k * Blink /\ d \in Int /\ k \in Int
    BY <1>7 DEF Owed
  <2>2. /\ Counted \in Nat /\ InFlight \in Nat /\ frames \in Nat
        /\ k * Blink \in Int /\ (k + 1) * Blink = k * Blink + Blink
    BY <1>7, OwedNumbers
  <2>3. -unlocks' <= d /\ d <= unlocks' /\ ~Retracted'
    BY <1>1, <1>6, <1>7 DEF Owed
  <2>4. CASE frames = Blink - 1
    <3>1. Counted' + InFlight' + d = frames' + (k + 1) * Blink
      BY <1>3, <1>6, <2>1, <2>2, <2>4, Numbers, SMT
    <3>2. k + 1 \in Int
      BY <2>1, SMT
    <3>3. Owed(d, k + 1)'
      BY <2>1, <2>3, <3>1, <3>2 DEF Owed, Blink
    <3> QED BY <3>3 DEF Balance
  <2>5. CASE frames # Blink - 1
    <3>1. Counted' + InFlight' + d = frames' + k * Blink
      BY <1>3, <1>6, <2>1, <2>2, <2>5, Numbers, SMT
    <3>2. Owed(d, k)'
      BY <2>1, <2>3, <3>1 DEF Owed, Blink
    <3> QED BY <3>2 DEF Balance
  <2> QED BY <2>4, <2>5
<1> QED BY <1>5, <1>8 DEF IInv

(* An edge of the pixel clock without a frame moves the synchronizer only. *)
LEMMA NoFrameHolds ==
  ASSUME IInv, ClkPix(FALSE)
  PROVE  IInv'
<1> USE DEF PixSync!Clk, counterVars
<1>1. /\ pix_alive_tgl' = pix_alive_tgl /\ moved' = moved
      /\ UNCHANGED <<sys_rst_n, pll_locked, s0, s1, counterVars, gap, frames, unlocks>>
  BY DEF ClkPix, IInv, Ranges
<1>2. p0' \in BOOLEAN /\ p1' \in BOOLEAN /\ (p1' => p0') /\ (p0' => sys_rst_n)
  BY DEF ClkPix, IInv, Ranges
<1>3. Ranges' /\ Resets' /\ Sampling'
  BY <1>1, <1>2 DEF IInv, Ranges, Resets, Sampling, Blink
<1>4. Balance'
  BY <1>1 DEF IInv, Balance, Owed, Retracted, Counted, InFlight, Blink
<1> QED BY <1>3, <1>4 DEF IInv

(* The counters take in the edge they see.                                 *)
LEMMA CountedMoves ==
  ASSUME IInv, CountFrame
  PROVE  /\ Counted' = IF Counted = Blink - 1 THEN 0 ELSE Counted + 1
         /\ alive_div' \in 0..FRAMES_PER_BLINK - 1 /\ led_alive' \in BOOLEAN
<1>1. alive_div \in 0..FRAMES_PER_BLINK - 1 /\ led_alive \in BOOLEAN
  BY DEF IInv, Ranges
<1>2. CASE alive_div = FRAMES_PER_BLINK - 1
  <2>1. alive_div' = 0 /\ led_alive' = ~led_alive
    BY <1>2 DEF CountFrame
  <2>2. CASE led_alive
    <3>1. Counted = FRAMES_PER_BLINK - 1 + FRAMES_PER_BLINK /\ Counted' = 0 + 0
      BY <1>2, <2>1, <2>2 DEF Counted
    <3> QED BY <1>1, <2>1, <2>2, <3>1, Numbers, SMT
  <2>3. CASE ~led_alive
    <3>1. Counted = FRAMES_PER_BLINK - 1 + 0 /\ Counted' = 0 + FRAMES_PER_BLINK
      BY <1>2, <2>1, <2>3 DEF Counted
    <3> QED BY <1>1, <2>1, <2>3, <3>1, Numbers, SMT
  <2> QED BY <2>2, <2>3
<1>3. CASE alive_div # FRAMES_PER_BLINK - 1
  <2>1. alive_div' = alive_div + 1 /\ led_alive' = led_alive
    BY <1>3 DEF CountFrame
  <2>2. CASE led_alive
    <3>1. Counted = alive_div + FRAMES_PER_BLINK /\ Counted' = alive_div + 1 + FRAMES_PER_BLINK
      BY <2>1, <2>2 DEF Counted
    <3> QED BY <1>1, <1>3, <2>1, <3>1, Numbers, SMT
  <2>3. CASE ~led_alive
    <3>1. Counted = alive_div + 0 /\ Counted' = alive_div + 1 + 0
      BY <2>1, <2>3 DEF Counted
    <3> QED BY <1>1, <1>3, <2>1, <3>1, Numbers, SMT
  <2> QED BY <2>2, <2>3
<1> QED BY <1>2, <1>3

(* Nothing is lost in the crossing: an edge moves from toggle to first     *)
(* flop to second and is then counted.  A retracted toggle that is seen    *)
(* nevertheless puts two more on the way.                                  *)
Flows(more) ==
  /\ more = 0 \/ (more = 2 /\ Retracted)
  /\ tgl1 # tgl0 => CountFrame /\ InFlight' + 1 = InFlight + more
  /\ tgl1 = tgl0 => UNCHANGED <<alive_div, led_alive>> /\ InFlight' = InFlight + more

LEMMA CrossFlows ==
  ASSUME IInv, Settles = TRUE, Cross, moved' = FALSE, pix_alive_tgl' = pix_alive_tgl
  PROVE  /\ tgl0' \in BOOLEAN /\ tgl1' \in BOOLEAN /\ unsettled' = FALSE
         /\ ~Retracted'
         /\ tgl0' # pix_alive_tgl => moved
         /\ \E more : Flows(more)
<1>1. /\ tgl0 \in BOOLEAN /\ tgl1 \in BOOLEAN /\ pix_alive_tgl \in BOOLEAN
      /\ moved \in BOOLEAN /\ unsettled = FALSE
  BY DEF IInv, Ranges
<1>2. Readings = {tgl0} /\ tgl1' = tgl0 /\ unsettled' = FALSE
  BY <1>1 DEF Readings, Cross
<1>3. tgl0' \in BOOLEAN /\ (~moved => tgl0' = pix_alive_tgl)
  BY <1>1 DEF Cross, Sampled
<1>4. IF tgl1 # tgl0 THEN CountFrame ELSE UNCHANGED <<alive_div, led_alive>>
  BY <1>2 DEF Cross, EdgeSeen
<1>5. InFlight' = (IF tgl0 # tgl0' THEN 1 ELSE 0) + (IF tgl0' # pix_alive_tgl THEN 1 ELSE 0)
  BY <1>2 DEF InFlight
<1> DEFINE more == IF Retracted /\ tgl0' # pix_alive_tgl THEN 2 ELSE 0
<1>6. more \in {0, 2} /\ (more = 2 => Retracted)
  OBVIOUS
<1>7. InFlight' = (IF tgl0 # pix_alive_tgl THEN 1 ELSE 0) + more
  <2>1. CASE tgl0' = pix_alive_tgl
    <3>1. InFlight' = (IF tgl0 # pix_alive_tgl THEN 1 ELSE 0) + 0
      BY <1>5, <2>1
    <3>2. more = 0
      BY <2>1
    <3> QED BY <3>1, <3>2
  <2>2. CASE tgl0' # pix_alive_tgl /\ tgl0 = pix_alive_tgl
    <3>1. InFlight' = 1 + 1
      BY <1>5, <2>2
    <3>2. more = 2
      BY <1>3, <2>2 DEF Retracted
    <3>3. (IF tgl0 # pix_alive_tgl THEN 1 ELSE 0) = 0
      BY <2>2
    <3> QED BY <3>1, <3>2, <3>3, SMT
  <2>3. CASE tgl0' # pix_alive_tgl /\ tgl0 # pix_alive_tgl
    <3>1. tgl0' = tgl0
      BY <1>1, <1>3, <2>3
    <3>2. InFlight' = 0 + 1 /\ more = 0
      BY <1>5, <2>3, <3>1 DEF Retracted
    <3>3. (IF tgl0 # pix_alive_tgl THEN 1 ELSE 0) = 1
      BY <2>3
    <3> QED BY <3>2, <3>3, SMT
  <2> QED BY <2>1, <2>2, <2>3
<1>8. Flows(more)
  <2>1. more = 0 \/ (more = 2 /\ Retracted)
    OBVIOUS
  <2>2. ASSUME tgl1 # tgl0 PROVE CountFrame /\ InFlight' + 1 = InFlight + more
    <3>1. InFlight = 1 + (IF tgl0 # pix_alive_tgl THEN 1 ELSE 0)
      BY <2>2 DEF InFlight
    <3>2. InFlight' + 1 = InFlight + more
      BY <1>6, <1>7, <3>1, SMT
    <3> QED BY <1>4, <2>2, <3>2
  <2>3. ASSUME tgl1 = tgl0
        PROVE  UNCHANGED <<alive_div, led_alive>> /\ InFlight' = InFlight + more
    <3>1. InFlight = 0 + (IF tgl0 # pix_alive_tgl THEN 1 ELSE 0)
      BY <2>3 DEF InFlight
    <3>2. InFlight' = InFlight + more
      BY <1>6, <1>7, <3>1, SMT
    <3> QED BY <1>4, <2>3, <3>2
  <2> HIDE DEF more
  <2> QED BY <2>1, <2>2, <2>3 DEF Flows
<1>9. ~Retracted' /\ (tgl0' # pix_alive_tgl => moved)
  BY <1>3 DEF Retracted
<1> HIDE DEF more
<1> QED BY <1>1, <1>2, <1>3, <1>8, <1>9

LEMMA Clk50Holds ==
  ASSUME Settles = TRUE, SofGap >= 3, IInv, Clk50
  PROVE  IInv'
<1> USE DEF Sync!Clk, Sync!rst_sync_n_o, rst_50m_n
<1>1. /\ s0' = sys_rst_n /\ s1' = (sys_rst_n /\ s0) /\ moved' = FALSE
      /\ gap' = IF gap < SofGap THEN gap + 1 ELSE gap
      /\ UNCHANGED <<sys_rst_n, pll_locked, p0, p1, pix_alive_tgl, frames, unlocks>>
  BY DEF Clk50
<1>2. gap' \in 0..SofGap
  BY <1>1, Numbers, SMT DEF IInv, Ranges
<1>3. Resets'
  BY <1>1 DEF IInv, Resets, Ranges
<1>4. CASE s1
  <2>1. Cross
    BY <1>4 DEF Clk50
  <2>2. /\ tgl0' \in BOOLEAN /\ tgl1' \in BOOLEAN /\ unsettled' = FALSE
        /\ ~Retracted'
        /\ tgl0' # pix_alive_tgl => moved
    BY <1>1, <2>1, CrossFlows
  <2>3. PICK more : Flows(more)
    BY <1>1, <2>1, CrossFlows
  <2>4. PICK d, k : Owed(d, k)
    BY DEF IInv, Balance
  <2> DEFINE seen == tgl1 # tgl0
  <2>5. /\ seen => Counted' = IF Counted = Blink - 1 THEN 0 ELSE Counted + 1
        /\ alive_div' \in 0..FRAMES_PER_BLINK - 1 /\ led_alive' \in BOOLEAN
    <3>1. CASE seen
      BY <2>3, <3>1, CountedMoves DEF Flows
    <3>2. CASE ~seen
      BY <2>3, <3>2 DEF Flows, IInv, Ranges
    <3> QED BY <3>1, <3>2
  <2>6. ~seen => Counted' = Counted
    BY <2>3 DEF Flows, Counted
  <2>7. Ranges'
    BY <1>1, <1>2, <2>2, <2>5 DEF IInv, Ranges, Blink
  <2>8. Sampling'
    <3>1. sys_rst_n /\ s0
      BY <1>4 DEF IInv, Resets
    <3>2. moved => gap' = 1
      BY <1>1, Numbers, SMT DEF IInv, Sampling
    <3>3. (tgl0 # pix_alive_tgl)' => moved
      BY <1>1, <2>2
    <3>4. gap' = 1 => gap' <= 2 /\ ~(gap' >= 2)
      BY SMT
    <3> QED BY <1>1, <3>1, <3>2, <3>3, <3>4 DEF Sampling
  <2>9. Balance'
    <3>1. /\ Counted \in Nat /\ Counted < Blink /\ InFlight \in Nat /\ frames \in Nat
          /\ unlocks \in Nat /\ d \in Int /\ k \in Int
          /\ -unlocks <= d /\ d <= unlocks
          /\ k * Blink \in Int /\ (k - 1) * Blink = k * Blink - Blink
          /\ k - 1 \in Int
          /\ Counted + InFlight + d = frames + k * Blink
          /\ Retracted => 2 - unlocks <= d
      BY <2>4, OwedNumbers
    <3>2. CASE seen
      <4>1. InFlight' + 1 = InFlight + more /\ (more = 0 \/ (more = 2 /\ Retracted))
        BY <2>3, <3>2 DEF Flows
      <4>2. d - more \in Int /\ -unlocks <= d - more /\ d - more <= unlocks
        BY <3>1, <4>1, SMT
      <4>3. InFlight' = InFlight + more - 1
        <5>1. InFlight' \in Int
          BY <2>7, CountedIsNumber, SMT DEF InFlight
        <5> QED BY <3>1, <4>1, <5>1, SMT
      <4>4. CASE Counted = Blink - 1
        <5>1. Counted' = 0
          BY <2>5, <3>2, <4>4
        <5> HIDE DEF seen
        <5>2. Counted' + InFlight' + (d - more) = frames + (k - 1) * Blink
          <6>1. Counted' + InFlight' + (d - more) = InFlight + d - 1
            BY <3>1, <4>1, <4>3, <5>1, SMT
          <6>2. frames + (k - 1) * Blink = Counted + InFlight + d - Blink
            <7> DEFINE a == k * Blink
                       b == (k - 1) * Blink
            <7>1. a \in Int /\ b = a - Blink /\ Counted + InFlight + d = frames + a
              BY <3>1
            <7> HIDE DEF a, b
            <7>2. frames + b = Counted + InFlight + d - Blink
              BY <3>1, <7>1, Numbers, SMT
            <7> QED BY <7>2 DEF b
          <6> QED BY <3>1, <4>4, <6>1, <6>2, Numbers, SMT
        <5>3. Owed(d - more, k - 1)'
          BY <1>1, <2>2, <3>1, <4>2, <5>2 DEF Owed, Blink
        <5> QED BY <5>3 DEF Balance
      <4>5. CASE Counted # Blink - 1
        <5>1. Counted' + InFlight' + (d - more) = frames + k * Blink
          BY <2>5, <3>1, <3>2, <4>1, <4>3, <4>5, Numbers, SMT
        <5>2. Owed(d - more, k)'
          BY <1>1, <2>2, <3>1, <4>2, <5>1 DEF Owed, Blink
        <5> QED BY <5>2 DEF Balance
      <4> QED BY <4>4, <4>5
    <3>3. CASE ~seen
      <4>1. InFlight' = InFlight + more /\ (more = 0 \/ (more = 2 /\ Retracted))
        BY <2>3, <3>3 DEF Flows
      <4>2. d - more \in Int /\ -unlocks <= d - more /\ d - more <= unlocks
        BY <3>1, <4>1, SMT
      <4>3. Counted' + InFlight' + (d - more) = frames + k * Blink
        BY <2>6, <3>1, <3>3, <4>1, SMT
      <4>4. Owed(d - more, k)'
        BY <1>1, <2>2, <3>1, <4>2, <4>3 DEF Owed, Blink
      <4> QED BY <4>4 DEF Balance
    <3> QED BY <3>2, <3>3
  <2> QED BY <1>3, <2>7, <2>8, <2>9 DEF IInv
<1>5. CASE ~s1
  <2>1. UNCHANGED <<tgl0, tgl1, unsettled, alive_div, led_alive>>
    BY <1>5 DEF Clk50, counterVars
  <2>2. Ranges'
    BY <1>1, <1>2, <2>1 DEF IInv, Ranges, Blink
  <2>3. Sampling'
    <3>1. ASSUME tgl0 # pix_alive_tgl
          PROVE  sys_rst_n /\ gap' <= 2 /\ (gap' >= 2 => s0)
      <4>1. sys_rst_n /\ gap <= 2 /\ (gap >= 1 => s0) /\ ~(gap >= 2)
        BY <1>5, <3>1 DEF IInv, Sampling
      <4> QED BY <1>1, <4>1, Numbers, SMT DEF IInv, Ranges
    <3> QED BY <1>1, <2>1, <3>1 DEF Sampling
  <2>4. Balance'
    <3>1. ~Retracted' /\ Counted' = Counted /\ InFlight' = InFlight
      BY <1>1, <2>1 DEF Retracted, Counted, InFlight
    <3>2. PICK d, k : Owed(d, k)
      BY DEF IInv, Balance
    <3>3. Owed(d, k)'
      BY <1>1, <3>1, <3>2 DEF Owed, Blink
    <3> QED BY <3>3 DEF Balance
  <2> QED BY <1>3, <2>2, <2>3, <2>4 DEF IInv
<1> QED BY <1>4, <1>5 DEF IInv, Ranges

(* A loss of lock takes the toggle back: if it was up, that takes one edge *)
(* off the way or puts one on it.                                          *)
LEMMA LoseLockHolds ==
  ASSUME IInv, LoseLock
  PROVE  IInv'
<1>1. /\ pix_alive_tgl' = FALSE /\ gap' = 0 /\ pll_locked' = FALSE
      /\ p0' = FALSE /\ p1' = FALSE
      /\ moved' = (moved \/ pix_alive_tgl) /\ unlocks' = unlocks + 1
      /\ UNCHANGED <<sys_rst_n, s0, s1, tgl0, tgl1, unsettled, alive_div, led_alive, frames>>
  BY DEF LoseLock, ResetPixels, PixSync!Assert, counterVars
<1>2. /\ tgl0 \in BOOLEAN /\ pix_alive_tgl \in BOOLEAN /\ moved \in BOOLEAN
      /\ tgl1 \in BOOLEAN
  BY DEF IInv, Ranges
<1>3. Ranges'
  <2>1. 0 \in 0..SofGap
    BY Numbers, SMT
  <2>2. unlocks' \in Nat
    BY <1>1, SMT DEF IInv, Ranges
  <2> QED BY <1>1, <1>2, <2>1, <2>2 DEF IInv, Ranges, Blink
<1>4. Resets'
  BY <1>1 DEF IInv, Resets
<1>5. Sampling'
  <2>1. tgl0 # FALSE => sys_rst_n
    BY <1>2 DEF IInv, Sampling, Resets
  <2>2. 0 <= 2 /\ ~(0 >= 1) /\ ~(0 >= 2)
    BY SMT
  <2> QED BY <1>1, <2>1, <2>2 DEF Sampling
<1>6. Balance'
  <2>1. PICK d, k : Owed(d, k)
    BY DEF IInv, Balance
  <2>2. /\ Counted \in Nat /\ InFlight \in Nat /\ frames \in Nat
        /\ unlocks \in Nat /\ d \in Int /\ k \in Int
        /\ -unlocks <= d /\ d <= unlocks
        /\ k * Blink \in Int
        /\ Counted + InFlight + d = frames + k * Blink
        /\ Retracted => 2 - unlocks <= d
    BY <2>1, OwedNumbers
  <2>3. Counted' = Counted
    BY <1>1 DEF Counted
  <2>4. CASE ~pix_alive_tgl
    <3>1. InFlight' = InFlight /\ (Retracted' => Retracted)
      BY <1>1, <1>2, <2>4 DEF InFlight, Retracted
    <3>2. d \in Int /\ -unlocks' <= d /\ d <= unlocks' /\ (Retracted' => 2 - unlocks' <= d)
      <4>1. -(unlocks + 1) <= d /\ d <= unlocks + 1
        BY <2>2, SMT
      <4>2. 2 - unlocks <= d => 2 - (unlocks + 1) <= d
        BY <2>2, SMT
      <4> QED BY <1>1, <2>2, <3>1, <4>1, <4>2
    <3>3. Owed(d, k)'
      BY <1>1, <2>2, <2>3, <3>1, <3>2 DEF Owed, Blink
    <3> QED BY <3>3 DEF Balance
  <2>5. CASE pix_alive_tgl /\ tgl0
    <3>1. InFlight = (IF tgl1 # tgl0 THEN 1 ELSE 0) + 0
      BY <1>2, <2>5 DEF InFlight
    <3>2. InFlight' = (IF tgl1 # tgl0 THEN 1 ELSE 0) + 1 /\ ~Retracted'
      BY <1>1, <1>2, <2>5 DEF InFlight, Retracted
    <3>3. Counted' + InFlight' + (d - 1) = frames + k * Blink
      BY <2>2, <2>3, <3>1, <3>2, SMT
    <3>4. d - 1 \in Int /\ -(unlocks + 1) <= d - 1 /\ d - 1 <= unlocks + 1
      BY <2>2, SMT
    <3>5. Owed(d - 1, k)'
      BY <1>1, <2>2, <3>2, <3>3, <3>4 DEF Owed, Blink
    <3> QED BY <3>5 DEF Balance
  <2>6. CASE pix_alive_tgl /\ ~tgl0
    <3>1. InFlight = (IF tgl1 # tgl0 THEN 1 ELSE 0) + 1
      BY <1>2, <2>6 DEF InFlight
    <3>2. InFlight' = (IF tgl1 # tgl0 THEN 1 ELSE 0) + 0
      BY <1>1, <1>2, <2>6 DEF InFlight
    <3>3. Counted' + InFlight' + (d + 1) = frames + k * Blink
      BY <2>2, <2>3, <3>1, <3>2, SMT
    <3>4. /\ d + 1 \in Int /\ -(unlocks + 1) <= d + 1 /\ d + 1 <= unlocks + 1
          /\ 2 - (unlocks + 1) <= d + 1
      BY <2>2, SMT
    <3>5. Owed(d + 1, k)'
      BY <1>1, <2>2, <3>3, <3>4 DEF Owed, Blink
    <3> QED BY <3>5 DEF Balance
  <2> QED BY <1>2, <2>4, <2>5, <2>6
<1> QED BY <1>3, <1>4, <1>5, <1>6 DEF IInv

(* KEY0 starts everything anew.                                            *)
LEMMA KeyDownHolds ==
  ASSUME IInv, KeyDown
  PROVE  IInv'
<1>1. /\ sys_rst_n' = FALSE /\ pll_locked' = FALSE
      /\ s0' = FALSE /\ s1' = FALSE /\ p0' = FALSE /\ p1' = FALSE
      /\ pix_alive_tgl' = FALSE /\ moved' = FALSE
      /\ tgl0' = FALSE /\ tgl1' = FALSE /\ unsettled' = FALSE
      /\ alive_div' = 0 /\ led_alive' = FALSE
      /\ gap' = 0 /\ frames' = 0 /\ unlocks' = 0
  BY DEF KeyDown, ResetPixels, Sync!Assert, PixSync!Assert
<1>2. (Init => IInv)'
  BY InitHolds, PTL
<1>3. Init'
  BY <1>1 DEF Init, Sync!Init, PixSync!Init
<1> QED BY <1>2, <1>3

(* Lock and the end of power-on reset change nothing that is counted.      *)
LEMMA StillHolds ==
  ASSUME IInv, sys_rst_n => sys_rst_n', sys_rst_n' \in BOOLEAN, pll_locked' \in BOOLEAN,
         UNCHANGED <<s0, s1, p0, p1, pix_alive_tgl, moved, counterVars, gap, frames, unlocks>>
  PROVE  IInv'
<1> USE DEF counterVars
<1>1. Ranges' /\ Resets' /\ Sampling'
  BY DEF IInv, Ranges, Resets, Sampling, Blink
<1>2. Balance'
  BY DEF IInv, Balance, Owed, Retracted, Counted, InFlight, Blink
<1> QED BY <1>1, <1>2 DEF IInv

THEOREM Inductive ==
  ASSUME Settles = TRUE, SofGap >= 3
  PROVE  Spec => []IInv
<1>1. IInv /\ [Next]_vars => IInv'
  <2> SUFFICES ASSUME IInv, [Next]_vars PROVE IInv'
    OBVIOUS
  <2>1. ASSUME NEW sof \in BOOLEAN, ClkPix(sof) PROVE IInv'
    <3>1. CASE sof = TRUE
      BY <2>1, <3>1, FrameHolds
    <3>2. CASE sof = FALSE
      BY <2>1, <3>2, NoFrameHolds
    <3> QED BY <3>1, <3>2
  <2>2. CASE Clk50
    BY <2>2, Clk50Holds
  <2>3. CASE LoseLock
    BY <2>3, LoseLockHolds
  <2>4. CASE Lock
    BY <2>4, StillHolds DEF Lock, IInv, Ranges
  <2>5. CASE KeyDown
    BY <2>5, KeyDownHolds
  <2>6. CASE PorDone
    BY <2>6, StillHolds DEF PorDone, IInv, Ranges
  <2>7. CASE UNCHANGED vars
    BY <2>7, StillHolds DEF vars, resetVars, IInv, Ranges
  <2> QED BY <2>1, <2>2, <2>3, <2>4, <2>5, <2>6, <2>7 DEF Next
<1> QED BY InitHolds, <1>1, PTL DEF Spec

-----------------------------------------------------------------------------
(* Every frame is counted once, whatever the order of the clocks' edges,   *)
(* and a loss of lock costs or adds at most one: the LED of the board      *)
(* changes every FRAMES_PER_BLINK frames.  Frames are about 833,000 clocks *)
(* apart on the board; three are enough.                                   *)
THEOREM EveryFrameCounted ==
  ASSUME Settles = TRUE, SofGap >= 3
  PROVE  Spec => []FramesCounted
<1>1. IInv => FramesCounted
  <2> SUFFICES ASSUME IInv, Quiet
               PROVE  \E slip \in 0..2 * unlocks :
                        Counted = (frames + Blink + slip - unlocks) % Blink
    BY DEF FramesCounted
  <2>1. PICK d, k : Owed(d, k)
    BY DEF IInv, Balance
  <2>2. /\ Counted \in Nat /\ Counted < Blink /\ frames \in Nat
        /\ unlocks \in Nat /\ d \in Int /\ k \in Int
        /\ -unlocks <= d /\ d <= unlocks
        /\ k * Blink \in Int
        /\ Counted + InFlight + d = frames + k * Blink
    BY <2>1, OwedNumbers
  <2>3. InFlight = 0 + 0
    BY DEF Quiet, InFlight
  <2> DEFINE slip == unlocks - d
             j == 1 - k
  <2>4. slip \in 0..2 * unlocks /\ j \in Int
    BY <2>2, SMT
  <2>5. j * Blink = Blink - k * Blink
    BY <2>2, Numbers, SMT
  <2>6. frames + Blink + slip - unlocks = Counted + j * Blink
    <3>1. slip - unlocks = -d
      BY <2>2, SMT
    <3> QED BY <2>2, <2>3, <2>5, Numbers, SMT
  <2>7. Counted \in 0..Blink - 1
    BY <2>2, Numbers, SMT
  <2>8. (Counted + j * Blink) % Blink = Counted
    BY <2>4, <2>7, Remainder
  <2> HIDE DEF slip, j
  <2> QED BY <2>4, <2>6, <2>8
<1> QED BY Inductive, <1>1, PTL

=============================================================================
