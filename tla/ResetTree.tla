---------------------------- MODULE ResetTree ----------------------------
(***************************************************************************)
(* Reset of the 50 MHz domain in rtl/de10nano_top.sv: KEY0 (btn_n_i[0])    *)
(* clears the power-on counter asynchronously; the counter's top bit is    *)
(* sys_rst_n, which the synchronizer carries into the domain.              *)
(***************************************************************************)
EXTENDS Naturals

CONSTANT POR_CYCLES     \* clocks the counter holds reset: 2^24 on the board

VARIABLES btn_n, rst_cnt, d0, d1

vars == <<btn_n, rst_cnt, d0, d1>>

PorOK == POR_CYCLES \in Nat \ {0}

Sync == INSTANCE SyncReset

sys_rst_n == rst_cnt = POR_CYCLES
rst_50m_n == Sync!rst_sync_n_o

(* Configuration of the FPGA leaves every register at zero.                *)
Init == btn_n = TRUE /\ rst_cnt = 0 /\ Sync!Init

Press == btn_n /\ btn_n' = FALSE /\ rst_cnt' = 0 /\ Sync!Assert

Release == ~btn_n /\ btn_n' = TRUE /\ UNCHANGED <<rst_cnt, d0, d1>>

(* The counter stops at its top bit, and is held at zero by the key.       *)
Clk ==
  /\ rst_cnt' = IF ~btn_n THEN 0 ELSE IF sys_rst_n THEN rst_cnt ELSE rst_cnt + 1
  /\ Sync!Clk(sys_rst_n)
  /\ UNCHANGED btn_n

=============================================================================
