---------------------------- MODULE I2CTarget ----------------------------
(***************************************************************************)
(* The other end of the bus: the write-only behavioral ADV7513 of          *)
(* tb/sim_adv7513_config.cpp (TargetModel) and the wired-AND lines it and  *)
(* the controller share.  It reacts to the edges of the resolved lines     *)
(* only.  Whether it acknowledges a byte is its own choice, made for each  *)
(* byte; the testbenches fix that choice, here it is free.                 *)
(***************************************************************************)
EXTENDS Naturals, Sequences

VARIABLES
  target,     \* in_frame, pull_low, buf, bitpos, byte_index, rx_bytes
  history,    \* the completed writes, in order
  prev_sda, prev_scl    \* the lines as last resolved

vars == <<target, history, prev_sda, prev_scl>>

N_BYTES == 3

Init ==
  /\ target = [in_frame |-> FALSE, pull_low |-> FALSE, buf |-> 0,
               bitpos |-> 0, byte_index |-> 0, rx_bytes |-> <<0, 0, 0>>]
  /\ history = << >>
  /\ prev_sda = TRUE /\ prev_scl = TRUE

(* Open drain: a line is high unless somebody pulls it low.                *)
sda_line(sda_oe) == ~(sda_oe \/ target.pull_low)
scl_line(scl_oe) == ~scl_oe

-----------------------------------------------------------------------------
on_start(t) == [t EXCEPT !.in_frame = TRUE, !.pull_low = FALSE, !.buf = 0,
                         !.bitpos = 0, !.byte_index = 0]

on_stop(t) == [t EXCEPT !.in_frame = FALSE, !.pull_low = FALSE]

Recorded(t) == t.in_frame /\ t.byte_index = N_BYTES

on_scl_rise(t, sda) ==
  IF ~t.in_frame \/ t.byte_index >= N_BYTES THEN t
  ELSE IF t.bitpos < 8
    THEN [t EXCEPT !.buf = (2 * @ + (IF sda THEN 1 ELSE 0)) % 256,
                   !.bitpos = @ + 1]
    ELSE [t EXCEPT !.bitpos = 9]

on_scl_fall(t, ack) ==
  IF ~t.in_frame \/ t.byte_index >= N_BYTES THEN t
  ELSE CASE t.bitpos = 8 -> [t EXCEPT !.pull_low = ack]
         [] t.bitpos = 9 -> [t EXCEPT !.rx_bytes[t.byte_index + 1] = t.buf,
                                      !.byte_index = @ + 1,
                                      !.pull_low = FALSE,
                                      !.buf = 0, !.bitpos = 0]
         [] OTHER        -> t

(* One look at the lines after the controller drove sda_oe and scl_oe.     *)
(* The handlers run in this order, each on what the one before it left.    *)
Observe(sda_oe, scl_oe, ack) ==
  LET sda == sda_line(sda_oe)
      scl == scl_line(scl_oe)
      start == prev_sda /\ ~sda /\ scl
      stop  == ~prev_sda /\ sda /\ scl
      t1 == IF start THEN on_start(target) ELSE target
      t2 == IF stop THEN on_stop(t1) ELSE t1
      t3 == IF scl /\ ~prev_scl THEN on_scl_rise(t2, sda) ELSE t2
      t4 == IF ~scl /\ prev_scl THEN on_scl_fall(t3, ack) ELSE t3
  IN /\ target' = t4
     /\ history' = IF stop /\ Recorded(t1) THEN Append(history, t1.rx_bytes)
                                           ELSE history
     /\ prev_sda' = sda
     /\ prev_scl' = scl

(* The look in which the target declines a byte.                           *)
Refuses(scl_oe, ack) ==
  /\ scl_oe /\ prev_scl
  /\ target.in_frame /\ target.byte_index < N_BYTES /\ target.bitpos = 8
  /\ ~ack

=============================================================================
