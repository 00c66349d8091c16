---------------------------- MODULE SyncReset ----------------------------
(***************************************************************************)
(* rtl/sync_reset.sv: reset asserts at once and is let go through two      *)
(* flops of the receiving clock domain.                                    *)
(***************************************************************************)
VARIABLES d0, d1

Init == d0 = FALSE /\ d1 = FALSE

rst_sync_n_o == d1

(* rst_n_i falls: no clock needed.                                         *)
Assert == d0' = FALSE /\ d1' = FALSE

(* A clock edge, rst_n_i as it was before the edge.                        *)
Clk(rst_n_i) == d0' = rst_n_i /\ d1' = (rst_n_i /\ d0)

=============================================================================
