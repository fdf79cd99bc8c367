--------------------------- MODULE MC_Commands ----------------------------
(* Two instruments, so that the user can switch while an order is in      *)
(* flight; two order ids, so that a second dialog can be opened on another*)
(* order and a cancel can meet an order already gone.                     *)
EXTENDS Commands

CONSTANTS i1, i2, o1, o2

=============================================================================
