-------------------------- MODULE MC_OrderBookView --------------------------
(* Three rows per side and books of up to four levels: a book shorter     *)
(* than the view is padded, one as deep is shown whole, and a deeper one  *)
(* is cut.                                                                *)
EXTENDS OrderBookView

=============================================================================
