--------------------------- MODULE MC_Positions ----------------------------
(* Two currencies and two kinds, so that a currency holds two buckets and *)
(* the "any" view has two currencies to concatenate.  BTC holds a future  *)
(* and a spot position, ETH a future; ETH spot is empty.                  *)
EXTENDS Positions

CONSTANTS p1, p2, p3

MCHeld ==
    [x \in Currencies \X Kinds |->
        CASE x = <<"BTC", "future">> -> <<p1>>
          [] x = <<"BTC", "spot">>   -> <<p3>>
          [] x = <<"ETH", "future">> -> <<p2>>
          [] OTHER                   -> <<>>]
(* The venue lists BTC before ETH for "any".                           *)
MCCurrencyOrder == <<"BTC", "ETH">>

=============================================================================
