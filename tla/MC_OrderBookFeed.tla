------------------------- MODULE MC_OrderBookFeed -------------------------
(* Two currencies, two instrument types, three instruments.  BTC futures  *)
(* list two instruments so that a user can switch between them; ETH spot  *)
(* lists none, as for a (currency, kind) the venue has no instrument for.  *)
EXTENDS OrderBookFeed

CONSTANTS BTC, ETH, future, spot, i1, i2, i3

MCListing ==
    [ck \in {BTC, ETH} \X {future, spot} |->
        CASE ck = <<BTC, future>> -> <<i1, i2>>
          [] ck = <<BTC, spot>>   -> <<i3>>
          [] ck = <<ETH, future>> -> <<i2>>
          [] ck = <<ETH, spot>>   -> <<>>]

=============================================================================
