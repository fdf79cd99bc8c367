---------------------------- MODULE OrderBookView ----------------------------
(***************************************************************************)
(* The fixed-depth view of OrderBook.tsx: renderOrderBookSide turns one    *)
(* side of orderBookData into exactly MAX_ROWS table rows.  It copies the  *)
(* entries, pushes [0, 0] until there are MAX_ROWS of them, keeps the      *)
(* first MAX_ROWS, hides a row whose price is 0, and reverses the rows of  *)
(* the asks.  An entry is a level <<price, amount>> as the venue sends it, *)
(* best first.                                                             *)
(*                                                                         *)
(* The state is the side being shown: each new snapshot replaces it        *)
(* entirely (setOrderBookData), and the view is a function of it.          *)
(***************************************************************************)
EXTENDS Naturals, Sequences

CONSTANTS
    MAX_ROWS,   \* rows per side
    Prices,     \* prices a level may have
    Amounts,    \* amounts a level may have
    MaxDepth    \* the deepest book a snapshot holds

ASSUME ViewAssumption ==
    /\ MAX_ROWS \in Nat
    /\ Prices \subseteq Nat \ {0}
    /\ Amounts \subseteq Nat
    /\ MaxDepth \in Nat

VARIABLES
    entries,    \* orderBookData.bids or orderBookData.asks
    reverse     \* renderOrderBookSide's reverse argument: TRUE for the asks

vars == <<entries, reverse>>

Level == Prices \X Amounts

(* The snapshots a venue may send: up to MaxDepth levels.                 *)
Books == UNION {[1..n -> Level] : n \in 0..MaxDepth}

-----------------------------------------------------------------------------
(* renderOrderBookSide *)

Zero == <<0, 0>>

(* [...entries], then push [0, 0] while the length is below MAX_ROWS.     *)
Filled(e) ==
    IF Len(e) < MAX_ROWS THEN e \o [i \in 1..(MAX_ROWS - Len(e)) |-> Zero] ELSE e

(* One TableRow: the price and amount cells, invisible when price is 0.   *)
Row(entry) == [price |-> entry[1], amount |-> entry[2], invisible |-> entry[1] = 0]

(* Mutant of Rows: the slice is left out.                                 *)
RowsNoSlice(e) == [i \in DOMAIN Filled(e) |-> Row(Filled(e)[i])]

(* filledEntries.slice(0, MAX_ROWS).map(...)                              *)
Rows(e) == LET s == SubSeq(Filled(e), 1, MAX_ROWS) IN [i \in DOMAIN s |-> Row(s[i])]

(* rows.reverse()                                                         *)
Reversed(s) == [i \in DOMAIN s |-> s[Len(s) - i + 1]]

RenderOrderBookSide(e, rev) == IF rev THEN Reversed(Rows(e)) ELSE Rows(e)

-----------------------------------------------------------------------------
(* The component *)

(* Before the first snapshot nothing is rendered; an empty side renders  *)
(* as MAX_ROWS hidden rows.                                               *)
Init ==
    /\ entries = <<>>
    /\ reverse \in BOOLEAN

(* A new snapshot replaces the side (setOrderBookData in handleMessage).  *)
NewSnapshot ==
    /\ \E e \in Books : entries' = e
    /\ UNCHANGED reverse

Next == NewSnapshot

Spec == Init /\ [][Next]_vars

-----------------------------------------------------------------------------
(* The view spec 4.3 asks for *)

(* Row j of the side, best first: the j-th level, or a marked padding     *)
(* entry of price and amount 0 past the last level.                       *)
SpecRow(e, j) ==
    IF j <= Len(e) THEN [price |-> e[j][1], amount |-> e[j][2], pad |-> FALSE]
    ELSE [price |-> 0, amount |-> 0, pad |-> TRUE]

(* depth rows; bids best to worst, asks worst to best.                    *)
SpecView(e, rev) ==
    [i \in 1..MAX_ROWS |-> IF rev THEN SpecRow(e, MAX_ROWS + 1 - i) ELSE SpecRow(e, i)]

-----------------------------------------------------------------------------
(* Properties *)

(* The side is a book the venue may send.                                 *)
TypeOK ==
    /\ entries \in Books
    /\ reverse \in BOOLEAN

(* Spec 4.3: the rendered side has exactly MAX_ROWS rows, in the order    *)
(* the spec gives (asks reversed, padding at the far end), with each      *)
(* level's price and amount, and a row is hidden exactly when it is       *)
(* padding: the best levels are the ones kept when the book is deeper.    *)
ViewMatchesSpec ==
    LET view == RenderOrderBookSide(entries, reverse)
        spec == SpecView(entries, reverse)
    IN /\ DOMAIN view = 1..MAX_ROWS
       /\ \A i \in 1..MAX_ROWS :
             /\ view[i].price = spec[i].price
             /\ view[i].amount = spec[i].amount
             /\ view[i].invisible = spec[i].pad

=============================================================================
