------------------------- MODULE OrderBookViewProofs -------------------------
(***************************************************************************)
(* Proofs about the order-book view: for every depth MAX_ROWS and every    *)
(* book, renderOrderBookSide returns the view spec 4.3 describes.          *)
(***************************************************************************)
EXTENDS OrderBookView, TLAPS

USE ViewAssumption

(* The copy with its padding has at least MAX_ROWS entries: the levels    *)
(* first, then [0, 0] up to row MAX_ROWS.                                 *)
LEMMA FilledEntries ==
    ASSUME NEW e \in Seq(Level)
    PROVE  /\ Filled(e) \in Seq(Level \cup {Zero})
           /\ Len(Filled(e)) >= MAX_ROWS
           /\ \A j \in 1..Len(e) : Filled(e)[j] = e[j]
           /\ \A j \in (Len(e) + 1)..MAX_ROWS : Filled(e)[j] = Zero
<1>1. CASE Len(e) < MAX_ROWS
  BY <1>1 DEF Filled
<1>2. CASE ~(Len(e) < MAX_ROWS)
  BY <1>2 DEF Filled
<1>3. QED
  BY <1>1, <1>2

(* The rows before reversal: row j shows the j-th level, or hidden        *)
(* padding past the last level.                                           *)
LEMMA RowsShape ==
    ASSUME NEW e \in Seq(Level)
    PROVE  /\ DOMAIN Rows(e) = 1..MAX_ROWS
           /\ \A j \in 1..MAX_ROWS :
                 /\ Rows(e)[j].price = SpecRow(e, j).price
                 /\ Rows(e)[j].amount = SpecRow(e, j).amount
                 /\ Rows(e)[j].invisible = SpecRow(e, j).pad
<1> DEFINE F == Filled(e)
<1>1. F \in Seq(Level \cup {Zero}) /\ Len(F) >= MAX_ROWS
  BY FilledEntries
<1>2. SubSeq(F, 1, MAX_ROWS) = [i \in 1..MAX_ROWS |-> F[i]]
  BY <1>1
<1>3. DOMAIN Rows(e) = 1..MAX_ROWS
  BY <1>2 DEF Rows
<1>4. ASSUME NEW j \in 1..MAX_ROWS
      PROVE  /\ Rows(e)[j].price = SpecRow(e, j).price
             /\ Rows(e)[j].amount = SpecRow(e, j).amount
             /\ Rows(e)[j].invisible = SpecRow(e, j).pad
  <2>1. Rows(e)[j] = Row(F[j])
    BY <1>2 DEF Rows
  <2>2. CASE j <= Len(e)
    <3>1. F[j] = e[j] /\ e[j] \in Level
      BY <2>2, FilledEntries
    <3>2. e[j][1] \in Prices /\ e[j][1] # 0
      BY <3>1 DEF Level
    <3>3. Row(F[j]) = [price |-> e[j][1], amount |-> e[j][2], invisible |-> FALSE]
      BY <3>1, <3>2 DEF Row
    <3>4. SpecRow(e, j) = [price |-> e[j][1], amount |-> e[j][2], pad |-> FALSE]
      BY <2>2 DEF SpecRow
    <3>5. QED
      BY <2>1, <3>3, <3>4
  <2>3. CASE ~(j <= Len(e))
    <3>1. F[j] = Zero
      BY <2>3, FilledEntries
    <3>2. Row(F[j]) = [price |-> 0, amount |-> 0, invisible |-> TRUE]
      <4>1. F[j][1] = 0 /\ F[j][2] = 0
        BY <3>1 DEF Zero
      <4>2. QED
        BY <4>1, Zenon DEF Row
    <3>3. SpecRow(e, j) = [price |-> 0, amount |-> 0, pad |-> TRUE]
      BY <2>3 DEF SpecRow
    <3>4. QED
      BY <2>1, <3>2, <3>3
  <2>4. QED
    BY <2>2, <2>3
<1>5. QED
  BY <1>3, <1>4

(* Every book is rendered as spec 4.3 describes, bids and asks alike.     *)
LEMMA RenderMatchesSpec ==
    ASSUME NEW e \in Seq(Level), NEW rev \in BOOLEAN
    PROVE  LET view == RenderOrderBookSide(e, rev)
               spec == SpecView(e, rev)
           IN  /\ DOMAIN view = 1..MAX_ROWS
               /\ \A i \in 1..MAX_ROWS :
                     /\ view[i].price = spec[i].price
                     /\ view[i].amount = spec[i].amount
                     /\ view[i].invisible = spec[i].pad
<1>1. DOMAIN Rows(e) = 1..MAX_ROWS /\ Len(Rows(e)) = MAX_ROWS
  BY RowsShape
<1>2. CASE rev
  <2>1. ASSUME NEW i \in 1..MAX_ROWS
        PROVE  /\ RenderOrderBookSide(e, rev)[i] = Rows(e)[MAX_ROWS + 1 - i]
               /\ MAX_ROWS + 1 - i \in 1..MAX_ROWS
    BY <1>1, <1>2 DEF RenderOrderBookSide, Reversed
  <2>2. DOMAIN RenderOrderBookSide(e, rev) = 1..MAX_ROWS
    BY <1>1, <1>2 DEF RenderOrderBookSide, Reversed
  <2>3. \A i \in 1..MAX_ROWS : SpecView(e, rev)[i] = SpecRow(e, MAX_ROWS + 1 - i)
    BY <1>2 DEF SpecView
  <2>4. QED
    BY <2>1, <2>2, <2>3, RowsShape
<1>3. CASE ~rev
  <2>1. RenderOrderBookSide(e, rev) = Rows(e)
    BY <1>3 DEF RenderOrderBookSide
  <2>2. \A i \in 1..MAX_ROWS : SpecView(e, rev)[i] = SpecRow(e, i)
    BY <1>3 DEF SpecView
  <2>3. QED
    BY <2>1, <2>2, RowsShape
<1>4. QED
  BY <1>2, <1>3

(* Every snapshot the venue may send is a sequence of levels.             *)
LEMMA BooksAreSeqs == Books \subseteq Seq(Level)
BY DEF Books

(* The side shown is always a book the venue may send.                    *)
LEMMA TypeCorrect == Spec => []TypeOK
<1>1. Init => TypeOK
  BY DEF Init, TypeOK, Books
<1>2. TypeOK /\ [Next]_vars => TypeOK'
  BY DEF TypeOK, Next, NewSnapshot, vars
<1>3. QED
  BY <1>1, <1>2, PTL DEF Spec

(* Whatever MAX_ROWS and whatever snapshots arrive, renderOrderBookSide   *)
(* shows exactly MAX_ROWS rows per side, the best levels, padding hidden  *)
(* at the far end and the asks reversed.                                  *)
THEOREM ViewAlwaysMatchesSpec == Spec => []ViewMatchesSpec
<1>1. TypeOK => ViewMatchesSpec
  BY BooksAreSeqs, RenderMatchesSpec DEF TypeOK, ViewMatchesSpec
<1>2. QED
  BY <1>1, TypeCorrect, PTL

=============================================================================
