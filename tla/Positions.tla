------------------------------ MODULE Positions ------------------------------
(***************************************************************************)
(* The positions table of the trading client: PositionsTable.tsx over the  *)
(* socket TradingPanel.tsx opens.                                          *)
(*                                                                         *)
(* positionsData is a JavaScript object of objects: currency -> kind ->    *)
(* list of positions.  Its outer keys are kept in insertion order          *)
(* (Object.values walks them in that order), so the model keeps the        *)
(* currency keys as a sequence, currencyKeys, and the buckets as a         *)
(* function from (currency, kind) pairs, NoData where a kind was never set.*)
(* A position is represented by its instrument_name, the table's row key;  *)
(* size and prices change no control flow.                                 *)
(*                                                                         *)
(* As in the other modules an action is one event handler run to           *)
(* completion, and a Select is a discrete React update whose effect (the   *)
(* get_positions request) runs in the same step.  Only positions frames    *)
(* are on the wire of this module; the listener ignores every other type.  *)
(*                                                                         *)
(* The venue (not in this repository) reads requests in order and answers  *)
(* get_positions(c, k) with positions_update(c, k, its positions), echoing *)
(* the currency it was asked for, "any" included.  For "any" it lists the  *)
(* positions of every currency, in the order CurrencyOrder.  The venue's   *)
(* positions do not change during a behaviour.                             *)
(***************************************************************************)
EXTENDS Naturals, Sequences, SequencesExt

CONSTANTS
    Currencies,     \* the real currencies of the currency Select
    AnyCurrency,    \* the Select's "any" entry
    Kinds,          \* the kinds of the type Select
    Pos,            \* instrument names a position may have
    Held,           \* Held[<<c, k>>]: the venue's positions of currency c, kind k
    CurrencyOrder,  \* the order in which the venue lists currencies for "any"
    InitCurrency,   \* useState("BTC")
    InitKind,       \* useState("future")
    NoData,         \* prevData[currency][kind] is undefined
    MaxUserSteps    \* bound on the user's selections

Keys == Currencies \cup {AnyCurrency}

ASSUME ConstantsAssumption ==
    /\ AnyCurrency \notin Currencies
    /\ InitCurrency \in Keys
    /\ InitKind \in Kinds
    /\ Held \in [Currencies \X Kinds -> Seq(Pos)]
    /\ CurrencyOrder \in Seq(Currencies)
    /\ NoData \notin Seq(Pos)
    /\ MaxUserSteps \in Nat

VARIABLES
    conn,           \* ws.current.readyState, "closing": close event not yet run
    isConnected,    \* TradingPanel isConnected
    mounted,        \* PositionsTable has mounted and added its listener
    selCurrency,    \* selectedCurrency
    selKind,        \* selectedType
    currencyKeys,   \* Object.keys(positionsData), in insertion order
    positionsData,  \* positionsData[currency][kind], or NoData
    outbox,         \* frames sent by the client, not yet read by the venue
    inbox,          \* frames sent by the venue, not yet dispatched
    applied,        \* history: the (currency, kind) updates this table applied
    userSteps       \* user selections so far

vars == <<conn, isConnected, mounted, selCurrency, selKind, currencyKeys,
          positionsData, outbox, inbox, applied, userSteps>>

storeVars == <<currencyKeys, positionsData, applied>>

-----------------------------------------------------------------------------
(* Frames *)

GetPositions(c, k) == [type |-> "get_positions", currency |-> c, kind |-> k]

PositionsUpdate(c, k, d) ==
    [type |-> "positions_update", currency |-> c, kind |-> k, data |-> d]

(* What the venue answers for currency c and kind k.                       *)
VenueAnswer(c, k) ==
    IF c = AnyCurrency
    THEN FlattenSeq([n \in DOMAIN CurrencyOrder |-> Held[<<CurrencyOrder[n], k>>]])
    ELSE Held[<<c, k>>]

(* ws.send: dropped once the socket is CLOSING or CLOSED.                  *)
Send(q, r) == IF conn = "open" THEN Append(q, r) ELSE q

(* The get_positions effect: it sends only while the socket is OPEN.       *)
FetchPositions(c, k) == outbox' = Send(outbox, GetPositions(c, k))

(* currencyData[selectedType] || []                                        *)
Bucket(c, k) == IF positionsData[<<c, k>>] = NoData THEN <<>> ELSE positionsData[<<c, k>>]

(* displayedPositions: "any" concatenates every stored currency's bucket   *)
(* of the kind, in key insertion order; a currency shows its own bucket.   *)
Displayed ==
    IF selCurrency = AnyCurrency
    THEN FlattenSeq([n \in DOMAIN currencyKeys |-> Bucket(currencyKeys[n], selKind)])
    ELSE Bucket(selCurrency, selKind)

-----------------------------------------------------------------------------
(* The client *)

EmptyData == [x \in Keys \X Kinds |-> NoData]

Init ==
    /\ conn = "connecting"
    /\ isConnected = FALSE
    /\ mounted = FALSE
    /\ selCurrency = InitCurrency
    /\ selKind = InitKind
    /\ currencyKeys = <<>>
    /\ positionsData = EmptyData
    /\ outbox = <<>>
    /\ inbox = <<>>
    /\ applied = {}
    /\ userSteps = 0

(* TradingPanel onopen: setIsConnected(true).                             *)
OnOpen ==
    /\ conn = "connecting"
    /\ conn' = "open"
    /\ isConnected' = TRUE
    /\ UNCHANGED <<mounted, selCurrency, selKind, storeVars, outbox, inbox,
                   userSteps>>

(* The table mounts: its listener is added, then the get_positions effect *)
(* runs for the initial selection.                                        *)
Mount ==
    /\ isConnected
    /\ ~mounted
    /\ mounted' = TRUE
    /\ FetchPositions(selCurrency, selKind)
    /\ UNCHANGED <<conn, isConnected, selCurrency, selKind, storeVars, inbox,
                   userSteps>>

(* Mutant of Merge: prevData[currency] is not spread, so the other kinds  *)
(* of the currency are dropped.                                           *)
MergeDropKinds(f) ==
    /\ currencyKeys' = IF f.currency \in ToSet(currencyKeys) THEN currencyKeys
                       ELSE Append(currencyKeys, f.currency)
    /\ positionsData' = [x \in Keys \X Kinds |->
                           IF x[1] # f.currency THEN positionsData[x]
                           ELSE IF x[2] = f.kind THEN f.data ELSE NoData]

(* setPositionsData: {...prevData, [currency]: {...prevData[currency],    *)
(* [kind]: data}}.  A new currency key goes last; an old one keeps its    *)
(* place.                                                                 *)
Merge(f) ==
    /\ currencyKeys' = IF f.currency \in ToSet(currencyKeys) THEN currencyKeys
                       ELSE Append(currencyKeys, f.currency)
    /\ positionsData' = [positionsData EXCEPT ![<<f.currency, f.kind>>] = f.data]

(* The event loop dispatches the oldest frame.  The mounted table's       *)
(* handleMessage merges a positions_update; before it mounts or after it  *)
(* unmounts nobody hears the frame.                                       *)
Dispatch ==
    /\ inbox # <<>>
    /\ inbox' = Tail(inbox)
    /\ IF mounted /\ Head(inbox).type = "positions_update"
       THEN /\ Merge(Head(inbox))
            /\ applied' = applied \cup {<<Head(inbox).currency, Head(inbox).kind>>}
       ELSE UNCHANGED storeVars
    /\ UNCHANGED <<conn, isConnected, mounted, selCurrency, selKind, outbox,
                   userSteps>>

(* onclose / onerror, after the frames received before the close.         *)
OnClose ==
    /\ conn = "closing"
    /\ inbox = <<>>
    /\ conn' = "closed"
    /\ isConnected' = FALSE
    /\ UNCHANGED <<mounted, selCurrency, selKind, storeVars, outbox, inbox,
                   userSteps>>

(* "Connecting to server..." renders: the table unmounts, its listener    *)
(* goes and its state is lost.                                            *)
Unmount ==
    /\ ~isConnected
    /\ mounted
    /\ mounted' = FALSE
    /\ selCurrency' = InitCurrency
    /\ selKind' = InitKind
    /\ currencyKeys' = <<>>
    /\ positionsData' = EmptyData
    /\ applied' = {}
    /\ UNCHANGED <<conn, isConnected, outbox, inbox, userSteps>>

(* The currency Select; the effect on [ws, selectedCurrency, selectedType]*)
(* asks for the new bucket.                                               *)
SelectCurrency(c) ==
    /\ mounted
    /\ userSteps < MaxUserSteps
    /\ c # selCurrency
    /\ selCurrency' = c
    /\ FetchPositions(c, selKind)
    /\ userSteps' = userSteps + 1
    /\ UNCHANGED <<conn, isConnected, mounted, selKind, storeVars, inbox>>

(* Mutant of SelectKind: the effect lists [ws, selectedCurrency] only, so *)
(* a change of kind sends nothing.                                        *)
SelectKindNoFetch(k) ==
    /\ mounted
    /\ userSteps < MaxUserSteps
    /\ k # selKind
    /\ selKind' = k
    /\ userSteps' = userSteps + 1
    /\ UNCHANGED <<conn, isConnected, mounted, selCurrency, storeVars, outbox,
                   inbox>>

(* The type Select, with the same effect.                                 *)
SelectKind(k) ==
    /\ mounted
    /\ userSteps < MaxUserSteps
    /\ k # selKind
    /\ selKind' = k
    /\ FetchPositions(selCurrency, k)
    /\ userSteps' = userSteps + 1
    /\ UNCHANGED <<conn, isConnected, mounted, selCurrency, storeVars, inbox>>

-----------------------------------------------------------------------------
(* The venue and the transport *)

(* The venue reads the oldest request and answers it.                     *)
VenueReceive ==
    /\ conn = "open"
    /\ outbox # <<>>
    /\ LET r == Head(outbox)
       IN inbox' = Append(inbox, PositionsUpdate(r.currency, r.kind,
                                                 VenueAnswer(r.currency, r.kind)))
    /\ outbox' = Tail(outbox)
    /\ UNCHANGED <<conn, isConnected, mounted, selCurrency, selKind, storeVars,
                   userSteps>>

(* The connection drops; unread requests are lost.                        *)
ConnectionLost ==
    /\ conn \in {"connecting", "open"}
    /\ conn' = "closing"
    /\ outbox' = <<>>
    /\ UNCHANGED <<isConnected, mounted, selCurrency, selKind, storeVars, inbox,
                   userSteps>>

(* No reconnection: once closed and unmounted the client does nothing.    *)
Halted ==
    /\ conn = "closed"
    /\ ~mounted
    /\ UNCHANGED vars

Next ==
    \/ OnOpen
    \/ Mount
    \/ Dispatch
    \/ OnClose
    \/ Unmount
    \/ \E c \in Keys : SelectCurrency(c)
    \/ \E k \in Kinds : SelectKind(k)
    \/ VenueReceive
    \/ ConnectionLost
    \/ Halted

Spec == Init /\ [][Next]_vars

-----------------------------------------------------------------------------
(* Properties *)

(* What the venue may answer to a get_positions.                         *)
Answers == {VenueAnswer(c, k) : c \in Keys, k \in Kinds}

(* Every variable has its type, and the object has each currency key once.*)
TypeOK ==
    /\ conn \in {"connecting", "open", "closing", "closed"}
    /\ isConnected \in BOOLEAN
    /\ mounted \in BOOLEAN
    /\ selCurrency \in Keys
    /\ selKind \in Kinds
    /\ currencyKeys \in Seq(Keys)
    /\ IsInjective(currencyKeys)
    /\ positionsData \in [Keys \X Kinds -> Answers \cup {NoData}]
    /\ outbox \in Seq({GetPositions(c, k) : c \in Keys, k \in Kinds})
    /\ inbox \in Seq({PositionsUpdate(c, k, VenueAnswer(c, k)) : c \in Keys, k \in Kinds})
    /\ applied \subseteq Keys \X Kinds
    /\ userSteps \in 0..MaxUserSteps

(* PositionsStore, spec 4.4: an update of one (currency, kind) bucket     *)
(* leaves every other bucket as it was.  So every update the mounted      *)
(* table has applied is still there, under a currency key of the object,  *)
(* whatever other updates came after it.                                  *)
BucketsKept ==
    \A x \in applied :
        /\ positionsData[x] = VenueAnswer(x[1], x[2])
        /\ x[1] \in ToSet(currencyKeys)

(* While the socket is open and nothing is in flight, the table shows     *)
(* the venue's positions for the selected currency and kind: every change *)
(* of either Select has been asked for and answered.                      *)
ShownFresh ==
    (/\ conn = "open"
     /\ mounted
     /\ selCurrency \in Currencies
     /\ outbox = <<>>
     /\ inbox = <<>>)
    => Displayed = VenueAnswer(selCurrency, selKind)

(* The socket opens before the table mounts: isConnected is only set by   *)
(* onopen.                                                                *)
StateInv ==
    /\ isConnected => conn \in {"open", "closing"}
    /\ conn = "connecting" => ~mounted

(* While the socket is open, the selected bucket of a real currency has   *)
(* been applied, or its request or its answer is on the wire.             *)
SelectionFetched ==
    (conn = "open" /\ mounted /\ selCurrency \in Currencies)
    => \/ <<selCurrency, selKind>> \in applied
       \/ \E n \in DOMAIN outbox : outbox[n] = GetPositions(selCurrency, selKind)
       \/ \E n \in DOMAIN inbox : inbox[n].currency = selCurrency /\ inbox[n].kind = selKind

(* The inductive invariant of the proofs of BucketsKept and ShownFresh.   *)
IInv == TypeOK /\ StateInv /\ BucketsKept /\ SelectionFetched

(* Spec 4.4's store, with positionsData as its buckets and the object's  *)
(* currency keys as its insertion order.                                  *)
Store == INSTANCE PositionsStore WITH Currency <- Keys, Kind <- Kinds,
                                      Lists <- Answers, Never <- NoData,
                                      buckets <- positionsData,
                                      order <- currencyKeys

(* handleMessage's merge implements spec 4.4's applyUpdate: every change  *)
(* of positionsData sets one (currency, kind) bucket and keeps all others,*)
(* and a currency key is added, last, only on its first update; otherwise *)
(* the whole object is lost with the table.                               *)
StoreRefined == Store!Spec

(* The rows are keyed by instrument_name (PositionsTable 145), so React   *)
(* expects the displayed positions to name each instrument once.          *)
RowsDistinct == IsInjective(Displayed)

=============================================================================
