--------------------------- MODULE OrderBookFeed ---------------------------
(***************************************************************************)
(* The instrument selection of TradingPanel.tsx and the order-book         *)
(* subscription of OrderBook.tsx, over the one WebSocket both share.       *)
(*                                                                         *)
(* The client is one browser event loop: every action below is one event  *)
(* handler (or one flush of React effects) run to completion.  A frame     *)
(* from the venue is dispatched to every "message" listener of the socket  *)
(* in one step.  A state update made by a user selection is a discrete     *)
(* update: React renders it and flushes its effects before the next event. *)
(* A state update made inside a message handler is not: the effects of its *)
(* render run in a later task, after which other frames may already have   *)
(* been dispatched (action OrderBookEffect).                                *)
(*                                                                         *)
(* The venue (the server at ws://localhost:9002, not in this repository)   *)
(* is the environment: it reads requests in order, answers get_instruments *)
(* with the listing of the requested (currency, kind), answers             *)
(* get_orderbook with an initial snapshot and then pushes updates for      *)
(* every instrument ever requested.                                        *)
(***************************************************************************)
EXTENDS Naturals, Sequences

CONSTANTS
    Currencies,     \* the values of the currency Select (BTC, ETH)
    Kinds,          \* the values of the instrument-type Select
    Instr,          \* instrument names
    Listing,        \* Listing[c, k]: the venue's instruments for (c, k)
    InitCurrency,   \* useState("BTC")
    InitKind,       \* useState("future")
    NoInstrument,   \* the initial selectedInstrument ""
    NoListener,     \* OrderBook not mounted: no listener on the socket
    NoBook,         \* orderBookData = null
    MaxUserSteps,   \* bound on the user's selections
    MaxPushes       \* bound on the venue's unsolicited book updates

ASSUME ConstantsAssumption ==
    /\ InitCurrency \in Currencies
    /\ InitKind \in Kinds
    /\ Listing \in [Currencies \X Kinds -> Seq(Instr)]
    /\ NoInstrument \notin Instr
    /\ NoListener \notin Instr \cup {NoInstrument}
    /\ NoBook \notin Instr
    /\ MaxUserSteps \in Nat
    /\ MaxPushes \in Nat

VARIABLES
    conn,         \* ws.current.readyState, with "closing" = closed, close event not yet run
    isConnected,  \* TradingPanel isConnected
    currency,     \* TradingPanel currency
    kind,         \* TradingPanel instrumentType
    instruments,  \* TradingPanel instruments (the names, in order)
    selected,     \* TradingPanel selectedInstrument
    subscribed,   \* instrument captured by OrderBook's mounted listener, or NoListener
    book,         \* OrderBook orderBookData: the instrument whose book it holds
    outbox,       \* frames sent by the client, not yet read by the venue
    inbox,        \* frames sent by the venue, not yet dispatched by the client
    venueSubs,    \* instruments the venue pushes updates for
    userSteps,    \* selections made so far
    pushes        \* unsolicited updates pushed so far

vars == <<conn, isConnected, currency, kind, instruments, selected, subscribed,
          book, outbox, inbox, venueSubs, userSteps, pushes>>

-----------------------------------------------------------------------------
(* Messages *)

Listed(s) == {s[n] : n \in DOMAIN s}

GetInstruments(c, k) == [type |-> "get_instruments", currency |-> c, kind |-> k]
GetOrderBook(i) == [type |-> "get_orderbook", instrument |-> i]
InstrumentsFrame(l) == [type |-> "instruments", result |-> l]
OrderBookUpdate(i) == [type |-> "orderbook_update", instrument |-> i]

Request ==
    {GetInstruments(c, k) : c \in Currencies, k \in Kinds}
      \cup {GetOrderBook(i) : i \in Instr \cup {NoInstrument}}

Frame ==
    {InstrumentsFrame(Listing[ck]) : ck \in Currencies \X Kinds}
      \cup {OrderBookUpdate(i) : i \in Instr}

(* WebSocket.send: transmitted when the socket is OPEN, silently dropped   *)
(* once it is CLOSING or CLOSED.                                           *)
Send(q, r) == IF conn = "open" THEN Append(q, r) ELSE q

-----------------------------------------------------------------------------
(* The client *)

Init ==
    /\ conn = "connecting"
    /\ isConnected = FALSE
    /\ currency = InitCurrency
    /\ kind = InitKind
    /\ instruments = <<>>
    /\ selected = NoInstrument
    /\ subscribed = NoListener
    /\ book = NoBook
    /\ outbox = <<>>
    /\ inbox = <<>>
    /\ venueSubs = {}
    /\ userSteps = 0
    /\ pushes = 0

(* onopen: setIsConnected(true) and fetchInstruments() for the first       *)
(* render's currency and kind.                                             *)
OnOpen ==
    /\ conn = "connecting"
    /\ conn' = "open"
    /\ isConnected' = TRUE
    /\ outbox' = Append(outbox, GetInstruments(currency, kind))
    /\ UNCHANGED <<currency, kind, instruments, selected, subscribed, book,
                   inbox, venueSubs, userSteps, pushes>>

(* onmessage: an "instruments" frame replaces the list and, when it is     *)
(* not empty, selects its first instrument.                                *)
OnMessage(f) ==
    IF f.type = "instruments"
    THEN /\ instruments' = f.result
         /\ selected' = IF Len(f.result) > 0 THEN f.result[1] ELSE selected
    ELSE UNCHANGED <<instruments, selected>>

(* OrderBook handleMessage: keeps an "orderbook_update" whose instrument   *)
(* is the one captured when the listener was added.                       *)
OrderBookListener(f) ==
    IF subscribed # NoListener /\ f.type = "orderbook_update"
          /\ f.instrument = subscribed
    THEN book' = f.instrument
    ELSE UNCHANGED book

(* The event loop dispatches the oldest frame to every listener.          *)
Dispatch ==
    /\ inbox # <<>>
    /\ inbox' = Tail(inbox)
    /\ OnMessage(Head(inbox))
    /\ OrderBookListener(Head(inbox))
    /\ UNCHANGED <<conn, isConnected, currency, kind, subscribed, outbox,
                   venueSubs, userSteps, pushes>>

(* onerror / onclose, run after the frames received before the close.     *)
OnClose ==
    /\ conn = "closing"
    /\ inbox = <<>>
    /\ conn' = "closed"
    /\ isConnected' = FALSE
    /\ UNCHANGED <<currency, kind, instruments, selected, subscribed, book,
                   outbox, inbox, venueSubs, userSteps, pushes>>

(* Mutants of Mount: the request names the listener's previous value;    *)
(* the mount effect sends no get_orderbook.                               *)
MountStaleRequest ==
    /\ isConnected
    /\ subscribed = NoListener
    /\ subscribed' = selected
    /\ outbox' = Send(outbox, GetOrderBook(subscribed))
    /\ UNCHANGED <<conn, isConnected, currency, kind, instruments, selected,
                   book, inbox, venueSubs, userSteps, pushes>>

MountNoRequest ==
    /\ isConnected
    /\ subscribed = NoListener
    /\ subscribed' = selected
    /\ UNCHANGED <<conn, isConnected, currency, kind, instruments, selected,
                   book, outbox, inbox, venueSubs, userSteps, pushes>>

(* The connected layout renders: OrderBook mounts, adds its listener for  *)
(* the current selection and sends get_orderbook.                         *)
Mount ==
    /\ isConnected
    /\ subscribed = NoListener
    /\ subscribed' = selected
    /\ outbox' = Send(outbox, GetOrderBook(selected))
    /\ UNCHANGED <<conn, isConnected, currency, kind, instruments, selected,
                   book, inbox, venueSubs, userSteps, pushes>>

(* The "Connecting to server..." layout renders: OrderBook unmounts,      *)
(* its listener is removed and its state is lost.                         *)
Unmount ==
    /\ ~isConnected
    /\ subscribed # NoListener
    /\ subscribed' = NoListener
    /\ book' = NoBook
    /\ UNCHANGED <<conn, isConnected, currency, kind, instruments, selected,
                   outbox, inbox, venueSubs, userSteps, pushes>>

(* Mutant of OrderBookEffect: the listener is swapped, no request sent.   *)
OrderBookEffectNoRequest ==
    /\ isConnected
    /\ subscribed \notin {NoListener, selected}
    /\ subscribed' = selected
    /\ UNCHANGED <<conn, isConnected, currency, kind, instruments, selected,
                   book, outbox, inbox, venueSubs, userSteps, pushes>>

(* The effect of OrderBook after its instrument prop changed by a render  *)
(* that a message handler scheduled: swap the listener, send get_orderbook.*)
(* orderBookData is left as it was.                                       *)
OrderBookEffect ==
    /\ isConnected
    /\ subscribed \notin {NoListener, selected}
    /\ subscribed' = selected
    /\ outbox' = Send(outbox, GetOrderBook(selected))
    /\ UNCHANGED <<conn, isConnected, currency, kind, instruments, selected,
                   book, inbox, venueSubs, userSteps, pushes>>

(* fetchInstruments: sent only while readyState is OPEN.                  *)
FetchInstruments(c, k) == Send(outbox, GetInstruments(c, k))

(* The user picks another currency; the [currency, instrumentType] effect *)
(* fetches the instruments.                                               *)
SelectCurrency(c) ==
    /\ isConnected
    /\ userSteps < MaxUserSteps
    /\ c # currency
    /\ currency' = c
    /\ outbox' = FetchInstruments(c, kind)
    /\ userSteps' = userSteps + 1
    /\ UNCHANGED <<conn, isConnected, kind, instruments, selected, subscribed,
                   book, inbox, venueSubs, pushes>>

(* Mutant of SelectKind: a stale closure fetches the previous type.       *)
SelectKindStaleClosure(k) ==
    /\ isConnected
    /\ userSteps < MaxUserSteps
    /\ k # kind
    /\ kind' = k
    /\ outbox' = FetchInstruments(currency, kind)
    /\ userSteps' = userSteps + 1
    /\ UNCHANGED <<conn, isConnected, currency, instruments, selected,
                   subscribed, book, inbox, venueSubs, pushes>>

(* The user picks another instrument type; same effect.                   *)
SelectKind(k) ==
    /\ isConnected
    /\ userSteps < MaxUserSteps
    /\ k # kind
    /\ kind' = k
    /\ outbox' = FetchInstruments(currency, k)
    /\ userSteps' = userSteps + 1
    /\ UNCHANGED <<conn, isConnected, currency, instruments, selected,
                   subscribed, book, inbox, venueSubs, pushes>>

(* The user picks an instrument of the list; the OrderBook effect runs    *)
(* before the next event: listener swapped, get_orderbook sent.           *)
SelectInstrument(i) ==
    /\ isConnected
    /\ userSteps < MaxUserSteps
    /\ i \in Listed(instruments)
    /\ i # selected
    /\ selected' = i
    /\ subscribed' = i
    /\ outbox' = Send(outbox, GetOrderBook(i))
    /\ userSteps' = userSteps + 1
    /\ UNCHANGED <<conn, isConnected, currency, kind, instruments, book, inbox,
                   venueSubs, pushes>>

-----------------------------------------------------------------------------
(* The venue and the transport *)

(* The venue reads the oldest request and answers it.                     *)
VenueReceive ==
    /\ conn = "open"
    /\ outbox # <<>>
    /\ LET r == Head(outbox) IN
         IF r.type = "get_instruments"
         THEN /\ inbox' = Append(inbox, InstrumentsFrame(Listing[<<r.currency, r.kind>>]))
              /\ UNCHANGED venueSubs
         ELSE IF r.instrument \in Instr
         THEN /\ inbox' = Append(inbox, OrderBookUpdate(r.instrument))
              /\ venueSubs' = venueSubs \cup {r.instrument}
         ELSE UNCHANGED <<inbox, venueSubs>>
    /\ outbox' = Tail(outbox)
    /\ UNCHANGED <<conn, isConnected, currency, kind, instruments, selected,
                   subscribed, book, userSteps, pushes>>

(* The venue pushes a book update for an instrument it was asked for.     *)
VenuePush(i) ==
    /\ conn = "open"
    /\ i \in venueSubs
    /\ pushes < MaxPushes
    /\ inbox' = Append(inbox, OrderBookUpdate(i))
    /\ pushes' = pushes + 1
    /\ UNCHANGED <<conn, isConnected, currency, kind, instruments, selected,
                   subscribed, book, outbox, venueSubs, userSteps>>

(* The connection fails to open or drops; unread requests are lost.       *)
ConnectionLost ==
    /\ conn \in {"connecting", "open"}
    /\ conn' = "closing"
    /\ outbox' = <<>>
    /\ UNCHANGED <<isConnected, currency, kind, instruments, selected,
                   subscribed, book, inbox, venueSubs, userSteps, pushes>>

(* No reconnection: once closed and unmounted the client does nothing.    *)
Halted ==
    /\ conn = "closed"
    /\ subscribed = NoListener
    /\ UNCHANGED vars

Next ==
    \/ OnOpen
    \/ Dispatch
    \/ OnClose
    \/ Mount
    \/ Unmount
    \/ OrderBookEffect
    \/ \E c \in Currencies : SelectCurrency(c)
    \/ \E k \in Kinds : SelectKind(k)
    \/ \E i \in Instr : SelectInstrument(i)
    \/ VenueReceive
    \/ \E i \in Instr : VenuePush(i)
    \/ ConnectionLost
    \/ Halted

(* The browser runs queued events and React flushes effects; the venue    *)
(* answers every request it reads.                                        *)
Fairness ==
    /\ WF_vars(OnOpen)
    /\ WF_vars(Dispatch)
    /\ WF_vars(OnClose)
    /\ WF_vars(Mount)
    /\ WF_vars(Unmount)
    /\ WF_vars(OrderBookEffect)
    /\ WF_vars(VenueReceive)

Spec == Init /\ [][Next]_vars

FairSpec == Spec /\ Fairness

-----------------------------------------------------------------------------
(* Properties *)

TypeOK ==
    /\ conn \in {"connecting", "open", "closing", "closed"}
    /\ isConnected \in BOOLEAN
    /\ currency \in Currencies
    /\ kind \in Kinds
    /\ instruments \in Seq(Instr)
    /\ selected \in Instr \cup {NoInstrument}
    /\ subscribed \in Instr \cup {NoInstrument, NoListener}
    /\ book \in Instr \cup {NoBook}
    /\ outbox \in Seq(Request)
    /\ inbox \in Seq(Frame)
    /\ venueSubs \subseteq Instr
    /\ userSteps \in 0..MaxUserSteps
    /\ pushes \in 0..MaxPushes

(* get_instruments requests and "instruments" frames still in transit.    *)
InstrumentsInFlight ==
    \/ \E n \in DOMAIN outbox : outbox[n].type = "get_instruments"
    \/ \E n \in DOMAIN inbox : inbox[n].type = "instruments"

(* Once every get_instruments the client sent has been answered and       *)
(* dispatched, the instrument list shown is the venue's listing for the   *)
(* currency and type now selected: no selection change of the user is     *)
(* lost, and no answer to an earlier selection is applied last            *)
(* (fetchInstruments, the [currency, instrumentType] effect, onmessage).   *)
InstrumentsMatchSelection ==
    (conn = "open" /\ isConnected /\ ~InstrumentsInFlight)
        => instruments = Listing[<<currency, kind>>]

(* While the socket is open, the instrument OrderBook listens for has     *)
(* been requested from the venue: it is subscribed there or its           *)
(* get_orderbook is still on the wire (OrderBook's effect sends it every   *)
(* time the listener is added).                                           *)
SubscribedRequested ==
    (conn = "open" /\ subscribed \in Instr)
        => \/ subscribed \in venueSubs
           \/ \E n \in DOMAIN outbox : outbox[n] = GetOrderBook(subscribed)

(* The connection facts SubscribedRequested rests on: the connected      *)
(* layout is only shown once the socket has opened, and OrderBook cannot   *)
(* have mounted before the socket opened.                                 *)
ConnInv ==
    /\ isConnected => conn \in {"open", "closing"}
    /\ conn = "connecting" => subscribed = NoListener

(* SubscribedRequested strengthened to an inductive invariant.            *)
IInv == TypeOK /\ ConnInv /\ SubscribedRequested

(* The positions of the frames of type t in a queue, and the last one.   *)
TypeIdx(q, t) == {n \in DOMAIN q : q[n].type = t}

IsLast(q, t, n) == n \in TypeIdx(q, t) /\ \A m \in TypeIdx(q, t) : m <= n

(* While the socket is open, the latest get_instruments on the wire asks  *)
(* for the currency and type now selected; with none on the wire, the     *)
(* latest "instruments" frame not yet dispatched carries their listing;   *)
(* with neither, the list shown is it.  Requests and answers keep their   *)
(* order, so the last one applied is the last one the user asked for.    *)
LatestInstruments ==
    (conn = "open" /\ isConnected) =>
        /\ \A n \in DOMAIN outbox : IsLast(outbox, "get_instruments", n)
              => outbox[n] = GetInstruments(currency, kind)
        /\ TypeIdx(outbox, "get_instruments") = {}
              => \A n \in DOMAIN inbox : IsLast(inbox, "instruments", n)
                    => inbox[n].result = Listing[<<currency, kind>>]
        /\ TypeIdx(outbox, "get_instruments") = {} /\ TypeIdx(inbox, "instruments") = {}
              => instruments = Listing[<<currency, kind>>]

(* InstrumentsMatchSelection strengthened to an inductive invariant.      *)
ListingInv == TypeOK /\ ConnInv /\ LatestInstruments

(* Whenever an instrument is selected while connected, the order book     *)
(* eventually shows that instrument's book, unless the selection changes  *)
(* or the connection is lost first.                                       *)
BookFollowsSelection ==
    \A i \in Instr :
        (isConnected /\ selected = i) ~> (book = i \/ selected # i \/ ~isConnected)

(* The book on screen is the book of the instrument in the title          *)
(* "Order Book - {selectedInstrument}" (spec 4.3: a book per instrument). *)
BookMatchesSelection ==
    book # NoBook => book = selected

(* The selected instrument is one of the instruments listed for the       *)
(* selected currency and type (the order form places orders on it).       *)
SelectedListed ==
    (isConnected /\ ~InstrumentsInFlight /\ selected # NoInstrument)
        => selected \in Listed(instruments)

=============================================================================
