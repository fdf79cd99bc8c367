------------------------ MODULE OrderBookFeedProofs ------------------------
(***************************************************************************)
(* Proofs about OrderBookFeed for every value of its constants: the type   *)
(* invariant, and that the instrument OrderBook listens for is always      *)
(* requested from the venue while the socket is open.                      *)
(***************************************************************************)
EXTENDS OrderBookFeed, TLAPS

USE ConstantsAssumption

(* What the client reads from a frame has the type TypeOK requires.       *)
LEMMA FrameFields ==
    ASSUME NEW f \in Frame
    PROVE  /\ f.type = "instruments" => f.result \in Seq(Instr)
           /\ f.type = "orderbook_update" => f.instrument \in Instr
           /\ f.type \in {"instruments", "orderbook_update"}
BY DEF Frame, InstrumentsFrame, OrderBookUpdate

(* Send appends a request to the outbox or leaves it alone.               *)
LEMMA SendType ==
    ASSUME NEW q \in Seq(Request), NEW r \in Request
    PROVE  Send(q, r) \in Seq(Request)
BY DEF Send

(* The requests the client builds are requests.                         *)
LEMMA RequestMembers ==
    /\ \A c \in Currencies, k \in Kinds : GetInstruments(c, k) \in Request
    /\ \A i \in Instr \cup {NoInstrument} : GetOrderBook(i) \in Request
BY DEF Request

(* The initial state is well typed.                                      *)
LEMMA TypeInit == Init => TypeOK
<1> SUFFICES ASSUME Init PROVE TypeOK
    OBVIOUS
<1>1. isConnected \in BOOLEAN
    BY DEF Init
<1>2. QED
    BY <1>1 DEF Init, TypeOK

(* Every step of the client, the venue or the transport keeps the types.  *)
LEMMA TypeStep == TypeOK /\ [Next]_vars => TypeOK'
<1> SUFFICES ASSUME TypeOK, [Next]_vars PROVE TypeOK'
    OBVIOUS
<1>1. CASE OnOpen
    <2>1. isConnected' \in BOOLEAN
        BY <1>1 DEF OnOpen
    <2>2. QED
        BY <1>1, <2>1 DEF OnOpen, TypeOK, Request, GetInstruments
<1>2. CASE Dispatch
    <2>1. Head(inbox) \in Frame
        BY <1>2 DEF Dispatch, TypeOK
    <2>2. instruments' \in Seq(Instr) /\ selected' \in Instr \cup {NoInstrument}
        <3>1. CASE Head(inbox).type = "instruments"
            <4>1. Head(inbox).result \in Seq(Instr)
                BY <2>1, <3>1, FrameFields
            <4>2. QED
                BY <1>2, <3>1, <4>1 DEF Dispatch, OnMessage, TypeOK
        <3>2. CASE Head(inbox).type # "instruments"
            BY <1>2, <3>2 DEF Dispatch, OnMessage, TypeOK
        <3>3. QED
            BY <3>1, <3>2
    <2>3. book' \in Instr \cup {NoBook}
        BY <1>2, <2>1, FrameFields DEF Dispatch, OrderBookListener, TypeOK
    <2>4. QED
        BY <1>2, <2>2, <2>3 DEF Dispatch, TypeOK
<1>3. CASE OnClose
    <2>1. isConnected' \in BOOLEAN
        BY <1>3 DEF OnClose
    <2>2. QED
        BY <1>3, <2>1 DEF OnClose, TypeOK
<1>4. CASE Mount
    <2>1. outbox' \in Seq(Request)
        BY <1>4, SendType, RequestMembers DEF Mount, TypeOK
    <2>2. QED
        BY <1>4, <2>1 DEF Mount, TypeOK
<1>5. CASE Unmount
    BY <1>5 DEF Unmount, TypeOK
<1>6. CASE OrderBookEffect
    <2>1. outbox' \in Seq(Request)
        BY <1>6, SendType, RequestMembers DEF OrderBookEffect, TypeOK
    <2>2. QED
        BY <1>6, <2>1 DEF OrderBookEffect, TypeOK
<1>7. ASSUME NEW c \in Currencies, SelectCurrency(c) PROVE TypeOK'
    <2>1. outbox' \in Seq(Request)
        BY <1>7, SendType, RequestMembers DEF SelectCurrency, FetchInstruments, TypeOK
    <2>2. QED
        BY <1>7, <2>1 DEF SelectCurrency, TypeOK
<1>8. ASSUME NEW k \in Kinds, SelectKind(k) PROVE TypeOK'
    <2>1. outbox' \in Seq(Request)
        BY <1>8, SendType, RequestMembers DEF SelectKind, FetchInstruments, TypeOK
    <2>2. QED
        BY <1>8, <2>1 DEF SelectKind, TypeOK
<1>9. ASSUME NEW i \in Instr, SelectInstrument(i) PROVE TypeOK'
    <2>1. outbox' \in Seq(Request)
        BY <1>9, SendType, RequestMembers DEF SelectInstrument, TypeOK
    <2>2. QED
        BY <1>9, <2>1 DEF SelectInstrument, TypeOK
<1>10. CASE VenueReceive
    <2>1. Head(outbox) \in Request
        BY <1>10 DEF VenueReceive, TypeOK
    <2>2. CASE Head(outbox).type = "get_instruments"
        <3>1. PICK c \in Currencies, k \in Kinds : Head(outbox) = GetInstruments(c, k)
            BY <2>1, <2>2 DEF Request, GetOrderBook
        <3>2. InstrumentsFrame(Listing[<<c, k>>]) \in Frame
            BY DEF Frame
        <3>3. Head(outbox).currency = c /\ Head(outbox).kind = k
            BY <3>1 DEF GetInstruments
        <3>4. /\ inbox' = Append(inbox, InstrumentsFrame(Listing[<<c, k>>]))
              /\ venueSubs' = venueSubs
            BY <1>10, <2>2, <3>3 DEF VenueReceive
        <3>5. inbox' \in Seq(Frame) /\ venueSubs' \subseteq Instr
            BY <3>2, <3>4 DEF TypeOK
        <3>6. QED
            BY <1>10, <3>5 DEF VenueReceive, TypeOK
    <2>3. CASE Head(outbox).type # "get_instruments"
        <3>1. PICK i \in Instr \cup {NoInstrument} : Head(outbox) = GetOrderBook(i)
            BY <2>1, <2>3 DEF Request, GetInstruments
        <3>2. i \in Instr => OrderBookUpdate(i) \in Frame
            BY DEF Frame
        <3>3. Head(outbox).instrument = i
            BY <3>1 DEF GetOrderBook
        <3>4. /\ i \in Instr => inbox' = Append(inbox, OrderBookUpdate(i))
              /\ i \in Instr => venueSubs' = venueSubs \cup {i}
              /\ i \notin Instr => UNCHANGED <<inbox, venueSubs>>
            BY <1>10, <2>3, <3>3 DEF VenueReceive
        <3>5. inbox' \in Seq(Frame) /\ venueSubs' \subseteq Instr
            <4>1. CASE i \in Instr
                <5>1. inbox \in Seq(Frame) /\ venueSubs \subseteq Instr
                    BY DEF TypeOK
                <5>2. OrderBookUpdate(i) \in Frame
                    BY <3>2, <4>1
                <5>3. inbox' = Append(inbox, OrderBookUpdate(i))
                    BY <3>4, <4>1
                <5>4. venueSubs' = venueSubs \cup {i}
                    BY <3>4, <4>1
                <5>5. inbox' \in Seq(Frame)
                    BY <5>1, <5>2, <5>3
                <5>6. venueSubs' \subseteq Instr
                    BY <4>1, <5>1, <5>4
                <5>7. QED
                    BY <5>5, <5>6
            <4>2. CASE i \notin Instr
                BY <3>4, <4>2 DEF TypeOK
            <4>3. QED
                BY <4>1, <4>2
        <3>6. QED
            BY <1>10, <3>5 DEF VenueReceive, TypeOK
    <2>4. QED
        BY <2>2, <2>3
<1>11. ASSUME NEW i \in Instr, VenuePush(i) PROVE TypeOK'
    BY <1>11 DEF VenuePush, TypeOK, Frame
<1>12. CASE ConnectionLost
    BY <1>12 DEF ConnectionLost, TypeOK
<1>13. CASE Halted \/ UNCHANGED vars
    BY <1>13 DEF Halted, vars, TypeOK
<1>14. QED
    BY <1>1, <1>2, <1>3, <1>4, <1>5, <1>6, <1>7, <1>8, <1>9, <1>10, <1>11,
       <1>12, <1>13 DEF Next

(* The client's state keeps its types.                                    *)
LEMMA TypeCorrect == Spec => []TypeOK
<1>1. QED
    BY TypeInit, TypeStep, PTL DEF Spec

(* Send of a get_orderbook for x: when the socket is open the request is  *)
(* the last element of the new outbox; the earlier elements are kept.     *)
LEMMA SendKeeps ==
    ASSUME NEW q \in Seq(Request), NEW r \in Request
    PROVE  /\ \A n \in DOMAIN q : n \in DOMAIN Send(q, r) /\ Send(q, r)[n] = q[n]
           /\ conn = "open" => \E n \in DOMAIN Send(q, r) : Send(q, r)[n] = r
<1>1. CASE conn = "open"
    <2>1. Send(q, r) = Append(q, r)
        BY <1>1 DEF Send
    <2>2. /\ \A n \in DOMAIN q : n \in DOMAIN Append(q, r) /\ Append(q, r)[n] = q[n]
          /\ Len(q) + 1 \in DOMAIN Append(q, r) /\ Append(q, r)[Len(q) + 1] = r
        OBVIOUS
    <2>3. QED
        BY <2>1, <2>2
<1>2. CASE conn # "open"
    BY <1>2 DEF Send
<1>3. QED
    BY <1>1, <1>2

(* The inductive invariant holds initially.                               *)
LEMMA IInvInit == Init => IInv
BY TypeInit DEF Init, IInv, ConnInv, SubscribedRequested

(* While the socket is open, the instrument OrderBook listens for is      *)
(* subscribed at the venue or its get_orderbook is still on the wire.     *)
LEMMA IInvStep == IInv /\ [Next]_vars => IInv'
<1> SUFFICES ASSUME IInv, [Next]_vars PROVE IInv'
    OBVIOUS
<1> USE DEF IInv
<1>0. TypeOK'
    BY TypeStep
<1>1. CASE OnOpen
    <2>1. ConnInv'
        BY <1>1, Zenon DEF OnOpen, ConnInv
    <2>2. SubscribedRequested'
        BY <1>1 DEF OnOpen, ConnInv, SubscribedRequested, TypeOK
    <2>3. QED
        BY <1>0, <2>1, <2>2
<1>2. CASE Dispatch
    BY <1>0, <1>2 DEF Dispatch, ConnInv, SubscribedRequested
<1>3. CASE OnClose
    <2>1. ConnInv'
        BY <1>3, Zenon DEF OnClose, ConnInv
    <2>2. SubscribedRequested'
        BY <1>3 DEF OnClose, SubscribedRequested
    <2>3. QED
        BY <1>0, <2>1, <2>2
<1>4. CASE Mount
    <2>1. ConnInv'
        BY <1>4 DEF Mount, ConnInv
    <2>2. SubscribedRequested'
        BY <1>4, SendKeeps, RequestMembers DEF Mount, SubscribedRequested, TypeOK
    <2>3. QED
        BY <1>0, <2>1, <2>2
<1>5. CASE Unmount
    BY <1>0, <1>5 DEF Unmount, ConnInv, SubscribedRequested
<1>6. CASE OrderBookEffect
    <2>1. ConnInv'
        BY <1>6 DEF OrderBookEffect, ConnInv
    <2>2. SubscribedRequested'
        BY <1>6, SendKeeps, RequestMembers DEF OrderBookEffect, SubscribedRequested, TypeOK
    <2>3. QED
        BY <1>0, <2>1, <2>2
<1>7. ASSUME NEW c \in Currencies, SelectCurrency(c) PROVE IInv'
    <2>1. ConnInv'
        BY <1>7 DEF SelectCurrency, ConnInv
    <2>2. SubscribedRequested'
        BY <1>7, SendKeeps, RequestMembers DEF SelectCurrency, FetchInstruments,
                                               SubscribedRequested, TypeOK
    <2>3. QED
        BY <1>0, <2>1, <2>2
<1>8. ASSUME NEW k \in Kinds, SelectKind(k) PROVE IInv'
    <2>1. ConnInv'
        BY <1>8 DEF SelectKind, ConnInv
    <2>2. SubscribedRequested'
        BY <1>8, SendKeeps, RequestMembers DEF SelectKind, FetchInstruments,
                                               SubscribedRequested, TypeOK
    <2>3. QED
        BY <1>0, <2>1, <2>2
<1>9. ASSUME NEW i \in Instr, SelectInstrument(i) PROVE IInv'
    <2>1. ConnInv'
        BY <1>9 DEF SelectInstrument, ConnInv
    <2>2. SubscribedRequested'
        BY <1>9, SendKeeps, RequestMembers DEF SelectInstrument, SubscribedRequested, TypeOK
    <2>3. QED
        BY <1>0, <2>1, <2>2
<1>10. CASE VenueReceive
    <2>1. ConnInv'
        BY <1>10 DEF VenueReceive, ConnInv
    <2>2. SubscribedRequested'
        <3> SUFFICES ASSUME subscribed \in Instr
                     PROVE  \/ subscribed \in venueSubs'
                            \/ \E n \in DOMAIN outbox' : outbox'[n] = GetOrderBook(subscribed)
            BY <1>10 DEF VenueReceive, SubscribedRequested
        <3>1. CASE subscribed \in venueSubs
            BY <1>10, <3>1 DEF VenueReceive
        <3>2. CASE subscribed \notin venueSubs
            <4>1. PICK n \in DOMAIN outbox : outbox[n] = GetOrderBook(subscribed)
                BY <1>10, <3>2 DEF VenueReceive, SubscribedRequested
            <4>2. CASE n = 1
                <5>1. Head(outbox).type = "get_orderbook"
                      /\ Head(outbox).instrument = subscribed
                    BY <4>1, <4>2 DEF GetOrderBook, TypeOK
                <5>2. QED
                    BY <1>10, <5>1 DEF VenueReceive
            <4>3. CASE n # 1
                <5>1. n - 1 \in DOMAIN Tail(outbox) /\ Tail(outbox)[n - 1] = outbox[n]
                    BY <4>3 DEF TypeOK
                <5>2. QED
                    BY <1>10, <4>1, <5>1 DEF VenueReceive
            <4>4. QED
                BY <4>2, <4>3
        <3>3. QED
            BY <3>1, <3>2
    <2>3. QED
        BY <1>0, <2>1, <2>2
<1>11. ASSUME NEW i \in Instr, VenuePush(i) PROVE IInv'
    BY <1>0, <1>11 DEF VenuePush, ConnInv, SubscribedRequested
<1>12. CASE ConnectionLost
    BY <1>0, <1>12 DEF ConnectionLost, ConnInv, SubscribedRequested
<1>13. CASE Halted \/ UNCHANGED vars
    BY <1>0, <1>13 DEF Halted, vars, ConnInv, SubscribedRequested
<1>14. QED
    BY <1>0, <1>1, <1>2, <1>3, <1>4, <1>5, <1>6, <1>7, <1>8, <1>9, <1>10, <1>11,
       <1>12, <1>13 DEF Next

(* The instrument OrderBook listens for is requested from the venue for   *)
(* as long as the socket is open (OrderBook.tsx's effect sends            *)
(* get_orderbook with every listener it adds).                            *)
THEOREM SubscribedAlwaysRequested == Spec => []SubscribedRequested
<1>1. IInv => SubscribedRequested
    BY DEF IInv
<1>2. QED
    BY IInvInit, IInvStep, <1>1, PTL DEF Spec

(* The inductive invariant TLC checks as IInv holds in every behaviour.  *)
THEOREM IInvHolds == Spec => []IInv
BY IInvInit, IInvStep, PTL DEF Spec

-----------------------------------------------------------------------------
(* The instrument list follows the latest selection *)

(* The head of a non-empty sequence over S is in S.                      *)
LEMMA SeqHead ==
    ASSUME NEW S, NEW q \in Seq(S), q # <<>>
    PROVE  Head(q) \in S /\ Head(q) = q[1] /\ 1 \in DOMAIN q
OBVIOUS

(* Appending a frame of type t adds the new last position to the         *)
(* positions of type t; appending another type leaves them as they were. *)
LEMMA IdxAppend ==
    ASSUME NEW S, NEW q \in Seq(S), NEW r, NEW t
    PROVE  /\ TypeIdx(q, t) \subseteq 1..Len(q)
           /\ TypeIdx(Append(q, r), t) =
                 IF r.type = t THEN TypeIdx(q, t) \cup {Len(q) + 1} ELSE TypeIdx(q, t)
BY DEF TypeIdx

LEMMA IdxAppendOther ==
    ASSUME NEW S, NEW q \in Seq(S), NEW r, NEW t, r.type # t
    PROVE  TypeIdx(Append(q, r), t) = TypeIdx(q, t)
BY IdxAppend

(* The last position of type t after an append.                          *)
LEMMA LastAppend ==
    ASSUME NEW S, NEW q \in Seq(S), NEW r, NEW t, NEW n \in DOMAIN Append(q, r)
    PROVE  IsLast(Append(q, r), t, n) <=>
               IF r.type = t THEN n = Len(q) + 1
               ELSE n \in DOMAIN q /\ IsLast(q, t, n)
<1>1. TypeIdx(q, t) \subseteq 1..Len(q) /\ n \in 1..(Len(q) + 1) /\ Len(q) \in Nat
    BY IdxAppend
<1>2. CASE r.type = t
    <2>1. TypeIdx(Append(q, r), t) = TypeIdx(q, t) \cup {Len(q) + 1}
        BY <1>2, IdxAppend
    <2>2. IsLast(Append(q, r), t, n) => n = Len(q) + 1
        <3>1. ASSUME IsLast(Append(q, r), t, n) PROVE Len(q) + 1 <= n
            BY <2>1, <3>1 DEF IsLast
        <3>2. QED
            BY <1>1, <3>1
    <2>3. n = Len(q) + 1 => IsLast(Append(q, r), t, n)
        BY <1>1, <2>1 DEF IsLast
    <2>4. QED
        BY <1>2, <2>2, <2>3
<1>3. CASE r.type # t
    <2>1. TypeIdx(Append(q, r), t) = TypeIdx(q, t)
        BY <1>3, IdxAppend
    <2>2. QED
        BY <1>1, <1>3, <2>1 DEF IsLast
<1>4. QED
    BY <1>2, <1>3

(* Removing the head shifts the positions of type t down by one.          *)
LEMMA IdxTail ==
    ASSUME NEW S, NEW q \in Seq(S), q # <<>>, NEW t
    PROVE  TypeIdx(Tail(q), t) = {m - 1 : m \in TypeIdx(q, t) \ {1}}
<1>1. \A m \in TypeIdx(Tail(q), t) : m + 1 \in TypeIdx(q, t) \ {1} /\ m = (m + 1) - 1
    BY DEF TypeIdx
<1>2. \A m \in TypeIdx(q, t) \ {1} : m - 1 \in TypeIdx(Tail(q), t)
    BY DEF TypeIdx
<1>3. QED
    BY <1>1, <1>2

(* Removing the head shifts the last position of type t down by one; if   *)
(* none of type t is left, the head was the only one.                     *)
LEMMA LastTail ==
    ASSUME NEW S, NEW q \in Seq(S), q # <<>>, NEW t
    PROVE  /\ \A n \in DOMAIN Tail(q) :
                 /\ n + 1 \in DOMAIN q
                 /\ Tail(q)[n] = q[n + 1]
                 /\ IsLast(Tail(q), t, n) <=> IsLast(q, t, n + 1)
           /\ TypeIdx(Tail(q), t) = {} => TypeIdx(q, t) \subseteq {1}
<1>1. \A n \in DOMAIN Tail(q) : n + 1 \in DOMAIN q /\ Tail(q)[n] = q[n + 1]
    OBVIOUS
<1>2. TypeIdx(Tail(q), t) = {m - 1 : m \in TypeIdx(q, t) \ {1}}
    BY IdxTail
<1>3. TypeIdx(q, t) \subseteq DOMAIN q
    BY DEF TypeIdx
<1>4. ASSUME NEW n \in DOMAIN Tail(q)
      PROVE  IsLast(Tail(q), t, n) <=> IsLast(q, t, n + 1)
    <2>1. n \in TypeIdx(Tail(q), t) <=> n + 1 \in TypeIdx(q, t)
        BY <1>1 DEF TypeIdx
    <2>2. (\A m \in TypeIdx(Tail(q), t) : m <= n) <=> (\A m \in TypeIdx(q, t) : m <= n + 1)
        <3>1. TypeIdx(q, t) \subseteq Nat /\ n \in Nat
            BY <1>3
        <3>2. ASSUME \A m \in TypeIdx(Tail(q), t) : m <= n, NEW m \in TypeIdx(q, t)
              PROVE  m <= n + 1
            <4>1. CASE m = 1
                BY <3>1, <4>1
            <4>2. CASE m # 1
                <5>1. m - 1 \in TypeIdx(Tail(q), t)
                    BY <1>2, <4>2
                <5>2. QED
                    BY <3>1, <3>2, <5>1
            <4>3. QED
                BY <4>1, <4>2
        <3>3. ASSUME \A m \in TypeIdx(q, t) : m <= n + 1, NEW m \in TypeIdx(Tail(q), t)
              PROVE  m <= n
            <4>1. m + 1 \in TypeIdx(q, t) /\ m \in Nat
                BY <1>1 DEF TypeIdx
            <4>2. QED
                BY <3>3, <4>1
        <3>4. QED
            BY <3>2, <3>3
    <2>3. QED
        BY <2>1, <2>2 DEF IsLast
<1>5. TypeIdx(Tail(q), t) = {} => TypeIdx(q, t) \subseteq {1}
    <2>1. SUFFICES ASSUME TypeIdx(Tail(q), t) = {}, NEW m \in TypeIdx(q, t), m # 1
                   PROVE  FALSE
        OBVIOUS
    <2>2. m - 1 \in TypeIdx(Tail(q), t)
        BY <1>2, <2>1
    <2>3. QED
        BY <2>1, <2>2
<1>6. QED
    BY <1>1, <1>4, <1>5

(* What the client reads from a request on the wire.                     *)
LEMMA RequestKinds ==
    ASSUME NEW r \in Request
    PROVE  /\ r.type \in {"get_instruments", "get_orderbook"}
           /\ r.type = "get_instruments" =>
                 /\ r = GetInstruments(r.currency, r.kind)
                 /\ <<r.currency, r.kind>> \in Currencies \X Kinds
BY DEF Request, GetInstruments, GetOrderBook

(* The last get_instruments of q asks for x.                               *)
ReqsOK(q, x) == \A n \in DOMAIN q : IsLast(q, "get_instruments", n) => q[n] = x

(* The last "instruments" frame of q carries the listing l.                *)
FramesOK(q, l) == \A n \in DOMAIN q : IsLast(q, "instruments", n) => q[n].result = l

LEMMA ReqsAppend ==
    ASSUME NEW S, NEW q \in Seq(S), NEW r, NEW x
    PROVE  /\ r.type # "get_instruments" /\ ReqsOK(q, x) => ReqsOK(Append(q, r), x)
           /\ r.type = "get_instruments" /\ r = x =>
                 ReqsOK(Append(q, r), x) /\ TypeIdx(Append(q, r), "get_instruments") # {}
<1>1. ASSUME r.type # "get_instruments", ReqsOK(q, x) PROVE ReqsOK(Append(q, r), x)
    BY <1>1, LastAppend DEF ReqsOK
<1>2. ASSUME r.type = "get_instruments", r = x
      PROVE  ReqsOK(Append(q, r), x) /\ TypeIdx(Append(q, r), "get_instruments") # {}
    <2>1. ReqsOK(Append(q, r), x)
        BY <1>2, LastAppend DEF ReqsOK
    <2>2. Len(q) + 1 \in TypeIdx(Append(q, r), "get_instruments")
        BY <1>2 DEF TypeIdx
    <2>3. QED
        BY <2>1, <2>2
<1>3. QED
    BY <1>1, <1>2

LEMMA FramesAppend ==
    ASSUME NEW S, NEW q \in Seq(S), NEW r, NEW l
    PROVE  /\ r.type # "instruments" /\ FramesOK(q, l) => FramesOK(Append(q, r), l)
           /\ r.type = "instruments" /\ r.result = l =>
                 FramesOK(Append(q, r), l) /\ TypeIdx(Append(q, r), "instruments") # {}
<1>1. ASSUME r.type # "instruments", FramesOK(q, l) PROVE FramesOK(Append(q, r), l)
    BY <1>1, LastAppend DEF FramesOK
<1>2. ASSUME r.type = "instruments", r.result = l
      PROVE  FramesOK(Append(q, r), l) /\ TypeIdx(Append(q, r), "instruments") # {}
    <2>1. FramesOK(Append(q, r), l)
        BY <1>2, LastAppend DEF FramesOK
    <2>2. Len(q) + 1 \in TypeIdx(Append(q, r), "instruments")
        BY <1>2 DEF TypeIdx
    <2>3. QED
        BY <2>1, <2>2
<1>3. QED
    BY <1>1, <1>2

LEMMA OKTail ==
    ASSUME NEW S, NEW q \in Seq(S), q # <<>>, NEW x
    PROVE  /\ ReqsOK(q, x) => ReqsOK(Tail(q), x)
           /\ FramesOK(q, x) => FramesOK(Tail(q), x)
<1>1. ASSUME ReqsOK(q, x), NEW n \in DOMAIN Tail(q),
             IsLast(Tail(q), "get_instruments", n)
      PROVE  Tail(q)[n] = x
    <2>1. n + 1 \in DOMAIN q /\ Tail(q)[n] = q[n + 1]
          /\ IsLast(q, "get_instruments", n + 1)
        BY <1>1, LastTail
    <2>2. QED
        BY <1>1, <2>1 DEF ReqsOK
<1>2. ASSUME FramesOK(q, x), NEW n \in DOMAIN Tail(q),
             IsLast(Tail(q), "instruments", n)
      PROVE  Tail(q)[n].result = x
    <2>1. n + 1 \in DOMAIN q /\ Tail(q)[n] = q[n + 1]
          /\ IsLast(q, "instruments", n + 1)
        BY <1>2, LastTail
    <2>2. QED
        BY <1>2, <2>1 DEF FramesOK
<1>3. QED
    BY <1>1, <1>2 DEF ReqsOK, FramesOK

(* LatestInstruments in terms of ReqsOK and FramesOK.                      *)
LatestParts ==
    /\ ReqsOK(outbox, GetInstruments(currency, kind))
    /\ TypeIdx(outbox, "get_instruments") = {}
          => FramesOK(inbox, Listing[<<currency, kind>>])
    /\ TypeIdx(outbox, "get_instruments") = {} /\ TypeIdx(inbox, "instruments") = {}
          => instruments = Listing[<<currency, kind>>]

LEMMA LatestIsParts ==
    /\ LatestInstruments <=> (conn = "open" /\ isConnected => LatestParts)
    /\ LatestInstruments' <=> (conn' = "open" /\ isConnected' => LatestParts')
BY DEF LatestInstruments, LatestParts, ReqsOK, FramesOK

(* A step that adds a get_orderbook (or nothing) to the outbox and leaves  *)
(* the selection, the inbox and the list alone keeps LatestParts.         *)
LEMMA OrderBookRequestKeeps ==
    ASSUME TypeOK, LatestParts, NEW i,
           outbox' = outbox \/ outbox' = Append(outbox, GetOrderBook(i)),
           UNCHANGED <<currency, kind, inbox, instruments>>
    PROVE  LatestParts'
<1>1. GetOrderBook(i).type # "get_instruments" /\ outbox \in Seq(Request)
    BY DEF GetOrderBook, TypeOK
<1>2. CASE outbox' = outbox
    BY <1>2 DEF LatestParts
<1>3. CASE outbox' = Append(outbox, GetOrderBook(i))
    <2>1. ReqsOK(outbox', GetInstruments(currency, kind))
        BY <1>1, <1>3, ReqsAppend DEF LatestParts
    <2>2. TypeIdx(outbox', "get_instruments") = TypeIdx(outbox, "get_instruments")
        BY <1>1, <1>3, IdxAppendOther
    <2>3. QED
        BY <2>1, <2>2 DEF LatestParts
<1>4. QED
    BY <1>2, <1>3

(* A fetchInstruments for the selection now current makes it the latest.  *)
LEMMA FetchMakesLatest ==
    ASSUME TypeOK, outbox' = Append(outbox, GetInstruments(currency', kind'))
    PROVE  LatestParts'
<1>1. /\ ReqsOK(outbox', GetInstruments(currency', kind'))
      /\ TypeIdx(outbox', "get_instruments") # {}
    BY ReqsAppend DEF TypeOK, GetInstruments
<1>2. QED
    BY <1>1 DEF LatestParts

LEMMA LatestStep == IInv /\ LatestInstruments /\ [Next]_vars => LatestInstruments'
<1> SUFFICES ASSUME IInv, LatestInstruments, [Next]_vars,
                    conn' = "open", isConnected'
             PROVE  LatestParts'
    BY LatestIsParts
<1>0. TypeOK
    BY DEF IInv
<1>1. CASE OnOpen
    BY <1>0, <1>1, FetchMakesLatest DEF OnOpen
<1>2. CASE \E c \in Currencies : SelectCurrency(c)
    BY <1>0, <1>2, FetchMakesLatest DEF SelectCurrency, FetchInstruments, Send
<1>3. CASE \E k \in Kinds : SelectKind(k)
    BY <1>0, <1>3, FetchMakesLatest DEF SelectKind, FetchInstruments, Send
<1>4. CASE Mount \/ OrderBookEffect \/ \E i \in Instr : SelectInstrument(i)
    <2>1. LatestParts
        BY <1>4, LatestIsParts DEF Mount, OrderBookEffect, SelectInstrument
    <2>2. QED
        BY <1>0, <1>4, <2>1, OrderBookRequestKeeps
           DEF Mount, OrderBookEffect, SelectInstrument, Send
<1>5. CASE \E i \in Instr : VenuePush(i)
    <2>1. PICK i \in Instr : VenuePush(i)
        BY <1>5
    <2>2. LatestParts
        BY <2>1, LatestIsParts DEF VenuePush
    <2>3. OrderBookUpdate(i).type # "instruments"
        BY DEF OrderBookUpdate
    <2>4. /\ TypeIdx(outbox, "get_instruments") = {}
             => FramesOK(inbox', Listing[<<currency, kind>>])
          /\ TypeIdx(inbox', "instruments") = TypeIdx(inbox, "instruments")
        <3>1. inbox \in Seq(Frame) /\ inbox' = Append(inbox, OrderBookUpdate(i))
            BY <1>0, <2>1 DEF TypeOK, VenuePush
        <3>2. FramesOK(inbox, Listing[<<currency, kind>>]) => FramesOK(inbox', Listing[<<currency, kind>>])
            BY <2>3, <3>1, FramesAppend
        <3>3. TypeIdx(inbox', "instruments") = TypeIdx(inbox, "instruments")
            BY <2>3, <3>1, IdxAppendOther
        <3>4. QED
            BY <2>1, <2>2, <3>2, <3>3 DEF VenuePush, LatestParts
    <2>5. QED
        BY <2>1, <2>2, <2>4 DEF VenuePush, LatestParts
<1>6. CASE Dispatch
    <2> DEFINE f == Head(inbox)
    <2>1. LatestParts /\ inbox # <<>> /\ inbox' = Tail(inbox)
          /\ UNCHANGED <<currency, kind, outbox>>
        BY <1>6, LatestIsParts DEF Dispatch
    <2>2. inbox \in Seq(Frame) /\ f \in Frame /\ f = inbox[1] /\ 1 \in DOMAIN inbox
        <3>1. inbox \in Seq(Frame)
            BY <1>0 DEF TypeOK
        <3>2. QED
            BY <2>1, <3>1, SeqHead
    <2>3. ReqsOK(outbox', GetInstruments(currency', kind'))
        BY <2>1 DEF LatestParts
    <2>4. TypeIdx(outbox, "get_instruments") = {}
          => FramesOK(inbox', Listing[<<currency, kind>>])
        BY <2>1, <2>2, OKTail DEF LatestParts
    <2>5. ASSUME TypeIdx(outbox, "get_instruments") = {},
                 TypeIdx(inbox', "instruments") = {}
          PROVE  instruments' = Listing[<<currency, kind>>]
        <3>1. TypeIdx(inbox, "instruments") \subseteq {1}
            BY <2>1, <2>2, <2>5, LastTail
        <3>2. CASE f.type = "instruments"
            <4>1. IsLast(inbox, "instruments", 1)
                BY <2>2, <3>1, <3>2 DEF IsLast, TypeIdx
            <4>2. FramesOK(inbox, Listing[<<currency, kind>>])
                BY <2>1, <2>5 DEF LatestParts
            <4>3. f.result = Listing[<<currency, kind>>]
                BY <2>2, <4>1, <4>2 DEF FramesOK
            <4>4. QED
                BY <1>6, <3>2, <4>3 DEF Dispatch, OnMessage
        <3>3. CASE f.type # "instruments"
            <4>1. TypeIdx(inbox, "instruments") = {}
                BY <2>2, <3>1, <3>3 DEF TypeIdx
            <4>2. QED
                BY <1>6, <2>1, <2>5, <3>3, <4>1 DEF Dispatch, OnMessage, LatestParts
        <3>4. QED
            BY <3>2, <3>3
    <2>6. QED
        BY <2>1, <2>3, <2>4, <2>5 DEF LatestParts
<1>7. CASE VenueReceive
    <2> DEFINE r == Head(outbox)
    <2>1. LatestParts /\ outbox # <<>> /\ outbox' = Tail(outbox) /\ conn = "open"
          /\ UNCHANGED <<currency, kind, instruments>>
        BY <1>7, LatestIsParts DEF VenueReceive
    <2>2. /\ outbox \in Seq(Request) /\ inbox \in Seq(Frame)
          /\ r \in Request /\ r = outbox[1] /\ 1 \in DOMAIN outbox
        <3>1. outbox \in Seq(Request) /\ inbox \in Seq(Frame)
            BY <1>0 DEF TypeOK
        <3>2. QED
            BY <2>1, <3>1, SeqHead
    <2>3. ReqsOK(outbox', GetInstruments(currency', kind'))
        BY <2>1, <2>2, OKTail DEF LatestParts
    <2>4. CASE r.type = "get_instruments"
        <3>1. inbox' = Append(inbox, InstrumentsFrame(Listing[<<r.currency, r.kind>>]))
            BY <1>7, <2>4 DEF VenueReceive
        <3>2. ASSUME TypeIdx(outbox', "get_instruments") = {}
              PROVE  r = GetInstruments(currency, kind)
            <4>1. TypeIdx(outbox, "get_instruments") \subseteq {1}
                BY <2>1, <2>2, <3>2, LastTail
            <4>2. IsLast(outbox, "get_instruments", 1)
                BY <2>2, <2>4, <4>1 DEF IsLast, TypeIdx
            <4>3. QED
                BY <2>1, <2>2, <4>2 DEF LatestParts, ReqsOK
        <3>3. ASSUME TypeIdx(outbox', "get_instruments") = {}
              PROVE  FramesOK(inbox', Listing[<<currency, kind>>])
            <4>1. r.currency = currency /\ r.kind = kind
                BY <3>2, <3>3 DEF GetInstruments
            <4>2. InstrumentsFrame(Listing[<<r.currency, r.kind>>]).type = "instruments"
                  /\ InstrumentsFrame(Listing[<<r.currency, r.kind>>]).result = Listing[<<currency, kind>>]
                BY <4>1 DEF InstrumentsFrame
            <4>3. QED
                BY <2>2, <3>1, <4>2, FramesAppend
        <3>4. TypeIdx(inbox', "instruments") # {}
            <4>1. InstrumentsFrame(Listing[<<r.currency, r.kind>>]).type = "instruments"
                BY DEF InstrumentsFrame
            <4>2. QED
                BY <2>2, <3>1, <4>1, FramesAppend
        <3>5. QED
            BY <2>1, <2>3, <3>3, <3>4 DEF LatestParts
    <2>5. CASE r.type # "get_instruments"
        <3>1. \/ inbox' = inbox
              \/ inbox' = Append(inbox, OrderBookUpdate(r.instrument))
            BY <1>7, <2>5 DEF VenueReceive
        <3>2. OrderBookUpdate(r.instrument).type # "instruments"
            BY DEF OrderBookUpdate
        <3>3. TypeIdx(outbox', "get_instruments") = {}
              => TypeIdx(outbox, "get_instruments") = {}
            <4>1. TypeIdx(outbox', "get_instruments") = {}
                  => TypeIdx(outbox, "get_instruments") \subseteq {1}
                BY <2>1, <2>2, LastTail
            <4>2. QED
                BY <2>5, <4>1 DEF TypeIdx
        <3>4. /\ FramesOK(inbox, Listing[<<currency, kind>>])
                 => FramesOK(inbox', Listing[<<currency, kind>>])
              /\ TypeIdx(inbox', "instruments") = TypeIdx(inbox, "instruments")
            <4>1. CASE inbox' = inbox
                BY <4>1
            <4>2. CASE inbox' = Append(inbox, OrderBookUpdate(r.instrument))
                BY <2>2, <3>2, <4>2, FramesAppend, IdxAppendOther
            <4>3. QED
                BY <3>1, <4>1, <4>2
        <3>5. TypeIdx(inbox', "instruments") = TypeIdx(inbox, "instruments")
            BY <3>4
        <3>6. QED
            BY <2>1, <2>3, <3>3, <3>4, <3>5 DEF LatestParts
    <2>6. QED
        BY <2>4, <2>5
<1>8. CASE OnClose \/ ConnectionLost \/ Halted
    BY <1>8 DEF OnClose, ConnectionLost, Halted, vars
<1>9. CASE Unmount
    BY <1>9 DEF Unmount
<1>10. CASE UNCHANGED vars
    BY <1>10, LatestIsParts DEF vars, LatestParts, ReqsOK, FramesOK, TypeIdx, IsLast
<1>11. QED
    BY <1>1, <1>2, <1>3, <1>4, <1>5, <1>6, <1>7, <1>8, <1>9, <1>10 DEF Next

LEMMA ListingIInv == Spec => [](IInv /\ LatestInstruments)
<1>1. Init => IInv /\ LatestInstruments
    BY IInvInit DEF Init, LatestInstruments
<1>2. IInv /\ LatestInstruments /\ [Next]_vars => (IInv /\ LatestInstruments)'
    BY IInvStep, LatestStep
<1>3. QED
    BY <1>1, <1>2, PTL DEF Spec

(* The inductive invariant TLC checks as ListingInv holds in every        *)
(* behaviour.                                                              *)
THEOREM ListingInvHolds == Spec => []ListingInv
<1>1. IInv /\ LatestInstruments => ListingInv
    BY DEF IInv, ListingInv
<1>2. QED
    BY <1>1, ListingIInv, PTL

(* In every behaviour, once every get_instruments the client sent has     *)
(* been answered and dispatched on the open socket, the list shown is the *)
(* venue's listing for the currency and type now selected: no change of   *)
(* either Select is lost and no answer to an earlier one is applied last. *)
THEOREM InstrumentsAlwaysMatch == Spec => []InstrumentsMatchSelection
<1>1. IInv /\ LatestInstruments => InstrumentsMatchSelection
    <2> SUFFICES ASSUME IInv, LatestInstruments, conn = "open", isConnected,
                        ~InstrumentsInFlight
                 PROVE  instruments = Listing[<<currency, kind>>]
        BY DEF InstrumentsMatchSelection
    <2>1. TypeIdx(outbox, "get_instruments") = {} /\ TypeIdx(inbox, "instruments") = {}
        BY DEF InstrumentsInFlight, TypeIdx
    <2>2. QED
        BY <2>1, LatestIsParts DEF LatestParts
<1>2. QED
    BY <1>1, ListingIInv, PTL

=============================================================================
