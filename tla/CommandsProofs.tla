--------------------------- MODULE CommandsProofs ---------------------------
(***************************************************************************)
(* Proofs about Commands for every value of its constants: the type        *)
(* invariant, and that OrderForm's isSubmitting is correlated with the one *)
(* place_order of it in flight while the socket is open.                   *)
(***************************************************************************)
EXTENDS Commands, TLAPS

USE ConstantsAssumption

-----------------------------------------------------------------------------
(* Positions of a frame type in a queue *)

(* Appending a frame of another type leaves the positions of type t as    *)
(* they were; appending one of type t adds the new last position.         *)
LEMMA IdxAppend ==
    ASSUME NEW S, NEW q \in Seq(S), NEW r, NEW t
    PROVE  TypeIdx(Append(q, r), t) =
               IF r.type = t THEN TypeIdx(q, t) \cup {Len(q) + 1} ELSE TypeIdx(q, t)
BY DEF TypeIdx

(* Removing the head shifts the positions of type t down by one.          *)
LEMMA IdxTail ==
    ASSUME NEW S, NEW q \in Seq(S), q # <<>>, NEW t
    PROVE  TypeIdx(Tail(q), t) = {m - 1 : m \in TypeIdx(q, t) \ {1}}
<1>1. \A m \in TypeIdx(Tail(q), t) : m + 1 \in TypeIdx(q, t) \ {1} /\ m = (m + 1) - 1
    BY DEF TypeIdx
<1>2. \A m \in TypeIdx(q, t) \ {1} : m - 1 \in TypeIdx(Tail(q), t)
    BY DEF TypeIdx
<1>3. QED
    BY <1>1, <1>2

(* The consequences of IdxTail the invariance proof uses.                 *)
LEMMA IdxTailCases ==
    ASSUME NEW S, NEW q \in Seq(S), q # <<>>, NEW t
    PROVE  /\ TypeIdx(q, t) = {} => TypeIdx(Tail(q), t) = {}
           /\ TypeIdx(q, t) = {1} => TypeIdx(Tail(q), t) = {}
           /\ \A n \in DOMAIN q :
                 TypeIdx(q, t) = {n} /\ n # 1
                    => n - 1 \in DOMAIN Tail(q) /\ TypeIdx(Tail(q), t) = {n - 1}
<1>1. TypeIdx(Tail(q), t) = {m - 1 : m \in TypeIdx(q, t) \ {1}}
    BY IdxTail
<1>2. TypeIdx(q, t) = {} => TypeIdx(Tail(q), t) = {}
    BY <1>1
<1>3. TypeIdx(q, t) = {1} => TypeIdx(Tail(q), t) = {}
    BY <1>1
<1>4. ASSUME NEW n \in DOMAIN q, TypeIdx(q, t) = {n}, n # 1
      PROVE  n - 1 \in DOMAIN Tail(q) /\ TypeIdx(Tail(q), t) = {n - 1}
    <2>1. TypeIdx(q, t) \ {1} = {n}
        BY <1>4
    <2>2. TypeIdx(Tail(q), t) = {n - 1}
        BY <1>1, <2>1
    <2>3. n - 1 \in DOMAIN Tail(q)
        BY <1>4
    <2>4. QED
        BY <2>2, <2>3
<1>5. QED
    BY <1>2, <1>3, <1>4

-----------------------------------------------------------------------------
(* Types *)

(* The frames the client and the venue build are frames.                *)
LEMMA Members ==
    /\ \A i \in Instr : PlaceOrder(i) \in Request
    /\ \A o \in Orders, g \in 1..MaxDialogs : ModifyOrder(o, g) \in Request
    /\ \A o \in Orders : CancelOrder(o) \in Request
    /\ GetOpenOrders \in Request
    /\ \A r \in Outcomes, i \in Instr : OrderResponse(r, i) \in Frame
    /\ \A r \in Outcomes, g \in 1..MaxDialogs : ModifyResponse(r, g) \in Frame
    /\ \A r \in Outcomes : CancelResponse(r) \in Frame
    /\ \A x \in SUBSET Orders : OpenOrdersUpdate(x) \in Frame
BY DEF Request, Frame

(* What the venue reads from a request has the type it needs.             *)
LEMMA RequestFields ==
    ASSUME NEW r \in Request
    PROVE  /\ r.type = "place_order" => r.instrument \in Instr
           /\ r.type = "modify_order" => r.order \in Orders /\ r.form \in 1..MaxDialogs
           /\ r.type = "cancel_order" => r.order \in Orders
BY DEF Request, PlaceOrder, ModifyOrder, CancelOrder, GetOpenOrders

(* What the client reads from a frame has the type TypeOK requires.       *)
LEMMA FrameFields ==
    ASSUME NEW f \in Frame
    PROVE  /\ f.type = "order_response" => Message(f.outcome, f.instrument) \in MessageValue(Instr)
           /\ f.type = "modify_response" => Message(f.outcome, f.form) \in MessageValue(1..MaxDialogs)
           /\ f.type = "cancel_response" => f.outcome \in Outcomes
           /\ f.type = "open_orders_update" => f.result \subseteq Orders
BY DEF Frame, OrderResponse, ModifyResponse, CancelResponse, OpenOrdersUpdate,
       Message, MessageValue

(* Send appends a request to the outbox or leaves it alone.               *)
LEMMA SendType ==
    ASSUME NEW q \in Seq(Request), NEW r \in Request
    PROVE  Send(q, r) \in Seq(Request)
BY DEF Send

(* The initial state satisfies the inductive invariant.                  *)
LEMMA IInvInit == Init => IInv
<1> SUFFICES ASSUME Init PROVE IInv
    OBVIOUS
<1>1. /\ isConnected \in BOOLEAN /\ mounted \in BOOLEAN
      /\ placeSubmitting \in BOOLEAN /\ modifySubmitting \in BOOLEAN
    BY DEF Init
<1>2. TypeOK
    BY <1>1 DEF Init, TypeOK, MessageValue
<1>3. StateInv
    BY DEF Init, StateInv
<1>4. PlaceCorrelated
    BY DEF Init, PlaceCorrelated, PlaceOut, PlaceIn, TypeIdx
<1>5. QED
    BY <1>2, <1>3, <1>4 DEF IInv

(* Every step keeps the types, given the facts of StateInv.               *)
LEMMA TypeStep == TypeOK /\ StateInv /\ [Next]_vars => TypeOK'
<1> SUFFICES ASSUME TypeOK, StateInv, [Next]_vars PROVE TypeOK'
    OBVIOUS
<1>1. CASE OnOpen
    <2>1. isConnected' \in BOOLEAN
        BY <1>1 DEF OnOpen
    <2>2. QED
        BY <1>1, <2>1 DEF OnOpen, formVars, TypeOK
<1>2. CASE Mount
    <2>1. mounted' \in BOOLEAN
        BY <1>2 DEF Mount
    <2>2. outbox' \in Seq(Request)
        BY <1>2, Members, SendType DEF Mount, TypeOK
    <2>3. QED
        BY <1>2, <2>1, <2>2 DEF Mount, formVars, TypeOK
<1>3. CASE Dispatch
    <2>1. Head(inbox) \in Frame /\ inbox' \in Seq(Frame)
        BY <1>3 DEF Dispatch, TypeOK
    <2>2. CASE mounted
        <3> DEFINE f == Head(inbox)
        <3>1. PlaceListener(f) /\ OpenOrdersListener(f) /\ ModifyListener(f)
            BY <1>3, <2>2 DEF Dispatch
        <3>2. placeSubmitting' \in BOOLEAN /\ placeMsg' \in MessageValue(Instr)
            BY <2>1, <3>1, FrameFields DEF PlaceListener, TypeOK
        <3>3. openOrders' \subseteq Orders /\ cancelMsg' \in {NoMessage} \cup Outcomes
            BY <2>1, <3>1, FrameFields DEF OpenOrdersListener, TypeOK
        <3>4. modifySubmitting' \in BOOLEAN /\ modifyMsg' \in MessageValue(1..MaxDialogs)
            BY <2>1, <3>1, FrameFields DEF ModifyListener, TypeOK
        <3>5. QED
            BY <1>3, <2>1, <3>2, <3>3, <3>4 DEF Dispatch, TypeOK
    <2>3. CASE ~mounted
        BY <1>3, <2>1, <2>3 DEF Dispatch, TypeOK
    <2>4. QED
        BY <2>2, <2>3
<1>4. CASE OnClose
    <2>1. isConnected' \in BOOLEAN
        BY <1>4 DEF OnClose
    <2>2. QED
        BY <1>4, <2>1 DEF OnClose, formVars, TypeOK
<1>5. CASE Unmount
    <2>1. /\ mounted' \in BOOLEAN /\ placeSubmitting' \in BOOLEAN
          /\ modifySubmitting' \in BOOLEAN
        BY <1>5 DEF Unmount
    <2>2. QED
        BY <1>5, <2>1 DEF Unmount, TypeOK, MessageValue
<1>6. CASE PlaceSubmit
    <2>1. placeSubmitting' \in BOOLEAN
        BY <1>6 DEF PlaceSubmit, TypeOK
    <2>2. outbox' \in Seq(Request)
        <3>1. CASE conn = "open"
            <4>1. outbox' = Append(outbox, PlaceOrder(instrument))
                BY <1>6, <3>1 DEF PlaceSubmit
            <4>2. PlaceOrder(instrument) \in Request
                BY Members DEF TypeOK
            <4>3. QED
                BY <4>1, <4>2 DEF TypeOK
        <3>2. CASE conn # "open"
            <4>1. outbox' = outbox
                BY <1>6, <3>2 DEF PlaceSubmit
            <4>2. QED
                BY <4>1 DEF TypeOK
        <3>3. QED
            BY <3>1, <3>2
    <2>3. placeMsg' \in MessageValue(Instr)
        BY <1>6 DEF PlaceSubmit, TypeOK, MessageValue, Message, Outcomes
    <2>4. QED
        BY <1>6, <2>1, <2>2, <2>3 DEF PlaceSubmit, TypeOK
<1>7. ASSUME NEW i \in Instr, SelectInstrument(i) PROVE TypeOK'
    BY <1>7 DEF SelectInstrument, TypeOK, MessageValue
<1>8. ASSUME NEW o \in Orders, CancelClick(o) PROVE TypeOK'
    <2>1. outbox' \in Seq(Request)
        BY <1>8, Members, SendType DEF CancelClick, TypeOK
    <2>2. QED
        BY <1>8, <2>1 DEF CancelClick, formVars, TypeOK
<1>9. ASSUME NEW o \in Orders, OpenModify(o) PROVE TypeOK'
    <2>1. modifySubmitting' \in BOOLEAN
        BY <1>9 DEF OpenModify
    <2>2. QED
        BY <1>9, <2>1 DEF OpenModify, TypeOK, MessageValue
<1>10. CASE CloseModify \/ DialogRowRemoved
    <2>1. CloseDialog
        BY <1>10 DEF CloseModify, DialogRowRemoved
    <2>2. modifySubmitting' \in BOOLEAN
        BY <2>1 DEF CloseDialog
    <2>3. QED
        BY <2>1, <2>2 DEF CloseDialog, TypeOK, MessageValue
<1>11. CASE ModifySubmit
    <2>1. dialog \in Orders /\ formGen \in 1..MaxDialogs
        BY <1>11 DEF ModifySubmit, StateInv, TypeOK
    <2>2. outbox' \in Seq(Request)
        BY <1>11, <2>1, Members, SendType DEF ModifySubmit, TypeOK
    <2>3. modifySubmitting' \in BOOLEAN
        BY <1>11 DEF ModifySubmit
    <2>4. QED
        BY <1>11, <2>2, <2>3 DEF ModifySubmit, TypeOK, MessageValue
<1>12. CASE VenuePlace
    <2>1. Head(outbox) \in Request /\ Head(outbox).type = "place_order"
        BY <1>12 DEF VenuePlace, TypeOK
    <2>2. Head(outbox).instrument \in Instr
        BY <2>1, RequestFields
    <2>3. PICK r \in Outcomes : inbox' = Append(inbox, OrderResponse(r, Head(outbox).instrument))
        BY <1>12 DEF VenuePlace, Outcomes
    <2>4. inbox' \in Seq(Frame)
        BY <2>2, <2>3, Members DEF TypeOK
    <2>5. outbox' \in Seq(Request)
        BY <1>12 DEF VenuePlace, TypeOK
    <2>6. resting' \subseteq used' /\ used' \subseteq Orders
        BY <1>12 DEF VenuePlace, TypeOK
    <2>7. QED
        BY <1>12, <2>4, <2>5, <2>6 DEF VenuePlace, VenueVars, formVars, TypeOK
<1>13. CASE VenueModify
    <2>1. Head(outbox) \in Request /\ Head(outbox).type = "modify_order"
        BY <1>13 DEF VenueModify, TypeOK
    <2>2. Head(outbox).form \in 1..MaxDialogs
        BY <2>1, RequestFields
    <2>3. inbox' \in Seq(Frame)
        BY <1>13, <2>2, Members DEF VenueModify, TypeOK, Outcomes
    <2>4. QED
        BY <1>13, <2>3 DEF VenueModify, VenueVars, formVars, TypeOK
<1>14. CASE VenueCancel
    <2>1. Head(outbox) \in Request /\ Head(outbox).type = "cancel_order"
        BY <1>14 DEF VenueCancel, TypeOK
    <2>2. Head(outbox).order \in Orders
        BY <2>1, RequestFields
    <2>3. outbox' \in Seq(Request)
        BY <1>14 DEF VenueCancel, TypeOK
    <2>4. CASE Head(outbox).order \in resting
        <3>1. /\ inbox' = Append(Append(inbox, CancelResponse("success")),
                                 OpenOrdersUpdate(resting \ {Head(outbox).order}))
              /\ resting' = resting \ {Head(outbox).order}
              /\ cancelled' = cancelled \cup {Head(outbox).order}
            BY <1>14, <2>4 DEF VenueCancel
        <3>2. inbox' \in Seq(Frame)
            BY <3>1, Members DEF TypeOK, Outcomes
        <3>3. QED
            BY <1>14, <2>3, <2>4, <3>1, <3>2 DEF VenueCancel, VenueVars, formVars, TypeOK
    <2>5. CASE Head(outbox).order \notin resting
        <3>1. /\ inbox' = Append(inbox, CancelResponse("error"))
              /\ resting' = resting /\ cancelled' = cancelled
            BY <1>14, <2>5 DEF VenueCancel
        <3>2. inbox' \in Seq(Frame)
            BY <3>1, Members DEF TypeOK, Outcomes
        <3>3. QED
            BY <1>14, <2>3, <3>1, <3>2 DEF VenueCancel, VenueVars, formVars, TypeOK
    <2>6. QED
        BY <2>4, <2>5
<1>15. CASE VenueGetOpenOrders
    <2>1. inbox' \in Seq(Frame)
        BY <1>15, Members DEF VenueGetOpenOrders, TypeOK
    <2>2. QED
        BY <1>15, <2>1 DEF VenueGetOpenOrders, VenueVars, formVars, TypeOK
<1>16. ASSUME NEW o \in Orders, VenueFill(o) PROVE TypeOK'
    BY <1>16 DEF VenueFill, VenueVars, formVars, TypeOK
<1>17. CASE VenuePushOrders
    <2>1. inbox' \in Seq(Frame)
        BY <1>17, Members DEF VenuePushOrders, TypeOK
    <2>2. QED
        BY <1>17, <2>1 DEF VenuePushOrders, VenueVars, formVars, TypeOK
<1>18. CASE ConnectionLost
    BY <1>18 DEF ConnectionLost, formVars, TypeOK
<1>19. CASE Halted \/ UNCHANGED vars
    BY <1>19 DEF Halted, vars, TypeOK
<1>20. QED
    BY <1>1, <1>2, <1>3, <1>4, <1>5, <1>6, <1>7, <1>8, <1>9, <1>10, <1>11,
       <1>12, <1>13, <1>14, <1>15, <1>16, <1>17, <1>18, <1>19 DEF Next

-----------------------------------------------------------------------------
(* The correlation of OrderForm with its placement *)

(* A step that changes neither the socket state, nor isSubmitting, nor   *)
(* the positions of place_order and order_response, and only lengthens   *)
(* the queues, keeps PlaceCorrelated.                                     *)
LEMMA CorrelatedKept ==
    ASSUME PlaceCorrelated,
           conn' = conn, placeSubmitting' = placeSubmitting,
           PlaceOut' = PlaceOut, PlaceIn' = PlaceIn,
           DOMAIN outbox \subseteq DOMAIN outbox',
           DOMAIN inbox \subseteq DOMAIN inbox'
    PROVE  PlaceCorrelated'
<1>1. CASE conn = "open" /\ placeSubmitting
    BY <1>1 DEF PlaceCorrelated
<1>2. CASE conn = "open" /\ ~placeSubmitting
    BY <1>2 DEF PlaceCorrelated
<1>3. CASE conn # "open"
    BY <1>3 DEF PlaceCorrelated
<1>4. QED
    BY <1>1, <1>2, <1>3

(* The venue reads a request other than a place_order and answers with a *)
(* frame other than an order_response: the placement keeps its place.   *)
LEMMA VenueAnswerKept ==
    ASSUME TypeOK, PlaceCorrelated, conn = "open",
           conn' = conn, placeSubmitting' = placeSubmitting,
           outbox # <<>>, Head(outbox).type # "place_order",
           outbox' = Tail(outbox),
           PlaceIn' = PlaceIn, DOMAIN inbox \subseteq DOMAIN inbox'
    PROVE  PlaceCorrelated'
<1>1. outbox \in Seq(Request)
    BY DEF TypeOK
<1>2. 1 \notin PlaceOut
    BY DEF PlaceOut, TypeIdx
<1>3. PlaceOut' = TypeIdx(Tail(outbox), "place_order")
    BY DEF PlaceOut
<1>4. PlaceOut = {} => PlaceOut' = {}
    BY <1>1, <1>3, IdxTailCases DEF PlaceOut
<1>5. \A n \in DOMAIN outbox : PlaceOut = {n}
         => n - 1 \in DOMAIN outbox' /\ PlaceOut' = {n - 1}
    BY <1>1, <1>2, <1>3, IdxTailCases DEF PlaceOut
<1>6. CASE placeSubmitting
    <2>1. CASE PlaceIn = {} /\ \E n \in DOMAIN outbox : PlaceOut = {n}
        <3>1. PICK n \in DOMAIN outbox : PlaceOut = {n}
            BY <2>1
        <3>2. n - 1 \in DOMAIN outbox' /\ PlaceOut' = {n - 1}
            BY <1>5, <3>1
        <3>3. QED
            BY <1>6, <2>1, <3>2 DEF PlaceCorrelated
    <2>2. CASE PlaceOut = {} /\ \E n \in DOMAIN inbox : PlaceIn = {n}
        BY <1>4, <1>6, <2>2 DEF PlaceCorrelated
    <2>3. QED
        BY <1>6, <2>1, <2>2 DEF PlaceCorrelated
<1>7. CASE ~placeSubmitting
    BY <1>4, <1>7 DEF PlaceCorrelated
<1>8. QED
    BY <1>6, <1>7

(* Appending a request other than a place_order, when the socket is      *)
(* open, keeps the placement where it is.                                 *)
LEMMA SendKept ==
    ASSUME TypeOK, PlaceCorrelated, NEW r \in Request, r.type # "place_order",
           outbox' = Send(outbox, r),
           conn' = conn, placeSubmitting' = placeSubmitting, inbox' = inbox
    PROVE  PlaceCorrelated'
<1>1. CASE conn = "open"
    <2>1. outbox' = Append(outbox, r)
        BY <1>1 DEF Send
    <2>2. PlaceOut' = PlaceOut
        BY <2>1, IdxAppend DEF PlaceOut, TypeOK
    <2>3. DOMAIN outbox \subseteq DOMAIN outbox'
        BY <2>1 DEF TypeOK
    <2>4. PlaceIn' = PlaceIn
        BY DEF PlaceIn
    <2>5. QED
        BY <2>2, <2>3, <2>4, CorrelatedKept
<1>2. CASE conn # "open"
    BY <1>2 DEF PlaceCorrelated
<1>3. QED
    BY <1>1, <1>2

(* A step that leaves the socket, the queues and isSubmitting alone.     *)
LEMMA QuietKept ==
    ASSUME PlaceCorrelated,
           conn' = conn, placeSubmitting' = placeSubmitting,
           outbox' = outbox, inbox' = inbox
    PROVE  PlaceCorrelated'
<1>1. PlaceOut' = PlaceOut /\ PlaceIn' = PlaceIn
    BY DEF PlaceOut, PlaceIn
<1>2. QED
    BY <1>1, CorrelatedKept

(* Every step keeps the inductive invariant.                              *)
LEMMA IInvStep == IInv /\ [Next]_vars => IInv'
<1> SUFFICES ASSUME TypeOK, StateInv, PlaceCorrelated, [Next]_vars PROVE IInv'
    BY DEF IInv
<1>0. TypeOK'
    BY TypeStep
<1>1. CASE OnOpen
    <2>1. StateInv'
        BY <1>1, Zenon DEF OnOpen, formVars, StateInv
    <2>2. ~placeSubmitting /\ outbox = <<>> /\ inbox = <<>>
        BY <1>1, Zenon DEF OnOpen, StateInv
    <2>3. PlaceCorrelated'
        BY <1>1, <2>2 DEF OnOpen, formVars, PlaceCorrelated, PlaceOut, PlaceIn, TypeIdx
    <2>4. QED
        BY <1>0, <2>1, <2>3 DEF IInv
<1>2. CASE Mount
    <2>1. StateInv'
        BY <1>2, Zenon DEF Mount, formVars, StateInv
    <2>2. PlaceCorrelated'
        BY <1>2, SendKept, Members DEF Mount, formVars, GetOpenOrders
    <2>3. QED
        BY <1>0, <2>1, <2>2 DEF IInv
<1>3. CASE Dispatch
    <2>1. StateInv'
        BY <1>3 DEF Dispatch, StateInv, PlaceListener
    <2>2. PlaceCorrelated'
        <3> SUFFICES ASSUME conn = "open" PROVE PlaceCorrelated'
            BY <1>3 DEF Dispatch, PlaceCorrelated
        <3>1. inbox \in Seq(Frame) /\ inbox # <<>> /\ inbox' = Tail(inbox)
            BY <1>3 DEF Dispatch, TypeOK
        <3>2. PlaceIn' = TypeIdx(Tail(inbox), "order_response")
            BY <3>1 DEF PlaceIn
        <3>3. PlaceOut' = PlaceOut /\ conn' = conn
            BY <1>3 DEF Dispatch, PlaceOut
        <3>4. CASE Head(inbox).type = "order_response"
            <4>1. 1 \in PlaceIn
                BY <3>1, <3>4 DEF PlaceIn, TypeIdx
            <4>2. placeSubmitting /\ PlaceIn = {1} /\ PlaceOut = {}
                BY <4>1 DEF PlaceCorrelated
            <4>3. mounted
                BY <4>2 DEF StateInv
            <4>4. placeSubmitting' = FALSE
                BY <1>3, <3>4, <4>3 DEF Dispatch, PlaceListener
            <4>5. PlaceIn' = {}
                BY <3>1, <3>2, <4>2, IdxTailCases DEF PlaceIn
            <4>6. QED
                BY <3>3, <4>2, <4>4, <4>5 DEF PlaceCorrelated
        <3>5. CASE Head(inbox).type # "order_response"
            <4>1. placeSubmitting' = placeSubmitting
                BY <1>3, <3>5 DEF Dispatch, PlaceListener
            <4>2. 1 \notin PlaceIn
                BY <3>5 DEF PlaceIn, TypeIdx
            <4>3. PlaceIn = {} => PlaceIn' = {}
                BY <3>1, <3>2, IdxTailCases DEF PlaceIn
            <4>4. \A n \in DOMAIN inbox : PlaceIn = {n}
                     => n - 1 \in DOMAIN inbox' /\ PlaceIn' = {n - 1}
                BY <3>1, <3>2, <4>2, IdxTailCases DEF PlaceIn
            <4>5. CASE placeSubmitting
                <5>1. CASE PlaceOut = {} /\ \E n \in DOMAIN inbox : PlaceIn = {n}
                    <6>1. PICK n \in DOMAIN inbox : PlaceIn = {n}
                        BY <5>1
                    <6>2. n - 1 \in DOMAIN inbox' /\ PlaceIn' = {n - 1}
                        BY <4>4, <6>1
                    <6>3. QED
                        BY <3>3, <4>1, <4>5, <5>1, <6>2 DEF PlaceCorrelated
                <5>2. CASE PlaceIn = {} /\ \E n \in DOMAIN outbox : PlaceOut = {n}
                    <6>1. outbox' = outbox
                        BY <1>3 DEF Dispatch
                    <6>2. QED
                        BY <3>3, <4>1, <4>3, <4>5, <5>2, <6>1 DEF PlaceCorrelated
                <5>3. QED
                    BY <4>5, <5>1, <5>2 DEF PlaceCorrelated
            <4>6. CASE ~placeSubmitting
                BY <3>3, <4>1, <4>3, <4>6 DEF PlaceCorrelated
            <4>7. QED
                BY <4>5, <4>6
        <3>6. QED
            BY <3>4, <3>5
    <2>3. QED
        BY <1>0, <2>1, <2>2 DEF IInv
<1>4. CASE OnClose
    <2>1. StateInv'
        BY <1>4, Zenon DEF OnClose, formVars, StateInv
    <2>2. PlaceCorrelated'
        BY <1>4 DEF OnClose, PlaceCorrelated
    <2>3. QED
        BY <1>0, <2>1, <2>2 DEF IInv
<1>5. CASE Unmount
    <2>1. StateInv'
        BY <1>5, Zenon DEF Unmount, StateInv
    <2>2. conn # "open"
        BY <1>5, Zenon DEF Unmount, StateInv
    <2>3. PlaceCorrelated'
        BY <1>5, <2>2 DEF Unmount, PlaceCorrelated
    <2>4. QED
        BY <1>0, <2>1, <2>3 DEF IInv
<1>6. CASE PlaceSubmit
    <2>1. mounted /\ conn # "connecting"
        BY <1>6 DEF PlaceSubmit, StateInv
    <2>2. StateInv'
        BY <1>6, <2>1, Zenon DEF PlaceSubmit, StateInv
    <2>3. PlaceCorrelated'
        <3>1. CASE conn = "open"
            <4>1. PlaceOut = {} /\ PlaceIn = {}
                BY <1>6, <3>1 DEF PlaceSubmit, PlaceCorrelated
            <4>2. /\ outbox' = Append(outbox, PlaceOrder(instrument))
                  /\ placeSubmitting' = TRUE /\ inbox' = inbox /\ conn' = conn
                BY <1>6, <3>1 DEF PlaceSubmit
            <4>3. PlaceOut' = {Len(outbox) + 1}
                BY <4>1, <4>2, IdxAppend DEF PlaceOut, PlaceOrder, TypeOK
            <4>4. Len(outbox) + 1 \in DOMAIN outbox' /\ PlaceIn' = {}
                BY <4>1, <4>2 DEF PlaceIn, TypeOK
            <4>5. QED
                BY <3>1, <4>2, <4>3, <4>4 DEF PlaceCorrelated
        <3>2. CASE conn # "open"
            BY <1>6, <3>2 DEF PlaceSubmit, PlaceCorrelated
        <3>3. QED
            BY <3>1, <3>2
    <2>4. QED
        BY <1>0, <2>2, <2>3 DEF IInv
<1>7. ASSUME NEW i \in Instr, SelectInstrument(i) PROVE IInv'
    <2>1. StateInv'
        BY <1>7 DEF SelectInstrument, StateInv
    <2>2. PlaceCorrelated'
        BY <1>7, QuietKept DEF SelectInstrument
    <2>3. QED
        BY <1>0, <2>1, <2>2 DEF IInv
<1>8. ASSUME NEW o \in Orders, CancelClick(o) PROVE IInv'
    <2>1. StateInv'
        BY <1>8, Zenon DEF CancelClick, formVars, StateInv
    <2>2. PlaceCorrelated'
        BY <1>8, SendKept, Members DEF CancelClick, formVars, CancelOrder
    <2>3. QED
        BY <1>0, <2>1, <2>2 DEF IInv
<1>9. ASSUME NEW o \in Orders, OpenModify(o) PROVE IInv'
    <2>1. StateInv'
        BY <1>9 DEF OpenModify, StateInv, TypeOK
    <2>2. PlaceCorrelated'
        BY <1>9, QuietKept DEF OpenModify
    <2>3. QED
        BY <1>0, <2>1, <2>2 DEF IInv
<1>10. CASE CloseModify \/ DialogRowRemoved
    <2>1. CloseDialog
        BY <1>10 DEF CloseModify, DialogRowRemoved
    <2>2. StateInv'
        BY <2>1 DEF CloseDialog, StateInv
    <2>3. PlaceCorrelated'
        BY <2>1, QuietKept DEF CloseDialog
    <2>4. QED
        BY <1>0, <2>2, <2>3 DEF IInv
<1>11. CASE ModifySubmit
    <2>1. dialog \in Orders /\ formGen \in 1..MaxDialogs
        BY <1>11 DEF ModifySubmit, StateInv, TypeOK
    <2>2. conn # "open" => outbox' = outbox
        BY <1>11 DEF ModifySubmit, Send
    <2>3. StateInv'
        BY <1>11, <2>2 DEF ModifySubmit, StateInv
    <2>4. PlaceCorrelated'
        BY <1>11, <2>1, SendKept, Members DEF ModifySubmit, ModifyOrder
    <2>5. QED
        BY <1>0, <2>3, <2>4 DEF IInv
<1>12. CASE VenuePlace
    <2>1. StateInv'
        BY <1>12 DEF VenuePlace, VenueVars, formVars, StateInv
    <2>2. PlaceCorrelated'
        <3>1. outbox \in Seq(Request) /\ outbox # <<>> /\ inbox \in Seq(Frame)
            BY <1>12 DEF VenuePlace, TypeOK
        <3>2. 1 \in PlaceOut
            BY <1>12, <3>1 DEF VenuePlace, PlaceOut, TypeIdx
        <3>3. placeSubmitting /\ PlaceOut = {1} /\ PlaceIn = {}
            BY <1>12, <3>2 DEF VenuePlace, PlaceCorrelated
        <3>4. PICK r \in Outcomes :
                  inbox' = Append(inbox, OrderResponse(r, Head(outbox).instrument))
            BY <1>12 DEF VenuePlace, Outcomes
        <3>5. PlaceIn' = {Len(inbox) + 1} /\ Len(inbox) + 1 \in DOMAIN inbox'
            BY <3>1, <3>3, <3>4, IdxAppend DEF PlaceIn, OrderResponse
        <3>6. PlaceOut' = {}
            BY <1>12, <3>1, <3>3, IdxTailCases DEF VenuePlace, PlaceOut
        <3>7. conn' = conn /\ placeSubmitting' = placeSubmitting
            BY <1>12 DEF VenuePlace, VenueVars, formVars
        <3>8. QED
            BY <3>3, <3>5, <3>6, <3>7 DEF PlaceCorrelated
    <2>3. QED
        BY <1>0, <2>1, <2>2 DEF IInv
<1>13. CASE VenueModify
    <2>1. StateInv'
        BY <1>13 DEF VenueModify, VenueVars, formVars, StateInv
    <2>2. PlaceCorrelated'
        <3>1. inbox \in Seq(Frame)
            BY DEF TypeOK
        <3>2. PlaceIn' = PlaceIn /\ DOMAIN inbox \subseteq DOMAIN inbox'
            BY <1>13, <3>1, IdxAppend DEF VenueModify, PlaceIn, ModifyResponse
        <3>3. QED
            BY <1>13, <3>2, VenueAnswerKept DEF VenueModify, VenueVars, formVars
    <2>3. QED
        BY <1>0, <2>1, <2>2 DEF IInv
<1>14. CASE VenueCancel
    <2>1. StateInv'
        BY <1>14 DEF VenueCancel, VenueVars, formVars, StateInv
    <2>2. PlaceCorrelated'
        <3>1. inbox \in Seq(Frame)
            BY DEF TypeOK
        <3>2. PlaceIn' = PlaceIn /\ DOMAIN inbox \subseteq DOMAIN inbox'
            <4>1. CASE Head(outbox).order \in resting
                <5>1. inbox' = Append(Append(inbox, CancelResponse("success")),
                                      OpenOrdersUpdate(resting \ {Head(outbox).order}))
                    BY <1>14, <4>1 DEF VenueCancel
                <5>2. TypeIdx(Append(inbox, CancelResponse("success")), "order_response")
                        = PlaceIn
                    BY <3>1, IdxAppend DEF PlaceIn, CancelResponse
                <5>3. Append(inbox, CancelResponse("success")) \in Seq(Frame)
                    BY <3>1, Members DEF Outcomes
                <5>4. TypeIdx(inbox', "order_response") = PlaceIn
                    BY <5>1, <5>2, <5>3, IdxAppend DEF OpenOrdersUpdate
                <5>5. DOMAIN inbox \subseteq DOMAIN inbox'
                    BY <3>1, <5>1, <5>3
                <5>6. QED
                    BY <5>4, <5>5 DEF PlaceIn
            <4>2. CASE Head(outbox).order \notin resting
                <5>1. inbox' = Append(inbox, CancelResponse("error"))
                    BY <1>14, <4>2 DEF VenueCancel
                <5>2. QED
                    BY <3>1, <5>1, IdxAppend DEF PlaceIn, CancelResponse
            <4>3. QED
                BY <4>1, <4>2
        <3>3. QED
            BY <1>14, <3>2, VenueAnswerKept DEF VenueCancel, VenueVars, formVars
    <2>3. QED
        BY <1>0, <2>1, <2>2 DEF IInv
<1>15. CASE VenueGetOpenOrders
    <2>1. StateInv'
        BY <1>15 DEF VenueGetOpenOrders, VenueVars, formVars, StateInv
    <2>2. PlaceCorrelated'
        <3>1. inbox \in Seq(Frame)
            BY DEF TypeOK
        <3>2. PlaceIn' = PlaceIn /\ DOMAIN inbox \subseteq DOMAIN inbox'
            BY <1>15, <3>1, IdxAppend DEF VenueGetOpenOrders, PlaceIn, OpenOrdersUpdate
        <3>3. QED
            BY <1>15, <3>2, VenueAnswerKept DEF VenueGetOpenOrders, VenueVars, formVars
    <2>3. QED
        BY <1>0, <2>1, <2>2 DEF IInv
<1>16. ASSUME NEW o \in Orders, VenueFill(o) PROVE IInv'
    <2>1. StateInv'
        BY <1>16 DEF VenueFill, VenueVars, formVars, StateInv
    <2>2. PlaceCorrelated'
        BY <1>16, QuietKept DEF VenueFill, VenueVars, formVars
    <2>3. QED
        BY <1>0, <2>1, <2>2 DEF IInv
<1>17. CASE VenuePushOrders
    <2>1. StateInv'
        BY <1>17 DEF VenuePushOrders, VenueVars, formVars, StateInv
    <2>2. PlaceCorrelated'
        <3>1. inbox \in Seq(Frame)
            BY DEF TypeOK
        <3>2. PlaceIn' = PlaceIn /\ DOMAIN inbox \subseteq DOMAIN inbox'
            BY <1>17, <3>1, IdxAppend DEF VenuePushOrders, PlaceIn, OpenOrdersUpdate
        <3>3. PlaceOut' = PlaceOut
            BY <1>17 DEF VenuePushOrders, PlaceOut
        <3>4. QED
            BY <1>17, <3>2, <3>3, CorrelatedKept DEF VenuePushOrders, VenueVars, formVars
    <2>3. QED
        BY <1>0, <2>1, <2>2 DEF IInv
<1>18. CASE ConnectionLost
    <2>1. StateInv'
        BY <1>18, Zenon DEF ConnectionLost, formVars, StateInv
    <2>2. PlaceCorrelated'
        BY <1>18 DEF ConnectionLost, PlaceCorrelated
    <2>3. QED
        BY <1>0, <2>1, <2>2 DEF IInv
<1>19. CASE Halted \/ UNCHANGED vars
    <2>1. StateInv'
        BY <1>19 DEF Halted, vars, StateInv
    <2>2. PlaceCorrelated'
        BY <1>19, QuietKept DEF Halted, vars
    <2>3. QED
        BY <1>0, <2>1, <2>2 DEF IInv
<1>20. QED
    BY <1>1, <1>2, <1>3, <1>4, <1>5, <1>6, <1>7, <1>8, <1>9, <1>10, <1>11,
       <1>12, <1>13, <1>14, <1>15, <1>16, <1>17, <1>18, <1>19 DEF Next

-----------------------------------------------------------------------------
(* Cancelled orders leave the list *)

(* CancelCaughtUp over given values, so that lemmas can speak of the      *)
(* queue and the list before and after a step.                           *)
CC(mo, oo, cs, q) ==
    /\ ~mo => oo = {}
    /\ \A o \in cs :
          /\ o \in oo => \E m \in DOMAIN q : Omits(q, m, o)
          /\ \A n \in DOMAIN q :
                q[n].type = "open_orders_update" /\ o \in q[n].result
                  => \E m \in DOMAIN q : m > n /\ Omits(q, m, o)

(* Appending a frame that is no snapshot of a cancelled order keeps every *)
(* later snapshot where it was.                                           *)
LEMMA CCAppend ==
    ASSUME NEW S, NEW q \in Seq(S), NEW f, NEW mo, NEW oo, NEW cs,
           CC(mo, oo, cs, q),
           f.type = "open_orders_update" => f.result \cap cs = {}
    PROVE  CC(mo, oo, cs, Append(q, f))
<1> DEFINE q2 == Append(q, f)
<1>1. \A m \in DOMAIN q : m \in DOMAIN q2 /\ q2[m] = q[m]
    OBVIOUS
<1>2. DOMAIN q2 = DOMAIN q \cup {Len(q) + 1} /\ q2[Len(q) + 1] = f
    OBVIOUS
<1>3. SUFFICES ASSUME NEW o \in cs
               PROVE  /\ o \in oo => \E m \in DOMAIN q2 : Omits(q2, m, o)
                      /\ \A n \in DOMAIN q2 :
                            q2[n].type = "open_orders_update" /\ o \in q2[n].result
                              => \E m \in DOMAIN q2 : m > n /\ Omits(q2, m, o)
    BY DEF CC
<1>4. o \in oo => \E m \in DOMAIN q2 : Omits(q2, m, o)
    <2>1. o \in oo => \E m \in DOMAIN q : Omits(q, m, o)
        BY DEF CC
    <2>2. QED
        BY <2>1, <1>1 DEF Omits
<1>5. ASSUME NEW n \in DOMAIN q2, q2[n].type = "open_orders_update", o \in q2[n].result
      PROVE  \E m \in DOMAIN q2 : m > n /\ Omits(q2, m, o)
    <2>1. n \in DOMAIN q
        BY <1>2, <1>5
    <2>2. \E m \in DOMAIN q : m > n /\ Omits(q, m, o)
        BY <2>1, <1>1, <1>5 DEF CC
    <2>3. QED
        BY <2>2, <1>1 DEF Omits
<1>6. QED
    BY <1>4, <1>5

(* Appending a snapshot that omits every cancelled order catches the list *)
(* up with all of them.                                                   *)
LEMMA CCFresh ==
    ASSUME NEW S, NEW q \in Seq(S), NEW x, NEW mo, NEW oo, NEW cs,
           ~mo => oo = {}, x \cap cs = {}
    PROVE  CC(mo, oo, cs, Append(q, OpenOrdersUpdate(x)))
<1> DEFINE q2 == Append(q, OpenOrdersUpdate(x))
           L == Len(q) + 1
<1>1. L \in DOMAIN q2 /\ \A n \in DOMAIN q2 : n <= L
    OBVIOUS
<1>2. \A o \in cs : Omits(q2, L, o)
    BY DEF Omits, OpenOrdersUpdate
<1>3. \A o \in cs, n \in DOMAIN q2 :
          q2[n].type = "open_orders_update" /\ o \in q2[n].result => L > n
    <2>1. TAKE o \in cs, n \in DOMAIN q2
    <2>2. HAVE q2[n].type = "open_orders_update" /\ o \in q2[n].result
    <2>3. n # L
        BY <2>2 DEF OpenOrdersUpdate
    <2>4. QED
        BY <1>1, <2>3
<1>4. QED
    BY <1>1, <1>2, <1>3 DEF CC

(* Handling the head: the list becomes the head snapshot, stays when the  *)
(* head is no snapshot, or is empty; each witness moves down by one.      *)
LEMMA CCTail ==
    ASSUME NEW S, NEW q \in Seq(S), q # <<>>, NEW mo, NEW oo, NEW oo2, NEW cs,
           CC(mo, oo, cs, q),
           ~mo => oo2 = {},
           \/ q[1].type # "open_orders_update" /\ oo2 = oo
           \/ q[1].type = "open_orders_update" /\ oo2 = q[1].result
           \/ oo2 = {}
    PROVE  CC(mo, oo2, cs, Tail(q))
<1> DEFINE t == Tail(q)
<1>1. \A m \in DOMAIN t : m + 1 \in DOMAIN q /\ t[m] = q[m + 1]
    OBVIOUS
<1>2. \A m \in DOMAIN q : m # 1 => m - 1 \in DOMAIN t /\ t[m - 1] = q[m]
    OBVIOUS
<1>3. SUFFICES ASSUME NEW o \in cs
               PROVE  /\ o \in oo2 => \E m \in DOMAIN t : Omits(t, m, o)
                      /\ \A n \in DOMAIN t :
                            t[n].type = "open_orders_update" /\ o \in t[n].result
                              => \E m \in DOMAIN t : m > n /\ Omits(t, m, o)
    BY DEF CC
<1>4. ASSUME o \in oo2 PROVE \E m \in DOMAIN t : Omits(t, m, o)
    <2>1. CASE q[1].type # "open_orders_update" /\ oo2 = oo
        <3>1. PICK m \in DOMAIN q : Omits(q, m, o)
            BY <2>1, <1>4 DEF CC
        <3>2. m # 1
            BY <3>1, <2>1 DEF Omits
        <3>3. QED
            BY <3>1, <3>2, <1>2 DEF Omits
    <2>2. CASE q[1].type = "open_orders_update" /\ oo2 = q[1].result
        <3>1. 1 \in DOMAIN q
            OBVIOUS
        <3>2. PICK m \in DOMAIN q : m > 1 /\ Omits(q, m, o)
            BY <2>2, <3>1, <1>4 DEF CC
        <3>3. QED
            BY <3>2, <1>2 DEF Omits
    <2>3. CASE oo2 = {}
        BY <2>3, <1>4
    <2>4. QED
        BY <2>1, <2>2, <2>3
<1>5. ASSUME NEW n \in DOMAIN t, t[n].type = "open_orders_update", o \in t[n].result
      PROVE  \E m \in DOMAIN t : m > n /\ Omits(t, m, o)
    <2>1. n + 1 \in DOMAIN q /\ q[n + 1].type = "open_orders_update" /\ o \in q[n + 1].result
        BY <1>1, <1>5
    <2>2. PICK m \in DOMAIN q : m > n + 1 /\ Omits(q, m, o)
        BY <2>1 DEF CC
    <2>3. m # 1 /\ m - 1 > n
        BY <2>2
    <2>4. QED
        BY <2>2, <2>3, <1>2 DEF Omits
<1>6. QED
    BY <1>4, <1>5

(* Unmounting empties the list and leaves the wire alone.                 *)
LEMMA CCClear ==
    ASSUME NEW q, NEW mo, NEW oo, NEW cs, NEW mo2, CC(mo, oo, cs, q)
    PROVE  CC(mo2, {}, cs, q)
BY DEF CC

(* No step of the client or the venue breaks CancelCaughtUp.             *)
LEMMA CancelStep == IInv /\ CancelCaughtUp /\ [Next]_vars => CancelCaughtUp'
<1> SUFFICES ASSUME IInv, CC(mounted, openOrders, cancelled, inbox), [Next]_vars
             PROVE  CC(mounted', openOrders', cancelled', inbox')
    BY DEF CancelCaughtUp, CC
<1>0. /\ inbox \in Seq(Frame)
      /\ cancelled \cap resting = {}
      /\ outbox \in Seq(Request)
    BY DEF IInv, TypeOK
<1>1. CASE UNCHANGED <<mounted, openOrders, cancelled, inbox>>
    BY <1>1
<1>2. CASE Mount
    BY <1>2 DEF Mount, formVars, CC
<1>3. CASE Unmount
    BY <1>3, CCClear DEF Unmount
<1>4. CASE Dispatch
    <2>1. inbox # <<>> /\ inbox' = Tail(inbox) /\ mounted' = mounted /\ cancelled' = cancelled
        BY <1>4 DEF Dispatch
    <2>2. ~mounted => openOrders' = {}
        BY <1>4 DEF Dispatch, CC
    <2>3. \/ inbox[1].type # "open_orders_update" /\ openOrders' = openOrders
          \/ inbox[1].type = "open_orders_update" /\ openOrders' = inbox[1].result
          \/ openOrders' = {}
        <3>1. CASE mounted
            BY <1>4, <2>1, <3>1 DEF Dispatch, OpenOrdersListener
        <3>2. CASE ~mounted
            BY <2>2, <3>2
        <3>3. QED
            BY <3>1, <3>2
    <2>4. QED
        BY <1>0, <2>1, <2>2, <2>3, CCTail
<1>5. CASE VenuePlace
    <2>1. PICK r : inbox' = Append(inbox, OrderResponse(r, Head(outbox).instrument))
        BY <1>5 DEF VenuePlace
    <2>2. UNCHANGED <<mounted, openOrders, cancelled>>
        BY <1>5 DEF VenuePlace, VenueVars, formVars
    <2>3. QED
        BY <1>0, <2>1, <2>2, CCAppend DEF OrderResponse
<1>6. CASE VenueModify
    <2>1. /\ inbox' = Append(inbox, ModifyResponse(
                    IF Head(outbox).order \in resting THEN "success" ELSE "error",
                    Head(outbox).form))
          /\ UNCHANGED <<mounted, openOrders, cancelled>>
        BY <1>6 DEF VenueModify, VenueVars, formVars
    <2>2. QED
        BY <1>0, <2>1, CCAppend DEF ModifyResponse
<1>7. CASE VenueCancel
    <2> DEFINE o == Head(outbox).order
    <2>1. UNCHANGED <<mounted, openOrders>>
        BY <1>7 DEF VenueCancel, VenueVars, formVars
    <2>2. CASE o \in resting
        <3>1. /\ inbox' = Append(Append(inbox, CancelResponse("success")),
                                 OpenOrdersUpdate(resting \ {o}))
              /\ cancelled' = cancelled \cup {o}
            BY <1>7, <2>2 DEF VenueCancel
        <3>2. Append(inbox, CancelResponse("success")) \in Seq(Frame)
            BY <1>0, Members DEF Outcomes
        <3>3. (resting \ {o}) \cap (cancelled \cup {o}) = {}
            BY <1>0
        <3>4. ~mounted => openOrders = {}
            BY DEF CC
        <3>5. QED
            BY <2>1, <3>1, <3>2, <3>3, <3>4, CCFresh
    <2>3. CASE o \notin resting
        <3>1. inbox' = Append(inbox, CancelResponse("error")) /\ cancelled' = cancelled
            BY <1>7, <2>3 DEF VenueCancel
        <3>2. QED
            BY <1>0, <2>1, <3>1, CCAppend DEF CancelResponse
    <2>4. QED
        BY <2>2, <2>3
<1>8. CASE VenueGetOpenOrders \/ VenuePushOrders
    <2>1. /\ inbox' = Append(inbox, OpenOrdersUpdate(resting))
          /\ UNCHANGED <<mounted, openOrders, cancelled>>
        BY <1>8 DEF VenueGetOpenOrders, VenuePushOrders, VenueVars, formVars
    <2>2. QED
        BY <1>0, <2>1, CCAppend DEF OpenOrdersUpdate
<1>9. QED
    <2>1. CASE OnOpen \/ OnClose \/ PlaceSubmit \/ ModifySubmit \/ ConnectionLost
               \/ Halted \/ UNCHANGED vars
        BY <1>1, <2>1 DEF OnOpen, OnClose, PlaceSubmit, ModifySubmit, ConnectionLost,
                          Halted, vars, formVars
    <2>4. CASE CloseModify \/ DialogRowRemoved
        BY <1>1, <2>4 DEF CloseModify, DialogRowRemoved, CloseDialog, formVars
    <2>2. CASE \E i \in Instr : SelectInstrument(i)
        BY <1>1, <2>2 DEF SelectInstrument, formVars
    <2>3. CASE \E x \in Orders : CancelClick(x) \/ OpenModify(x) \/ VenueFill(x)
        BY <1>1, <2>3 DEF CancelClick, OpenModify, VenueFill, VenueVars, formVars
    <2>5. QED
        BY <1>2, <1>3, <1>4, <1>5, <1>6, <1>7, <1>8, <2>1, <2>2, <2>3, <2>4 DEF Next

-----------------------------------------------------------------------------
(* The lifecycle of a placement *)

(* One step of the lifecycle PlaceLifecycle requires.                     *)
LifecycleOK ==
    /\ ~placeSubmitting /\ placeSubmitting' =>
          outbox' = Append(outbox, PlaceOrder(instrument))
    /\ placeSubmitting /\ ~placeSubmitting' =>
          \/ inbox # <<>> /\ Head(inbox).type = "order_response" /\ inbox' = Tail(inbox)
          \/ ~mounted'

(* Only submit starts a placement; only its answer or the unmount ends it.*)
LEMMA LifecycleStep == [Next]_vars => LifecycleOK
<1> SUFFICES ASSUME [Next]_vars PROVE LifecycleOK
    OBVIOUS
<1>1. CASE PlaceSubmit
    BY <1>1 DEF PlaceSubmit, LifecycleOK
<1>2. CASE Dispatch
    <2>1. CASE mounted
        BY <1>2, <2>1 DEF Dispatch, PlaceListener, LifecycleOK
    <2>2. CASE ~mounted
        BY <1>2, <2>2 DEF Dispatch, LifecycleOK
    <2>3. QED
        BY <2>1, <2>2
<1>3. CASE Unmount
    BY <1>3 DEF Unmount, LifecycleOK
<1>4. CASE UNCHANGED placeSubmitting
    BY <1>4 DEF LifecycleOK
<1>5. CASE OnOpen \/ Mount \/ OnClose \/ ModifySubmit \/ ConnectionLost \/ Halted \/ UNCHANGED vars
    BY <1>4, <1>5 DEF OnOpen, Mount, OnClose, ModifySubmit, ConnectionLost, Halted, vars, formVars
<1>6. CASE CloseModify \/ DialogRowRemoved
    BY <1>4, <1>6 DEF CloseModify, DialogRowRemoved, CloseDialog, formVars
<1>7. CASE \E i \in Instr : SelectInstrument(i)
    BY <1>4, <1>7 DEF SelectInstrument
<1>8. CASE \E o \in Orders : CancelClick(o) \/ OpenModify(o) \/ VenueFill(o)
    BY <1>4, <1>8 DEF CancelClick, OpenModify, VenueFill, VenueVars, formVars
<1>9. CASE VenuePlace \/ VenueModify \/ VenueCancel \/ VenueGetOpenOrders \/ VenuePushOrders
    BY <1>4, <1>9 DEF VenuePlace, VenueModify, VenueCancel, VenueGetOpenOrders,
                      VenuePushOrders, VenueVars, formVars
<1>10. QED
    <2>1. Next \/ UNCHANGED vars
        OBVIOUS
    <2>2. QED
        BY <2>1, <1>1, <1>2, <1>3, <1>5, <1>6, <1>7, <1>8, <1>9, Zenon DEF Next

-----------------------------------------------------------------------------
(* Theorems *)

(* Every reachable state of the order forms is well typed.               *)
LEMMA TypeCorrect == Spec => []TypeOK
<1>1. IInv => TypeOK
    BY DEF IInv
<1>2. QED
    BY IInvInit, IInvStep, <1>1, PTL DEF Spec

(* While the socket is open, OrderForm shows "Processing..." exactly when *)
(* one place_order of it is unanswered, and never more than one is: the   *)
(* disabled submit button of OrderForm.tsx keeps placements apart, so the *)
(* order_response handleMessage matches by type is the form's answer.     *)
THEOREM PlaceAlwaysCorrelated == Spec => []PlaceCorrelated
<1>1. IInv => PlaceCorrelated
    BY DEF IInv
<1>2. QED
    BY IInvInit, IInvStep, <1>1, PTL DEF Spec

(* The inductive invariant TLC checks as IInv holds in every behaviour.  *)
THEOREM IInvHolds == Spec => []IInv
BY IInvInit, IInvStep, PTL DEF Spec


(* OpenOrders.tsx applies no optimistic removal on a cancel: once every   *)
(* frame the venue sent has been handled, no order it cancelled is still  *)
(* listed, because the snapshot sent with the success follows, in FIFO    *)
(* order, every earlier snapshot that listed it.                          *)
THEOREM CancelledNeverListed == Spec => []CancelledNotListed
<1>1. Init => CancelCaughtUp
    BY DEF Init, CancelCaughtUp
<1>2. CancelCaughtUp => CancelledNotListed
    BY DEF CancelCaughtUp, CancelledNotListed
<1>3. QED
    BY IInvInit, IInvStep, CancelStep, <1>1, <1>2, PTL DEF Spec

(* The strengthening TLC checks as CancelInv is an invariant.             *)
THEOREM CancelInvHolds == Spec => []CancelInv
<1>1. Init => CancelCaughtUp
    BY DEF Init, CancelCaughtUp
<1>2. QED
    BY IInvInit, IInvStep, CancelStep, <1>1, PTL DEF Spec, CancelInv


(* OrderForm's "Processing..." follows spec 4.6's lifecycle in every      *)
(* behaviour: it starts with the place_order it sends and ends only with  *)
(* an order_response or the unmount, never by another handler.            *)
THEOREM PlaceLifecycleHolds == Spec => PlaceLifecycle
BY LifecycleStep, PTL DEF Spec, PlaceLifecycle, LifecycleOK

=============================================================================
