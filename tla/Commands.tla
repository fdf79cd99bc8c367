------------------------------ MODULE Commands ------------------------------
(***************************************************************************)
(* The order commands of the trading client: OrderForm.tsx (place_order),  *)
(* ModifyOrderForm.tsx (modify_order, one form per open dialog) and        *)
(* OpenOrders.tsx (cancel_order, the open-orders snapshot), over the       *)
(* socket TradingPanel.tsx opens.                                          *)
(*                                                                         *)
(* As in OrderBookFeed, an action is one event handler run to completion,  *)
(* and a frame is dispatched to every "message" listener in one step.      *)
(* The listeners of this module only react to their own frame types, so    *)
(* the instrument and order-book traffic is left out of the wire.          *)
(* A user action is a discrete React update, so its effects run in the     *)
(* same step; the renders a message handler causes run in a later task.    *)
(*                                                                         *)
(* The wire protocol has no request identifier.  Two fields of the frames  *)
(* below are not read by any handler.  The instrument of an order_response *)
(* is its result.order.instrument_name.  The form of a modify request and  *)
(* its response is a history variable naming the dialog that sent it.      *)
(* Properties use these fields to tell whose answer a form shows.          *)
(*                                                                         *)
(* The venue (not in this repository) reads requests in order.  It assigns *)
(* a fresh order id to a placed order, and it may reject any placement.    *)
(* A modify or cancel succeeds exactly when the order rests.  Resting      *)
(* orders may be filled at any time.  The venue may also push an           *)
(* open-orders snapshot that nobody asked for.                             *)
(***************************************************************************)
EXTENDS Naturals, Sequences

CONSTANTS
    Instr,          \* instruments the panel may select
    Orders,         \* order ids the venue may assign
    InitInstr,      \* the selected instrument when the form mounts
    NoOrder,        \* no modify dialog open
    NoMessage,      \* message = null
    MaxUserSteps,   \* bound on the user's clicks and selections
    MaxDialogs,     \* bound on the modify dialogs opened
    MaxPushes       \* bound on the venue's unsolicited snapshots

ASSUME ConstantsAssumption ==
    /\ InitInstr \in Instr
    /\ NoOrder \notin Orders
    /\ MaxUserSteps \in Nat
    /\ MaxDialogs \in Nat
    /\ MaxPushes \in Nat

VARIABLES
    conn,             \* ws.current.readyState, "closing": close event not yet run
    isConnected,      \* TradingPanel isConnected
    mounted,          \* the connected layout's children have mounted
    instrument,       \* the instrument prop of OrderForm
    placeSubmitting,  \* OrderForm isSubmitting
    placeMsg,         \* OrderForm message
    openOrders,       \* OpenOrders openOrders (the order ids listed)
    cancelMsg,        \* OpenOrders message
    dialog,           \* the order whose modify dialog is open, or NoOrder
    formGen,          \* modify dialogs opened so far; the open one is number formGen
    modifySubmitting, \* ModifyOrderForm isSubmitting
    modifyMsg,        \* ModifyOrderForm message
    outbox,           \* frames sent by the client, not yet read by the venue
    inbox,            \* frames sent by the venue, not yet dispatched
    resting,          \* the venue's open orders
    used,             \* order ids the venue has assigned
    cancelled,        \* orders the venue removed on a cancel_order
    userSteps,        \* user actions so far
    pushes            \* unsolicited snapshots so far

vars == <<conn, isConnected, mounted, instrument, placeSubmitting, placeMsg,
          openOrders, cancelMsg, dialog, formGen, modifySubmitting, modifyMsg,
          outbox, inbox, resting, used, cancelled, userSteps, pushes>>

formVars == <<placeSubmitting, placeMsg, openOrders, cancelMsg, dialog,
              modifySubmitting, modifyMsg>>

-----------------------------------------------------------------------------
(* Frames and messages *)

Outcomes == {"success", "error"}

PlaceOrder(i) == [type |-> "place_order", instrument |-> i]
ModifyOrder(o, g) == [type |-> "modify_order", order |-> o, form |-> g]
CancelOrder(o) == [type |-> "cancel_order", order |-> o]
GetOpenOrders == [type |-> "get_open_orders"]

OrderResponse(r, i) == [type |-> "order_response", outcome |-> r, instrument |-> i]
ModifyResponse(r, g) == [type |-> "modify_response", outcome |-> r, form |-> g]
CancelResponse(r) == [type |-> "cancel_response", outcome |-> r]
OpenOrdersUpdate(s) == [type |-> "open_orders_update", result |-> s]

Request ==
    {PlaceOrder(i) : i \in Instr}
      \cup {ModifyOrder(o, g) : o \in Orders, g \in 1..MaxDialogs}
      \cup {CancelOrder(o) : o \in Orders}
      \cup {GetOpenOrders}

Frame ==
    {OrderResponse(r, i) : r \in Outcomes, i \in Instr}
      \cup {ModifyResponse(r, g) : r \in Outcomes, g \in 1..MaxDialogs}
      \cup {CancelResponse(r) : r \in Outcomes}
      \cup {OpenOrdersUpdate(s) : s \in SUBSET Orders}

(* The alert a form shows: the outcome, and whose answer it was.          *)
Message(r, about) == [outcome |-> r, about |-> about]

(* ws.send: dropped once the socket is CLOSING or CLOSED.                  *)
Send(q, r) == IF conn = "open" THEN Append(q, r) ELSE q

-----------------------------------------------------------------------------
(* The client *)

Init ==
    /\ conn = "connecting"
    /\ isConnected = FALSE
    /\ mounted = FALSE
    /\ instrument = InitInstr
    /\ placeSubmitting = FALSE
    /\ placeMsg = NoMessage
    /\ openOrders = {}
    /\ cancelMsg = NoMessage
    /\ dialog = NoOrder
    /\ formGen = 0
    /\ modifySubmitting = FALSE
    /\ modifyMsg = NoMessage
    /\ outbox = <<>>
    /\ inbox = <<>>
    /\ resting = {}
    /\ used = {}
    /\ cancelled = {}
    /\ userSteps = 0
    /\ pushes = 0

(* TradingPanel onopen: setIsConnected(true).                             *)
OnOpen ==
    /\ conn = "connecting"
    /\ conn' = "open"
    /\ isConnected' = TRUE
    /\ UNCHANGED <<mounted, instrument, formVars, formGen, outbox, inbox,
                   resting, used, cancelled, userSteps, pushes>>

(* The connected layout renders.  Its children mount and add their       *)
(* listeners, and OpenOrders sends get_open_orders.                       *)
Mount ==
    /\ isConnected
    /\ ~mounted
    /\ mounted' = TRUE
    /\ outbox' = Send(outbox, GetOpenOrders)
    /\ UNCHANGED <<conn, isConnected, instrument, formVars, formGen, inbox,
                   resting, used, cancelled, userSteps, pushes>>

(* Mutant of PlaceListener: isSubmitting is cleared on success only.      *)
PlaceListenerSuccessOnly(f) ==
    IF f.type = "order_response"
    THEN /\ placeSubmitting' = (f.outcome = "error" /\ placeSubmitting)
         /\ placeMsg' = Message(f.outcome, f.instrument)
    ELSE UNCHANGED <<placeSubmitting, placeMsg>>

(* OrderForm handleMessage: an order_response settles the form.           *)
PlaceListener(f) ==
    IF f.type = "order_response"
    THEN /\ placeSubmitting' = FALSE
         /\ placeMsg' = Message(f.outcome, f.instrument)
    ELSE UNCHANGED <<placeSubmitting, placeMsg>>

(* Mutant of OpenOrdersListener: an empty snapshot is taken for a        *)
(* missing result and ignored.                                            *)
OpenOrdersListenerSkipEmpty(f) ==
    /\ openOrders' = IF f.type = "open_orders_update" /\ f.result # {}
                     THEN f.result ELSE openOrders
    /\ cancelMsg' = IF f.type = "cancel_response" THEN f.outcome ELSE cancelMsg

(* OpenOrders handleMessage: a snapshot replaces the list, and a          *)
(* cancel_response sets the message.                                      *)
OpenOrdersListener(f) ==
    /\ openOrders' = IF f.type = "open_orders_update" THEN f.result ELSE openOrders
    /\ cancelMsg' = IF f.type = "cancel_response" THEN f.outcome ELSE cancelMsg

(* ModifyOrderForm handleMessage, while a dialog is open: any             *)
(* modify_response settles the form.                                      *)
ModifyListener(f) ==
    IF dialog # NoOrder /\ f.type = "modify_response"
    THEN /\ modifySubmitting' = FALSE
         /\ modifyMsg' = Message(f.outcome, f.form)
    ELSE UNCHANGED <<modifySubmitting, modifyMsg>>

(* The event loop dispatches the oldest frame to the mounted listeners;   *)
(* before the children mount or after they unmount nobody hears it.       *)
Dispatch ==
    /\ inbox # <<>>
    /\ inbox' = Tail(inbox)
    /\ IF mounted
       THEN /\ PlaceListener(Head(inbox))
            /\ OpenOrdersListener(Head(inbox))
            /\ ModifyListener(Head(inbox))
       ELSE UNCHANGED <<placeSubmitting, placeMsg, openOrders, cancelMsg,
                        modifySubmitting, modifyMsg>>
    /\ UNCHANGED <<conn, isConnected, mounted, instrument, dialog, formGen,
                   outbox, resting, used, cancelled, userSteps, pushes>>

(* onclose / onerror, after the frames received before the close.         *)
OnClose ==
    /\ conn = "closing"
    /\ inbox = <<>>
    /\ conn' = "closed"
    /\ isConnected' = FALSE
    /\ UNCHANGED <<mounted, instrument, formVars, formGen, outbox, inbox,
                   resting, used, cancelled, userSteps, pushes>>

(* "Connecting to server..." renders: the children unmount, their         *)
(* listeners go and their state is lost.                                  *)
Unmount ==
    /\ ~isConnected
    /\ mounted
    /\ mounted' = FALSE
    /\ placeSubmitting' = FALSE
    /\ placeMsg' = NoMessage
    /\ openOrders' = {}
    /\ cancelMsg' = NoMessage
    /\ dialog' = NoOrder
    /\ modifySubmitting' = FALSE
    /\ modifyMsg' = NoMessage
    /\ UNCHANGED <<conn, isConnected, instrument, formGen, outbox, inbox,
                   resting, used, cancelled, userSteps, pushes>>


(* Mutant of PlaceSubmit: the button is not disabled while submitting.   *)
PlaceSubmitWhileSubmitting ==
    /\ mounted
    /\ dialog = NoOrder
    /\ userSteps < MaxUserSteps
    /\ IF conn = "open"
       THEN /\ placeSubmitting' = TRUE
            /\ placeMsg' = NoMessage
            /\ outbox' = Append(outbox, PlaceOrder(instrument))
       ELSE /\ placeMsg' = Message("error", instrument)
            /\ UNCHANGED <<placeSubmitting, outbox>>
    /\ userSteps' = userSteps + 1
    /\ UNCHANGED <<conn, isConnected, mounted, instrument, openOrders,
                   cancelMsg, dialog, formGen, modifySubmitting, modifyMsg,
                   inbox, resting, used, cancelled, pushes>>

(* The user submits the order form.  The button is disabled while         *)
(* isSubmitting, and the modal dialog blocks the page while one is open.  *)
(* handleSubmit sends only when readyState is OPEN, else it shows an      *)
(* error.                                                                 *)
PlaceSubmit ==
    /\ mounted
    /\ dialog = NoOrder
    /\ ~placeSubmitting
    /\ userSteps < MaxUserSteps
    /\ IF conn = "open"
       THEN /\ placeSubmitting' = TRUE
            /\ placeMsg' = NoMessage
            /\ outbox' = Append(outbox, PlaceOrder(instrument))
       ELSE /\ placeMsg' = Message("error", instrument)
            /\ UNCHANGED <<placeSubmitting, outbox>>
    /\ userSteps' = userSteps + 1
    /\ UNCHANGED <<conn, isConnected, mounted, instrument, openOrders,
                   cancelMsg, dialog, formGen, modifySubmitting, modifyMsg,
                   inbox, resting, used, cancelled, pushes>>

(* Mutant of SelectInstrument: the [instrument] effect also clears        *)
(* isSubmitting.                                                          *)
SelectInstrumentResetSubmitting(i) ==
    /\ mounted
    /\ dialog = NoOrder
    /\ userSteps < MaxUserSteps
    /\ i # instrument
    /\ instrument' = i
    /\ placeMsg' = NoMessage
    /\ placeSubmitting' = FALSE
    /\ userSteps' = userSteps + 1
    /\ UNCHANGED <<conn, isConnected, mounted, openOrders,
                   cancelMsg, dialog, formGen, modifySubmitting, modifyMsg,
                   outbox, inbox, resting, used, cancelled, pushes>>

(* The user selects another instrument in TradingPanel.  OrderForm's      *)
(* effect on [instrument] clears its fields and message, not isSubmitting.*)
SelectInstrument(i) ==
    /\ mounted
    /\ dialog = NoOrder
    /\ userSteps < MaxUserSteps
    /\ i # instrument
    /\ instrument' = i
    /\ placeMsg' = NoMessage
    /\ userSteps' = userSteps + 1
    /\ UNCHANGED <<conn, isConnected, mounted, placeSubmitting, openOrders,
                   cancelMsg, dialog, formGen, modifySubmitting, modifyMsg,
                   outbox, inbox, resting, used, cancelled, pushes>>

(* The user clicks Cancel on a listed order: cancel_order is sent, with   *)
(* no pending state.                                                      *)
CancelClick(o) ==
    /\ mounted
    /\ dialog = NoOrder
    /\ userSteps < MaxUserSteps
    /\ o \in openOrders
    /\ outbox' = Send(outbox, CancelOrder(o))
    /\ userSteps' = userSteps + 1
    /\ UNCHANGED <<conn, isConnected, mounted, instrument, formVars, formGen,
                   inbox, resting, used, cancelled, pushes>>

(* The user clicks Modify on a listed order: the dialog opens and a fresh *)
(* ModifyOrderForm mounts and adds its listener.                          *)
OpenModify(o) ==
    /\ mounted
    /\ dialog = NoOrder
    /\ formGen < MaxDialogs
    /\ o \in openOrders
    /\ dialog' = o
    /\ formGen' = formGen + 1
    /\ modifySubmitting' = FALSE
    /\ modifyMsg' = NoMessage
    /\ UNCHANGED <<conn, isConnected, mounted, instrument, placeSubmitting,
                   placeMsg, openOrders, cancelMsg, outbox, inbox, resting,
                   used, cancelled, userSteps, pushes>>

(* The dialog closes: ModifyOrderForm unmounts, its listener and state go.*)
CloseDialog ==
    /\ dialog' = NoOrder
    /\ modifySubmitting' = FALSE
    /\ modifyMsg' = NoMessage
    /\ UNCHANGED <<conn, isConnected, mounted, instrument, placeSubmitting,
                   placeMsg, openOrders, cancelMsg, formGen, outbox, inbox,
                   resting, used, cancelled, userSteps, pushes>>

(* The user dismisses the dialog.                                         *)
CloseModify ==
    /\ dialog # NoOrder
    /\ CloseDialog

(* A snapshot without the dialog's order was applied: the render it       *)
(* schedules drops the row, and the Dialog inside it.                     *)
DialogRowRemoved ==
    /\ dialog # NoOrder
    /\ dialog \notin openOrders
    /\ CloseDialog

(* The user submits the modify form (button disabled while submitting).   *)
(* There is no readyState check: ws?.send on a closing socket is lost.    *)
ModifySubmit ==
    /\ dialog # NoOrder
    /\ ~modifySubmitting
    /\ userSteps < MaxUserSteps
    /\ modifySubmitting' = TRUE
    /\ modifyMsg' = NoMessage
    /\ outbox' = Send(outbox, ModifyOrder(dialog, formGen))
    /\ userSteps' = userSteps + 1
    /\ UNCHANGED <<conn, isConnected, mounted, instrument, placeSubmitting,
                   placeMsg, openOrders, cancelMsg, dialog, formGen, inbox,
                   resting, used, cancelled, pushes>>

-----------------------------------------------------------------------------
(* The venue and the transport *)

VenueVars == <<conn, isConnected, mounted, instrument, formVars, formGen,
               userSteps>>

(* place_order: the venue rests the order under a fresh id, or rejects it.*)
VenuePlace ==
    /\ conn = "open"
    /\ outbox # <<>>
    /\ Head(outbox).type = "place_order"
    /\ \/ \E o \in Orders \ used :
            /\ resting' = resting \cup {o}
            /\ used' = used \cup {o}
            /\ inbox' = Append(inbox, OrderResponse("success", Head(outbox).instrument))
       \/ /\ inbox' = Append(inbox, OrderResponse("error", Head(outbox).instrument))
          /\ UNCHANGED <<resting, used, cancelled>>
    /\ outbox' = Tail(outbox)
    /\ UNCHANGED <<VenueVars, cancelled, pushes>>

(* modify_order succeeds exactly when the order still rests.              *)
VenueModify ==
    /\ conn = "open"
    /\ outbox # <<>>
    /\ Head(outbox).type = "modify_order"
    /\ inbox' = Append(inbox, ModifyResponse(
                    IF Head(outbox).order \in resting THEN "success" ELSE "error",
                    Head(outbox).form))
    /\ outbox' = Tail(outbox)
    /\ UNCHANGED <<VenueVars, resting, used, cancelled, pushes>>

(* cancel_order removes a resting order; an order gone already is an     *)
(* error. A success is accompanied by a fresh open-orders snapshot (spec  *)
(* 4.5: the client applies no optimistic removal and relies on it).       *)
VenueCancel ==
    /\ conn = "open"
    /\ outbox # <<>>
    /\ Head(outbox).type = "cancel_order"
    /\ LET o == Head(outbox).order IN
       IF o \in resting
       THEN /\ resting' = resting \ {o}
            /\ cancelled' = cancelled \cup {o}
            /\ inbox' = Append(Append(inbox, CancelResponse("success")),
                               OpenOrdersUpdate(resting \ {o}))
       ELSE /\ inbox' = Append(inbox, CancelResponse("error"))
            /\ UNCHANGED <<resting, cancelled>>
    /\ outbox' = Tail(outbox)
    /\ UNCHANGED <<VenueVars, used, pushes>>

(* get_open_orders is answered with the resting orders.                   *)
VenueGetOpenOrders ==
    /\ conn = "open"
    /\ outbox # <<>>
    /\ Head(outbox).type = "get_open_orders"
    /\ inbox' = Append(inbox, OpenOrdersUpdate(resting))
    /\ outbox' = Tail(outbox)
    /\ UNCHANGED <<VenueVars, resting, used, cancelled, pushes>>

(* A resting order is filled and leaves the book.                         *)
VenueFill(o) ==
    /\ o \in resting
    /\ resting' = resting \ {o}
    /\ UNCHANGED <<VenueVars, outbox, inbox, used, cancelled, pushes>>

(* The venue pushes an open-orders snapshot nobody asked for.             *)
VenuePushOrders ==
    /\ conn = "open"
    /\ pushes < MaxPushes
    /\ inbox' = Append(inbox, OpenOrdersUpdate(resting))
    /\ pushes' = pushes + 1
    /\ UNCHANGED <<VenueVars, outbox, resting, used, cancelled>>

(* The connection drops; unread requests are lost.                        *)
ConnectionLost ==
    /\ conn \in {"connecting", "open"}
    /\ conn' = "closing"
    /\ outbox' = <<>>
    /\ UNCHANGED <<isConnected, mounted, instrument, formVars, formGen, inbox,
                   resting, used, cancelled, userSteps, pushes>>

(* No reconnection: once closed and unmounted the client does nothing.    *)
Halted ==
    /\ conn = "closed"
    /\ ~mounted
    /\ UNCHANGED vars

Next ==
    \/ OnOpen
    \/ Mount
    \/ Dispatch
    \/ OnClose
    \/ Unmount
    \/ PlaceSubmit
    \/ \E i \in Instr : SelectInstrument(i)
    \/ \E o \in Orders : CancelClick(o)
    \/ \E o \in Orders : OpenModify(o)
    \/ CloseModify
    \/ DialogRowRemoved
    \/ ModifySubmit
    \/ VenuePlace
    \/ VenueModify
    \/ VenueCancel
    \/ VenueGetOpenOrders
    \/ \E o \in Orders : VenueFill(o)
    \/ VenuePushOrders
    \/ ConnectionLost
    \/ Halted

(* The event loop runs queued events and renders; the venue answers every *)
(* request it reads.  Users, fills, pushes and failures are not forced.   *)
Fairness ==
    /\ WF_vars(OnOpen)
    /\ WF_vars(Mount)
    /\ WF_vars(Dispatch)
    /\ WF_vars(OnClose)
    /\ WF_vars(Unmount)
    /\ WF_vars(DialogRowRemoved)
    /\ WF_vars(VenuePlace)
    /\ WF_vars(VenueModify)
    /\ WF_vars(VenueCancel)
    /\ WF_vars(VenueGetOpenOrders)

Spec == Init /\ [][Next]_vars

FairSpec == Spec /\ Fairness

-----------------------------------------------------------------------------
(* Properties *)

MessageValue(About) == {NoMessage} \cup [outcome : Outcomes, about : About]

TypeOK ==
    /\ conn \in {"connecting", "open", "closing", "closed"}
    /\ isConnected \in BOOLEAN
    /\ mounted \in BOOLEAN
    /\ instrument \in Instr
    /\ placeSubmitting \in BOOLEAN
    /\ placeMsg \in MessageValue(Instr)
    /\ openOrders \subseteq Orders
    /\ cancelMsg \in {NoMessage} \cup Outcomes
    /\ dialog \in Orders \cup {NoOrder}
    /\ formGen \in 0..MaxDialogs
    /\ modifySubmitting \in BOOLEAN
    /\ modifyMsg \in MessageValue(1..MaxDialogs)
    /\ outbox \in Seq(Request)
    /\ inbox \in Seq(Frame)
    /\ resting \subseteq used
    /\ used \subseteq Orders
    /\ cancelled \subseteq used \ resting
    /\ userSteps \in 0..MaxUserSteps
    /\ pushes \in 0..MaxPushes

(* The positions in queue q of the frames of type t.                      *)
TypeIdx(q, t) == {m \in DOMAIN q : q[m].type = t}

(* place_order requests not yet read, order_responses not yet dispatched. *)
PlaceOut == TypeIdx(outbox, "place_order")
PlaceIn == TypeIdx(inbox, "order_response")

(* While the socket is open, OrderForm shows "Processing..." exactly when *)
(* one place_order of it is unanswered, and at most one is: the disabled  *)
(* button keeps placements apart, so the next order_response, matched by  *)
(* type alone, is the answer to the order the form is waiting for.        *)
PlaceCorrelated ==
    conn = "open" =>
        IF placeSubmitting
        THEN \/ PlaceIn = {} /\ \E n \in DOMAIN outbox : PlaceOut = {n}
             \/ PlaceOut = {} /\ \E n \in DOMAIN inbox : PlaceIn = {n}
        ELSE PlaceOut = {} /\ PlaceIn = {}

(* The facts PlaceCorrelated and TypeOK rest on: nothing is mounted, sent *)
(* or received before the socket opens; the socket is only open while the *)
(* connected layout shows; a form that is not mounted waits for nothing;  *)
(* an open dialog is one of the MaxDialogs opened.                        *)
StateInv ==
    /\ isConnected => conn \in {"open", "closing"}
    /\ conn = "open" => isConnected
    /\ conn = "connecting" => ~mounted /\ outbox = <<>> /\ inbox = <<>>
    /\ ~mounted => ~placeSubmitting
    /\ dialog # NoOrder => formGen \in 1..MaxDialogs

(* PlaceCorrelated and TypeOK strengthened to an inductive invariant.    *)
IInv == TypeOK /\ StateInv /\ PlaceCorrelated

(* Spec 4.6's lifecycle of a placement in OrderForm: "Processing..."     *)
(* starts only in the step that sends place_order for the instrument the  *)
(* form shows, and ends only in the step that handles an order_response,  *)
(* or when the form unmounts with the connection; no other handler (the   *)
(* [instrument] reset, a dialog, a snapshot) settles it.                  *)
PlaceLifecycle ==
    [][/\ ~placeSubmitting /\ placeSubmitting' =>
            outbox' = Append(outbox, PlaceOrder(instrument))
       /\ placeSubmitting /\ ~placeSubmitting' =>
            \/ inbox # <<>> /\ Head(inbox).type = "order_response" /\ inbox' = Tail(inbox)
            \/ ~mounted']_vars

(* Every placement the form waits for is eventually settled: answered,    *)
(* or the form is unmounted when the connection goes.                     *)
PlaceSettles ==
    placeSubmitting ~> ~placeSubmitting

(* The outcome an open modify dialog shows is the answer to a command     *)
(* that this dialog's form sent (spec 4.6, 7(d): an unmatched response is *)
(* ignored; settled commands are not re-transitioned).                    *)
ModifyOutcomeOwn ==
    modifyMsg # NoMessage => modifyMsg.about = formGen

(* The outcome OrderForm shows belongs to the instrument it is showing    *)
(* (its [instrument] effect clears the message of the previous one).     *)
PlaceOutcomeForShownInstrument ==
    placeMsg # NoMessage => placeMsg.about = instrument


(* OpenOrders never removes a cancelled order itself (spec 4.5): the list *)
(* catches up with a cancel only through the snapshot the venue sends     *)
(* with its success. Once every frame the venue sent has been handled,    *)
(* no order the venue cancelled is still listed, though the user may have *)
(* clicked Cancel on it again in the meantime (handleCancelClick keeps no *)
(* pending state).                                                        *)
CancelledNotListed ==
    (conn = "open" /\ mounted /\ inbox = <<>>) => openOrders \cap cancelled = {}


(* A frame at position m of queue q is a snapshot that omits order o.     *)
Omits(q, m, o) == q[m].type = "open_orders_update" /\ o \notin q[m].result

(* CancelledNotListed strengthened: unmounted, OpenOrders lists nothing;  *)
(* a cancelled order that is listed, or is in a snapshot still on the     *)
(* wire, has a later snapshot omitting it on the wire behind it.          *)
CancelCaughtUp ==
    /\ ~mounted => openOrders = {}
    /\ \A o \in cancelled :
          /\ o \in openOrders => \E m \in DOMAIN inbox : Omits(inbox, m, o)
          /\ \A n \in DOMAIN inbox :
                inbox[n].type = "open_orders_update" /\ o \in inbox[n].result
                  => \E m \in DOMAIN inbox : m > n /\ Omits(inbox, m, o)

CancelInv == IInv /\ CancelCaughtUp

=============================================================================
