# Formal model of the deribit-client-server trading client

This directory holds TLA+ models of the browser client under `src/client/app/`.
It has TLC configurations that model-check the models on small instances, and
TLAPS proofs of their main safety properties for every value of the constants.
`PROJECT.json` lists the components, runs, mutants, findings and hazards. It also
maps every model definition to the source lines it translates.

## The system

The client is a single React page (`page.tsx` renders `TradingPanel`). It talks
to a venue, the server at `ws://localhost:9002`, over **one WebSocket**. The
server is not in this repository.

| Part | Source | State | Operations |
|---|---|---|---|
| ConnectionSession | `TradingPanel.tsx` 28-71, 89-91 | `ws.current`, `isConnected` | `onopen`, `onclose`, `onerror`, cleanup `close()`, the effect re-run by StrictMode or Fast Refresh |
| InstrumentSelection | `TradingPanel.tsx` 29-35, 46-54, 73-87, 102-136 | `currency`, `instrumentType`, `instruments`, `selectedInstrument` | three Selects, `fetchInstruments`, the `instruments` handler |
| OrderBookStore | `OrderBook.tsx` 33-68 | `orderBookData`, the listener's captured `instrument` | effect on `[ws, instrument]`: listener swap and `get_orderbook`; `handleMessage` |
| OrderBook view | `OrderBook.tsx` 70-87 | none (pure) | `renderOrderBookSide`: pad to `MAX_ROWS`, cut, hide zero rows, reverse asks |
| CommandCoordinator | `OrderForm.tsx`, `ModifyOrderForm.tsx`, `OpenOrders.tsx` 80-84 | `isSubmitting`, `message` of each form | `place_order`, `modify_order`, `cancel_order` and their responses |
| OpenOrdersStore | `OpenOrders.tsx` 38-70 | `openOrders`, `message` | `get_open_orders` on mount, `open_orders_update`, `cancel_response` |
| PositionsStore | `PositionsTable.tsx` 35-129 | `positionsData[currency][kind]` | `get_positions` effect, `positions_update` merge, the `any` projection |
| JSON helper | `utils/jsonParser.ts` | none | `safeJsonParse`, which no component calls |

**How the parts interact.** There is no router object. Every component adds its
own `"message"` listener to the shared socket, parses each frame itself, and
filters by `type`. The browser dispatches each frame to every listener in one
task. `TradingPanel` renders its children only while `isConnected` is true.
When it goes false, every child unmounts and its state is lost.

**What makes the system hard.** Several behaviours interact:

- Listeners are added and removed by React effects.
- An update made inside a message handler runs its effects in a later task.
- Sends on a closing socket are dropped silently.
- Responses carry no request identifier. The instrument list and the command
  responses are matched to their requests only by type and arrival order.
- There is no reconnection and no timeout.

## Modules

### OrderBookFeed

`OrderBookFeed.tla` models ConnectionSession, InstrumentSelection and
OrderBookStore together, because they share the socket and the selection.

- **State.** `conn` is the socket's readyState. `"closing"` means the socket is
  closed but its close event has not yet run. The other state is:
  - TradingPanel's state: `isConnected`, `currency`, `kind`, `instruments`, `selected`;
  - `subscribed`: the instrument that OrderBook's mounted listener captured;
  - `book`: which instrument's book `orderBookData` holds;
  - the two directions of the wire, `outbox` and `inbox`;
  - `venueSubs`: the instruments the venue pushes updates for.
- **Actions.** Each action is one event handler run to completion:
  - `OnOpen`, `Dispatch` (which runs `OnMessage` and `OrderBookListener`), `OnClose`;
  - `Mount` and `Unmount` of OrderBook, by the layout switch at TradingPanel 89-91;
  - `OrderBookEffect`, the deferred effect after a message-driven selection;
  - the three user selections.
  
  A user selection is a discrete React update, so its effects run inside the
  same action. For example, `SelectCurrency` sends `get_instruments` for the new
  currency.
- **Environment.** The venue is `VenueReceive` and `VenuePush`.
  - It reads requests in order.
  - It answers `get_instruments` with the constant `Listing[<<c, k>>]`.
  - It answers `get_orderbook` with a snapshot and then pushes further updates.
  
  `ConnectionLost` closes the socket and drops unread requests.
- **Abstraction.** A book is represented by the name of its instrument. Prices
  and amounts matter to no property of this module.

### ConnectionSession and Session

`ConnectionSession.tla` models the connection effect (TradingPanel 37-71)
when it runs more than once. React StrictMode runs a mount effect, its
cleanup and the effect again; Fast Refresh re-runs it and keeps the state.

- **State.** `rs[s]` is the readyState of socket `s`, the one the s-th run
  of the effect created (`"unborn"` before that run). `cur` is the socket
  `ws.current` holds. `isConnected` is shared by the handlers of every
  socket. `requested` is the set of sockets `get_instruments` was sent on.
- **Actions.** `OnOpen(s)` is `onopen` (it calls `fetchInstruments`, which
  sends on `ws.current` only). `ConnectionLost(s)` and `OnClose(s)` are
  `onerror`/`onclose`. `Remount` is the cleanup's `close()` of
  `ws.current` followed by the next run of the effect.
- **Task order.** The browser orders the tasks of one socket, not those of
  two sockets, so an old socket's close event may run after the new
  socket's open event. That is finding 6.

`Session.tla` is spec 4.1's promise at the level of transport instances:
idle, connecting, connected, closed, with a renew that releases the live
instance before creating a new one. `ConnectionSession` instantiates it with
`st <- [s \in Sockets |-> Status(rs[s])]`. A socket whose `close()` was
called is already "closed" for the session, whether or not its close event
has run. `SessionRefined == Abstract!Spec` is checked by TLC and proved.

### Commands

`Commands.tla` models CommandCoordinator (OrderForm, ModifyOrderForm, the
cancel button) and OpenOrdersStore, over the same socket life cycle.

- **State.** `placeSubmitting`/`placeMsg` (OrderForm), `openOrders`/`cancelMsg`
  (OpenOrders), `dialog` (the order whose modify dialog is open),
  `modifySubmitting`/`modifyMsg` (ModifyOrderForm), the wire, and the venue's
  `resting`, `used` and `cancelled` order ids (`cancelled` is venue history:
  the orders a `cancel_order` removed). `formGen` numbers the dialogs opened; the
  `form` field of a modify request and its response is a history field that
  no handler reads. It lets a property tell whose answer a form shows.
- **Actions.** `PlaceSubmit` is all of `handleSubmit` (the readyState branch
  and the error branch). `Dispatch` runs the three listeners on one frame.
  `OpenModify`, `CloseModify` and `DialogRowRemoved` are the ways a dialog
  opens and closes. The last is a snapshot dropping the row, which unmounts
  the dialog in a later render. `ModifySubmit` has no readyState check, as
  in the code, and `ws.send` on a closing socket drops the frame.
- **Environment.** The venue answers in order. It assigns fresh order ids or
  rejects a placement, succeeds a modify or cancel exactly when the order
  rests, fills resting orders, and may push snapshots nobody asked for.
  A cancel success is followed at once by a snapshot of the remaining
  orders. Spec 4.5 expects that snapshot, because OpenOrders never removes a
  cancelled order itself. A modify changes no order id, so the snapshot
  after a modify would change nothing the model keeps, and it is left out.
- **Guard of the modal dialog.** While a Radix dialog is open the page behind
  it takes no input, so actions outside the dialog require `dialog = NoOrder`.

### Positions

`Positions.tla` models PositionsStore.

- **State.** `positionsData` is a function from (currency, kind) to a list of
  positions, or `NoData` where `prevData[currency][kind]` is undefined.
  `currencyKeys` lists the object's currency keys in insertion order, the
  order `Object.values` walks. A position is its `instrument_name`, the row key.
- **Actions.** `Mount` adds the listener and runs the `get_positions` effect.
  The two Selects each send `get_positions` in the same step.
  `Dispatch`/`Merge` is `handleMessage` with its two spreads. `Displayed`
  is the `useMemo`.
- **Environment.** The venue echoes the currency it was asked for, `"any"`
  included. For `"any"` it lists every currency's positions. Its positions
  do not change during a behaviour. These are assumptions about a server
  that is not in the repository.
- `applied` is a history variable. It holds the keys whose updates the table
  merged.

`PositionsStore.tla` is spec 4.4's promise: one bucket per (currency, kind),
`applyUpdate` replacing one bucket and keeping every other, the currencies in
the order of their first update, and the store discarded with its owner.
`Positions` instantiates it as `Store` with `buckets <- positionsData` and
`order <- currencyKeys`. `StoreRefined == Store!Spec` is checked by TLC and
proved.

### OrderBookView

`OrderBookView.tla` models `renderOrderBookSide` (OrderBook 70-87) on real
levels `<<price, amount>>`.

- `Filled` is the copy and the `while` loop.
- `Rows` is the slice and the map, and `Reversed` is `rows.reverse()`.
- The state is the side shown. `NewSnapshot` replaces it, as `setOrderBookData` does.
- `SpecView` is the reference. It is written from spec 4.3 by index, not by
  the code's construction.

## Runs

| Run | Checks | Result |
|---|---|---|
| `conn_session` | `TypeOK`, `InitialRequestSent`, `IInv`, `SessionRefined`, `ConnectedByCurrent` | pass (426 states) |
| `conn_stale_close` | `ShownStatusCurrent` | violated: finding 6 |
| `feed_safety` | `TypeOK`, `InstrumentsMatchSelection`, `SubscribedRequested`, `IInv`, `ListingInv`, and `BookFollowsSelection` under `FairSpec` | pass (65,694 states) |
| `feed_stale_book` | `BookMatchesSelection` | violated: finding 1 |
| `feed_stale_selection` | `SelectedListed` | violated: finding 2 |
| `cmd_safety` | `PlaceCorrelated`, `IInv`, `CancelledNotListed`, `CancelInv`, `PlaceLifecycle`, and `PlaceSettles` under `FairSpec` | pass (219,199 states) |
| `cmd_modify_crossover` | `ModifyOutcomeOwn` | violated: finding 3 |
| `cmd_place_outcome_instrument` | `PlaceOutcomeForShownInstrument` | violated: finding 4 |
| `pos_safety` | `BucketsKept`, `ShownFresh`, `IInv`, `StoreRefined` | pass (3,782 states) |
| `pos_any_duplicates` | `RowsDistinct` | violated: finding 5 |
| `view_spec` | `ViewMatchesSpec` | pass (682 states) |

What the passing runs show:

- `conn_session`: however often the effect re-runs, only `ws.current` can
  open, every open socket had `get_instruments` sent on it, and the sockets
  implement spec 4.1's session. `isConnected` only turns on in the open
  event of `ws.current` (`ConnectedByCurrent`).
- `feed_safety`: while the socket is open, the instrument list is the
  venue's list for the current (currency, kind) once the answers in flight
  are handled. The requests and answers in flight are such that the last one
  is for the current selection (`ListingInv`). OrderBook's listener only
  listens to an instrument it requested. The shown book eventually follows
  the selection.
- `cmd_safety`: the order form never has two placements in flight, and its
  "Processing..." state matches the one unanswered placement. Once every
  frame the venue sent is handled, no cancelled order is still listed
  (`CancelledNotListed`), although the user may click Cancel on it again
  while its snapshot is on the wire. Every placement the form waits for is
  settled. "Processing..." starts only with the send of a `place_order` and
  ends only with an `order_response` or the unmount (`PlaceLifecycle`).
- `pos_safety`: every fetched (currency, kind) bucket keeps the venue's
  answer, whatever the order of answers. Once nothing is in flight, the
  table shows the venue's positions for the selection. The table's state
  implements spec 4.4's `PositionsStore` (`StoreRefined`).
- `view_spec`: the order-book side rendered by the code equals spec 4.3's
  view, built by index.

`IInv`, `ListingInv` and `CancelInv` are the inductive invariants the proofs
use. Each one is checked on the reachable states before it is proved.

**Bounds.**

- ConnectionSession uses `MaxMounts = 4`. A StrictMode double mount takes
  two runs of the effect, and two more let an old close event run after a
  later open, with a socket between them in each state.
- OrderBookFeed uses 2 currencies, 2 kinds and 3 instruments. BTC/future
  lists two instruments, so a user can switch between them, and ETH/spot
  lists none. `MaxUserSteps = 3` allows a currency change, a kind change and
  an instrument change in one behaviour, so two `get_instruments` can be in
  flight at once. `MaxPushes = 2` lets an update of an old subscription
  arrive after a switch.
- Commands uses 2 instruments and 2 order ids. `MaxUserSteps = 4` covers
  submit, switch and submit again; open, submit, close and reopen; or place,
  cancel and cancel the same order again before its snapshot arrives.
  `MaxDialogs = 2` allows a second dialog while the first one's answer is in
  flight. `MaxPushes = 2` lets a snapshot remove a row under an open dialog.
- Positions uses BTC and ETH and the kinds future and spot. BTC holds a
  position of each kind, so one currency has two buckets. `MaxUserSteps = 4`.
- OrderBookView uses `MAX_ROWS = 3` and books of 0 to 4 levels. Every case
  occurs: padding, an exact fit and a cut.

Every property of a passing run is also checked against a mutant of the code
(see `mutants` in `PROJECT.json`). A mutant is a plausible bug, for example:

- a stale closure in the kind Select;
- a submit button that is not disabled while submitting;
- a merge that does not spread `prevData[currency]`;
- an effect that omits `selectedType` from its dependencies;
- a render without the slice;
- an effect re-run without its cleanup, or one that does not store the new
  socket in `ws.current`;
- an OpenOrders listener that ignores an empty snapshot;
- an instrument change that also resets `isSubmitting`.

The property must fail under each one.

**Fairness.** `FairSpec` assumes weak fairness of:

- the event loop's own work: dispatching queued frames, the close event, React
  flushing effects, and the mount and unmount;
- the venue reading requests.

The code has no timers or retries, so nothing else is forced. It does not
assume fairness of user actions, of the venue's pushes and fills, or of
connection loss. The liveness properties are checked in the safety runs of
their modules, under `FairSpec`. The ConnectionSession run checks no
liveness and allows the page to rest with its socket open (it has
`CHECK_DEADLOCK FALSE`).

## Findings

1. `OrderBook.tsx:39`. On an instrument change, `orderBookData` is not reset.
   The previous instrument's book is shown under the new title
   (`BookMatchesSelection`).
2. `TradingPanel.tsx:50`. An empty instrument list keeps the previous selection
   (`SelectedListed`).
3. `ModifyOrderForm.tsx:56`. Any `modify_response` settles the open form. The
   answer to a dismissed dialog makes the next dialog report a modification
   it never sent (`ModifyOutcomeOwn`). Spec 4.6 and 7(d) say such a response
   is ignored.
4. `OrderForm.tsx:44`. The instrument reset clears the message but not
   `isSubmitting`. An order placed on one instrument reports its outcome in
   the form of the next one (`PlaceOutcomeForShownInstrument`).
5. `PositionsTable.tsx:85`. Selecting `"any"` stores the answer under a key
   `"any"`. The `"any"` view then concatenates that bucket with the per-currency
   buckets, so a position is listed twice and two rows share a React key
   (`RowsDistinct`).
6. `TradingPanel.tsx:56`. Every socket the effect created keeps its
   `onclose`/`onerror`, and they set the shared `isConnected`. When the
   effect re-runs (StrictMode, Fast Refresh), the old socket's close event
   can run after the new socket's open event. The page then shows
   "Connecting to server..." while `ws.current` is open, and nothing sets it
   back (`ShownStatusCurrent`).

## Proofs

Five modules hold proofs. Each one EXTENDS its component and TLAPS.
Action properties are proved from a lemma that every step satisfies them,
and refinements from an initial-state lemma and a step lemma. Every
theorem `Spec => []P` is proved by showing that an inductive invariant holds
initially, that every step preserves it (one step per action), and that it
implies `P`. A final `PTL` step combines the three.

- `ConnectionSessionProofs.tla`: `TypeCorrect`, `IInvHolds`, `RequestAlwaysSent`
  (`Spec => []InitialRequestSent`), `Refinement` (`Spec => SessionRefined`)
  and `ConnectedOnlyByCurrent` (`Spec => ConnectedByCurrent`).
  The invariant `IInv == TypeOK /\ OnlyCurrentLive /\ InitialRequestSent`
  adds that every socket but `ws.current` is unborn, closing or closed: the
  cleanup closed it. So only `ws.current` can open, and `onopen` sends on it.
  For the refinement, the initial state maps to `Session`'s initial state.
  `OnOpen` maps to `Connect`, `ConnectionLost` to `Fail`, and `Remount` to
  `Renew` of the next socket. `OnClose` of a socket already released is a
  stutter, because `Status` maps closing and closed alike.
  `ConnectedByCurrent` is an action property. `ConnectStep` shows that every
  step satisfies it: the only action that turns `isConnected` on is
  `OnOpen(s)`, and `OnlyCurrentLive` makes that `s` the current socket.
- `OrderBookFeedProofs.tla`: `TypeCorrect`, `SubscribedAlwaysRequested`,
  `IInvHolds`, `ListingInvHolds` and `InstrumentsAlwaysMatch`
  (`Spec => []InstrumentsMatchSelection`).
  - `SubscribedRequested` needs `ConnInv`: OrderBook never mounts before the
    socket opens, and `isConnected` implies the socket was opened. The
    difficult step is `VenueReceive`, where the request read either moves
    the subscribed instrument into `venueSubs` or shifts by one position.
  - `InstrumentsMatchSelection` rests on `LatestInstruments`. While the
    socket is open, the last `get_instruments` in the outbox asks for the
    current selection. With none there, the last `instruments` answer in the
    inbox is the current selection's list. With neither, the list shown is
    already that list. It holds because every selection sends its request at
    once, and the venue answers in FIFO order. `TypeIdx` and `IsLast`, with
    lemmas on how they change under `Append` and `Tail`, carry the argument.
- `CommandsProofs.tla`: `PlaceAlwaysCorrelated`, `IInvHolds`,
  `CancelledNeverListed` (`Spec => []CancelledNotListed`) and
  `CancelInvHolds`.
  - `IInv == TypeOK /\ StateInv /\ PlaceCorrelated`. `StateInv` says that
    `isConnected` matches the socket, nothing is mounted or on the wire
    before the socket opens, an unmounted form is not submitting, and an
    open dialog has a number in `1..MaxDialogs`.
  - `CancelCaughtUp` strengthens `CancelledNotListed`. The unmounted list is
    empty. For each cancelled order, if it is listed, or a snapshot on the
    wire lists it, then a later snapshot on the wire omits it. The lemmas
    `CCAppend`, `CCFresh`, `CCTail` and `CCClear` state how appending a
    frame, appending the fresh snapshot after a cancel, handling the head
    frame, and unmounting keep it. That needs `cancelled` and `resting` to
    be disjoint (part of `TypeOK`): the venue's later snapshots never list a
    cancelled order.
  - `PlaceLifecycleHolds` (`Spec => PlaceLifecycle`) needs no invariant.
    `LifecycleStep` goes through the actions one by one. Only `PlaceSubmit`
    sets `placeSubmitting`, and it appends the `place_order` in the same
    step. Only `Dispatch` of an `order_response` and `Unmount` clear it.
- `PositionsProofs.tla`: `BucketsAlwaysKept`,
  `AlwaysShownFresh` and `IInvHolds`. The invariant adds `StateInv` (the
  table mounts after the socket opens) and `SelectionFetched`: while the
  socket is open, the selection was applied, or its request or its answer
  is on the wire. `BucketsKept` is preserved because the merge spreads
  `prevData[currency]`. `currencyKeys` only grows, and without duplicates
  (`AppendKey`). The lemma `TypeCorrect` proves `TypeOK` through an
  equivalent `TypeShape` over named sets of requests and updates.
  `StoreRefinement` (`Spec => StoreRefined`) maps the initial empty object
  to the store's `Empty`. A `Dispatch` that merges (`DispatchMerged`) is
  `ApplyUpdate` of the frame's currency, kind and list. `currencyKeys`
  membership (`ToSet`) is the store's test of "seen before". `Unmount` is
  `Discard`, and every other step leaves both variables unchanged.
- `OrderBookViewProofs.tla`: `ViewAlwaysMatchesSpec`
  (`Spec => []ViewMatchesSpec`) for every `MAX_ROWS`, with levels of positive
  price. `FilledEntries` describes the padded copy, `RowsShape` the rows
  before reversal, and `RenderMatchesSpec` covers both sides.

`TypeOK` of Commands, Positions and OrderBookView is proved as a lemma
(`TypeCorrect`) that the invariant proofs rest on. No run checks it. In
those models it holds by the model's shape: the venue only sends frames of
the listed kinds, a snapshot is drawn from `Books`, and a JS object cannot
hold a key twice. So no plausible bug in the code could break it. The runs
check `TypeOK` only for ConnectionSession, where it includes "`ws.current` is
the last socket created", and for OrderBookFeed.

The assumptions are the named `ASSUME`s of each module. Examples are
`InitInstr \in Instr`, `NoOrder \notin Orders`, `MaxMounts \in Nat \ {0}`,
bounds in `Nat`, and prices in `Nat \ {0}`.

## Out of reach of the prover

The following stay with TLC:

- liveness (`BookFollowsSelection`, `PlaceSettles`) and anything about
  `ENABLED`;
- the violated properties of the findings, which TLC refutes with a trace;
- `RowsDistinct` and the contents of the `"any"` view as a whole, which
  `FlattenSeq` builds. `ShownFresh` and its proof speak of a selected
  currency, not of `"any"`.

## Not modelled

- **`page.tsx` (PageComposition).** It renders `TradingPanel` and holds no
  state, so it has no action to model.
- **`utils/jsonParser.ts` (JsonDecodeHelper).** `safeJsonParse` has no
  caller; every component calls `JSON.parse` directly.
- **Decode failures (TradingPanel 47 and the other listeners).** A frame
  that fails to parse throws before any state is set. The browser then goes
  on to the next frame, which is the same as a dropped frame. An
  `instruments` frame without `result` would set `instruments` to undefined
  and break the render. Whether the venue sends one cannot be told from this
  repository, which has no server code. The models' wire is lossless and
  its frames are well formed.
- **Layout, styling, formatting and the order fields other than the id**
  (amount, price, type, direction). They change no control flow, only
  message texts.
- **The MessageRouter as an object.** There is none. Each component's own
  listener is modelled in the module of that component. The fan-out
  between modules (one socket feeding OrderBookFeed, Commands and
  Positions) is not composed into one module, because the modules share no
  state but the socket's life cycle, which each models alike.
