-------------------------- MODULE ConnectionSession --------------------------
(***************************************************************************)
(* The connection effect of TradingPanel.tsx (lines 37-71) when it runs    *)
(* more than once: React StrictMode runs a mount effect, its cleanup and   *)
(* the effect again, and Fast Refresh re-runs it, keeping the component's *)
(* state.  Each run stores a new WebSocket in ws.current; the cleanup      *)
(* closes the socket ws.current holds.                                     *)
(*                                                                         *)
(* A socket's readyState changes in the same browser task that runs its    *)
(* handler, so an action is one such task.  The browser orders the tasks   *)
(* of one socket but not those of different sockets: an old socket's close *)
(* event may run before or after the new socket's open event.              *)
(* Socket s is the one the s-th run of the effect created; "unborn" marks  *)
(* one not created yet.  The handlers of every socket share isConnected.   *)
(***************************************************************************)
EXTENDS Naturals

CONSTANTS MaxMounts     \* runs of the connection effect

ASSUME MountsAssumption == MaxMounts \in Nat \ {0}

Sockets == 1..MaxMounts

VARIABLES
    rs,             \* rs[s]: readyState of socket s, or "unborn"
    cur,            \* the socket ws.current holds
    isConnected,    \* TradingPanel isConnected
    requested       \* sockets that get_instruments was sent on

vars == <<rs, cur, isConnected, requested>>

(* fetchInstruments: send on ws.current if it is OPEN.                    *)
FetchInstruments(r) == IF r[cur] = "open" THEN requested \cup {cur} ELSE requested

(* The first run of the effect: new WebSocket(...), handlers attached.    *)
(* The [currency, instrumentType] effect then finds it CONNECTING.        *)
Init ==
    /\ rs = [s \in Sockets |-> IF s = 1 THEN "connecting" ELSE "unborn"]
    /\ cur = 1
    /\ isConnected = FALSE
    /\ requested = {}

(* onopen: setIsConnected(true) and fetchInstruments().                   *)
OnOpen(s) ==
    /\ rs[s] = "connecting"
    /\ rs' = [rs EXCEPT ![s] = "open"]
    /\ isConnected' = TRUE
    /\ requested' = FetchInstruments(rs')
    /\ UNCHANGED cur

(* The connection fails or the server closes it: onerror and onclose     *)
(* both setIsConnected(false).                                            *)
ConnectionLost(s) ==
    /\ rs[s] \in {"connecting", "open"}
    /\ rs' = [rs EXCEPT ![s] = "closed"]
    /\ isConnected' = FALSE
    /\ UNCHANGED <<cur, requested>>

(* The close that close() started completes: onclose (after onerror when *)
(* the socket was still connecting) sets isConnected to false.           *)
OnClose(s) ==
    /\ rs[s] = "closing"
    /\ rs' = [rs EXCEPT ![s] = "closed"]
    /\ isConnected' = FALSE
    /\ UNCHANGED <<cur, requested>>

(* ws.current.close(): a CONNECTING or OPEN socket starts closing; on a   *)
(* CLOSING or CLOSED one it does nothing.                                 *)
Close(r, s) == IF r[s] \in {"connecting", "open"} THEN [r EXCEPT ![s] = "closing"] ELSE r

(* Mutant of Remount: the new socket is not stored in ws.current.        *)
RemountStaleRef ==
    /\ cur < MaxMounts
    /\ rs' = [Close(rs, cur) EXCEPT ![cur + 1] = "connecting"]
    /\ UNCHANGED <<cur, isConnected, requested>>

(* Mutant of Remount: the effect returns no cleanup.                      *)
RemountNoCleanup ==
    /\ cur < MaxMounts
    /\ rs' = [rs EXCEPT ![cur + 1] = "connecting"]
    /\ cur' = cur + 1
    /\ UNCHANGED <<isConnected, requested>>

(* The cleanup closes ws.current and the effect runs again: a new socket  *)
(* in ws.current.  State is kept, isConnected included; the              *)
(* [currency, instrumentType] effect finds the new socket CONNECTING.    *)
Remount ==
    /\ cur < MaxMounts
    /\ rs' = [Close(rs, cur) EXCEPT ![cur + 1] = "connecting"]
    /\ cur' = cur + 1
    /\ UNCHANGED <<isConnected, requested>>

Next ==
    \/ \E s \in Sockets : OnOpen(s) \/ ConnectionLost(s) \/ OnClose(s)
    \/ Remount

Spec == Init /\ [][Next]_vars

-----------------------------------------------------------------------------
(* Properties *)

ReadyStates == {"unborn", "connecting", "open", "closing", "closed"}

(* Every variable has its type; ws.current holds the newest socket.       *)
TypeOK ==
    /\ rs \in [Sockets -> ReadyStates]
    /\ cur \in Sockets
    /\ \A s \in Sockets : rs[s] = "unborn" <=> s > cur
    /\ isConnected \in BOOLEAN
    /\ requested \subseteq Sockets

(* The transport instances as spec 4.1 sees them: a socket that close()   *)
(* was called on is released, whether or not its close event has run.     *)
Status(r) ==
    CASE r = "unborn"     -> "idle"
      [] r = "connecting" -> "connecting"
      [] r = "open"       -> "connected"
      [] OTHER            -> "closed"

Abstract == INSTANCE Session WITH Instances <- Sockets,
                                  st <- [s \in Sockets |-> Status(rs[s])]

(* The effect and its cleanup implement spec 4.1's session: each socket   *)
(* connects at most once and never after it was released, and a new one  *)
(* is created only after the live one is closed.                          *)
SessionRefined == Abstract!Spec

(* Spec 4.1: the connected event triggers the initial requests.  Every    *)
(* open socket has had get_instruments sent on it, which holds because    *)
(* only ws.current can open: the cleanup closed every older one.          *)
InitialRequestSent == \A s \in Sockets : rs[s] = "open" => s \in requested

(* Only ws.current may be connecting or open: every older socket was      *)
(* closed by a cleanup.  With TypeOK and InitialRequestSent it is the     *)
(* inductive invariant of the proofs.                                     *)
OnlyCurrentLive == \A s \in Sockets \ {cur} : rs[s] \in {"unborn", "closing", "closed"}

IInv == TypeOK /\ OnlyCurrentLive /\ InitialRequestSent

(* A step that turns isConnected on is the onopen of ws.current, which   *)
(* sends get_instruments on it in the same task: an older socket, which   *)
(* the cleanup closed, never makes the page show "connected".              *)
ConnectedByCurrent ==
    [][~isConnected /\ isConnected' => rs'[cur'] = "open" /\ cur' \in requested']_vars

(* Once no old socket has a close event pending, TradingPanel shows       *)
(* "connected" exactly when ws.current is open: the handlers of an old    *)
(* socket do not decide what the page shows.                              *)
ShownStatusCurrent ==
    (\A s \in Sockets \ {cur} : rs[s] \in {"unborn", "closed"})
    => (isConnected <=> rs[cur] = "open")

=============================================================================
