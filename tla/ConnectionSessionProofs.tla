---------------------- MODULE ConnectionSessionProofs ----------------------
(***************************************************************************)
(* Proofs about the re-run connection effect, for every number of runs:    *)
(* its invariant, and that it implements spec 4.1's session.               *)
(***************************************************************************)
EXTENDS ConnectionSession, TLAPS

USE MountsAssumption

(* The mapped session state, named for the proofs.                       *)
Mapped == [s \in Sockets |-> Status(rs[s])]

-----------------------------------------------------------------------------
(* The invariant *)

LEMMA IInvInit == Init => IInv
<1> SUFFICES ASSUME Init PROVE IInv
  OBVIOUS
<1>1. isConnected \in BOOLEAN
  BY DEF Init
<1>2. rs \in [Sockets -> ReadyStates] /\ cur \in Sockets
  BY DEF Init, ReadyStates, Sockets
<1>3. \A s \in Sockets : rs[s] = "unborn" <=> s > cur
  BY DEF Init, Sockets
<1>4. requested \subseteq Sockets /\ OnlyCurrentLive /\ InitialRequestSent
  BY DEF Init, OnlyCurrentLive, InitialRequestSent, Sockets
<1>5. QED
  BY <1>1, <1>2, <1>3, <1>4, Zenon DEF IInv, TypeOK

(* A socket that can open is ws.current.                                 *)
LEMMA OpensCurrent ==
    ASSUME IInv, NEW s \in Sockets, rs[s] = "connecting"
    PROVE  s = cur
BY DEF IInv, OnlyCurrentLive

LEMMA IInvStep == IInv /\ [Next]_vars => IInv'
<1> SUFFICES ASSUME IInv, [Next]_vars PROVE IInv'
  OBVIOUS
<1> USE DEF IInv, TypeOK, OnlyCurrentLive, InitialRequestSent, ReadyStates, Sockets
<1>1. ASSUME NEW s \in Sockets, OnOpen(s) PROVE IInv'
  <2>1. s = cur
    BY <1>1, OpensCurrent DEF OnOpen
  <2>2. QED
    BY <1>1, <2>1 DEF OnOpen, FetchInstruments
<1>2. ASSUME NEW s \in Sockets, ConnectionLost(s) PROVE IInv'
  BY <1>2 DEF ConnectionLost
<1>3. ASSUME NEW s \in Sockets, OnClose(s) PROVE IInv'
  BY <1>3 DEF OnClose
<1>4. CASE Remount
  BY <1>4 DEF Remount, Close
<1>5. CASE UNCHANGED vars
  BY <1>5 DEF vars
<1>6. QED
  BY <1>1, <1>2, <1>3, <1>4, <1>5 DEF Next

(* Every open socket was asked for instruments, for any number of runs.  *)
THEOREM RequestAlwaysSent == Spec => []InitialRequestSent
<1>1. Spec => []IInv
  BY IInvInit, IInvStep, PTL DEF Spec
<1>2. QED
  BY <1>1, PTL DEF IInv

(* Every reachable state of the sockets is well typed, and ws.current    *)
(* holds the newest socket, for any number of runs of the effect.         *)
THEOREM TypeCorrect == Spec => []TypeOK
<1>1. Spec => []IInv
  BY IInvInit, IInvStep, PTL DEF Spec
<1>2. QED
  BY <1>1, PTL DEF IInv

(* The inductive invariant TLC checks as IInv holds in every behaviour.  *)
THEOREM IInvHolds == Spec => []IInv
BY IInvInit, IInvStep, PTL DEF Spec

(* Only the onopen of ws.current turns isConnected on, and it sends       *)
(* get_instruments on that socket in the same step.                      *)
LEMMA ConnectStep ==
    IInv /\ [Next]_vars =>
        (~isConnected /\ isConnected' => rs'[cur'] = "open" /\ cur' \in requested')
<1> SUFFICES ASSUME IInv, [Next]_vars, ~isConnected, isConnected'
             PROVE  rs'[cur'] = "open" /\ cur' \in requested'
  OBVIOUS
<1>1. ASSUME NEW s \in Sockets, OnOpen(s) PROVE rs'[cur'] = "open" /\ cur' \in requested'
  <2>1. s = cur
    BY <1>1, OpensCurrent DEF OnOpen
  <2>2. rs'[cur] = "open" /\ cur' = cur
    BY <1>1, <2>1 DEF OnOpen, IInv, TypeOK
  <2>3. QED
    BY <1>1, <2>2 DEF OnOpen, FetchInstruments
<1>2. ASSUME NEW s \in Sockets, ConnectionLost(s) \/ OnClose(s) PROVE FALSE
  BY <1>2 DEF ConnectionLost, OnClose
<1>3. ASSUME Remount \/ UNCHANGED vars PROVE FALSE
  BY <1>3 DEF Remount, vars
<1>4. QED
  BY <1>1, <1>2, <1>3 DEF Next

(* The page shows "connected" only because ws.current opened, however     *)
(* often StrictMode or Fast Refresh re-runs the connection effect.       *)
THEOREM ConnectedOnlyByCurrent == Spec => ConnectedByCurrent
<1>1. Spec => []IInv
  BY IInvInit, IInvStep, PTL DEF Spec
<1>2. QED
  BY <1>1, ConnectStep, PTL DEF Spec, ConnectedByCurrent

-----------------------------------------------------------------------------
(* The refinement *)

LEMMA RefineInit == Init => Abstract!Init
<1> SUFFICES ASSUME Init
             PROVE  Mapped = [j \in Sockets |-> IF j = 1 THEN "connecting" ELSE "idle"]
  BY MountsAssumption DEF Abstract!Init, Mapped, Sockets
<1> QED
  BY DEF Init, Mapped, Status, Sockets

LEMMA RefineStep == IInv /\ [Next]_vars => [Abstract!Next]_Mapped
<1> SUFFICES ASSUME IInv, [Next]_vars PROVE [Abstract!Next]_Mapped
  OBVIOUS
<1> USE DEF IInv, TypeOK, ReadyStates
<1>1. ASSUME NEW s \in Sockets, OnOpen(s) PROVE [Abstract!Next]_Mapped
  <2>1. Mapped[s] = "connecting"
    BY <1>1 DEF OnOpen, Mapped, Status
  <2>2. Mapped' = [Mapped EXCEPT ![s] = "connected"]
    BY <1>1 DEF OnOpen, Mapped, Status
  <2>3. Abstract!Connect(s)
    BY <2>1, <2>2 DEF Abstract!Connect, Mapped
  <2>4. QED
    BY <2>3 DEF Abstract!Next
<1>2. ASSUME NEW s \in Sockets, ConnectionLost(s) PROVE [Abstract!Next]_Mapped
  <2>1. Mapped[s] \in Abstract!Live
    BY <1>2 DEF ConnectionLost, Mapped, Status, Abstract!Live
  <2>2. Mapped' = [Mapped EXCEPT ![s] = "closed"]
    BY <1>2 DEF ConnectionLost, Mapped, Status
  <2>3. Abstract!Fail(s)
    BY <2>1, <2>2 DEF Abstract!Fail, Mapped
  <2>4. QED
    BY <2>3 DEF Abstract!Next
<1>3. ASSUME NEW s \in Sockets, OnClose(s) PROVE [Abstract!Next]_Mapped
  BY <1>3 DEF OnClose, Mapped, Status
<1>4. ASSUME Remount PROVE [Abstract!Next]_Mapped
  <2>1. cur + 1 \in Sockets /\ Mapped[cur + 1] = "idle"
    BY <1>4 DEF Remount, Mapped, Status, Sockets
  <2>2. ASSUME NEW j \in Sockets
        PROVE  Mapped'[j] = IF j = cur + 1 THEN "connecting"
                            ELSE IF Mapped[j] \in Abstract!Live THEN "closed" ELSE Mapped[j]
    <3>1. CASE j = cur + 1
      BY <1>4, <3>1 DEF Remount, Close, Mapped, Status
    <3>2. CASE j = cur
      BY <1>4, <3>2 DEF Remount, Close, Mapped, Status, Abstract!Live, Sockets
    <3>3. CASE j # cur /\ j # cur + 1
      <4>1. rs[j] \in {"unborn", "closing", "closed"} /\ rs'[j] = rs[j]
        BY <1>4, <3>3 DEF Remount, Close, OnlyCurrentLive
      <4>2. QED
        BY <3>3, <4>1 DEF Mapped, Status, Abstract!Live
    <3>4. QED
      BY <3>1, <3>2, <3>3
  <2>3. Abstract!Renew(cur + 1)
    BY <2>1, <2>2 DEF Abstract!Renew, Mapped
  <2>4. QED
    BY <2>1, <2>3 DEF Abstract!Next
<1>5. CASE UNCHANGED vars
  BY <1>5 DEF vars, Mapped
<1>6. QED
  BY <1>1, <1>2, <1>3, <1>4, <1>5 DEF Next

(* The effect, re-run any number of times, implements spec 4.1's session. *)
THEOREM Refinement == Spec => SessionRefined
<1>1. Spec => []IInv
  BY IInvInit, IInvStep, PTL DEF Spec
<1>2. Spec => [][Abstract!Next]_Mapped
  BY <1>1, RefineStep, PTL DEF Spec
<1>3. Spec => Abstract!Init
  BY RefineInit DEF Spec
<1>4. QED
  BY <1>2, <1>3, PTL DEF SessionRefined, Abstract!Spec, Mapped

=============================================================================
