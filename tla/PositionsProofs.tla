--------------------------- MODULE PositionsProofs ---------------------------
(***************************************************************************)
(* Proofs about Positions for every value of its constants: the type       *)
(* invariant, that every bucket the table applied stays in the store       *)
(* (BucketsKept), and that with nothing in flight the table shows the      *)
(* venue's positions of the selection (ShownFresh).  VenueAnswer is never  *)
(* expanded: the proofs need only that an answer is one of Answers and,    *)
(* for a real currency, the venue's Held bucket.                           *)
(***************************************************************************)
EXTENDS Positions, TLAPS

USE ConstantsAssumption DEF Keys

Requests == {GetPositions(c, k) : c \in Keys, k \in Kinds}
Updates == {PositionsUpdate(c, k, VenueAnswer(c, k)) : c \in Keys, k \in Kinds}

(* A positions_update on the wire carries the venue's answer for the      *)
(* currency and kind it names.                                            *)
LEMMA UpdateFields ==
    ASSUME NEW f \in Updates
    PROVE  /\ f.type = "positions_update"
           /\ f.currency \in Keys
           /\ f.kind \in Kinds
           /\ f.data = VenueAnswer(f.currency, f.kind)
           /\ f.data \in Answers
BY DEF Updates, PositionsUpdate, Answers

(* Appending a key the object does not have yet adds it to the key set    *)
(* and keeps the keys distinct (the new-key branch of Merge).             *)
LEMMA AppendKey ==
    ASSUME NEW s \in Seq(Keys), NEW c \in Keys
    PROVE  /\ ToSet(Append(s, c)) = ToSet(s) \cup {c}
           /\ (IsInjective(s) /\ c \notin ToSet(s)) => IsInjective(Append(s, c))
<1> DEFINE t == Append(s, c)
<1>1. DOMAIN t = 1..(Len(s) + 1) /\ t[Len(s) + 1] = c
      /\ \A i \in 1..Len(s) : t[i] = s[i]
    OBVIOUS
<1>2. ToSet(t) = ToSet(s) \cup {c}
    <2>1. ASSUME NEW x \in ToSet(t) PROVE x \in ToSet(s) \cup {c}
        <3>1. PICK i \in 1..(Len(s) + 1) : x = t[i]
            BY <1>1, <2>1 DEF ToSet
        <3>2. QED
            BY <1>1, <3>1 DEF ToSet
    <2>2. ASSUME NEW x \in ToSet(s) PROVE x \in ToSet(t)
        <3>1. PICK i \in 1..Len(s) : x = s[i]
            BY <2>2 DEF ToSet
        <3>2. i \in DOMAIN t /\ x = t[i]
            BY <1>1, <3>1
        <3>3. QED
            BY <3>2 DEF ToSet
    <2>3. c \in ToSet(t)
        <3>1. Len(s) + 1 \in DOMAIN t /\ c = t[Len(s) + 1]
            BY <1>1
        <3>2. QED
            BY <3>1 DEF ToSet
    <2>4. QED
        BY <2>1, <2>2, <2>3
<1>3. ASSUME IsInjective(s), c \notin ToSet(s)
      PROVE  IsInjective(t)
    <2>1. \A i \in 1..Len(s) : s[i] # c
        BY <1>3 DEF ToSet
    <2>2. QED
        BY <1>1, <1>3, <2>1 DEF IsInjective
<1>4. QED
    BY <1>2, <1>3

(* For a real currency the venue answers its Held bucket, a list of       *)
(* positions and so never NoData.                                         *)
LEMMA RealAnswer ==
    ASSUME NEW c \in Currencies, NEW k \in Kinds
    PROVE  /\ VenueAnswer(c, k) = Held[<<c, k>>]
           /\ VenueAnswer(c, k) # NoData
BY DEF VenueAnswer

(* Append, Head and Tail keep a sequence's elements in S.                 *)
LEMMA SeqOps ==
    ASSUME NEW S, NEW s \in Seq(S), NEW x \in S
    PROVE  /\ Append(s, x) \in Seq(S)
           /\ s # <<>> => Head(s) \in S /\ Tail(s) \in Seq(S)
OBVIOUS

-----------------------------------------------------------------------------
(* Type correctness *)

(* TypeOK with the frames on the wire named by their sets.               *)
TypeShape ==
    /\ conn \in {"connecting", "open", "closing", "closed"}
    /\ isConnected \in BOOLEAN
    /\ mounted \in BOOLEAN
    /\ selCurrency \in Keys
    /\ selKind \in Kinds
    /\ currencyKeys \in Seq(Keys)
    /\ IsInjective(currencyKeys)
    /\ positionsData \in [Keys \X Kinds -> Answers \cup {NoData}]
    /\ outbox \in Seq(Requests)
    /\ inbox \in Seq(Updates)
    /\ applied \subseteq Keys \X Kinds
    /\ userSteps \in 0..MaxUserSteps

LEMMA ShapeIsType == TypeOK <=> TypeShape
BY DEF TypeOK, TypeShape, Requests, Updates

LEMMA TypeInit == Init => TypeShape
<1> SUFFICES ASSUME Init PROVE TypeShape
    OBVIOUS
<1>1. IsInjective(currencyKeys) /\ currencyKeys \in Seq(Keys)
    BY DEF Init, IsInjective
<1>2. positionsData \in [Keys \X Kinds -> Answers \cup {NoData}]
    BY DEF Init, EmptyData
<1>3. isConnected \in BOOLEAN /\ mounted \in BOOLEAN
    BY DEF Init
<1>4. outbox \in Seq(Requests) /\ inbox \in Seq(Updates)
    BY DEF Init
<1>5. QED
    BY <1>1, <1>2, <1>3, <1>4 DEF Init, TypeShape

(* The request an effect sends is a get_positions of a key and a kind.    *)
LEMMA FetchType ==
    ASSUME NEW q \in Seq(Requests), NEW c \in Keys, NEW k \in Kinds
    PROVE  Send(q, GetPositions(c, k)) \in Seq(Requests)
<1>1. GetPositions(c, k) \in Requests
    BY DEF Requests
<1>2. QED
    BY <1>1, SeqOps DEF Send

(* The venue's answer to a request on the wire is a positions_update.    *)
LEMMA AnswerType ==
    ASSUME NEW r \in Requests
    PROVE  PositionsUpdate(r.currency, r.kind, VenueAnswer(r.currency, r.kind)) \in Updates
BY DEF Requests, GetPositions, Updates

LEMMA TypeStep == TypeShape /\ [Next]_vars => TypeShape'
<1> SUFFICES ASSUME TypeShape, [Next]_vars PROVE TypeShape'
    OBVIOUS
<1>1. CASE OnOpen
    BY <1>1 DEF OnOpen, TypeShape, storeVars
<1>2. CASE Mount
    <2>1. outbox' \in Seq(Requests)
        BY <1>2, FetchType DEF Mount, FetchPositions, TypeShape
    <2>2. QED
        BY <1>2, <2>1 DEF Mount, TypeShape, storeVars
<1>3. CASE Dispatch
    <2> DEFINE f == Head(inbox)
    <2>1. f \in Updates /\ inbox' \in Seq(Updates)
        BY <1>3, SeqOps DEF Dispatch, TypeShape
    <2>2. f.currency \in Keys /\ f.kind \in Kinds /\ f.data \in Answers
        BY <2>1, UpdateFields
    <2>3. CASE mounted /\ f.type = "positions_update"
        <3>1. Merge(f) /\ applied' = applied \cup {<<f.currency, f.kind>>}
            BY <1>3, <2>3 DEF Dispatch
        <3>2. currencyKeys' \in Seq(Keys) /\ IsInjective(currencyKeys')
            <4>1. CASE f.currency \in ToSet(currencyKeys)
                BY <3>1, <4>1 DEF Merge, TypeShape
            <4>2. CASE f.currency \notin ToSet(currencyKeys)
                BY <2>2, <3>1, <4>2, AppendKey DEF Merge, TypeShape
            <4>3. QED
                BY <4>1, <4>2
        <3>3. positionsData' \in [Keys \X Kinds -> Answers \cup {NoData}]
            BY <2>2, <3>1 DEF Merge, TypeShape
        <3>4. applied' \subseteq Keys \X Kinds
            BY <2>2, <3>1 DEF TypeShape
        <3>5. QED
            BY <1>3, <2>1, <3>2, <3>3, <3>4 DEF Dispatch, TypeShape
    <2>4. CASE ~(mounted /\ f.type = "positions_update")
        BY <1>3, <2>1, <2>4 DEF Dispatch, TypeShape, storeVars
    <2>5. QED
        BY <2>3, <2>4
<1>4. CASE OnClose
    BY <1>4 DEF OnClose, TypeShape, storeVars
<1>5. CASE Unmount
    <2>1. IsInjective(<<>>) /\ <<>> \in Seq(Keys)
        BY DEF IsInjective
    <2>2. EmptyData \in [Keys \X Kinds -> Answers \cup {NoData}]
        BY DEF EmptyData
    <2>3. QED
        BY <1>5, <2>1, <2>2 DEF Unmount, TypeShape
<1>6. CASE \E c \in Keys : SelectCurrency(c)
    <2>1. PICK c \in Keys : SelectCurrency(c)
        BY <1>6
    <2>2. outbox' \in Seq(Requests)
        BY <2>1, FetchType DEF SelectCurrency, FetchPositions, TypeShape
    <2>3. QED
        BY <2>1, <2>2 DEF SelectCurrency, TypeShape, storeVars
<1>7. CASE \E k \in Kinds : SelectKind(k)
    <2>1. PICK k \in Kinds : SelectKind(k)
        BY <1>7
    <2>2. outbox' \in Seq(Requests)
        BY <2>1, FetchType DEF SelectKind, FetchPositions, TypeShape
    <2>3. QED
        BY <2>1, <2>2 DEF SelectKind, TypeShape, storeVars
<1>8. CASE VenueReceive
    <2>1. Head(outbox) \in Requests /\ outbox' \in Seq(Requests)
        BY <1>8, SeqOps DEF VenueReceive, TypeShape
    <2>2. inbox' \in Seq(Updates)
        BY <1>8, <2>1, AnswerType, SeqOps DEF VenueReceive, TypeShape
    <2>3. QED
        BY <1>8, <2>1, <2>2 DEF VenueReceive, TypeShape, storeVars
<1>9. CASE ConnectionLost
    BY <1>9 DEF ConnectionLost, TypeShape, storeVars
<1>10. CASE Halted
    BY <1>10 DEF Halted, TypeShape, vars
<1>11. CASE UNCHANGED vars
    BY <1>11 DEF TypeShape, vars
<1>12. QED
    BY <1>1, <1>2, <1>3, <1>4, <1>5, <1>6, <1>7, <1>8, <1>9, <1>10, <1>11 DEF Next

(* Every state of every behaviour is well typed.                          *)
LEMMA TypeCorrect == Spec => []TypeOK
BY TypeInit, TypeStep, ShapeIsType, PTL DEF Spec

-----------------------------------------------------------------------------
(* The inductive invariant *)

(* Merge adds the frame's currency to the key set, new or not.            *)
LEMMA MergeKeys ==
    ASSUME TypeShape, NEW f, f.currency \in Keys, Merge(f)
    PROVE  ToSet(currencyKeys') = ToSet(currencyKeys) \cup {f.currency}
<1>1. CASE f.currency \in ToSet(currencyKeys)
    BY <1>1 DEF Merge
<1>2. CASE f.currency \notin ToSet(currencyKeys)
    BY <1>2, AppendKey DEF Merge, TypeShape
<1>3. QED
    BY <1>1, <1>2

IInvS == TypeShape /\ StateInv /\ BucketsKept /\ SelectionFetched

LEMMA IInvInit == Init => IInvS
<1> SUFFICES ASSUME Init PROVE IInvS
    OBVIOUS
<1>1. StateInv /\ BucketsKept /\ SelectionFetched
    BY DEF Init, StateInv, BucketsKept, SelectionFetched
<1>2. QED
    BY <1>1, TypeInit DEF IInvS

LEMMA StateStep == StateInv /\ [Next]_vars => StateInv'
<1> SUFFICES ASSUME StateInv, [Next]_vars PROVE StateInv'
    OBVIOUS
<1>1. CASE Dispatch \/ VenueReceive \/ Halted \/ UNCHANGED vars
      \/ \E c \in Keys : SelectCurrency(c) \/ \E k \in Kinds : SelectKind(k)
    BY <1>1 DEF Dispatch, VenueReceive, Halted, vars, SelectCurrency,
                SelectKind, StateInv
<1>2. QED
    BY <1>1 DEF Next, StateInv, OnOpen, Mount, OnClose, Unmount, ConnectionLost

(* The frame Dispatch reads while the table is mounted.                   *)
LEMMA DispatchMerged ==
    ASSUME IInvS, Dispatch, mounted
    PROVE  LET f == Head(inbox) IN
           /\ f \in Updates
           /\ Merge(f)
           /\ applied' = applied \cup {<<f.currency, f.kind>>}
<1> DEFINE f == Head(inbox)
<1>1. f \in Updates
    BY SeqOps DEF Dispatch, IInvS, TypeShape
<1>2. f.type = "positions_update"
    BY <1>1, UpdateFields
<1>3. QED
    BY <1>1, <1>2 DEF Dispatch

LEMMA KeptStep == IInvS /\ [Next]_vars => BucketsKept'
<1> SUFFICES ASSUME IInvS, [Next]_vars PROVE BucketsKept'
    OBVIOUS
<1>1. CASE Dispatch /\ mounted
    <2> DEFINE f == Head(inbox)
    <2>1. f \in Updates /\ Merge(f) /\ applied' = applied \cup {<<f.currency, f.kind>>}
        BY <1>1, DispatchMerged
    <2>2. f.currency \in Keys /\ f.kind \in Kinds /\ f.data = VenueAnswer(f.currency, f.kind)
        BY <2>1, UpdateFields
    <2>3. ToSet(currencyKeys') = ToSet(currencyKeys) \cup {f.currency}
        BY <2>1, <2>2, MergeKeys DEF IInvS
    <2>4. positionsData' = [positionsData EXCEPT ![<<f.currency, f.kind>>] = f.data]
        BY <2>1 DEF Merge
    <2>5. QED
        BY <2>1, <2>2, <2>3, <2>4 DEF IInvS, TypeShape, BucketsKept
<1>2. CASE Dispatch /\ ~mounted
    BY <1>2 DEF Dispatch, IInvS, BucketsKept, storeVars
<1>3. CASE Unmount
    BY <1>3 DEF Unmount, BucketsKept
<1>4. CASE OnOpen \/ Mount \/ OnClose \/ VenueReceive \/ ConnectionLost
      \/ Halted \/ UNCHANGED vars
      \/ \E c \in Keys : SelectCurrency(c) \/ \E k \in Kinds : SelectKind(k)
    BY <1>4 DEF OnOpen, Mount, OnClose, VenueReceive, ConnectionLost, Halted,
                SelectCurrency, SelectKind, vars, storeVars, IInvS, BucketsKept
<1>5. QED
    BY <1>1, <1>2, <1>3, <1>4 DEF Next

(* A request for the selection appended to the outbox.                    *)
LEMMA SentNow ==
    ASSUME NEW q \in Seq(Requests), NEW c \in Keys, NEW k \in Kinds
    PROVE  \E n \in DOMAIN Append(q, GetPositions(c, k)) :
               Append(q, GetPositions(c, k))[n] = GetPositions(c, k)
<1>1. Len(q) + 1 \in DOMAIN Append(q, GetPositions(c, k))
    OBVIOUS
<1>2. QED
    BY <1>1

LEMMA FetchedStep == IInvS /\ [Next]_vars => SelectionFetched'
<1> SUFFICES ASSUME IInvS, [Next]_vars,
                    conn' = "open", mounted', selCurrency' \in Currencies
             PROVE  \/ <<selCurrency', selKind'>> \in applied'
                    \/ \E n \in DOMAIN outbox' : outbox'[n] = GetPositions(selCurrency', selKind')
                    \/ \E n \in DOMAIN inbox' : inbox'[n].currency = selCurrency'
                                                /\ inbox'[n].kind = selKind'
    BY DEF SelectionFetched
<1>0. outbox \in Seq(Requests) /\ inbox \in Seq(Updates)
    BY DEF IInvS, TypeShape
<1>T. selCurrency' \in Keys /\ selKind' \in Kinds
    <2>1. TypeShape'
        BY TypeStep DEF IInvS
    <2>2. QED
        BY <2>1 DEF TypeShape
<1>1. CASE OnOpen
    BY <1>1 DEF OnOpen, IInvS, StateInv
<1>2. CASE Mount
    <2>1. conn = "open"
        BY <1>2 DEF Mount
    <2>2. outbox' = Append(outbox, GetPositions(selCurrency', selKind'))
        BY <1>2, <2>1 DEF Mount, FetchPositions, Send
    <2>3. QED
        BY <1>0, <1>T, <2>2, SentNow
<1>3. CASE Dispatch
    <2> DEFINE f == Head(inbox)
    <2>1. mounted /\ conn = "open" /\ selCurrency \in Currencies
          /\ UNCHANGED <<selCurrency, selKind, outbox>> /\ inbox' = Tail(inbox)
        BY <1>3 DEF Dispatch
    <2>2. f \in Updates /\ applied' = applied \cup {<<f.currency, f.kind>>}
        BY <1>3, <2>1, DispatchMerged
    <2>3. CASE <<selCurrency, selKind>> \in applied
        BY <2>1, <2>2, <2>3
    <2>4. CASE \E n \in DOMAIN outbox : outbox[n] = GetPositions(selCurrency, selKind)
        BY <2>1, <2>4
    <2>5. CASE \E n \in DOMAIN inbox : inbox[n].currency = selCurrency
                                       /\ inbox[n].kind = selKind
        <3>1. PICK n \in DOMAIN inbox : inbox[n].currency = selCurrency
                                        /\ inbox[n].kind = selKind
            BY <2>5
        <3>2. CASE n = 1
            BY <1>0, <2>1, <2>2, <3>1, <3>2
        <3>3. CASE n # 1
            <4>1. n - 1 \in DOMAIN inbox' /\ inbox'[n - 1] = inbox[n]
                BY <1>0, <2>1, <3>1, <3>3
            <4>2. QED
                BY <2>1, <3>1, <4>1
        <3>4. QED
            BY <3>2, <3>3
    <2>6. QED
        BY <2>1, <2>3, <2>4, <2>5 DEF IInvS, SelectionFetched
<1>4. CASE OnClose \/ ConnectionLost
    BY <1>4 DEF OnClose, ConnectionLost
<1>5. CASE Unmount
    BY <1>5 DEF Unmount
<1>6. CASE \E c \in Keys : SelectCurrency(c)
    <2>1. PICK c \in Keys : SelectCurrency(c)
        BY <1>6
    <2>2. outbox' = Append(outbox, GetPositions(selCurrency', selKind'))
        BY <2>1 DEF SelectCurrency, FetchPositions, Send
    <2>3. QED
        BY <1>0, <1>T, <2>2, SentNow
<1>7. CASE \E k \in Kinds : SelectKind(k)
    <2>1. PICK k \in Kinds : SelectKind(k)
        BY <1>7
    <2>2. outbox' = Append(outbox, GetPositions(selCurrency', selKind'))
        BY <2>1 DEF SelectKind, FetchPositions, Send
    <2>3. QED
        BY <1>0, <1>T, <2>2, SentNow
<1>8. CASE VenueReceive
    <2> DEFINE r == Head(outbox)
    <2>1. /\ conn = "open" /\ mounted /\ selCurrency \in Currencies
          /\ UNCHANGED <<selCurrency, selKind, applied>>
          /\ outbox # <<>> /\ outbox' = Tail(outbox)
          /\ inbox' = Append(inbox, PositionsUpdate(r.currency, r.kind,
                                                    VenueAnswer(r.currency, r.kind)))
        BY <1>8 DEF VenueReceive, storeVars
    <2>2. CASE <<selCurrency, selKind>> \in applied
        BY <2>1, <2>2
    <2>3. CASE \E n \in DOMAIN outbox : outbox[n] = GetPositions(selCurrency, selKind)
        <3>1. PICK n \in DOMAIN outbox : outbox[n] = GetPositions(selCurrency, selKind)
            BY <2>3
        <3>2. CASE n = 1
            <4>1. Len(inbox) + 1 \in DOMAIN inbox'
                  /\ inbox'[Len(inbox) + 1].currency = selCurrency
                  /\ inbox'[Len(inbox) + 1].kind = selKind
                BY <1>0, <2>1, <3>1, <3>2 DEF GetPositions, PositionsUpdate
            <4>2. QED
                BY <2>1, <4>1
        <3>3. CASE n # 1
            <4>1. n - 1 \in DOMAIN outbox' /\ outbox'[n - 1] = outbox[n]
                BY <1>0, <2>1, <3>1, <3>3
            <4>2. QED
                BY <2>1, <3>1, <4>1
        <3>4. QED
            BY <3>2, <3>3
    <2>4. CASE \E n \in DOMAIN inbox : inbox[n].currency = selCurrency
                                       /\ inbox[n].kind = selKind
        <3>1. PICK n \in DOMAIN inbox : inbox[n].currency = selCurrency
                                        /\ inbox[n].kind = selKind
            BY <2>4
        <3>2. n \in DOMAIN inbox' /\ inbox'[n] = inbox[n]
            BY <1>0, <2>1, <3>1
        <3>3. QED
            BY <2>1, <3>1, <3>2
    <2>5. QED
        BY <2>1, <2>2, <2>3, <2>4 DEF IInvS, SelectionFetched
<1>9. CASE Halted
    BY <1>9 DEF Halted, vars
<1>10. CASE UNCHANGED vars
    BY <1>10 DEF vars, IInvS, SelectionFetched
<1>11. QED
    BY <1>1, <1>2, <1>3, <1>4, <1>5, <1>6, <1>7, <1>8, <1>9, <1>10 DEF Next

LEMMA IInvStep == IInvS /\ [Next]_vars => IInvS'
BY TypeStep, StateStep, KeptStep, FetchedStep DEF IInvS

(* With the selection applied and kept, the table shows the venue's      *)
(* bucket: a real currency's bucket is never NoData, so the || [] branch  *)
(* of currencyData[selectedType] is not taken.                            *)
LEMMA ShownFromIInv == IInvS => ShownFresh
<1> SUFFICES ASSUME IInvS, conn = "open", mounted, selCurrency \in Currencies,
                    outbox = <<>>, inbox = <<>>
             PROVE  Displayed = VenueAnswer(selCurrency, selKind)
    BY DEF ShownFresh
<1>1. <<selCurrency, selKind>> \in applied
    BY DEF IInvS, SelectionFetched
<1>2. positionsData[<<selCurrency, selKind>>] = VenueAnswer(selCurrency, selKind)
    BY <1>1 DEF IInvS, BucketsKept
<1>3. selKind \in Kinds /\ selCurrency # AnyCurrency
    BY DEF IInvS, TypeShape
<1>4. VenueAnswer(selCurrency, selKind) # NoData
    BY <1>3, RealAnswer
<1>5. QED
    BY <1>2, <1>3, <1>4 DEF Displayed, Bucket

(* PositionsStore (spec 4.4): in every behaviour, every bucket the        *)
(* mounted table applied still holds the venue's answer, under a currency *)
(* key of the object, whatever updates of other buckets came after it.    *)
THEOREM BucketsAlwaysKept == Spec => []BucketsKept
<1>1. Spec => []IInvS
    BY IInvInit, IInvStep, PTL DEF Spec
<1>2. QED
    BY <1>1, PTL DEF IInvS

(* In every behaviour, whenever the socket is open and no positions frame *)
(* is in flight, the table shows the venue's positions of the selected    *)
(* currency and kind: each change of either Select was asked for.         *)
THEOREM AlwaysShownFresh == Spec => []ShownFresh
<1>1. Spec => []IInvS
    BY IInvInit, IInvStep, PTL DEF Spec
<1>2. QED
    BY <1>1, ShownFromIInv, PTL

(* The invariant TLC checks as IInv holds in every behaviour.             *)
THEOREM IInvHolds == Spec => []IInv
<1>1. Spec => []IInvS
    BY IInvInit, IInvStep, PTL DEF Spec
<1>2. IInvS => IInv
    BY ShapeIsType DEF IInvS, IInv
<1>3. QED
    BY <1>1, <1>2, PTL


-----------------------------------------------------------------------------
(* The refinement of spec 4.4's store *)

(* The table mounts with an empty object, as the store starts.            *)
LEMMA RefineInit == Init => Store!Init
BY DEF Init, Store!Init, Store!Empty, EmptyData

(* A merge is one applyUpdate of the frame's currency, kind and list; the *)
(* unmount discards the store; every other step leaves the object alone. *)
LEMMA RefineStep ==
    IInvS /\ [Next]_vars => [Store!Next]_<<positionsData, currencyKeys>>
<1> SUFFICES ASSUME IInvS, [Next]_vars
             PROVE  [Store!Next]_<<positionsData, currencyKeys>>
    OBVIOUS
<1>1. CASE Dispatch /\ mounted
    <2> DEFINE f == Head(inbox)
    <2>1. f \in Updates /\ Merge(f)
        BY <1>1, DispatchMerged
    <2>2. f.currency \in Keys /\ f.kind \in Kinds /\ f.data \in Answers
        BY <2>1, UpdateFields
    <2>3. Store!ApplyUpdate(f.currency, f.kind, f.data)
        BY <2>1 DEF Merge, Store!ApplyUpdate, ToSet
    <2>4. QED
        BY <2>2, <2>3 DEF Store!Next
<1>2. CASE Dispatch /\ ~mounted
    BY <1>2 DEF Dispatch, storeVars
<1>3. CASE Unmount
    <2>1. Store!Discard
        BY <1>3 DEF Unmount, Store!Discard, Store!Empty, EmptyData
    <2>2. QED
        BY <2>1 DEF Store!Next
<1>4. CASE OnOpen \/ Mount \/ OnClose \/ VenueReceive \/ ConnectionLost \/ Halted
           \/ UNCHANGED vars
    BY <1>4 DEF OnOpen, Mount, OnClose, VenueReceive, ConnectionLost, Halted, vars,
                storeVars
<1>5. CASE \E c \in Keys : SelectCurrency(c)
    BY <1>5 DEF SelectCurrency, storeVars
<1>6. CASE \E k \in Kinds : SelectKind(k)
    BY <1>6 DEF SelectKind, storeVars
<1>7. QED
    BY <1>1, <1>2, <1>3, <1>4, <1>5, <1>6 DEF Next

(* PositionsTable's positionsData implements spec 4.4's PositionsStore in *)
(* every behaviour: each change is one applyUpdate, which sets one bucket *)
(* and keeps every other, and records a new currency last, or the store   *)
(* is discarded with the table.                                           *)
THEOREM StoreRefinement == Spec => StoreRefined
<1>1. Spec => []IInvS
    BY IInvInit, IInvStep, PTL DEF Spec
<1>2. Spec => [][Store!Next]_<<positionsData, currencyKeys>>
    BY <1>1, RefineStep, PTL DEF Spec
<1>3. Spec => Store!Init
    BY RefineInit DEF Spec
<1>4. QED
    BY <1>2, <1>3, PTL DEF StoreRefined, Store!Spec, Store!storeVars

=============================================================================
