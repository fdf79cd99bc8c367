--------------------------- MODULE PositionsStore ---------------------------
(***************************************************************************)
(* What spec 4.4 promises of PositionsStore: keyed, non-destructive        *)
(* accumulation of position snapshots.  The store holds one bucket per     *)
(* (currency, kind), Never where none was applied, and the order in which *)
(* currencies were first updated (query "any" concatenates in that        *)
(* order).  applyUpdate sets one bucket and keeps every other one.  The   *)
(* store lives as long as the component that owns it: when that goes, it  *)
(* is discarded and the next one starts empty.                             *)
(***************************************************************************)
EXTENDS Sequences

CONSTANTS
    Currency,   \* the currencies an update may name
    Kind,       \* the instrument kinds
    Lists,      \* the position lists an update may carry
    Never       \* the content of a bucket never updated

VARIABLES
    buckets,    \* buckets[<<c, k>>]: the last list applied for (c, k)
    order       \* the currencies in the order of their first update

storeVars == <<buckets, order>>

Empty == [x \in Currency \X Kind |-> Never]

Init ==
    /\ buckets = Empty
    /\ order = <<>>

(* applyUpdate(currency, kind, positions).                                *)
ApplyUpdate(c, k, d) ==
    /\ buckets' = [buckets EXCEPT ![<<c, k>>] = d]
    /\ order' = IF \E i \in DOMAIN order : order[i] = c THEN order
                ELSE Append(order, c)

(* The owner goes away; its successor starts with an empty store.         *)
Discard ==
    /\ buckets' = Empty
    /\ order' = <<>>

Next ==
    \/ \E c \in Currency, k \in Kind, d \in Lists : ApplyUpdate(c, k, d)
    \/ Discard

Spec == Init /\ [][Next]_storeVars

=============================================================================
