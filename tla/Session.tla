------------------------------- MODULE Session -------------------------------
(***************************************************************************)
(* What spec 4.1 promises of ConnectionSession, at the level of transport  *)
(* instances.  An instance goes idle -> connecting -> connected -> closed, *)
(* or from connecting to closed when it fails; closed is terminal.  To     *)
(* reconnect, the owner releases the live instance (close()) and creates a *)
(* new one, so there is never more than one live transport.               *)
(***************************************************************************)
EXTENDS Naturals

CONSTANTS Instances     \* the transport instances the owner may create

VARIABLES st            \* st[i]: the state of instance i

Live == {"connecting", "connected"}

States == {"idle"} \cup Live \cup {"closed"}

(* The owner has created its first instance.                             *)
Init == \E i \in Instances : st = [j \in Instances |-> IF j = i THEN "connecting" ELSE "idle"]

(* The transport of i is established.                                     *)
Connect(i) ==
    /\ st[i] = "connecting"
    /\ st' = [st EXCEPT ![i] = "connected"]

(* The transport of i fails or is closed by the peer.                     *)
Fail(i) ==
    /\ st[i] \in Live
    /\ st' = [st EXCEPT ![i] = "closed"]

(* The owner releases the live instance, if any, and creates i.          *)
Renew(i) ==
    /\ st[i] = "idle"
    /\ st' = [j \in Instances |-> IF j = i THEN "connecting"
                                  ELSE IF st[j] \in Live THEN "closed" ELSE st[j]]

Next == \E i \in Instances : Connect(i) \/ Fail(i) \/ Renew(i)

Spec == Init /\ [][Next]_st

(* At most one instance is live at a time.                                *)
SingleTransport == \A i, j \in Instances : st[i] \in Live /\ st[j] \in Live => i = j

=============================================================================
