-------------------------- MODULE ReliableDelivery --------------------------
(***************************************************************************)
(* What the lab 6 programs promise together, without windows, timers or    *)
(* frames: every packet reaches the receiver, the sender learns of it      *)
(* afterwards, and the transfer is over exactly when it knows of all.      *)
(***************************************************************************)
EXTENDS Integers

CONSTANT Packets

VARIABLES
  delivered,   \* packets the receiver holds
  confirmed,   \* packets the sender knows to be delivered
  over         \* the sender has finished

vars == <<delivered, confirmed, over>>

Init ==
  /\ delivered = {}
  /\ confirmed = {}
  /\ over = FALSE

Deliver(p) ==
  /\ p \notin delivered
  /\ delivered' = delivered \cup {p}
  /\ UNCHANGED <<confirmed, over>>

Confirm(p) ==
  /\ p \in delivered \ confirmed
  /\ confirmed' = confirmed \cup {p}
  /\ over' = (confirmed' = Packets)
  /\ UNCHANGED delivered

Next == \E p \in Packets : Deliver(p) \/ Confirm(p)

Spec == Init /\ [][Next]_vars

Fairness == \A p \in Packets : WF_vars(Deliver(p)) /\ WF_vars(Confirm(p))

FairSpec == Spec /\ Fairness
=============================================================================
