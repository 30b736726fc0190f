----------------------------- MODULE NjuReliable -----------------------------
(***************************************************************************)
(* Lab 6 of nju-computer_network-master: blaster, middlebox and blastee    *)
(* running against each other.                                             *)
(***************************************************************************)
EXTENDS NjuBlaster, NjuPath

ends == <<blasterVars, blasteeVars, middlebox>>

vars == <<ends, links>>

Init ==
  /\ LinksInit
  /\ BlasterInit
  /\ MiddleboxInit
  /\ BlasteeInit

BlasterStep ==
  /\ Start \/ HandleAck \/ HandleNoPacket \/ Tick
  /\ UNCHANGED <<mbToEe, eeToMb, middlebox, blasteeVars>>

MiddleboxStep ==
  /\ ForwardData \/ DropData \/ ForwardAck
  /\ UNCHANGED <<blasterVars, blasteeVars>>

BlasteeStep ==
  /\ HandleData
  /\ UNCHANGED <<blasterVars, middlebox>>

\* Whoever operates the lab stops one of the three programs.
Interrupt ==
  \/ BlasterShutdown /\ UNCHANGED <<mbToEe, eeToMb, middlebox, blasteeVars>>
  \/ MiddleboxShutdown /\ UNCHANGED <<blasterVars, blasteeVars>>
  \/ BlasteeShutdown /\ UNCHANGED <<blasterVars, middlebox>>

Run == BlasterStep \/ MiddleboxStep \/ BlasteeStep

Next == Run \/ Interrupt

Spec == Init /\ [][Next]_vars

(***************************************************************************)
(* Every program keeps running its receive loop, time passes, and the      *)
(* middlebox, which drops with a probability below one, forwards a frame   *)
(* at least once if it is given the chance again and again.  recv_timeout  *)
(* is shorter than timeout (100 and 300 ms in test.sh and by default): the *)
(* blaster does not always find its timer expired when nothing arrives.    *)
(***************************************************************************)
Delivers(s) == ForwardData /\ Head(erToMb) = s

PollsInTime == HandleNoPacket /\ TimerRuns(elapsed)

Fairness ==
  /\ WF_vars(Start /\ UNCHANGED <<mbToEe, eeToMb, middlebox, blasteeVars>>)
  /\ WF_vars(HandleAck /\ UNCHANGED <<mbToEe, eeToMb, middlebox, blasteeVars>>)
  /\ WF_vars(HandleNoPacket /\ UNCHANGED <<mbToEe, eeToMb, middlebox, blasteeVars>>)
  /\ SF_vars(PollsInTime /\ UNCHANGED <<mbToEe, eeToMb, middlebox, blasteeVars>>)
  /\ WF_vars(Tick /\ UNCHANGED <<mbToEe, eeToMb, middlebox, blasteeVars>>)
  /\ WF_vars((ForwardData \/ DropData) /\ UNCHANGED <<blasterVars, blasteeVars>>)
  /\ WF_vars(ForwardAck /\ UNCHANGED <<blasterVars, blasteeVars>>)
  /\ WF_vars(BlasteeStep)
  /\ \A s \in SeqNo : SF_vars(Delivers(s) /\ UNCHANGED <<blasterVars, blasteeVars>>)

FairSpec == Spec /\ Fairness

\* A transfer nobody interrupts
Undisturbed ==
  [](blaster # "stopped" /\ middlebox # "stopped" /\ blastee # "stopped")

-----------------------------------------------------------------------------
(***************************************************************************)
(* Safety                                                                  *)
(***************************************************************************)

\* Each variable of blaster.py, blastee.py and the links keeps its range.
TypeOK ==
  /\ LinksTypeOK
  /\ BlasterTypeOK
  /\ MiddleboxTypeOK
  /\ BlasteeTypeOK

\* However acknowledgements and timeouts interleave, the blaster never has
\* more than sender_window packets between lhs and rhs, and lhs never
\* overtakes rhs.
WindowBound == lhs <= rhs /\ rhs - lhs <= SenderWindow

\* lhs stands at the first packet whose acknowledgement has not been handled,
\* also when acknowledgements came out of order.
LhsIsFirstUnacked == 1 .. lhs - 1 \subseteq acked /\ lhs \notin acked

\* A packet counts as acknowledged only when the blastee holds its data,
\* whichever process was stopped in between.
AckedWasReceived == acked \subseteq revData

\* The acknowledgement of a packet the blastee holds is never lost: the
\* blaster has handled it or it is on its way.  This is why the blastee may
\* stop answering (and spin) once it has written its file.
AckNeverLost ==
  \A s \in revData : s \in acked \/ InLink(s, eeToMb) \/ InLink(s, mbToEr)

\* The blaster reports its statistics and spins only once the blastee holds
\* every packet, and the blastee's counter agrees with its table.
DoneIsComplete ==
  /\ blaster = "done" => revData = SeqNo
  /\ blastee = "done" => revData = SeqNo
  /\ received = Cardinality(revData)

\* An acknowledgement and a data frame never carry a number the blaster has
\* not sent yet: nothing on the links is at or above rhs.
NothingAheadOfRhs ==
  \A s \in SeqNo :
    InLink(s, erToMb) \/ InLink(s, mbToEe) \/ InLink(s, eeToMb) \/ InLink(s, mbToEr)
      => s < rhs

-----------------------------------------------------------------------------
(***************************************************************************)
(* The inductive invariant behind the safety properties: what the links    *)
(* hold, and where the cursor of a resend round may stand, in terms of the *)
(* blaster's and the blastee's state.                                      *)
(***************************************************************************)
LinksInv ==
  \A s \in SeqNo :
    /\ InLink(s, erToMb) \/ InLink(s, mbToEe) => s < rhs
    /\ InLink(s, eeToMb) \/ InLink(s, mbToEr) => s \in revData

EndsInv ==
  /\ \A s \in revData : s < rhs
  /\ resendIdx < rhs
  /\ blaster = "done" <=> lhs = Num + 1
  /\ blastee = "done" => received = Num
  /\ received = Cardinality(revData)

\* The strengthening of the safety properties that every step preserves.
TransferInv ==
  /\ TypeOK
  /\ WindowBound
  /\ LhsIsFirstUnacked
  /\ AckedWasReceived
  /\ AckNeverLost
  /\ LinksInv
  /\ EndsInv

-----------------------------------------------------------------------------
(***************************************************************************)
(* Action properties                                                       *)
(***************************************************************************)
JustSent(s) == erToMb' = Append(erToMb, s)

\* What the blaster sends is a packet not acknowledged by then, either the
\* one at rhs or one already outstanding.
SendsOnlyUnacked ==
  [][\A s \in SeqNo : JustSent(s) => s \notin acked' /\ lhs' <= s /\ s < rhs']_vars

-----------------------------------------------------------------------------
(***************************************************************************)
(* Liveness, and the abstract specification                                *)
(***************************************************************************)
Delivery == INSTANCE ReliableDelivery
  WITH Packets <- SeqNo, delivered <- revData, confirmed <- acked,
       over <- (blaster = "done")

\* The three programs implement reliable delivery, also when they are stopped.
ImplementsDelivery == Delivery!Spec

\* They do, and a transfer nobody interrupts has the liveness of reliable delivery
\* as well: each packet is delivered and each delivered packet is confirmed.
ImplementsFairDelivery == Delivery!Spec /\ (Undisturbed => Delivery!Fairness)
=============================================================================
