---------------------------- MODULE MCHhBlaster ----------------------------
(* The senders of lab-hh and of switchyard-master, one at a time, on the   *)
(* same lossy path.                                                        *)
EXTENDS HhBlaster

VARIABLES q, seq, LHS, RHS, cur, master
Master == INSTANCE MasterBlaster WITH Window <- SenderWindow
masterVars == <<q, seq, LHS, RHS, cur, master>>
bothVars == <<vars, masterVars>>

\* The program that does not run is not even started.
BothInit ==
  \/ Init /\ q = << >> /\ seq = 1 /\ LHS = 1 /\ RHS = 1 /\ cur = 0 /\ master = "off"
  \/ /\ Master!MasterInit
     /\ lhs = 1 /\ rhs = 1 /\ statusList = [s \in SeqNo |-> Unsent]
     /\ retranPointer = 0 /\ elapsed = 0 /\ blaster = "off"

BothNext ==
  \/ blaster # "off" /\ Next /\ UNCHANGED masterVars
  \/ blaster = "off" /\ Master!MasterNext /\ UNCHANGED blasterVars

\* The fairness of HhBlaster, for both: the programs keep running, time passes,
\* and a frame that is sent again and again gets through the middlebox.
SenderVars == <<blasterVars, masterVars>>
BothFairness ==
  /\ WF_bothVars(Start /\ UNCHANGED masterVars)
  /\ WF_bothVars(HandleNoPackets /\ UNCHANGED masterVars)
  /\ WF_bothVars(HandleAck /\ UNCHANGED masterVars)
  /\ WF_bothVars(Tick /\ UNCHANGED masterVars)
  /\ WF_bothVars(Master!HandlePacket /\ UNCHANGED blasterVars)
  /\ WF_bothVars(Master!NothingArrived /\ UNCHANGED blasterVars)
  /\ WF_bothVars(Master!MasterTick /\ UNCHANGED blasterVars)
  /\ WF_bothVars((ForwardData \/ DropData) /\ UNCHANGED SenderVars)
  /\ WF_bothVars(ForwardAck /\ UNCHANGED SenderVars)
  /\ WF_bothVars(AckData /\ UNCHANGED SenderVars)
  /\ \A s \in SeqNo : SF_bothVars(Delivers(s) /\ UNCHANGED SenderVars)

BothSpec == BothInit /\ [][BothNext]_bothVars /\ BothFairness

-----------------------------------------------------------------------------
\* Each sender's bookkeeping agrees with its window and with what the blastee
\* has answered, in every interleaving of acknowledgements, timeouts and packets.
WindowsAgree == StatusMatchesWindow /\ Master!QueueIsWindow

\* Nothing is sent that was acknowledged, and nothing for the first time because
\* of a timeout.
SendsOnlyOutstanding ==
  [][IF blaster = "off" THEN Master!SendIsInFlight ELSE SendIsOutstanding]_bothVars

\* What the sender knows to be delivered: the packets marked in statusList, or
\* those below the queue and those flagged in it.
Confirmed ==
  IF blaster = "off" THEN (1 .. LHS - 1) \cup {q[i].seq : i \in {j \in DOMAIN q : q[j].flag}}
                     ELSE {s \in SeqNo : statusList[s] = Acked}

\* The sender has finished: it left its loop, or the next look at the queue
\* makes it do so.
Over == IF blaster = "off" THEN Master!AllDone ELSE blaster = "done"

\* With either sender the three programs implement reliable delivery, the one
\* that crashes or idles included: it stops, but never with a wrong belief.
Delivery == INSTANCE ReliableDelivery
  WITH Packets <- SeqNo, delivered <- answered, confirmed <- Confirmed, over <- Over
ImplementsDelivery == Delivery!Spec

\* They do, and what was sent is acknowledged in the end, unless the program of
\* lab-hh crashes; that of switchyard-master ends, unless it idles.
SentIsDelivered ==
  /\ ImplementsDelivery
  /\ SentIsAcked
  /\ Master!QueueMoves
  /\ blaster # "off" \/ Master!EndsOrIdles
=============================================================================
