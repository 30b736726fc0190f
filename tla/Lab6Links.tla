----------------------------- MODULE Lab6Links ------------------------------
(***************************************************************************)
(* The four unidirectional links of the lab 6 topology                     *)
(*                                                                         *)
(*     blaster <--> middlebox <--> blastee                                 *)
(*                                                                         *)
(* as the three programs of each solution use them through net.send_packet *)
(* and net.recv_packet.  A veth pair keeps the order of the frames, so a   *)
(* link is a queue.  The only field of a frame the programs tell apart is  *)
(* the sequence number: a data frame and an acknowledgement are both       *)
(* written as that number.                                                 *)
(***************************************************************************)
EXTENDS Integers, Sequences

CONSTANTS Num,          \* number of packets to transfer: num of both ends
          LinkCap       \* bound of the model: frames held by one link

ASSUME NumAssumption == Num \in Nat \ {0}
ASSUME LinkCapAssumption == LinkCap \in Nat \ {0}

VARIABLES
  erToMb,   \* data frames from the blaster to the middlebox
  mbToEe,   \* data frames from the middlebox to the blastee
  eeToMb,   \* acknowledgements from the blastee to the middlebox
  mbToEr    \* acknowledgements from the middlebox to the blaster

links == <<erToMb, mbToEe, eeToMb, mbToEr>>

SeqNo == 1 .. Num

LinksTypeOK ==
  /\ erToMb \in Seq(SeqNo)
  /\ mbToEe \in Seq(SeqNo)
  /\ eeToMb \in Seq(SeqNo)
  /\ mbToEr \in Seq(SeqNo)

LinksInit ==
  /\ erToMb = << >>
  /\ mbToEe = << >>
  /\ eeToMb = << >>
  /\ mbToEr = << >>

\* The bound of the model: a program does not run while a link it may write
\* to is full.
HasRoom(link) == Len(link) < LinkCap

\* s is held by link
InLink(s, link) == \E i \in 1 .. Len(link) : link[i] = s
=============================================================================
