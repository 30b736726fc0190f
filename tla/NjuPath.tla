------------------------------- MODULE NjuPath ------------------------------
(***************************************************************************)
(* What lies beyond the blaster in nju-computer_network-master/lab6: the   *)
(* classes Middlebox of middlebox.py and Blastee of blastee.py.            *)
(*                                                                         *)
(* The middlebox keeps no state of its own.  Whether random() falls below  *)
(* dropRate is nondeterministic.  The payload of packet s is a function of *)
(* s (get_data reads the same bytes of the input file each time), so       *)
(* rev_data is written as the set of filled entries.                       *)
(***************************************************************************)
EXTENDS Lab6Links

VARIABLE middlebox      \* "run" or "stopped"

MiddleboxTypeOK == middlebox \in {"run", "stopped"}

MiddleboxInit == middlebox = "run"

\* A frame of the blaster goes on to the blastee ...
ForwardData ==
  /\ middlebox = "run"
  /\ erToMb # << >>
  /\ HasRoom(mbToEe)
  /\ erToMb' = Tail(erToMb)
  /\ mbToEe' = Append(mbToEe, Head(erToMb))
  /\ UNCHANGED <<eeToMb, mbToEr, middlebox>>

\* ... unless the middlebox drops it.
DropData ==
  /\ middlebox = "run"
  /\ erToMb # << >>
  /\ erToMb' = Tail(erToMb)
  /\ UNCHANGED <<mbToEe, eeToMb, mbToEr, middlebox>>

\* Mutation: acknowledgements are dropped like data.
ForwardAckLossy ==
  /\ middlebox = "run"
  /\ eeToMb # << >>
  /\ HasRoom(mbToEr)
  /\ eeToMb' = Tail(eeToMb)
  /\ mbToEr' \in {mbToEr, Append(mbToEr, Head(eeToMb))}
  /\ UNCHANGED <<erToMb, mbToEe, middlebox>>

\* A frame of the blastee always goes on: "Not dropping ACK packets!"
ForwardAck ==
  /\ middlebox = "run"
  /\ eeToMb # << >>
  /\ HasRoom(mbToEr)
  /\ eeToMb' = Tail(eeToMb)
  /\ mbToEr' = Append(mbToEr, Head(eeToMb))
  /\ UNCHANGED <<erToMb, mbToEe, middlebox>>

\* recv_packet raises Shutdown
MiddleboxShutdown ==
  /\ middlebox = "run"
  /\ middlebox' = "stopped"
  /\ UNCHANGED links

-----------------------------------------------------------------------------
(***************************************************************************)
(* The receiver                                                            *)
(***************************************************************************)

CONSTANT HasOutput      \* TRUE when the blastee was given an output file

ASSUME OutputAssumption == HasOutput \in BOOLEAN

VARIABLES
  revData,    \* indices of rev_data that are not None
  received,   \* acked of the blastee: number of entries filled so far
  blastee     \* "run", "done" (spinning after the file is written), "stopped"

blasteeVars == <<revData, received, blastee>>

BlasteeTypeOK ==
  /\ revData \subseteq SeqNo
  /\ received \in Nat
  /\ blastee \in {"run", "done", "stopped"}

BlasteeInit ==
  /\ revData = {}
  /\ received = 0
  /\ blastee = "run"

\* A packet whose entry is still None fills it; the one that fills the last
\* entry makes the blastee write its file and spin, if it has a file to write.
Record(s) ==
  IF s \in revData
  THEN UNCHANGED blasteeVars
  ELSE /\ revData' = revData \cup {s}
       /\ received' = received + 1
       /\ blastee' = IF received' = Num /\ HasOutput THEN "done" ELSE "run"

\* handle_packet: every packet is acknowledged, also one seen before
HandleData ==
  /\ blastee = "run"
  /\ mbToEe # << >>
  /\ HasRoom(eeToMb)
  /\ mbToEe' = Tail(mbToEe)
  /\ eeToMb' = Append(eeToMb, Head(mbToEe))
  /\ Record(Head(mbToEe))
  /\ UNCHANGED <<erToMb, mbToEr>>

\* recv_packet raises Shutdown
BlasteeShutdown ==
  /\ blastee = "run"
  /\ blastee' = "stopped"
  /\ UNCHANGED <<revData, received, links>>
=============================================================================
