------------------------------- MODULE HhPath -------------------------------
(***************************************************************************)
(* What lies beyond the blaster in lab-hh/lab_6: middlebox.py, which drops *)
(* data frames at random, and blastee.py, which answers every data frame   *)
(* and remembers nothing.                                                  *)
(***************************************************************************)
EXTENDS Lab6Links

VARIABLE answered       \* history: numbers the blastee has answered

PathTypeOK == LinksTypeOK /\ answered \subseteq SeqNo

PathInit == LinksInit /\ answered = {}

\* "luck <= droprate" fails: the frame goes on with rewritten addresses
ForwardData ==
  /\ erToMb # << >>
  /\ HasRoom(mbToEe)
  /\ erToMb' = Tail(erToMb)
  /\ mbToEe' = Append(mbToEe, Head(erToMb))
  /\ UNCHANGED <<eeToMb, mbToEr, answered>>

\* "luck <= droprate": the loop continues with the next frame
DropData ==
  /\ erToMb # << >>
  /\ erToMb' = Tail(erToMb)
  /\ UNCHANGED <<mbToEe, eeToMb, mbToEr, answered>>

\* Mutation: an acknowledgement may be lost like data.
ForwardAckLossy ==
  /\ eeToMb # << >>
  /\ HasRoom(mbToEr)
  /\ eeToMb' = Tail(eeToMb)
  /\ mbToEr' \in {mbToEr, Append(mbToEr, Head(eeToMb))}
  /\ UNCHANGED <<erToMb, mbToEe, answered>>

\* Acknowledgements are never dropped.
ForwardAck ==
  /\ eeToMb # << >>
  /\ HasRoom(mbToEr)
  /\ eeToMb' = Tail(eeToMb)
  /\ mbToEr' = Append(mbToEr, Head(eeToMb))
  /\ UNCHANGED <<erToMb, mbToEe, answered>>

\* The blastee sends the sequence number back.
AckData ==
  /\ mbToEe # << >>
  /\ HasRoom(eeToMb)
  /\ mbToEe' = Tail(mbToEe)
  /\ eeToMb' = Append(eeToMb, Head(mbToEe))
  /\ answered' = answered \cup {Head(mbToEe)}
  /\ UNCHANGED <<erToMb, mbToEr>>

\* A frame with number s gets through the middlebox.
Delivers(s) == ForwardData /\ Head(erToMb) = s
=============================================================================
