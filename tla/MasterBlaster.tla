---------------------------- MODULE MasterBlaster ---------------------------
(***************************************************************************)
(* Lab 6 of switchyard-master: the third sender of the same exchange.  It  *)
(* keeps a queue of the packets in flight, sends only when nothing has     *)
(* arrived, and sends the oldest packet again for as long as the timeout   *)
(* is exceeded.  Its middlebox drops and its blastee answers like those of *)
(* HhPath.                                                                 *)
(*                                                                         *)
(* The clock is the time since the queue moved last, in ticks.             *)
(***************************************************************************)
EXTENDS HhPath, SequencesExt

CONSTANTS Window,    \* window
          Timeout    \* timeout, which the program sets to one second

VARIABLES
  q,         \* the packets in flight: number and "has acked" flag
  seq,       \* next packet to send
  LHS, RHS,  \* the ends of the window
  cur,       \* time since the head of the queue was acknowledged
  master     \* "run", "done"

senderVars == <<q, seq, LHS, RHS, cur, master>>
masterVars == <<senderVars, links, answered>>

Node(s) == [seq |-> s, flag |-> FALSE]

MasterInit ==
  /\ PathInit
  /\ q = << >> /\ seq = 1 /\ LHS = 1 /\ RHS = 1
  /\ cur = 0 /\ master = "run"

\* "for i in q: if i.seq == seq3: i.flag = 1"
Flagged(s) == [i \in DOMAIN q |-> [q[i] EXCEPT !.flag = @ \/ q[i].seq = s]]

\* Mutation: the queue is cut after the packet that is acknowledged.
MovedPast(nodes) ==
  LET n == SelectLastInSubSeq(nodes, 1, Len(nodes), LAMBDA node : node.flag)
  IN  SubSeq(nodes, n + 1, Len(nodes))

\* "while len(q) > 0: if q[0].flag == 1: del(q[0]) ... else: break"
Moved(nodes) ==
  LET n == SelectInSeq(nodes, LAMBDA node : ~node.flag)
  IN  IF n = 0 THEN << >> ELSE SubSeq(nodes, n, Len(nodes))

\* An acknowledgement moves the window; nothing is sent.
HandlePacket ==
  LET nodes == Flagged(Head(mbToEr))
      rest  == Moved(nodes)
      n     == Len(q) - Len(rest)
  IN  /\ master = "run"
      /\ mbToEr # << >>
      /\ mbToEr' = Tail(mbToEr)
      /\ q' = rest
      /\ LHS' = IF n > 0 THEN q[n].seq + 1 ELSE LHS
      /\ cur' = IF n > 0 THEN 0 ELSE cur
      /\ UNCHANGED <<seq, RHS, master, erToMb, mbToEe, eeToMb, answered>>

AllDone == seq > Num /\ q = << >>

\* "timer - cur > timeout"
Late == cur > Timeout

\* the oldest packet without an acknowledgement, the first of the queue
ResendOldest ==
  /\ IF q # << >> THEN erToMb' = Append(erToMb, Head(q).seq) ELSE UNCHANGED erToMb
  /\ UNCHANGED <<q, seq, RHS, master>>

\* "RHS - LHS + 1 < window": the ends are both 1 before the first packet, as
\* after it, so that a window of one lets none out.
LetsOut == RHS - LHS + 1 < Window /\ seq <= Num

SendNext ==
  /\ erToMb' = Append(erToMb, seq)
  /\ q' = Append(q, Node(seq))
  /\ RHS' = seq
  /\ seq' = seq + 1
  /\ UNCHANGED master

NothingArrived ==
  /\ master = "run"
  /\ mbToEr = << >>
  /\ HasRoom(erToMb)
  /\ \/ AllDone /\ master' = "done" /\ UNCHANGED <<q, seq, RHS, erToMb>>
     \/ ~AllDone /\ Late /\ ResendOldest
     \/ ~AllDone /\ ~Late /\ LetsOut /\ SendNext
     \/ ~AllDone /\ ~Late /\ ~LetsOut /\ UNCHANGED <<q, seq, RHS, master, erToMb>>
  /\ UNCHANGED <<LHS, cur, mbToEe, eeToMb, mbToEr, answered>>

MasterTick ==
  /\ master = "run" /\ cur <= Timeout
  /\ cur' = cur + 1
  /\ UNCHANGED <<q, seq, LHS, RHS, master, links, answered>>

\* lab_6/blastee.py: answers with the number and the payload of what came in
MasterBlastee == AckData

MasterPath ==
  /\ ForwardData \/ DropData \/ ForwardAck \/ MasterBlastee
  /\ UNCHANGED senderVars

MasterNext == HandlePacket \/ NothingArrived \/ MasterTick \/ MasterPath

-----------------------------------------------------------------------------
\* The queue is the window: the packets from LHS to the one before seq, in
\* order, no more than the window has room for, the first not acknowledged; what
\* is below LHS or flagged was answered by the blastee, whatever order the
\* acknowledgements come in and however often.
QueueIsWindow ==
  /\ Len(q) <= Window
  /\ q # << >> => ~Head(q).flag
  /\ LHS + Len(q) = seq
  /\ \A i \in DOMAIN q : q[i].seq = LHS + i - 1 /\ (q[i].flag => q[i].seq \in answered)
  /\ \A s \in 1 .. LHS - 1 : s \in answered

\* What is sent is in flight and not acknowledged, and after the timeout it is
\* the oldest such packet.
SendIsInFlight ==
  \A s \in SeqNo :
    erToMb' = Append(erToMb, s) =>
      \E i \in DOMAIN q' : q'[i] = Node(s) /\ (Late => i = 1 /\ q' = q)

\* A packet in flight leaves the queue: its turn to be sent again comes.
QueueMoves == \A s \in SeqNo : (\E i \in DOMAIN q : q[i].seq = s) ~> (LHS > s)

\* The program ends with everything acknowledged, unless it finds the timeout
\* exceeded while nothing is in flight: then it sends nothing for ever, because
\* only an acknowledgement would set its clock back.
EndsOrIdles == <>(master = "done" \/ (Late /\ q = << >>))
=============================================================================
