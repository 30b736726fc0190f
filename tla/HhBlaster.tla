----------------------------- MODULE HhBlaster ------------------------------
(***************************************************************************)
(* Lab 6 of lab-hh: the sender blaster.py against its middlebox and        *)
(* blastee.                                                                *)
(*                                                                         *)
(* The clock is abstracted to elapsed, the time since                      *)
(* latestAckedTimestamp in ticks, saturating above Timeout.                *)
(***************************************************************************)
EXTENDS HhPath, FiniteSetsExt

CONSTANTS SenderWindow, \* senderWindow
          Timeout       \* timeout, in ticks

ASSUME WindowAssumption == SenderWindow \in Nat \ {0}
ASSUME TimeoutAssumption == Timeout \in Nat

VARIABLES
  lhs,            \* first packet not yet acknowledged
  rhs,            \* next packet to send, or num once all were sent
  statusList,     \* Unsent, Sent or Acked for each packet
  retranPointer,  \* next packet of a retransmission round, 0 outside one
  elapsed,        \* time since the last acknowledgement
  blaster         \* "start", "run", "done", "crashed" (IndexError)

blasterVars == <<lhs, rhs, statusList, retranPointer, elapsed, blaster>>

vars == <<blasterVars, links, answered>>

Unsent == 0
Sent == 1
Acked == 2

TypeOK ==
  /\ PathTypeOK
  /\ lhs \in 1 .. Num + 1
  /\ rhs \in 1 .. Num
  /\ statusList \in [SeqNo -> {Unsent, Sent, Acked}]
  /\ retranPointer \in 0 .. Num + 1
  /\ elapsed \in 0 .. Timeout + 1
  /\ blaster \in {"start", "run", "done", "crashed"}

\* The timestamps are set when the module is loaded, the first try_send comes
\* later.
Init ==
  /\ PathInit
  /\ lhs = 1
  /\ rhs = 1
  /\ statusList = [s \in SeqNo |-> Unsent]
  /\ retranPointer = 0
  /\ elapsed = 0
  /\ blaster = "start"

-----------------------------------------------------------------------------
Send(s) == erToMb' = Append(erToMb, s)

SendNothing == erToMb' = erToMb

\* "elif (swTimestamp - latestAckedTimestamp) * 1000 > timeout"
TimedOut(el) == el > Timeout

\* the window lets packet rhs out, and it was not sent before
MaySendNew(l, st) == rhs - l + 1 < SenderWindow /\ st[rhs] = Unsent

\* "rhs += 1; if rhs > num: rhs = num"
NextRhs == Min({rhs + 1, Num})

\* "retranPointer += 1; if retranPointer > rhs: retranPointer = 0"
AdvancePointer(p) == IF p + 1 > rhs THEN 0 ELSE p + 1

\* Mutation: a retransmission does not look at the status.
NeedsResendAlways(p, st) == TRUE

\* "if statusList[retranPointer] == 1"
NeedsResend(p, st) == st[p] = Sent

\* One packet of a retransmission round.
Retransmit(st) ==
  /\ retranPointer \in SeqNo
  /\ IF NeedsResend(retranPointer, st) THEN Send(retranPointer) ELSE SendNothing
  /\ retranPointer' = AdvancePointer(retranPointer)
  /\ blaster' = "run"
  /\ statusList' = st
  /\ rhs' = rhs

\* statusList[retranPointer] with a pointer past the end raises IndexError.
RetransmitPastEnd(st) ==
  /\ retranPointer > Num
  /\ blaster' = "crashed"
  /\ SendNothing
  /\ statusList' = st
  /\ UNCHANGED <<rhs, retranPointer>>

\* A round starts at lhs.  When packet lhs is sent at once the pointer moves
\* on without being compared with rhs.
StartRound(l, st, el) ==
  /\ retranPointer = 0
  /\ TimedOut(el)
  /\ IF NeedsResend(l, st) THEN Send(l) /\ retranPointer' = l + 1
                          ELSE SendNothing /\ retranPointer' = l
  /\ blaster' = "run"
  /\ statusList' = st
  /\ rhs' = rhs

SendNew(l, st, el) ==
  /\ retranPointer = 0
  /\ ~ TimedOut(el)
  /\ IF MaySendNew(l, st)
     THEN Send(rhs) /\ statusList' = [st EXCEPT ![rhs] = Sent] /\ rhs' = NextRhs
     ELSE SendNothing /\ statusList' = st /\ rhs' = rhs
  /\ blaster' = "run"
  /\ retranPointer' = 0

\* try_send, with lhs, statusList and the timer as switchy_main left them
TrySend(l, st, el) ==
  \/ Retransmit(st)
  \/ RetransmitPastEnd(st)
  \/ StartRound(l, st, el)
  \/ SendNew(l, st, el)

-----------------------------------------------------------------------------
\* the first try_send
Start ==
  /\ blaster = "start"
  /\ HasRoom(erToMb)
  /\ TrySend(lhs, statusList, elapsed)
  /\ UNCHANGED <<lhs, elapsed, mbToEe, eeToMb, mbToEr, answered>>

HandleNoPackets ==
  /\ blaster = "run"
  /\ mbToEr = << >>
  /\ HasRoom(erToMb)
  /\ TrySend(lhs, statusList, elapsed)
  /\ UNCHANGED <<lhs, elapsed, mbToEe, eeToMb, mbToEr, answered>>

\* "while lhs <= num: if statusList[lhs] == 2: lhs += 1 else: break"
FirstNotAcked(l, st) == Min({Num + 1} \cup {i \in l .. Num : st[i] # Acked})

\* "statusList[ackSerial] = 2"
MarkAcked(s) == [statusList EXCEPT ![s] = Acked]

\* An acknowledgement: the last one ends the loop, any other one is followed
\* by try_send.
HandleAck ==
  LET st == MarkAcked(Head(mbToEr))
      l  == FirstNotAcked(lhs, st)
  IN  /\ blaster = "run"
      /\ mbToEr # << >>
      /\ HasRoom(erToMb)
      /\ mbToEr' = Tail(mbToEr)
      /\ lhs' = l
      /\ elapsed' = 0
      /\ IF l > Num
         THEN /\ blaster' = "done"
              /\ statusList' = st
              /\ SendNothing
              /\ UNCHANGED <<rhs, retranPointer>>
         ELSE TrySend(l, st, 0)
      /\ UNCHANGED <<mbToEe, eeToMb, answered>>

Tick ==
  /\ blaster \in {"start", "run"}
  /\ elapsed <= Timeout
  /\ elapsed' = elapsed + 1
  /\ UNCHANGED <<lhs, rhs, statusList, retranPointer, blaster, links, answered>>

Path ==
  /\ ForwardData \/ DropData \/ ForwardAck \/ AckData
  /\ UNCHANGED blasterVars

Next == Start \/ HandleNoPackets \/ HandleAck \/ Tick \/ Path

Spec == Init /\ [][Next]_vars

(***************************************************************************)
(* The programs keep running, time passes, and a frame that is sent again  *)
(* and again gets through the middlebox.                                   *)
(***************************************************************************)
Fairness ==
  /\ WF_vars(Start)
  /\ WF_vars(HandleNoPackets)
  /\ WF_vars(HandleAck)
  /\ WF_vars(Tick)
  /\ WF_vars((ForwardData \/ DropData) /\ UNCHANGED blasterVars)
  /\ WF_vars(ForwardAck /\ UNCHANGED blasterVars)
  /\ WF_vars(AckData /\ UNCHANGED blasterVars)
  /\ \A s \in SeqNo : SF_vars(Delivers(s) /\ UNCHANGED blasterVars)

FairSpec == Spec /\ Fairness
-----------------------------------------------------------------------------
\* "sender window >= rhs-lhs+1" (blaster.py:9), in every interleaving of
\* acknowledgements, timeouts and new packets, and the statuses agree with the
\* window: everything below lhs is acknowledged, lhs is not, everything between
\* was sent and nothing above rhs was; what is marked as acknowledged was
\* answered by the blastee.
StatusMatchesWindow ==
  /\ blaster # "done" => lhs <= rhs /\ rhs - lhs + 1 <= SenderWindow
  /\ \A s \in SeqNo :
        /\ s < lhs => statusList[s] = Acked
        /\ s = lhs => statusList[s] # Acked
        /\ s < rhs => statusList[s] # Unsent
        /\ s > rhs => statusList[s] = Unsent
        /\ statusList[s] = Acked => s \in answered

\* A packet is never sent again after its acknowledgement was handled, and
\* never for the first time by a retransmission round.
SendIsOutstanding ==
  \A s \in SeqNo :
    erToMb' = Append(erToMb, s) =>
      statusList'[s] = Sent /\ (retranPointer # 0 => statusList[s] = Sent)
ResendsOnlySent == [][SendIsOutstanding]_vars

\* A packet once sent is acknowledged in the end, unless the program crashes:
\* rounds are repeated until an acknowledgement arrives.
SentIsAcked ==
  \A s \in SeqNo :
    (statusList[s] = Sent) ~> (statusList[s] = Acked \/ blaster = "crashed")

-----------------------------------------------------------------------------
\* "num: Number of packets to be sent by the blaster" (blaster.py:107): every
\* packet is sent in the end, unless the program crashes.
AllPacketsSent ==
  <>(blaster = "crashed" \/ \A s \in SeqNo : statusList[s] # Unsent)
=============================================================================
