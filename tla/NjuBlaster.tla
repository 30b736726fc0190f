----------------------------- MODULE NjuBlaster -----------------------------
(***************************************************************************)
(* The sliding-window sender, class Blaster of                             *)
(* nju-computer_network-master/lab6/blaster.py.                            *)
(*                                                                         *)
(* The clock is abstracted to elapsed = min(time() - timer, Timeout),      *)
(* counted in ticks: "time() - self.timer < self.timeout" is               *)
(* elapsed < Timeout and "self.timer = time()" is elapsed' = 0.            *)
(***************************************************************************)
EXTENDS Lab6Links, FiniteSetsExt

CONSTANTS SenderWindow, \* sender_window
          Timeout       \* timeout, in ticks of the model's clock

ASSUME WindowAssumption == SenderWindow \in Nat \ {0}
ASSUME TimeoutAssumption == Timeout \in Nat \ {0}

VARIABLES
  lhs,        \* first sequence number not yet acknowledged
  rhs,        \* next sequence number to send for the first time
  acked,      \* sequence numbers acknowledged so far
  resendIdx,  \* cursor of the resend round, NoResend outside a round
  elapsed,    \* time since the timer was set, saturating at Timeout
  blaster     \* "start", "run", "done" (spinning after the last ack), "stopped"

blasterVars == <<lhs, rhs, acked, resendIdx, elapsed, blaster>>

NoResend == -1

BlasterTypeOK ==
  /\ lhs \in 1 .. Num + 1
  /\ rhs \in 1 .. Num + 1
  /\ acked \subseteq SeqNo
  /\ resendIdx \in SeqNo \cup {NoResend}
  /\ elapsed \in 0 .. Timeout
  /\ blaster \in {"start", "run", "done", "stopped"}

BlasterInit ==
  /\ lhs = 1
  /\ rhs = 1
  /\ acked = {}
  /\ resendIdx = NoResend
  /\ elapsed = 0
  /\ blaster = "start"

-----------------------------------------------------------------------------
\* Mutation: the loop is written as an if.
SkipAckedOnce(i, ack) == IF i \in ack THEN i + 1 ELSE i

\* "while i in self.acked: i += 1", the loop of try_to_send and handle_ack
SkipAcked(i, ack) == Min({j \in i .. Num + 1 : j \notin ack})

\* "time() - self.timer < self.timeout"
TimerRuns(el) == el < Timeout

\* Mutation: the window is one packet too large.
MaySendNewTooFar(l) == rhs - l <= SenderWindow /\ rhs <= Num

\* Mutation: the last packet is never sent.
MaySendNewNotLast(l) == rhs - l <= SenderWindow - 1 /\ rhs < Num

\* the window lets the next new packet out
MaySendNew(l) == rhs - l <= SenderWindow - 1 /\ rhs <= Num

\* Mutation: the bound at rhs is not strict.
OutstandingUpToRhs(l, s) == l <= s /\ s <= rhs

\* "self.lhs <= self.resend_idx < self.rhs"
Outstanding(l, s) == l <= s /\ s < rhs

\* a resend round ends when its cursor reaches rhs
CloseRound(i) == IF i >= rhs THEN NoResend ELSE i

\* "self.acked.add(seqno)": acknowledgements are selective
AddAck(s) == acked \cup {s}

\* Mutation: the transfer ends one packet early.
AllAckedEarly(l) == l >= Num

\* "self.lhs == self.num + 1"
AllAcked(l) == l = Num + 1

Send(s) == erToMb' = Append(erToMb, s)

SendNothing == erToMb' = erToMb

\* Outside a resend round, timer running: the next new packet, if the window
\* allows it.
SendNew(l, el) ==
  /\ resendIdx = NoResend
  /\ TimerRuns(el)
  /\ IF MaySendNew(l) THEN Send(rhs) /\ rhs' = rhs + 1
                      ELSE SendNothing /\ rhs' = rhs
  /\ elapsed' = el
  /\ resendIdx' = NoResend

\* One packet of a resend round whose cursor stands at i before acknowledged
\* packets are skipped.
ResendFrom(l, ack, i) ==
  LET next == SkipAcked(i, ack)
  IN  /\ IF Outstanding(l, next)
         THEN Send(next) /\ resendIdx' = CloseRound(next + 1)
         ELSE SendNothing /\ resendIdx' = CloseRound(next)
      /\ rhs' = rhs

\* The timer has expired: a resend round starts at lhs and the timer restarts.
StartRound(l, ack, el) ==
  /\ resendIdx = NoResend
  /\ ~ TimerRuns(el)
  /\ ResendFrom(l, ack, l)
  /\ elapsed' = 0

ContinueRound(l, ack, el) ==
  /\ resendIdx # NoResend
  /\ ResendFrom(l, ack, resendIdx)
  /\ elapsed' = el

\* try_to_send, called with the values handle_ack left in lhs, acked and timer
TryToSend(l, ack, el) ==
  \/ SendNew(l, el)
  \/ StartRound(l, ack, el)
  \/ ContinueRound(l, ack, el)

-----------------------------------------------------------------------------
\* The first try_to_send: it sets the timer before anything else.
Start ==
  /\ blaster = "start"
  /\ HasRoom(erToMb)
  /\ TryToSend(lhs, acked, 0)
  /\ blaster' = "run"
  /\ UNCHANGED <<lhs, acked, mbToEr>>

\* handle_packet: handle_ack, and try_to_send unless that ack was the last
HandleAck ==
  LET ack == AddAck(Head(mbToEr))
      l   == SkipAcked(lhs, ack)
      el  == IF l > lhs THEN 0 ELSE elapsed
  IN  /\ blaster = "run"
      /\ mbToEr # << >>
      /\ HasRoom(erToMb)
      /\ mbToEr' = Tail(mbToEr)
      /\ acked' = ack
      /\ lhs' = l
      /\ IF AllAcked(l)
         THEN /\ blaster' = "done"
              /\ elapsed' = el
              /\ SendNothing
              /\ UNCHANGED <<rhs, resendIdx>>
         ELSE /\ blaster' = "run"
              /\ TryToSend(l, ack, el)

\* NoPackets: nothing arrived within recv_timeout
HandleNoPacket ==
  /\ blaster = "run"
  /\ mbToEr = << >>
  /\ HasRoom(erToMb)
  /\ TryToSend(lhs, acked, elapsed)
  /\ UNCHANGED <<lhs, acked, blaster, mbToEr>>

\* recv_packet raises Shutdown: start leaves its loop
BlasterShutdown ==
  /\ blaster = "run"
  /\ blaster' = "stopped"
  /\ SendNothing
  /\ UNCHANGED <<lhs, rhs, acked, resendIdx, elapsed, mbToEr>>

\* Time passes.
Tick ==
  /\ blaster = "run"
  /\ elapsed < Timeout
  /\ elapsed' = elapsed + 1
  /\ SendNothing
  /\ UNCHANGED <<lhs, rhs, acked, resendIdx, blaster, mbToEr>>
=============================================================================
