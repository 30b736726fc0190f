--------------------------- MODULE HhBlaster_proofs ---------------------------
(***************************************************************************)
(* Proofs, for every number of packets, window, timeout and link capacity, *)
(* that the senders of lab-hh and of switchyard-master keep their windows, *)
(* send nothing that was acknowledged and implement reliable delivery.     *)
(***************************************************************************)
EXTENDS MCHhBlaster, SequenceTheorems, WellFoundedInduction, TLAPS

USE NumAssumption, LinkCapAssumption, WindowAssumption, TimeoutAssumption

(***************************************************************************)
(* The inductive invariant                                                 *)
(***************************************************************************)

\* Only what was answered is acknowledged.
AcksAnswered == \A s : InLink(s, eeToMb) \/ InLink(s, mbToEr) => s \in answered

\* A packet on its way to the blastee, or past it.
Travels(s) == InLink(s, erToMb) \/ InLink(s, mbToEe) \/ s \in answered

\* Nothing travels that was not sent.
SentTravels == \A s \in SeqNo : Travels(s) => statusList[s] # Unsent

\* The packet at rhs was not sent, unless it is the last.
NextIsUnsent == rhs < Num => statusList[rhs] = Unsent

HhInv == TypeOK /\ StatusMatchesWindow /\ NextIsUnsent /\ AcksAnswered /\ SentTravels

QNode == [seq : SeqNo, flag : BOOLEAN]

MasterTypeOK ==
  /\ PathTypeOK
  /\ q \in Seq(QNode)
  /\ seq \in 1 .. Num + 1 /\ LHS \in 1 .. Num + 1 /\ RHS \in 1 .. Num
  /\ seq = RHS + 1 \/ (seq = 1 /\ RHS = 1)

MasterInv == MasterTypeOK /\ Master!QueueIsWindow /\ AcksAnswered

\* The program that does not run stays at its start.
HhAtStart == lhs = 1 /\ rhs = 1 /\ statusList = [s \in SeqNo |-> Unsent]
MasterAtStart == q = << >> /\ seq = 1 /\ LHS = 1

BothInv ==
  IF blaster = "off" THEN MasterInv /\ HhAtStart ELSE HhInv /\ MasterAtStart

-----------------------------------------------------------------------------
(***************************************************************************)
(* Facts about minima and links                                            *)
(***************************************************************************)

\* A nonempty set of natural numbers has a minimum.
LEMMA MinOfNats ==
  ASSUME NEW S, S \subseteq Nat, S # {}
  PROVE  /\ Min(S) \in S /\ \A y \in S : Min(S) <= y
         /\ Master!Min(S) = Min(S)
  <1>1. PICK x \in S : \A y \in S : ~ (<<y, x>> \in OpToRel(<, Nat))
    BY WFMin, NatLessThanWellFounded
  <1>2. ASSUME NEW y \in S
        PROVE  x <= y
    <2>1. x \in Nat /\ y \in Nat
      OBVIOUS
    <2>2. y < x => <<y, x>> \in OpToRel(<, Nat)
      BY <2>1, Zenon DEF OpToRel
    <2>3. ~ (y < x)
      BY <1>1, <2>2, Zenon
    <2> QED
      BY <2>1, <2>3
  <1>3. Min(S) \in S /\ \A y \in S : Min(S) <= y
    BY <1>2 DEF Min
  <1> QED
    BY <1>3 DEF Min, Master!Min

\* What a link holds after a frame is appended to it.
LEMMA InAppended ==
  ASSUME NEW S, NEW l \in Seq(S), NEW e \in S
  PROVE  /\ Append(l, e) \in Seq(S)
         /\ Append(l, e) # l
         /\ \A s : InLink(s, Append(l, e)) <=> InLink(s, l) \/ s = e
         /\ \A s : Append(l, e) = Append(l, s) => s = e
  <1>1. /\ Append(l, e) \in Seq(S) /\ Len(Append(l, e)) = Len(l) + 1 /\ Len(l) \in Nat
        /\ Append(l, e)[Len(l) + 1] = e
    BY AppendProperties
  <1>2. \A s : Append(l, s)[Len(l) + 1] = s
    BY <1>1
  <1>3. \A s : InLink(s, Append(l, e)) <=> InLink(s, l) \/ s = e
    BY DEF InLink
  <1> QED
    BY <1>1, <1>2, <1>3

\* What a link holds after its first frame is taken.
LEMMA InRest ==
  ASSUME NEW S, NEW l \in Seq(S), l # << >>
  PROVE  /\ Head(l) \in S
         /\ Tail(l) \in Seq(S)
         /\ InLink(Head(l), l)
         /\ \A s : InLink(s, Tail(l)) => InLink(s, l)
         /\ \A s : Tail(l) # Append(l, s)
  <1>1. /\ Head(l) \in S /\ Tail(l) \in Seq(S) /\ Len(Tail(l)) = Len(l) - 1
        /\ \A i \in 1 .. Len(Tail(l)) : Tail(l)[i] = l[i + 1]
        /\ Len(l) \in Nat \ {0}
    BY HeadTailProperties, EmptySeq
  <1>2. InLink(Head(l), l)
    <2>1. Head(l) = l[1]
      OBVIOUS
    <2> QED
      BY <1>1, <2>1 DEF InLink
  <1>3. ASSUME NEW s, InLink(s, Tail(l))
        PROVE  InLink(s, l)
    <2>1. PICK i \in 1 .. Len(Tail(l)) : Tail(l)[i] = s
      BY <1>3 DEF InLink
    <2>2. i + 1 \in 1 .. Len(l) /\ l[i + 1] = s
      BY <1>1, <2>1
    <2> QED
      BY <2>2 DEF InLink
  <1>4. \A s : Len(Append(l, s)) = Len(l) + 1
    BY <1>1
  <1>5. ASSUME NEW s
        PROVE  Tail(l) # Append(l, s)
    <2>1. Len(l) \in Nat
      BY <1>1
    <2>2. Len(l) - 1 # Len(l) + 1
      BY <2>1
    <2>3. Len(Tail(l)) # Len(Append(l, s))
      BY <1>1, <1>4, <2>2, Zenon
    <2> QED
      BY <2>3, Zenon
  <1> QED
    BY <1>1, <1>2, <1>3, <1>5

\* A step of the middlebox or of the blastee: nothing new travels, only what is
\* answered is acknowledged, and what the sender sent stays as it was or is
\* shorter.
LEMMA PathStep ==
  ASSUME PathTypeOK, AcksAnswered, ForwardData \/ DropData \/ ForwardAck \/ AckData
  PROVE  /\ PathTypeOK' /\ AcksAnswered'
         /\ answered \subseteq answered'
         /\ \A s : Travels(s)' => Travels(s)
         /\ \A s : erToMb' # Append(erToMb, s)
  <1> USE DEF PathTypeOK, LinksTypeOK, AcksAnswered, Travels
  <1>0. \A s : erToMb # Append(erToMb, s)
    <2>1. \A s : Len(Append(erToMb, s)) = Len(erToMb) + 1 /\ Len(erToMb) \in Nat
      OBVIOUS
    <2> QED
      BY <2>1
  <1>1. CASE ForwardData
    <2>1. erToMb # << >> /\ UNCHANGED <<eeToMb, mbToEr, answered>>
          /\ erToMb' = Tail(erToMb) /\ mbToEe' = Append(mbToEe, Head(erToMb))
      BY <1>1 DEF ForwardData
    <2>2. /\ Head(erToMb) \in SeqNo /\ Tail(erToMb) \in Seq(SeqNo) /\ InLink(Head(erToMb), erToMb)
          /\ \A s : InLink(s, Tail(erToMb)) => InLink(s, erToMb)
          /\ \A s : Tail(erToMb) # Append(erToMb, s)
      BY <2>1, InRest
    <2>3. /\ mbToEe' \in Seq(SeqNo)
          /\ \A s : InLink(s, mbToEe)' <=> InLink(s, mbToEe) \/ s = Head(erToMb)
      BY <2>1, <2>2, InAppended
    <2> QED
      BY <2>1, <2>2, <2>3
  <1>2. CASE DropData
    <2>1. erToMb # << >> /\ UNCHANGED <<mbToEe, eeToMb, mbToEr, answered>>
          /\ erToMb' = Tail(erToMb)
      BY <1>2 DEF DropData
    <2>2. /\ Tail(erToMb) \in Seq(SeqNo)
          /\ \A s : InLink(s, Tail(erToMb)) => InLink(s, erToMb)
          /\ \A s : Tail(erToMb) # Append(erToMb, s)
      BY <2>1, InRest
    <2> QED
      BY <2>1, <2>2
  <1>3. CASE ForwardAck
    <2>1. eeToMb # << >> /\ UNCHANGED <<erToMb, mbToEe, answered>>
          /\ eeToMb' = Tail(eeToMb) /\ mbToEr' = Append(mbToEr, Head(eeToMb))
      BY <1>3 DEF ForwardAck
    <2>2. /\ Head(eeToMb) \in SeqNo /\ Tail(eeToMb) \in Seq(SeqNo) /\ InLink(Head(eeToMb), eeToMb)
          /\ \A s : InLink(s, Tail(eeToMb)) => InLink(s, eeToMb)
      BY <2>1, InRest
    <2>3. /\ mbToEr' \in Seq(SeqNo)
          /\ \A s : InLink(s, mbToEr)' <=> InLink(s, mbToEr) \/ s = Head(eeToMb)
      BY <2>1, <2>2, InAppended
    <2> QED
      BY <2>1, <2>2, <2>3, <1>0
  <1>4. CASE AckData
    <2>1. mbToEe # << >> /\ UNCHANGED <<erToMb, mbToEr>>
          /\ mbToEe' = Tail(mbToEe) /\ eeToMb' = Append(eeToMb, Head(mbToEe))
          /\ answered' = answered \cup {Head(mbToEe)}
      BY <1>4 DEF AckData
    <2>2. /\ Head(mbToEe) \in SeqNo /\ Tail(mbToEe) \in Seq(SeqNo) /\ InLink(Head(mbToEe), mbToEe)
          /\ \A s : InLink(s, Tail(mbToEe)) => InLink(s, mbToEe)
      BY <2>1, InRest
    <2>3. /\ eeToMb' \in Seq(SeqNo)
          /\ \A s : InLink(s, eeToMb)' <=> InLink(s, eeToMb) \/ s = Head(mbToEe)
      BY <2>1, <2>2, InAppended
    <2> QED
      BY <2>1, <2>2, <2>3, <1>0
  <1> QED
    BY <1>1, <1>2, <1>3, <1>4

-----------------------------------------------------------------------------
(***************************************************************************)
(* The sender of lab-hh                                                    *)
(***************************************************************************)

\* The loop over statusList stops at the first packet without an
\* acknowledgement.
LEMMA FirstNotAckedStops ==
  ASSUME NEW l \in 1 .. Num + 1, NEW st \in [SeqNo -> {Unsent, Sent, Acked}]
  PROVE  /\ FirstNotAcked(l, st) \in l .. Num + 1
         /\ \A i \in l .. FirstNotAcked(l, st) - 1 : st[i] = Acked
         /\ FirstNotAcked(l, st) <= Num => st[FirstNotAcked(l, st)] # Acked
  <1> DEFINE S == {Num + 1} \cup {i \in l .. Num : st[i] # Acked}
  <1>1. S \subseteq Nat /\ Num + 1 \in S
    OBVIOUS
  <1>2. Min(S) \in S /\ \A y \in S : Min(S) <= y
    BY <1>1, MinOfNats
  <1>3. FirstNotAcked(l, st) = Min(S)
    BY DEF FirstNotAcked
  <1>4. PICK m \in S : m = Min(S) /\ \A y \in S : m <= y
    BY <1>2
  <1>5. m = Num + 1 \/ (m \in l .. Num /\ st[m] # Acked)
    OBVIOUS
  <1>6. ASSUME NEW i \in l .. m - 1
        PROVE  st[i] = Acked
    <2>1. m \in l .. Num + 1
      BY <1>5, Num + 1 \in l .. Num + 1
    <2>2. i \in l .. Num /\ ~ (m <= i)
      BY <2>1
    <2>3. i \in S => m <= i
      BY <1>4
    <2>4. st[i] # Acked => i \in S
      BY <2>2
    <2> QED
      BY <2>2, <2>3, <2>4
  <1> HIDE DEF S
  <1> QED
    BY <1>3, <1>4, <1>5, <1>6

\* What holds when try_send is called with l and st: the window is right and
\* something is outstanding.
Ready(l, st) ==
  /\ l \in 1 .. rhs /\ rhs - l + 1 <= SenderWindow
  /\ st \in [SeqNo -> {Unsent, Sent, Acked}]
  /\ \A s \in SeqNo :
        /\ s < l => st[s] = Acked
        /\ s = l => st[s] # Acked
        /\ s < rhs => st[s] # Unsent
        /\ s > rhs => st[s] = Unsent
        /\ s = rhs /\ rhs < Num => st[s] = Unsent
        /\ st[s] = Acked => s \in answered /\ statusList[s] # Unsent
        /\ st[s] = Sent => statusList[s] = Sent
        /\ statusList[s] # Unsent => st[s] # Unsent

\* What try_send leaves: a window that starts at l and agrees with the statuses,
\* and at most one more packet on the link, which is outstanding.
WindowFrom(l) ==
  /\ rhs' \in 1 .. Num /\ l <= rhs' /\ rhs' - l + 1 <= SenderWindow
  /\ \A s \in SeqNo :
       /\ s < l => statusList'[s] = Acked
       /\ s = l => statusList'[s] # Acked
       /\ s < rhs' => statusList'[s] # Unsent
       /\ s > rhs' => statusList'[s] = Unsent
       /\ s = rhs' /\ rhs' < Num => statusList'[s] = Unsent
       /\ statusList'[s] = Acked => s \in answered
       /\ statusList[s] # Unsent => statusList'[s] # Unsent
InRange ==
  /\ retranPointer' \in 0 .. Num + 1 /\ blaster' \in {"run", "crashed"}
  /\ statusList' \in [SeqNo -> {Unsent, Sent, Acked}]
SendsOutstanding ==
  \E s \in SeqNo :
     /\ erToMb' = Append(erToMb, s)
     /\ statusList'[s] = Sent
     /\ retranPointer # 0 => statusList[s] = Sent

LEMMA TrySendEffect ==
  ASSUME TypeOK, NEW l, NEW st, NEW el, Ready(l, st), TrySend(l, st, el)
  PROVE  WindowFrom(l) /\ InRange /\ (erToMb' = erToMb \/ SendsOutstanding)
  <1> USE DEF Ready, TypeOK, SeqNo, Unsent, Sent, Acked, Send, SendNothing
  <1>1. CASE Retransmit(st)
    BY <1>1 DEF Retransmit, NeedsResend, AdvancePointer, WindowFrom, InRange, SendsOutstanding
  <1>2. CASE RetransmitPastEnd(st)
    BY <1>2 DEF RetransmitPastEnd, WindowFrom, InRange
  <1>3. CASE StartRound(l, st, el)
    BY <1>3 DEF StartRound, NeedsResend, WindowFrom, InRange, SendsOutstanding
  <1>4. CASE SendNew(l, st, el) /\ MaySendNew(l, st)
    <2>1. /\ erToMb' = Append(erToMb, rhs) /\ retranPointer = 0 /\ retranPointer' = 0
          /\ statusList' = [st EXCEPT ![rhs] = Sent] /\ rhs' = NextRhs /\ blaster' = "run"
          /\ rhs - l + 1 < SenderWindow /\ st[rhs] = Unsent
      BY <1>4 DEF SendNew, MaySendNew
    <2>2. NextRhs = IF rhs < Num THEN rhs + 1 ELSE rhs
      <3>1. {rhs + 1, Num} \subseteq Nat /\ rhs <= Num
        OBVIOUS
      <3>2. NextRhs \in {rhs + 1, Num} /\ NextRhs <= rhs + 1 /\ NextRhs <= Num
        BY <3>1, MinOfNats DEF NextRhs
      <3> QED
        BY <3>1, <3>2
    <2>3. /\ statusList' \in [SeqNo -> {Unsent, Sent, Acked}] /\ statusList'[rhs] = Sent
          /\ \A s \in SeqNo : s # rhs => statusList'[s] = st[s]
      BY <2>1
    <2>4. rhs' \in 1 .. Num /\ l <= rhs' /\ rhs' - l + 1 <= SenderWindow
      BY <2>1, <2>2
    <2>5. ASSUME NEW s \in SeqNo
          PROVE  /\ s < l => statusList'[s] = Acked
                 /\ s = l => statusList'[s] # Acked
                 /\ s < rhs' => statusList'[s] # Unsent
                 /\ s > rhs' => statusList'[s] = Unsent
                 /\ s = rhs' /\ rhs' < Num => statusList'[s] = Unsent
                 /\ statusList'[s] = Acked => s \in answered
                 /\ statusList[s] # Unsent => statusList'[s] # Unsent
      BY <2>1, <2>2, <2>3
    <2>6. rhs \in SeqNo
      OBVIOUS
    <2>7. SendsOutstanding
      BY <2>1, <2>3, <2>6, Zenon DEF SendsOutstanding
    <2>8. InRange
      BY <2>1, <2>3 DEF InRange
    <2>9. WindowFrom(l)
      BY <2>4, <2>5, Zenon DEF WindowFrom
    <2> QED
      BY <2>7, <2>8, <2>9
  <1>5. CASE SendNew(l, st, el) /\ ~ MaySendNew(l, st)
    BY <1>5 DEF SendNew, WindowFrom, InRange
  <1> QED
    BY <1>1, <1>2, <1>3, <1>4, <1>5 DEF TrySend

\* The statuses and the window are right after a step that leaves lhs at l.
LEMMA SentStep ==
  ASSUME HhInv, NEW l, NEW st, NEW el, Ready(l, st), TrySend(l, st, el), HasRoom(erToMb),
         lhs' = l, elapsed' \in 0 .. Timeout + 1,
         UNCHANGED <<mbToEe, eeToMb, answered>>, mbToEr' = mbToEr \/ mbToEr' = Tail(mbToEr),
         mbToEr' = mbToEr \/ mbToEr # << >>
  PROVE  HhInv' /\ SendIsOutstanding
  <1> USE DEF HhInv, AcksAnswered, SentTravels, Travels
  <1>1. TypeOK /\ AcksAnswered /\ erToMb \in Seq(SeqNo) /\ mbToEr \in Seq(SeqNo)
    BY DEF TypeOK, PathTypeOK, LinksTypeOK
  <1>2. WindowFrom(l) /\ InRange /\ (erToMb' = erToMb \/ SendsOutstanding)
    BY <1>1, TrySendEffect
  <1>3. /\ mbToEr' \in Seq(SeqNo)
        /\ \A s : InLink(s, mbToEr)' => InLink(s, mbToEr)
    <2>1. CASE mbToEr' = mbToEr
      BY <1>1, <2>1
    <2>2. CASE mbToEr # << >> /\ mbToEr' = Tail(mbToEr)
      BY <1>1, <2>2, InRest
    <2> QED
      BY <2>1, <2>2
  <1>4. CASE erToMb' = erToMb
    <2>1. \A s : erToMb' # Append(erToMb, s)
      <3>1. \A s : Len(Append(erToMb, s)) = Len(erToMb) + 1 /\ Len(erToMb) \in Nat
        BY <1>1
      <3> QED
        BY <1>4, <3>1
    <2>2. TypeOK'
      BY <1>1, <1>2, <1>3, <1>4 DEF TypeOK, PathTypeOK, LinksTypeOK, Ready, WindowFrom, InRange
    <2>3. StatusMatchesWindow' /\ NextIsUnsent'
      BY <1>2 DEF StatusMatchesWindow, NextIsUnsent, SeqNo, WindowFrom, InRange
    <2>4. AcksAnswered' /\ SentTravels'
      BY <1>2, <1>3, <1>4 DEF WindowFrom
    <2> QED
      BY <2>1, <2>2, <2>3, <2>4 DEF SendIsOutstanding
  <1>5. CASE SendsOutstanding
    <2>1. PICK s \in SeqNo : /\ erToMb' = Append(erToMb, s)
                             /\ statusList'[s] = Sent
                             /\ retranPointer # 0 => statusList[s] = Sent
      BY <1>5 DEF SendsOutstanding
    <2>2. /\ erToMb' \in Seq(SeqNo)
          /\ \A t : InLink(t, erToMb)' <=> InLink(t, erToMb) \/ t = s
          /\ \A t : erToMb' = Append(erToMb, t) => t = s
      BY <1>1, <2>1, InAppended
    <2>3. TypeOK'
      BY <1>1, <1>2, <1>3, <2>2 DEF TypeOK, PathTypeOK, LinksTypeOK, Ready, WindowFrom, InRange
    <2>4. StatusMatchesWindow' /\ NextIsUnsent'
      BY <1>2 DEF StatusMatchesWindow, NextIsUnsent, SeqNo, WindowFrom, InRange
    <2>5. AcksAnswered' /\ SentTravels'
      <3>1. statusList'[s] # Unsent
        BY <2>1 DEF Sent, Unsent
      <3> QED
        BY <1>2, <1>3, <2>2, <3>1 DEF WindowFrom
    <2>6. SendIsOutstanding
      BY <2>1, <2>2 DEF SendIsOutstanding
    <2> QED
      BY <2>3, <2>4, <2>5, <2>6
  <1> QED
    BY <1>2, <1>4, <1>5

\* The first call of try_send, and those after a wait, find lhs and the statuses
\* as they were.
LEMMA ReadyAsIs ==
  ASSUME HhInv, blaster # "done"
  PROVE  Ready(lhs, statusList)
  BY DEF HhInv, StatusMatchesWindow, NextIsUnsent, TypeOK, Ready, SeqNo, Unsent, Sent, Acked

\* An acknowledgement leaves try_send a window it may use, or ends the loop.
LEMMA ReadyAfterAck ==
  ASSUME HhInv, blaster = "run", mbToEr # << >>,
         NEW st, st = MarkAcked(Head(mbToEr)), NEW l, l = FirstNotAcked(lhs, st)
  PROVE  /\ l \in 1 .. Num + 1 /\ st \in [SeqNo -> {Unsent, Sent, Acked}]
         /\ l <= Num => Ready(l, st)
         /\ \A s \in SeqNo : /\ st[s] = Acked => s \in answered
                             /\ s < l => st[s] = Acked
                             /\ statusList[s] # Unsent <=> st[s] # Unsent
  <1> DEFINE a == Head(mbToEr)
  <1>1. a \in SeqNo /\ InLink(a, mbToEr)
    BY InRest DEF HhInv, TypeOK, PathTypeOK, LinksTypeOK
  <1>2. a \in answered /\ statusList[a] # Unsent
    BY <1>1 DEF HhInv, AcksAnswered, SentTravels, Travels
  <1>3. /\ statusList \in [SeqNo -> {Unsent, Sent, Acked}] /\ rhs \in 1 .. Num
        /\ lhs \in 1 .. rhs /\ rhs - lhs + 1 <= SenderWindow
        /\ \A s \in SeqNo :
             /\ s < lhs => statusList[s] = Acked
             /\ s = lhs => statusList[s] # Acked
             /\ s < rhs => statusList[s] # Unsent
             /\ s > rhs => statusList[s] = Unsent
             /\ s = rhs /\ rhs < Num => statusList[s] = Unsent
             /\ statusList[s] = Acked => s \in answered
    BY DEF HhInv, StatusMatchesWindow, NextIsUnsent, TypeOK
  <1>4. /\ st \in [SeqNo -> {Unsent, Sent, Acked}] /\ st[a] = Acked
        /\ \A s \in SeqNo : s # a => st[s] = statusList[s]
    BY <1>1, <1>3 DEF MarkAcked
  <1> HIDE DEF a
  <1>5. /\ l \in lhs .. Num + 1
        /\ \A i \in lhs .. l - 1 : st[i] = Acked
        /\ l <= Num => st[l] # Acked
    BY <1>3, <1>4, FirstNotAckedStops DEF SeqNo
  <1>6. ASSUME NEW s \in SeqNo
        PROVE  /\ st[s] = Acked => s \in answered
               /\ s < l => st[s] = Acked
               /\ statusList[s] # Unsent <=> st[s] # Unsent
               /\ s < rhs => st[s] # Unsent
               /\ s > rhs => st[s] = Unsent
               /\ s = rhs /\ rhs < Num => st[s] = Unsent
               /\ st[s] = Acked => statusList[s] # Unsent
               /\ st[s] = Sent => statusList[s] = Sent
    <2>1. st[s] = Acked => s \in answered
      BY <1>2, <1>3, <1>4 DEF WindowFrom
    <2>2. s < l => st[s] = Acked
      <3>1. CASE s < lhs
        BY <1>3, <1>4, <3>1
      <3>2. CASE ~ (s < lhs)
        BY <1>3, <1>5, <3>2 DEF SeqNo
      <3> QED
        BY <3>1, <3>2
    <2>3. statusList[s] # Unsent <=> st[s] # Unsent
      BY <1>2, <1>4 DEF Acked, Unsent
    <2>4. /\ st[s] = Acked => statusList[s] # Unsent
          /\ st[s] = Sent => statusList[s] = Sent
      BY <1>4, <2>3 DEF Acked, Unsent, Sent
    <2> QED
      BY <1>3, <2>1, <2>2, <2>3, <2>4
  <1>7. l <= Num => l <= rhs
    <2>1. ASSUME l <= Num, ~ (l <= rhs) PROVE FALSE
      <3>1. rhs \in SeqNo /\ rhs < Num /\ rhs < l
        BY <1>3, <1>5, <2>1 DEF SeqNo
      <3>2. st[rhs] = Acked /\ st[rhs] = Unsent
        BY <1>6, <3>1
      <3> QED
        BY <3>2 DEF Acked, Unsent
    <2> QED
      BY <2>1
  <1> QED
    BY <1>3, <1>4, <1>5, <1>6, <1>7 DEF Ready, SeqNo

\* Every step of the sender, of its path and of the clock.
LEMMA HhStep ==
  ASSUME HhInv, [Next]_vars
  PROVE  HhInv' /\ (erToMb' = erToMb \/ SendIsOutstanding)
  <1>1. CASE Start
    <2>1. Ready(lhs, statusList)
      BY <1>1, ReadyAsIs DEF Start
    <2>2. elapsed' \in 0 .. Timeout + 1
      BY <1>1 DEF Start, HhInv, TypeOK
    <2> QED
      BY <1>1, <2>1, <2>2, SentStep DEF Start
  <1>2. CASE HandleNoPackets
    <2>1. Ready(lhs, statusList)
      BY <1>2, ReadyAsIs DEF HandleNoPackets
    <2>2. elapsed' \in 0 .. Timeout + 1
      BY <1>2 DEF HandleNoPackets, HhInv, TypeOK
    <2> QED
      BY <1>2, <2>1, <2>2, SentStep DEF HandleNoPackets
  <1>3. CASE HandleAck
    <2> DEFINE st == MarkAcked(Head(mbToEr))
               l  == FirstNotAcked(lhs, st)
    <2>1. /\ blaster = "run" /\ mbToEr # << >> /\ HasRoom(erToMb)
          /\ mbToEr' = Tail(mbToEr) /\ lhs' = l /\ elapsed' = 0
          /\ UNCHANGED <<mbToEe, eeToMb, answered>>
          /\ IF l > Num
             THEN /\ blaster' = "done" /\ statusList' = st
                  /\ erToMb' = erToMb /\ UNCHANGED <<rhs, retranPointer>>
             ELSE TrySend(l, st, 0)
      BY <1>3 DEF HandleAck, SendNothing
    <2>2. /\ l \in 1 .. Num + 1 /\ st \in [SeqNo -> {Unsent, Sent, Acked}]
          /\ l <= Num => Ready(l, st)
          /\ \A s \in SeqNo : /\ st[s] = Acked => s \in answered
                              /\ s < l => st[s] = Acked
                              /\ statusList[s] # Unsent <=> st[s] # Unsent
      BY <2>1, ReadyAfterAck
    <2> HIDE DEF st, l
    <2>3. CASE l > Num
      <3>1. l = Num + 1 /\ \A s \in SeqNo : st[s] = Acked
        BY <2>2, <2>3 DEF SeqNo
      <3>2. /\ mbToEr' \in Seq(SeqNo)
            /\ \A s : InLink(s, mbToEr)' => InLink(s, mbToEr)
        BY <2>1, InRest DEF HhInv, TypeOK, PathTypeOK, LinksTypeOK
      <3>3. TypeOK'
        BY <2>1, <2>2, <2>3, <3>1, <3>2 DEF HhInv, TypeOK, PathTypeOK, LinksTypeOK
      <3>4. rhs \in 1 .. Num /\ rhs' = rhs /\ statusList' = st /\ lhs' = Num + 1 /\ blaster' = "done"
        BY <2>1, <2>3, <3>1 DEF HhInv, TypeOK
      <3>5. rhs = Num
        <4>1. rhs \in SeqNo /\ st[rhs] = Acked
          BY <3>1, <3>4 DEF SeqNo
        <4>2. statusList[rhs] # Unsent
          BY <2>2, <4>1 DEF Acked, Unsent
        <4> QED
          BY <3>4, <4>2 DEF HhInv, NextIsUnsent
      <3>6. StatusMatchesWindow' /\ NextIsUnsent'
        <4>1. \A s \in SeqNo : /\ s <= rhs' /\ s < lhs' /\ statusList'[s] = Acked
                               /\ s \in answered' /\ statusList'[s] # Unsent
          BY <2>1, <2>2, <3>1, <3>4, <3>5 DEF SeqNo, Acked, Unsent
        <4> QED
          BY <3>4, <3>5, <4>1 DEF StatusMatchesWindow, NextIsUnsent, SeqNo
      <3>7. AcksAnswered' /\ SentTravels'
        BY <2>1, <2>2, <2>3, <3>1, <3>2 DEF HhInv, AcksAnswered, SentTravels, Travels, Acked, Unsent
      <3> QED
        BY <2>1, <2>3, <3>3, <3>6, <3>7 DEF HhInv
    <2>4. CASE ~ (l > Num)
      <3>1. Ready(l, st) /\ TrySend(l, st, 0)
        BY <2>1, <2>2, <2>4
      <3> QED
        BY <2>1, <3>1, SentStep
    <2> QED
      BY <2>3, <2>4
  <1>4. CASE Tick
    <2>1. UNCHANGED <<lhs, rhs, statusList, retranPointer, blaster, links, answered>>
          /\ elapsed' \in 0 .. Timeout + 1
      BY <1>4 DEF Tick, HhInv, TypeOK
    <2> QED
      BY <2>1 DEF HhInv, TypeOK, PathTypeOK, LinksTypeOK, StatusMatchesWindow, NextIsUnsent,
                  AcksAnswered, SentTravels, Travels, InLink, links
  <1>5. CASE Path
    <2>1. (ForwardData \/ DropData \/ ForwardAck \/ AckData) /\ UNCHANGED blasterVars
          /\ PathTypeOK /\ AcksAnswered
      BY <1>5 DEF Path, HhInv, TypeOK
    <2>2. /\ PathTypeOK' /\ AcksAnswered' /\ answered \subseteq answered'
          /\ \A s : Travels(s)' => Travels(s)
          /\ \A s : erToMb' # Append(erToMb, s)
      BY <2>1, PathStep
    <2>3. TypeOK' /\ StatusMatchesWindow' /\ NextIsUnsent'
      BY <2>1, <2>2 DEF HhInv, TypeOK, StatusMatchesWindow, NextIsUnsent, blasterVars
    <2>4. SentTravels'
      BY <2>1, <2>2 DEF HhInv, SentTravels, blasterVars
    <2> QED
      BY <2>2, <2>3, <2>4 DEF HhInv, SendIsOutstanding
  <1>6. CASE UNCHANGED vars
    BY <1>6 DEF HhInv, TypeOK, PathTypeOK, LinksTypeOK, StatusMatchesWindow, NextIsUnsent,
                AcksAnswered, SentTravels, Travels, InLink, links, vars, blasterVars
  <1> QED
    BY <1>1, <1>2, <1>3, <1>4, <1>5, <1>6 DEF Next

LEMMA HhStart == Init => HhInv
  <1> SUFFICES ASSUME Init PROVE HhInv
    OBVIOUS
  <1> USE DEF Init, PathInit, LinksInit, Unsent, Sent, Acked, SeqNo
  <1>1. TypeOK
    BY DEF TypeOK, PathTypeOK, LinksTypeOK
  <1>2. StatusMatchesWindow /\ NextIsUnsent
    BY DEF StatusMatchesWindow, NextIsUnsent
  <1>3. AcksAnswered /\ SentTravels
    BY DEF AcksAnswered, SentTravels, Travels, InLink
  <1> QED
    BY <1>1, <1>2, <1>3 DEF HhInv

-----------------------------------------------------------------------------
(***************************************************************************)
(* The sender of switchyard-master                                         *)
(***************************************************************************)

\* What a queue looks like that holds the packets from l to n - 1.
IsWindow(nodes, l, n) ==
  /\ nodes \in Seq(QNode) /\ l + Len(nodes) = n
  /\ \A i \in DOMAIN nodes : nodes[i].seq = l + i - 1
                             /\ (nodes[i].flag => nodes[i].seq \in answered)

\* After the acknowledged packets are taken from its front a queue begins with
\* one that is not; the window begins with that one.
LEMMA MovedQueue ==
  ASSUME NEW nodes, NEW l \in 1 .. Num + 1, NEW n \in 1 .. Num + 1, IsWindow(nodes, l, n)
  PROVE  LET rest == Master!Moved(nodes)
             k    == Len(nodes) - Len(rest)
         IN  /\ k \in 0 .. Len(nodes) /\ IsWindow(rest, l + k, n)
             /\ rest # << >> => ~ Head(rest).flag
             /\ k = 0 => rest = nodes
             /\ \A s \in l .. l + k - 1 : s \in answered
             /\ \A i \in 1 .. k : nodes[i].flag
             /\ \A i \in 1 .. Len(rest) : rest[i] = nodes[k + i]
  <1> DEFINE open == {i \in 1 .. Len(nodes) : ~ nodes[i].flag}
             rest == Master!Moved(nodes)
             k    == Len(nodes) - Len(rest)
  <1>1. /\ Len(nodes) \in Nat /\ DOMAIN nodes = 1 .. Len(nodes) /\ nodes \in Seq(QNode)
        /\ open \subseteq Nat
        /\ \A i \in 1 .. Len(nodes) :
             nodes[i] \in QNode /\ nodes[i].seq = l + i - 1
             /\ (nodes[i].flag => nodes[i].seq \in answered)
    <2>1. nodes \in Seq(QNode)
      BY DEF IsWindow
    <2>2. Len(nodes) \in Nat /\ DOMAIN nodes = 1 .. Len(nodes)
      BY <2>1
    <2>3. \A i \in 1 .. Len(nodes) : nodes[i] \in QNode
      BY <2>1
    <2>4. open \subseteq Nat
      BY <2>2
    <2> QED
      BY <2>1, <2>2, <2>3, <2>4 DEF IsWindow
  <1>2. CASE open = {}
    <2>1. rest = << >>
      BY <1>2 DEF Master!Moved, Master!SelectInSeq
    <2>2. \A i \in 1 .. Len(nodes) : nodes[i].flag
      BY <1>2
    <2>3. k = Len(nodes) /\ IsWindow(<< >>, l + Len(nodes), n)
      BY <1>1, <2>1 DEF IsWindow
    <2>4. \A s \in l .. l + k - 1 : s \in answered
      <3>1. ASSUME NEW s \in l .. l + k - 1 PROVE s \in answered
        <4>1. s - l + 1 \in 1 .. Len(nodes) /\ l + (s - l + 1) - 1 = s
          BY <1>1, <2>3
        <4> QED
          BY <1>1, <2>2, <4>1
      <3> QED
        BY <3>1
    <2>5. k = 0 => rest = nodes
      BY <1>1, <2>1, <2>3, EmptySeq
    <2>6. (\A i \in 1 .. k : nodes[i].flag) /\ Len(rest) = 0
      BY <2>1, <2>2, <2>3
    <2> QED
      BY <1>1, <2>1, <2>3, <2>4, <2>5, <2>6
  <1>3. CASE open # {}
    <2>1. PICK m \in open : m = Min(open) /\ Master!Min(open) = m /\ \A j \in open : m <= j
      BY <1>1, <1>3, MinOfNats
    <2>2. m \in 1 .. Len(nodes) /\ ~ nodes[m].flag
      OBVIOUS
    <2>3. rest = SubSeq(nodes, m, Len(nodes))
      <3>1. Master!SelectInSeq(nodes, LAMBDA node : ~ node.flag)
              = IF open # {} THEN Master!Min(open) ELSE 0
        BY DEF Master!SelectInSeq
      <3>2. Master!SelectInSeq(nodes, LAMBDA node : ~ node.flag) = m /\ m # 0
        <4>1. m # 0
          BY <2>2
        <4> QED
          BY <1>3, <2>1, <3>1, <4>1, Zenon
      <3> QED
        BY <3>2, Zenon DEF Master!Moved
    <2>4. /\ rest \in Seq(QNode) /\ Len(rest) = Len(nodes) - m + 1
          /\ \A i \in 1 .. Len(nodes) - m + 1 : rest[i] = nodes[m + i - 1]
      <3>1. \A i \in m .. Len(nodes) : nodes[i] \in QNode
        BY <1>1, <2>2
      <3> QED
        BY <1>1, <2>2, <2>3, <3>1, SubSeqProperties
    <2>5. k = m - 1 /\ DOMAIN rest = 1 .. Len(nodes) - m + 1
      BY <1>1, <2>2, <2>4
    <2>6. \A i \in 1 .. m - 1 : nodes[i].flag
      <3>1. ASSUME NEW i \in 1 .. m - 1 PROVE nodes[i].flag
        <4>1. i \in 1 .. Len(nodes) /\ ~ (m <= i)
          BY <1>1, <2>2
        <4> QED
          BY <2>1, <4>1
      <3> QED
        BY <3>1
    <2>7. \A s \in l .. l + k - 1 : s \in answered
      <3>1. ASSUME NEW s \in l .. l + k - 1 PROVE s \in answered
        <4>1. s - l + 1 \in 1 .. m - 1 /\ s - l + 1 \in 1 .. Len(nodes) /\ l + (s - l + 1) - 1 = s
          BY <1>1, <2>2, <2>5
        <4> QED
          BY <1>1, <2>6, <4>1
      <3> QED
        BY <3>1
    <2>8. IsWindow(rest, l + k, n)
      <3>1. ASSUME NEW i \in DOMAIN rest
            PROVE  rest[i].seq = l + k + i - 1 /\ (rest[i].flag => rest[i].seq \in answered)
        <4>1. i \in 1 .. Len(nodes) - m + 1 /\ m + i - 1 \in 1 .. Len(nodes)
          BY <1>1, <2>2, <2>5
        <4>2. rest[i] = nodes[m + i - 1]
          BY <2>4, <4>1
        <4>3. l + (m + i - 1) - 1 = l + k + i - 1
          <5>1. m \in Nat /\ i \in Nat /\ l \in Nat /\ k = m - 1
            BY <2>2, <2>5, <4>1
          <5> HIDE DEF k, open
          <5> QED
            BY <5>1
        <4> QED
          BY <1>1, <4>1, <4>2, <4>3
      <3>2. l + k + Len(rest) = n
        <4>1. l + Len(nodes) = n /\ Len(nodes) \in Nat /\ l \in Nat
          BY <1>1 DEF IsWindow
        <4>2. k = Len(nodes) - Len(rest) /\ Len(rest) \in Nat
          BY <1>1, <2>4
        <4> HIDE DEF k, rest, open
        <4> QED
          BY <4>1, <4>2
      <3> QED
        BY <2>4, <3>1, <3>2 DEF IsWindow
    <2>9. Head(rest) = nodes[m]
      BY <1>1, <2>2, <2>3, HeadTailOfSubSeq
    <2>10. k = 0 => rest = nodes
      BY <1>1, <2>2, <2>3, <2>5, SubSeqFull
    <2>11. \A i \in 1 .. k : nodes[i].flag
      BY <2>5, <2>6
    <2>12. ASSUME NEW i \in 1 .. Len(rest) PROVE rest[i] = nodes[k + i]
      <3>1. i \in 1 .. Len(nodes) - m + 1
        BY <2>4
      <3>2. m + i - 1 = k + i
        <4>1. m \in Nat /\ i \in Nat /\ k = m - 1
          BY <2>2, <2>5, <3>1
        <4> HIDE DEF k, open
        <4> QED
          BY <4>1
      <3> QED
        BY <2>4, <3>1, <3>2
    <2> QED
      BY <1>1, <2>2, <2>5, <2>7, <2>8, <2>9, <2>10, <2>11, <2>12
  <1> QED
    BY <1>2, <1>3

\* The queue of the sender is its window: the parts of QueueIsWindow by name.
LEMMA QueueParts ==
  MasterInv <=> /\ MasterTypeOK /\ AcksAnswered
                /\ IsWindow(q, LHS, seq) /\ Len(q) <= SenderWindow
                /\ q # << >> => ~ Head(q).flag
                /\ \A s \in 1 .. LHS - 1 : s \in answered
  BY DEF MasterInv, MasterTypeOK, Master!QueueIsWindow, IsWindow

\* An acknowledgement of a packet that was answered marks it, if it is in flight.
LEMMA FlaggedQueue ==
  ASSUME MasterInv, NEW a \in answered
  PROVE  IsWindow(Master!Flagged(a), LHS, seq) /\ Len(Master!Flagged(a)) = Len(q)
  <1>1. /\ q \in Seq(QNode) /\ Len(q) \in Nat /\ DOMAIN q = 1 .. Len(q)
        /\ \A i \in 1 .. Len(q) : q[i] \in QNode
        /\ IsWindow(q, LHS, seq)
    BY QueueParts DEF MasterTypeOK
  <1> DEFINE f == Master!Flagged(a)
  <1>2. f = [i \in 1 .. Len(q) |-> [q[i] EXCEPT !.flag = q[i].flag \/ q[i].seq = a]]
    BY <1>1 DEF Master!Flagged
  <1>3. ASSUME NEW i \in 1 .. Len(q)
        PROVE  f[i] \in QNode /\ f[i].seq = q[i].seq /\ (f[i].flag <=> q[i].flag \/ q[i].seq = a)
    <2>1. f[i] = [q[i] EXCEPT !.flag = q[i].flag \/ q[i].seq = a]
      BY <1>2
    <2>2. PICK x \in SeqNo, b \in BOOLEAN : q[i] = [seq |-> x, flag |-> b]
      BY <1>1 DEF QNode
    <2>3. f[i] = [seq |-> x, flag |-> (b \/ x = a)]
      BY <2>1, <2>2
    <2> HIDE DEF f
    <2>4. PICK y \in BOOLEAN : y <=> b \/ x = a
      OBVIOUS
    <2>5. (b \/ x = a) = y
      BY <2>4
    <2>6. f[i] = [seq |-> x, flag |-> y]
      BY <2>3, <2>5, Zenon
    <2>7. f[i] \in QNode /\ f[i].seq = x /\ f[i].flag = y
      BY <2>6 DEF QNode
    <2>8. q[i].seq = x /\ q[i].flag = b
      BY <2>2
    <2> QED
      BY <2>4, <2>7, <2>8
  <1>4. f \in Seq(QNode) /\ Len(f) = Len(q) /\ DOMAIN f = 1 .. Len(q)
    <2>1. f \in [1 .. Len(q) -> QNode]
      BY <1>2, <1>3
    <2> HIDE DEF f
    <2> QED
      BY <1>1, <2>1
  <1> HIDE DEF f
  <1>5. ASSUME NEW i \in DOMAIN f
        PROVE  f[i].seq = LHS + i - 1 /\ (f[i].flag => f[i].seq \in answered)
    BY <1>1, <1>3, <1>4 DEF IsWindow
  <1>6. LHS + Len(f) = seq
    BY <1>1, <1>4 DEF IsWindow
  <1> QED
    BY <1>4, <1>5, <1>6 DEF f, IsWindow

LEMMA HandlePacketInv ==
  ASSUME MasterInv, Master!HandlePacket
  PROVE  MasterInv' /\ erToMb' = erToMb
  <1> DEFINE a    == Head(mbToEr)
             fl   == Master!Flagged(a)
             rest == Master!Moved(fl)
             n    == Len(q) - Len(rest)
  <1>1. /\ mbToEr # << >> /\ mbToEr' = Tail(mbToEr) /\ q' = rest
        /\ LHS' = IF n > 0 THEN q[n].seq + 1 ELSE LHS
        /\ UNCHANGED <<seq, RHS, master, erToMb, mbToEe, eeToMb, answered>>
    BY DEF Master!HandlePacket
  <1>2. /\ MasterTypeOK /\ AcksAnswered
        /\ IsWindow(q, LHS, seq) /\ Len(q) <= SenderWindow
        /\ \A s \in 1 .. LHS - 1 : s \in answered
    BY QueueParts
  <1>3. /\ a \in answered
        /\ mbToEr' \in Seq(SeqNo) /\ AcksAnswered'
    BY <1>1, <1>2, InRest DEF MasterTypeOK, PathTypeOK, LinksTypeOK, AcksAnswered
  <1>4. IsWindow(fl, LHS, seq) /\ Len(fl) = Len(q)
    BY <1>3, FlaggedQueue
  <1>5. /\ n \in 0 .. Len(q) /\ IsWindow(rest, LHS + n, seq)
        /\ rest # << >> => ~ Head(rest).flag
        /\ \A s \in LHS .. LHS + n - 1 : s \in answered
    <2> HIDE DEF fl
    <2> QED
      BY <1>2, <1>4, MovedQueue DEF MasterTypeOK
  <1> HIDE DEF rest, n, a
  <1>6. LHS' = LHS + n
    <2>1. n > 0 => n \in DOMAIN q
      BY <1>2, <1>5 DEF IsWindow
    <2>2. CASE n > 0
      <3>1. q[n].seq = LHS + n - 1 /\ LHS' = q[n].seq + 1
        BY <1>1, <1>2, <2>1, <2>2 DEF IsWindow
      <3> QED
        BY <1>2, <1>5, <3>1 DEF MasterTypeOK
    <2>3. CASE ~ n > 0
      BY <1>1, <1>2, <1>5, <2>3 DEF MasterTypeOK
    <2> QED
      BY <2>2, <2>3
  <1>7. Len(q') <= SenderWindow /\ LHS' \in 1 .. Num + 1
    <2>1. /\ LHS + n + Len(rest) = seq /\ Len(rest) \in Nat /\ LHS + Len(q) = seq /\ Len(q) \in Nat
          /\ LHS \in Nat \ {0} /\ seq \in 1 .. Num + 1 /\ n \in Nat
      BY <1>2, <1>5 DEF IsWindow, MasterTypeOK
    <2> QED
      BY <1>1, <1>2, <1>6, <2>1
  <1>8. MasterTypeOK'
    BY <1>1, <1>2, <1>3, <1>5, <1>7 DEF MasterTypeOK, PathTypeOK, LinksTypeOK, IsWindow
  <1>9. \A s \in 1 .. LHS' - 1 : s \in answered
    BY <1>2, <1>5, <1>6 DEF MasterTypeOK
  <1>10. IsWindow(q, LHS, seq)'
    BY <1>1, <1>5, <1>6 DEF IsWindow
  <1>11. (q # << >> => ~ Head(q).flag)' /\ (\A s \in 1 .. LHS - 1 : s \in answered)'
    BY <1>1, <1>5, <1>9
  <1>12. MasterInv'
    BY <1>3, <1>7, <1>8, <1>10, <1>11
       DEF MasterInv, MasterTypeOK, Master!QueueIsWindow, IsWindow
  <1> QED
    BY <1>1, <1>12

\* What is sent goes on the link and is in the queue, without an
\* acknowledgement; the queue stays the window.
LEMMA NothingArrivedInv ==
  ASSUME MasterInv, Master!NothingArrived
  PROVE  MasterInv' /\ (erToMb' = erToMb \/ Master!SendIsInFlight)
  <1>1. /\ MasterTypeOK /\ AcksAnswered
        /\ IsWindow(q, LHS, seq) /\ Len(q) <= SenderWindow
        /\ q # << >> => ~ Head(q).flag
        /\ \A s \in 1 .. LHS - 1 : s \in answered
    BY QueueParts
  <1>2. UNCHANGED <<LHS, cur, mbToEe, eeToMb, mbToEr, answered>>
    BY DEF Master!NothingArrived
  <1>3. erToMb \in Seq(SeqNo) /\ q \in Seq(QNode)
    BY <1>1 DEF MasterTypeOK, PathTypeOK, LinksTypeOK
  <1>4. AcksAnswered' /\ (\A s \in 1 .. LHS - 1 : s \in answered)'
    BY <1>1, <1>2 DEF AcksAnswered, InLink
  <1>5. CASE UNCHANGED <<q, seq, RHS, erToMb>>
    BY <1>1, <1>2, <1>4, <1>5 DEF MasterInv, MasterTypeOK, PathTypeOK, LinksTypeOK, Master!QueueIsWindow
  <1>6. CASE Master!Late /\ Master!ResendOldest /\ q # << >>
    <2>1. erToMb' = Append(erToMb, Head(q).seq) /\ UNCHANGED <<q, seq, RHS>>
      BY <1>6 DEF Master!ResendOldest
    <2>2. /\ Head(q) = q[1] /\ 1 \in DOMAIN q /\ Head(q) \in QNode
      BY <1>3, <1>6, HeadTailProperties, EmptySeq
    <2>3. Head(q).seq \in SeqNo /\ Head(q) = [seq |-> Head(q).seq, flag |-> FALSE]
      BY <1>1, <1>6, <2>2 DEF QNode
    <2>4. erToMb' \in Seq(SeqNo) /\ \A s : erToMb' = Append(erToMb, s) => s = Head(q).seq
      BY <1>3, <2>1, <2>3, InAppended
    <2>5. MasterInv'
      BY <1>1, <1>2, <1>4, <2>1, <2>4
         DEF MasterInv, MasterTypeOK, PathTypeOK, LinksTypeOK, Master!QueueIsWindow
    <2>6. Master!SendIsInFlight
      <3>1. ASSUME NEW s, erToMb' = Append(erToMb, s)
            PROVE  \E i \in DOMAIN q' : q'[i] = Master!Node(s) /\ (Master!Late => i = 1 /\ q' = q)
        <4>1. s = Head(q).seq /\ q' = q
          BY <2>1, <2>4, <3>1
        <4>2. q'[1] = Master!Node(s) /\ 1 \in DOMAIN q'
          BY <2>2, <2>3, <4>1 DEF Master!Node
        <4> QED
          BY <4>1, <4>2
      <3> QED
        BY <3>1 DEF Master!SendIsInFlight
    <2> QED
      BY <2>5, <2>6
  <1>7. CASE ~ Master!Late /\ Master!LetsOut /\ Master!SendNext
    <2>1. /\ erToMb' = Append(erToMb, seq) /\ q' = Append(q, [seq |-> seq, flag |-> FALSE])
          /\ RHS' = seq /\ seq' = seq + 1 /\ RHS - LHS + 1 < SenderWindow /\ seq <= Num
      BY <1>7 DEF Master!SendNext, Master!LetsOut, Master!Node
    <2>2. seq \in SeqNo /\ [seq |-> seq, flag |-> FALSE] \in QNode
      BY <1>1, <2>1 DEF MasterTypeOK, SeqNo, QNode
    <2>3. erToMb' \in Seq(SeqNo) /\ \A s : erToMb' = Append(erToMb, s) => s = seq
      BY <1>3, <2>1, <2>2, InAppended
    <2>4. /\ q' \in Seq(QNode) /\ Len(q') = Len(q) + 1 /\ Len(q) \in Nat
          /\ DOMAIN q' = 1 .. Len(q) + 1
          /\ \A i \in 1 .. Len(q) : q'[i] = q[i]
          /\ q'[Len(q) + 1] = [seq |-> seq, flag |-> FALSE]
      BY <1>3, <2>1, <2>2, AppendProperties
    <2>5. /\ LHS + Len(q) = seq /\ LHS \in Nat \ {0} /\ RHS \in Nat \ {0} /\ seq \in Nat \ {0}
          /\ seq = RHS + 1 \/ (seq = 1 /\ RHS = 1)
      BY <1>1 DEF MasterTypeOK, IsWindow
    <2>6. Len(q') <= SenderWindow
      BY <2>1, <2>4, <2>5
    <2>7. MasterTypeOK'
      BY <1>1, <1>2, <2>1, <2>2, <2>3, <2>4 DEF MasterTypeOK, PathTypeOK, LinksTypeOK, SeqNo
    <2>8. \A i \in DOMAIN q' : q'[i].seq = LHS + i - 1 /\ (q'[i].flag => q'[i].seq \in answered)
      <3>1. ASSUME NEW i \in 1 .. Len(q)
            PROVE  q'[i].seq = LHS + i - 1 /\ (q'[i].flag => q'[i].seq \in answered)
        BY <1>1, <1>3, <2>4 DEF IsWindow
      <3>2. /\ q'[Len(q) + 1].seq = seq /\ ~ q'[Len(q) + 1].flag
            /\ LHS + (Len(q) + 1) - 1 = seq
        BY <2>4, <2>5
      <3>3. \A i \in 1 .. Len(q) + 1 : i \in 1 .. Len(q) \/ i = Len(q) + 1
        BY <2>4
      <3> QED
        BY <2>4, <3>1, <3>2, <3>3
    <2>9. (q # << >> => ~ Head(q).flag)'
      <3>1. Head(q') = q'[1]
        BY <2>4, EmptySeq
      <3>2. CASE q = << >>
        <4>1. Len(q) = 0
          BY <3>2
        <4> QED
          BY <2>4, <3>1, <4>1
      <3>3. CASE q # << >>
        <4>1. Head(q) = q[1] /\ 1 \in 1 .. Len(q)
          BY <1>3, <3>3, EmptySeq
        <4> QED
          BY <1>1, <2>4, <3>1, <3>3, <4>1
      <3> QED
        BY <3>2, <3>3
    <2>10. LHS' + Len(q') = seq'
      BY <1>2, <2>1, <2>4, <2>5
    <2>11. MasterInv'
      BY <1>2, <1>4, <2>6, <2>7, <2>8, <2>9, <2>10 DEF MasterInv, Master!QueueIsWindow
    <2>12. Master!SendIsInFlight
      <3>1. Len(q) + 1 \in DOMAIN q' /\ q'[Len(q) + 1] = Master!Node(seq)
        BY <2>4 DEF Master!Node
      <3> QED
        BY <1>7, <2>3, <3>1 DEF Master!SendIsInFlight
    <2> QED
      BY <2>11, <2>12
  <1>8. \/ UNCHANGED <<q, seq, RHS, erToMb>>
        \/ Master!Late /\ Master!ResendOldest /\ q # << >>
        \/ ~ Master!Late /\ Master!LetsOut /\ Master!SendNext
    BY DEF Master!NothingArrived, Master!ResendOldest
  <1> QED
    BY <1>5, <1>6, <1>7, <1>8

LEMMA MasterStep ==
  ASSUME MasterInv, Master!MasterNext
  PROVE  MasterInv' /\ (erToMb' = erToMb \/ Master!SendIsInFlight)
  <1>1. CASE Master!HandlePacket
    BY <1>1, HandlePacketInv
  <1>2. CASE Master!NothingArrived
    BY <1>2, NothingArrivedInv
  <1>3. CASE Master!MasterTick
    BY <1>3 DEF Master!MasterTick, Master!links, MasterInv, MasterTypeOK, PathTypeOK, LinksTypeOK,
                Master!QueueIsWindow, AcksAnswered, InLink
  <1>4. CASE Master!MasterPath
    <2>1. (ForwardData \/ DropData \/ ForwardAck \/ AckData) /\ UNCHANGED <<q, seq, LHS, RHS>>
      BY <1>4 DEF Master!MasterPath, Master!MasterBlastee, Master!senderVars, Master!ForwardData, Master!DropData,
                  Master!ForwardAck, Master!AckData, Master!HasRoom,
                  ForwardData, DropData, ForwardAck, AckData, HasRoom
    <2>2. /\ PathTypeOK' /\ AcksAnswered' /\ answered \subseteq answered'
          /\ \A s : erToMb' # Append(erToMb, s)
      BY <2>1, PathStep DEF MasterInv, MasterTypeOK
    <2>3. MasterInv'
      BY <2>1, <2>2 DEF MasterInv, MasterTypeOK, Master!QueueIsWindow
    <2> QED
      BY <2>2, <2>3 DEF Master!SendIsInFlight
  <1> QED
    BY <1>1, <1>2, <1>3, <1>4 DEF Master!MasterNext

-----------------------------------------------------------------------------
(***************************************************************************)
(* Both                                                                    *)
(***************************************************************************)

LEMMA BothStart == BothInit => BothInv
  <1> SUFFICES ASSUME BothInit PROVE BothInv
    OBVIOUS
  <1>1. CASE Init /\ q = << >> /\ seq = 1 /\ LHS = 1
    BY <1>1, HhStart DEF Init, BothInv, MasterAtStart
  <1>2. CASE /\ Master!MasterInit /\ lhs = 1 /\ rhs = 1
             /\ statusList = [s \in SeqNo |-> Unsent] /\ blaster = "off"
    <2>1. /\ erToMb = << >> /\ mbToEe = << >> /\ eeToMb = << >> /\ mbToEr = << >> /\ answered = {}
          /\ q = << >> /\ seq = 1 /\ LHS = 1 /\ RHS = 1
      BY <1>2 DEF Master!MasterInit, Master!PathInit, Master!LinksInit
    <2>2. MasterTypeOK
      BY <2>1 DEF MasterTypeOK, PathTypeOK, LinksTypeOK
    <2>3. Master!QueueIsWindow /\ AcksAnswered
      BY <2>1 DEF Master!QueueIsWindow, AcksAnswered, InLink
    <2> QED
      BY <1>2, <2>2, <2>3 DEF BothInv, MasterInv, HhAtStart
  <1> QED
    BY <1>1, <1>2 DEF BothInit

\* A step of either program keeps the invariant, and what it sends is
\* outstanding.
LEMMA BothStep ==
  ASSUME BothInv, [BothNext]_bothVars
  PROVE  /\ BothInv'
         /\ [IF blaster = "off" THEN Master!SendIsInFlight ELSE SendIsOutstanding]_bothVars
  <1>0. erToMb \in Seq(SeqNo)
    BY DEF BothInv, HhInv, TypeOK, MasterInv, MasterTypeOK, PathTypeOK, LinksTypeOK
  <1>1. \A s : erToMb # Append(erToMb, s)
    <2>1. \A s : Len(Append(erToMb, s)) = Len(erToMb) + 1 /\ Len(erToMb) \in Nat
      BY <1>0
    <2> QED
      BY <2>1
  <1>2. CASE blaster # "off" /\ Next /\ UNCHANGED masterVars
    <2>1. HhInv' /\ (erToMb' = erToMb \/ SendIsOutstanding) /\ MasterAtStart'
      BY <1>2, HhStep DEF BothInv, MasterAtStart, masterVars
    <2>2. SendIsOutstanding
      BY <1>1, <2>1 DEF SendIsOutstanding
    <2>3. blaster' # "off"
      BY <2>1 DEF HhInv, TypeOK
    <2> QED
      BY <1>2, <2>1, <2>2, <2>3 DEF BothInv
  <1>3. CASE blaster = "off" /\ Master!MasterNext /\ UNCHANGED blasterVars
    <2>1. MasterInv' /\ (erToMb' = erToMb \/ Master!SendIsInFlight) /\ HhAtStart' /\ blaster' = "off"
      BY <1>3, MasterStep DEF BothInv, HhAtStart, blasterVars
    <2>2. Master!SendIsInFlight
      BY <1>1, <2>1 DEF Master!SendIsInFlight
    <2> QED
      BY <1>3, <2>1, <2>2 DEF BothInv
  <1>4. CASE UNCHANGED bothVars
    <2>1. UNCHANGED <<vars, q, seq, LHS, RHS, links, answered, blasterVars>>
      BY <1>4 DEF bothVars, masterVars, vars
    <2>2. blaster # "off" => HhInv'
      BY <2>1, HhStep DEF BothInv
    <2>3. blaster = "off" => MasterInv'
      BY <2>1 DEF BothInv, MasterInv, MasterTypeOK, PathTypeOK, LinksTypeOK, links,
                  Master!QueueIsWindow, AcksAnswered, InLink
    <2> QED
      BY <1>4, <2>1, <2>2, <2>3 DEF BothInv, HhAtStart, MasterAtStart, blasterVars
  <1> QED
    BY <1>2, <1>3, <1>4 DEF BothNext

\* The bookkeeping of the two senders agrees with their windows and with what
\* the blastee has answered (lab-hh/lab_6/blaster.py and
\* switchyard-master/lab_6/blaster.py, switchy_main).
THEOREM SendersAgree == BothSpec => []WindowsAgree
  <1>1. BothInv => WindowsAgree
    <2>1. CASE blaster = "off"
      BY <2>1 DEF BothInv, WindowsAgree, MasterInv, HhAtStart, StatusMatchesWindow,
                  SeqNo, Unsent, Sent, Acked
    <2>2. CASE blaster # "off"
      BY <2>2 DEF BothInv, WindowsAgree, HhInv, MasterAtStart, Master!QueueIsWindow
    <2> QED
      BY <2>1, <2>2
  <1>2. BothInv /\ [BothNext]_bothVars => BothInv'
    BY BothStep
  <1> QED
    BY <1>1, <1>2, BothStart, PTL DEF BothSpec

\* Neither sender sends again what was acknowledged, nor for the first time
\* because of a timeout (try_send of lab-hh, the branch NoPackets of
\* switchyard-master).
THEOREM SendersSendOutstanding == BothSpec => SendsOnlyOutstanding
  <1>1. BothInv /\ [BothNext]_bothVars
          => [IF blaster = "off" THEN Master!SendIsInFlight ELSE SendIsOutstanding]_bothVars
    BY BothStep
  <1>2. BothInv /\ [BothNext]_bothVars => BothInv'
    BY BothStep
  <1> QED
    BY <1>1, <1>2, BothStart, PTL DEF BothSpec, SendsOnlyOutstanding
-----------------------------------------------------------------------------
(***************************************************************************)
(* The abstract specification                                              *)
(***************************************************************************)

\* What is known to be delivered when the queue is nodes and its window starts
\* at l.
Known(nodes, l) ==
  (1 .. l - 1) \cup {nodes[i].seq : i \in {j \in DOMAIN nodes : nodes[j].flag}}

\* A packet is known to be delivered when it lies below the window or its entry
\* of the queue is flagged.
LEMMA KnownByPlace ==
  ASSUME NEW nodes, NEW l \in 1 .. Num + 1, NEW n \in 1 .. Num + 1, IsWindow(nodes, l, n)
  PROVE  /\ \A s : s \in Known(nodes, l) <=>
                     \/ s \in 1 .. l - 1
                     \/ \E i \in 1 .. Len(nodes) : s = l + i - 1 /\ nodes[i].flag
         /\ Known(nodes, l) \subseteq 1 .. n - 1
  <1>1. /\ Len(nodes) \in Nat /\ DOMAIN nodes = 1 .. Len(nodes) /\ l + Len(nodes) = n
        /\ \A i \in 1 .. Len(nodes) : nodes[i].seq = l + i - 1
    BY DEF IsWindow
  <1>2. \A s : s \in Known(nodes, l) <=>
                 \/ s \in 1 .. l - 1
                 \/ \E i \in 1 .. Len(nodes) : s = l + i - 1 /\ nodes[i].flag
    BY <1>1 DEF Known
  <1>3. ASSUME NEW s \in Known(nodes, l) PROVE s \in 1 .. n - 1
    BY <1>1, <1>2
  <1> QED
    BY <1>2, <1>3

\* All is known to be delivered exactly when all was sent and nothing is left in
\* flight: the first packet of a queue is not flagged.
LEMMA AllKnown ==
  ASSUME NEW nodes, NEW l \in 1 .. Num + 1, NEW n \in 1 .. Num + 1, IsWindow(nodes, l, n),
         nodes # << >> => ~ Head(nodes).flag
  PROVE  (n > Num /\ nodes = << >>) <=> Known(nodes, l) = SeqNo
  <1>1. /\ nodes \in Seq(QNode) /\ Len(nodes) \in Nat /\ l + Len(nodes) = n
    BY DEF IsWindow
  <1>2. /\ Known(nodes, l) \subseteq 1 .. n - 1
        /\ \A s : s \in Known(nodes, l) <=>
                    \/ s \in 1 .. l - 1
                    \/ \E i \in 1 .. Len(nodes) : s = l + i - 1 /\ nodes[i].flag
    BY KnownByPlace
  <1>3. CASE nodes = << >>
    <2>1. Len(nodes) = 0 /\ l = n
      BY <1>1, <1>3
    <2>2. \A s : s \in Known(nodes, l) <=> s \in 1 .. n - 1
      BY <1>2, <2>1
    <2>3. Num \in SeqNo /\ n - 1 \in 0 .. Num
      BY DEF SeqNo
    <2>4. n > Num => Known(nodes, l) = SeqNo
      <3>1. n > Num => n - 1 = Num
        BY <2>3
      <3> QED
        BY <2>2, <3>1 DEF SeqNo
    <2>5. Known(nodes, l) = SeqNo => n > Num
      BY <2>2, <2>3
    <2> QED
      BY <1>3, <2>4, <2>5
  <1>4. CASE nodes # << >>
    <2>1. Head(nodes) = nodes[1] /\ 1 \in 1 .. Len(nodes)
      BY <1>1, <1>4, EmptySeq
    <2>2. l \in SeqNo
      BY <1>1, <2>1 DEF SeqNo
    <2>3. l \notin Known(nodes, l)
      <3>1. ASSUME NEW i \in 1 .. Len(nodes), l = l + i - 1 PROVE ~ nodes[i].flag
        <4>1. i = 1
          BY <1>1, <3>1
        <4> QED
          BY <1>4, <2>1, <4>1
      <3> QED
        BY <1>2, <3>1
    <2> QED
      BY <1>4, <2>2, <2>3
  <1> QED
    BY <1>3, <1>4

\* Marking a packet of the queue makes it known, and nothing else; marking one
\* that is not there changes nothing.
LEMMA FlaggedKnown ==
  ASSUME MasterInv, NEW a \in answered
  PROVE  \/ Known(Master!Flagged(a), LHS) = Known(q, LHS)
         \/ /\ a \in SeqNo
            /\ Known(Master!Flagged(a), LHS) = Known(q, LHS) \cup {a}
  <1> DEFINE f == Master!Flagged(a)
  <1>1. /\ LHS \in 1 .. Num + 1 /\ seq \in 1 .. Num + 1 /\ a \in SeqNo
        /\ IsWindow(q, LHS, seq) /\ IsWindow(f, LHS, seq) /\ Len(f) = Len(q)
    BY QueueParts, FlaggedQueue DEF MasterTypeOK, PathTypeOK
  <1>2. /\ Len(q) \in Nat
        /\ DOMAIN q = 1 .. Len(q)
        /\ \A i \in 1 .. Len(q) : q[i].seq = LHS + i - 1 /\ q[i] \in QNode
    <2>1. q \in Seq(QNode)
      BY <1>1 DEF IsWindow
    <2>2. Len(q) \in Nat /\ DOMAIN q = 1 .. Len(q) /\ \A i \in 1 .. Len(q) : q[i] \in QNode
      BY <2>1
    <2> QED
      BY <1>1, <2>2 DEF IsWindow
  <1>3. ASSUME NEW i \in 1 .. Len(q) PROVE f[i].flag <=> q[i].flag \/ LHS + i - 1 = a
    <2>1. f[i] = [q[i] EXCEPT !.flag = q[i].flag \/ q[i].seq = a]
      BY <1>2 DEF Master!Flagged
    <2>2. PICK x \in SeqNo, b \in BOOLEAN : q[i] = [seq |-> x, flag |-> b]
      BY <1>2 DEF QNode
    <2>3. f[i] = [seq |-> x, flag |-> (b \/ x = a)] /\ x = LHS + i - 1
      BY <1>2, <2>1, <2>2
    <2> HIDE DEF f
    <2>4. f[i].flag = (b \/ x = a) /\ q[i].flag = b
      BY <2>2, <2>3
    <2> QED
      BY <2>3, <2>4
  <1> HIDE DEF f
  <1>4. /\ \A s : s \in Known(f, LHS) <=>
                    \/ s \in 1 .. LHS - 1
                    \/ \E i \in 1 .. Len(q) : s = LHS + i - 1 /\ f[i].flag
        /\ \A s : s \in Known(q, LHS) <=>
                    \/ s \in 1 .. LHS - 1
                    \/ \E i \in 1 .. Len(q) : s = LHS + i - 1 /\ q[i].flag
    BY <1>1, KnownByPlace
  <1>5. CASE \E i \in 1 .. Len(q) : LHS + i - 1 = a
    <2>1. \A s : s \in Known(f, LHS) <=> s \in Known(q, LHS) \/ s = a
      BY <1>3, <1>4, <1>5
    <2> QED
      BY <1>1, <2>1 DEF f
  <1>6. CASE ~ \E i \in 1 .. Len(q) : LHS + i - 1 = a
    <2>1. \A s : s \in Known(f, LHS) <=> s \in Known(q, LHS)
      BY <1>3, <1>4, <1>6
    <2> QED
      BY <2>1 DEF f
  <1> QED
    BY <1>5, <1>6

\* Taking acknowledged packets from the front of the queue forgets nothing.
LEMMA MovedKnown ==
  ASSUME NEW nodes, NEW l \in 1 .. Num + 1, NEW n \in 1 .. Num + 1, IsWindow(nodes, l, n)
  PROVE  LET rest == Master!Moved(nodes)
         IN  Known(rest, l + Len(nodes) - Len(rest)) = Known(nodes, l)
  <1> DEFINE rest == Master!Moved(nodes)
             k    == Len(nodes) - Len(rest)
  <1>1. /\ k \in 0 .. Len(nodes) /\ IsWindow(rest, l + k, n)
        /\ \A i \in 1 .. k : nodes[i].flag
        /\ \A i \in 1 .. Len(rest) : rest[i] = nodes[k + i]
    BY MovedQueue
  <1>2. Len(nodes) \in Nat /\ Len(rest) \in Nat /\ l + Len(nodes) = n
    <2> HIDE DEF rest
    <2> QED
      BY <1>1 DEF IsWindow
  <1>3. l + k \in 1 .. Num + 1 /\ l + Len(nodes) - Len(rest) = l + k
    <2> HIDE DEF rest
    <2> QED
      BY <1>1, <1>2
  <1>4. /\ \A s : s \in Known(nodes, l) <=>
                    \/ s \in 1 .. l - 1
                    \/ \E i \in 1 .. Len(nodes) : s = l + i - 1 /\ nodes[i].flag
        /\ \A s : s \in Known(rest, l + k) <=>
                    \/ s \in 1 .. l + k - 1
                    \/ \E i \in 1 .. Len(rest) : s = l + k + i - 1 /\ rest[i].flag
    <2> HIDE DEF rest, k
    <2> QED
      BY <1>1, <1>3, KnownByPlace
  <1>5. Len(nodes) = k + Len(rest) /\ k \in Nat
    <2> HIDE DEF rest
    <2> QED
      BY <1>1, <1>2
  <1> HIDE DEF rest, k
  <1>6. ASSUME NEW s, s \in Known(rest, l + k) PROVE s \in Known(nodes, l)
    <2>1. CASE s \in 1 .. l + k - 1
      <3>1. CASE s \in 1 .. l - 1
        BY <1>4, <3>1
      <3>2. CASE s \notin 1 .. l - 1
        <4>1. s - l + 1 \in 1 .. k /\ s - l + 1 \in 1 .. Len(nodes) /\ s = l + (s - l + 1) - 1
          BY <1>2, <1>5, <2>1, <3>2
        <4> QED
          BY <1>1, <1>4, <4>1
      <3> QED
        BY <3>1, <3>2
    <2>2. ASSUME NEW i \in 1 .. Len(rest), s = l + k + i - 1, rest[i].flag
          PROVE  s \in Known(nodes, l)
      <3>1. k + i \in 1 .. Len(nodes) /\ s = l + (k + i) - 1 /\ nodes[k + i].flag
        BY <1>1, <1>2, <1>5, <2>2
      <3> QED
        BY <1>4, <3>1
    <2> QED
      BY <1>4, <1>6, <2>1, <2>2
  <1>7. ASSUME NEW s, s \in Known(nodes, l) PROVE s \in Known(rest, l + k)
    <2>1. CASE s \in 1 .. l - 1
      BY <1>4, <1>5, <2>1
    <2>2. ASSUME NEW i \in 1 .. Len(nodes), s = l + i - 1, nodes[i].flag
          PROVE  s \in Known(rest, l + k)
      <3>1. CASE i \in 1 .. k
        BY <1>4, <1>5, <2>2, <3>1
      <3>2. CASE i \notin 1 .. k
        <4>1. i - k \in 1 .. Len(rest) /\ k + (i - k) = i
          BY <1>2, <1>5, <3>2
        <4>2. rest[i - k].flag /\ s = l + k + (i - k) - 1
          BY <1>1, <1>5, <2>2, <4>1
        <4> QED
          BY <1>4, <4>1, <4>2
      <3> QED
        BY <3>1, <3>2
    <2> QED
      BY <1>4, <1>7, <2>1, <2>2
  <1> QED
    BY <1>3, <1>6, <1>7 DEF rest

\* The blastee delivers a packet when it answers it for the first time; no other
\* step beyond the sender is seen by the abstract specification.
LEMMA PathDelivers ==
  ASSUME PathTypeOK, ForwardData \/ DropData \/ ForwardAck \/ AckData,
         UNCHANGED <<Confirmed, Over>>
  PROVE  [Delivery!Next]_Delivery!vars
  <1> USE DEF Delivery!vars
  <1>1. CASE AckData
    <2>1. /\ Head(mbToEe) \in SeqNo /\ answered' = answered \cup {Head(mbToEe)}
      BY <1>1, InRest DEF AckData, PathTypeOK, LinksTypeOK
    <2>2. CASE Head(mbToEe) \in answered
      BY <2>1, <2>2
    <2>3. CASE Head(mbToEe) \notin answered
      <3>1. Delivery!Deliver(Head(mbToEe))
        BY <2>1, <2>3 DEF Delivery!Deliver
      <3> QED
        BY <2>1, <3>1 DEF Delivery!Next
    <2> QED
      BY <2>2, <2>3
  <1>2. CASE ForwardData \/ DropData \/ ForwardAck
    BY <1>2 DEF ForwardData, DropData, ForwardAck
  <1> QED
    BY <1>1, <1>2

\* The sender of switchyard-master has finished when it knows all.
LEMMA MasterOver == MasterInv /\ blaster = "off" => Over = (Confirmed = SeqNo)
  <1> SUFFICES ASSUME MasterInv, blaster = "off" PROVE Over = (Confirmed = SeqNo)
    OBVIOUS
  <1>1. seq > Num /\ q = << >> <=> Known(q, LHS) = SeqNo
    BY QueueParts, AllKnown DEF MasterTypeOK
  <1> QED
    BY <1>1 DEF Over, Confirmed, Known, Master!AllDone

\* An acknowledgement confirms the packet it names, if it was in flight and not
\* confirmed before; every other step of the sender of switchyard-master leaves
\* what it knows as it was, and the blastee delivers.
LEMMA MasterImplements ==
  ASSUME MasterInv, Master!MasterNext, blaster = "off", blaster' = "off"
  PROVE  [Delivery!Next]_Delivery!vars
  <1> USE DEF Delivery!vars
  <1>1. MasterInv'
    BY MasterStep
  <1>2. Confirmed = Known(q, LHS) /\ Confirmed' = Known(q', LHS')
    BY DEF Confirmed, Known
  <1>3. Over = (Confirmed = SeqNo) /\ Over' = (Confirmed' = SeqNo)
    <2>1. (MasterInv /\ blaster = "off" => Over = (Confirmed = SeqNo))'
      BY MasterOver, PTL
    <2> QED
      BY <1>1, <2>1, MasterOver
  <1>4. CASE Master!HandlePacket
    <2> DEFINE a  == Head(mbToEr)
               fl == Master!Flagged(a)
               n  == Len(q) - Len(Master!Moved(fl))
    <2>1. /\ mbToEr # << >> /\ q' = Master!Moved(fl) /\ answered' = answered
      BY <1>4 DEF Master!HandlePacket
    <2>2. a \in answered
      BY <2>1, InRest DEF MasterInv, MasterTypeOK, PathTypeOK, LinksTypeOK, AcksAnswered
    <2>3. IsWindow(fl, LHS, seq) /\ Len(fl) = Len(q) /\ LHS \in 1 .. Num + 1 /\ seq \in 1 .. Num + 1
      BY <2>2, FlaggedQueue DEF MasterInv, MasterTypeOK
    <2>4. LHS' = LHS + Len(fl) - Len(q')
      <3>1. /\ LHS + Len(q) = seq /\ LHS' + Len(q') = seq' /\ seq' = seq
            /\ LHS' \in 1 .. Num + 1 /\ q \in Seq(QNode) /\ q' \in Seq(QNode)
        BY <1>1, <1>4 DEF MasterInv, MasterTypeOK, Master!QueueIsWindow, Master!HandlePacket
      <3> HIDE DEF fl
      <3> QED
        BY <2>3, <3>1
    <2>5. Known(q', LHS') = Known(fl, LHS)
      <3> HIDE DEF fl
      <3> QED
        BY <2>1, <2>3, <2>4, MovedKnown
    <2>6. \/ Confirmed' = Confirmed
          \/ a \in SeqNo /\ Confirmed' = Confirmed \cup {a}
      BY <1>2, <2>2, <2>5, FlaggedKnown
    <2> HIDE DEF a
    <2>7. CASE Confirmed' = Confirmed
      BY <1>3, <2>1, <2>7
    <2>8. CASE a \in SeqNo /\ a \notin Confirmed /\ Confirmed' = Confirmed \cup {a}
      <3>1. Delivery!Confirm(a)
        BY <1>3, <2>1, <2>2, <2>8 DEF Delivery!Confirm
      <3> QED
        BY <2>8, <3>1 DEF Delivery!Next
    <2> QED
      BY <2>6, <2>7, <2>8
  <1>5. CASE Master!NothingArrived
    <2>1. LHS' = LHS /\ answered' = answered /\ q \in Seq(QNode)
      BY <1>5 DEF Master!NothingArrived, MasterInv, MasterTypeOK
    <2>2. CASE q' = q
      BY <1>2, <1>3, <2>1, <2>2
    <2>3. CASE q' = Append(q, [seq |-> seq, flag |-> FALSE])
      <3>1. /\ Len(q) \in Nat /\ DOMAIN q = 1 .. Len(q) /\ DOMAIN q' = 1 .. Len(q) + 1
            /\ \A i \in 1 .. Len(q) : q'[i] = q[i]
            /\ ~ q'[Len(q) + 1].flag
        <4>1. seq \in SeqNo
          <5>1. seq \in 1 .. Num + 1 /\ seq' \in 1 .. Num + 1 /\ LHS + Len(q) = seq /\ LHS + Len(q') = seq'
            BY <1>1, <2>1 DEF MasterInv, MasterTypeOK, Master!QueueIsWindow
          <5>2. Len(q') = Len(q) + 1 /\ Len(q) \in Nat /\ LHS \in Nat
            BY <2>1, <2>3 DEF MasterInv, MasterTypeOK
          <5> QED
            BY <5>1, <5>2 DEF SeqNo
        <4>2. [seq |-> seq, flag |-> FALSE] \in QNode
          BY <4>1 DEF QNode
        <4> QED
          BY <2>1, <2>3, <4>2, AppendProperties
      <3>2. {j \in DOMAIN q' : q'[j].flag} = {j \in DOMAIN q : q[j].flag}
        BY <3>1
      <3>3. Known(q', LHS') = Known(q, LHS)
        BY <2>1, <3>1, <3>2 DEF Known
      <3> QED
        BY <1>2, <1>3, <2>1, <3>3
    <2> QED
      BY <1>5, <2>2, <2>3 DEF Master!NothingArrived, Master!ResendOldest, Master!SendNext, Master!Node
  <1>6. CASE Master!MasterTick
    BY <1>2, <1>3, <1>6 DEF Master!MasterTick
  <1>7. CASE Master!MasterPath
    <2>1. UNCHANGED <<q, LHS>> /\ (ForwardData \/ DropData \/ ForwardAck \/ AckData)
      BY <1>7 DEF Master!MasterPath, Master!MasterBlastee, Master!senderVars, Master!ForwardData, Master!DropData,
                  Master!ForwardAck, Master!AckData, Master!HasRoom,
                  ForwardData, DropData, ForwardAck, AckData, HasRoom
    <2>2. Confirmed' = Confirmed /\ Over' = Over
      BY <1>2, <1>3, <2>1
    <2> QED
      BY <2>1, <2>2, PathDelivers DEF MasterInv, MasterTypeOK
  <1> QED
    BY <1>4, <1>5, <1>6, <1>7 DEF Master!MasterNext

\* What try_send does to the statuses confirms nothing: it marks only what was
\* not sent before.
LEMMA TrySendConfirmsNothing ==
  ASSUME TypeOK, NEW l, NEW el, NEW st \in [SeqNo -> {Unsent, Sent, Acked}], TrySend(l, st, el)
  PROVE  /\ {s \in SeqNo : statusList'[s] = Acked} = {s \in SeqNo : st[s] = Acked}
         /\ blaster' \in {"run", "crashed"}
  <1> USE DEF Unsent, Sent, Acked
  <1>1. CASE statusList' = st
    BY <1>1 DEF TrySend, Retransmit, RetransmitPastEnd, StartRound, SendNew
  <1>2. CASE /\ rhs \in SeqNo /\ st[rhs] = Unsent /\ blaster' = "run"
             /\ statusList' = [st EXCEPT ![rhs] = Sent]
    BY <1>2
  <1> QED
    BY <1>1, <1>2 DEF TrySend, Retransmit, RetransmitPastEnd, StartRound, SendNew, MaySendNew, TypeOK, SeqNo

\* The same for the sender of lab-hh.  Its last acknowledgement ends the loop; an
\* acknowledgement handled before leaves the first packet of the window
\* unconfirmed.
LEMMA HhImplements ==
  ASSUME HhInv, Next, blaster # "off"
  PROVE  [Delivery!Next]_Delivery!vars
  <1> USE DEF Delivery!vars
  <1>1. HhInv'
    BY HhStep
  <1>2. /\ TypeOK /\ statusList \in [SeqNo -> {Unsent, Sent, Acked}]
        /\ blaster' # "off"
    BY <1>1 DEF HhInv, TypeOK
  <1>3. /\ Confirmed = {s \in SeqNo : statusList[s] = Acked}
        /\ Confirmed' = {s \in SeqNo : statusList'[s] = Acked}
        /\ Over = (blaster = "done") /\ Over' = (blaster' = "done")
    BY <1>2 DEF Confirmed, Over
  <1>4. CASE Start \/ HandleNoPackets
    <2>1. /\ TrySend(lhs, statusList, elapsed) /\ answered' = answered
          /\ blaster \in {"start", "run"}
      BY <1>4 DEF Start, HandleNoPackets
    <2>2. /\ {s \in SeqNo : statusList'[s] = Acked} = {s \in SeqNo : statusList[s] = Acked}
          /\ blaster' \in {"run", "crashed"}
      BY <1>2, <2>1, TrySendConfirmsNothing
    <2> QED
      BY <1>3, <2>1, <2>2
  <1>5. CASE HandleAck
    <2> DEFINE a  == Head(mbToEr)
               st == MarkAcked(a)
               l  == FirstNotAcked(lhs, st)
    <2>1. /\ blaster = "run" /\ mbToEr # << >> /\ answered' = answered
          /\ IF l > Num THEN blaster' = "done" /\ statusList' = st ELSE TrySend(l, st, 0)
      BY <1>5 DEF HandleAck
    <2>2. a \in SeqNo /\ a \in answered
      BY <1>2, <2>1, InRest DEF HhInv, TypeOK, PathTypeOK, LinksTypeOK, AcksAnswered
    <2>3. /\ l \in 1 .. Num + 1 /\ st \in [SeqNo -> {Unsent, Sent, Acked}]
          /\ l <= Num => Ready(l, st)
          /\ \A s \in SeqNo : s < l => st[s] = Acked
      BY <2>1, ReadyAfterAck
    <2>4. {s \in SeqNo : st[s] = Acked} = Confirmed \cup {a}
      BY <1>2, <1>3, <2>2 DEF MarkAcked
    <2> HIDE DEF a, st, l
    <2>5. Confirmed' = Confirmed \cup {a} /\ (Over' <=> l > Num)
      <3>1. CASE l > Num
        BY <1>3, <2>1, <2>4, <3>1
      <3>2. CASE ~ l > Num
        <4>1. /\ {s \in SeqNo : statusList'[s] = Acked} = {s \in SeqNo : st[s] = Acked}
              /\ blaster' \in {"run", "crashed"}
          BY <1>2, <2>1, <2>3, <3>2, TrySendConfirmsNothing
        <4> QED
          BY <1>3, <2>4, <3>2, <4>1
      <3> QED
        BY <3>1, <3>2
    <2>6. l > Num <=> Confirmed' = SeqNo
      <3>1. l > Num => \A s \in SeqNo : st[s] = Acked
        BY <2>3 DEF SeqNo
      <3>2. ~ l > Num => l \in SeqNo /\ st[l] # Acked
        BY <2>3 DEF Ready, SeqNo
      <3> QED
        BY <2>4, <2>5, <3>1, <3>2
    <2>7. CASE a \in Confirmed
      <3>1. lhs \in SeqNo /\ statusList[lhs] # Acked
        BY <2>1 DEF HhInv, TypeOK, StatusMatchesWindow, SeqNo
      <3>2. Confirmed' = Confirmed /\ lhs \notin Confirmed
        BY <1>3, <2>5, <2>7, <3>1
      <3>3. Over = FALSE /\ Over' = FALSE
        BY <1>3, <2>1, <2>5, <2>6, <3>1, <3>2
      <3> QED
        BY <2>1, <3>2, <3>3
    <2>8. CASE a \notin Confirmed
      <3>1. Over' = (Confirmed' = SeqNo)
        BY <1>3, <2>5, <2>6
      <3>2. Delivery!Confirm(a)
        BY <2>1, <2>2, <2>5, <2>8, <3>1 DEF Delivery!Confirm
      <3> QED
        BY <2>2, <3>2 DEF Delivery!Next
    <2> QED
      BY <2>7, <2>8
  <1>6. CASE Tick
    BY <1>3, <1>6 DEF Tick
  <1>7. CASE Path
    <2>1. UNCHANGED <<Confirmed, Over>>
      BY <1>3, <1>7 DEF Path, blasterVars
    <2> QED
      BY <1>7, <2>1, PathDelivers DEF Path, HhInv, TypeOK
  <1> QED
    BY <1>4, <1>5, <1>6, <1>7 DEF Next

\* Whichever sender runs, the three programs implement reliable delivery: the
\* answer of the blastee delivers a packet, the first acknowledgement that marks
\* it confirms it, and the transfer is over exactly when all are confirmed, with
\* frames lost, acknowledgements handled twice and out of order
\* (lab-hh/lab_6/blaster.py, switchyard-master/lab_6/blaster.py, switchy_main).
THEOREM SendersDeliver == BothSpec => ImplementsDelivery
  <1>1. BothInit => Delivery!Init
    <2>1. CASE Init /\ q = << >> /\ seq = 1 /\ LHS = 1
      BY <2>1 DEF Init, PathInit, Delivery!Init, Confirmed, Over, Unsent, Acked
    <2>2. CASE Master!MasterInit /\ blaster = "off"
      BY <2>2 DEF Master!MasterInit, Master!PathInit, Master!AllDone, Delivery!Init, Confirmed, Over
    <2> QED
      BY <2>1, <2>2 DEF BothInit
  <1>2. ASSUME BothInv, [BothNext]_bothVars
        PROVE  [Delivery!Next]_Delivery!vars
    <2>1. CASE blaster # "off" /\ Next
      BY <1>2, <2>1, HhImplements DEF BothInv
    <2>2. CASE blaster = "off" /\ Master!MasterNext /\ UNCHANGED blasterVars
      BY <1>2, <2>2, MasterImplements DEF BothInv, blasterVars
    <2>3. CASE UNCHANGED bothVars
      BY <2>3 DEF bothVars, masterVars, vars, blasterVars, Confirmed, Over, Master!AllDone, Delivery!vars
    <2> QED
      BY <1>2, <2>1, <2>2, <2>3 DEF BothNext
  <1>3. BothInv /\ [BothNext]_bothVars => BothInv'
    BY BothStep
  <1> QED
    BY <1>1, <1>2, <1>3, BothStart, PTL DEF BothSpec, ImplementsDelivery, Delivery!Spec
=============================================================================
