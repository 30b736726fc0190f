------------------------- MODULE NjuReliable_proofs -------------------------
(***************************************************************************)
(* Proofs, for every number of packets, window, timeout and link capacity, *)
(* of the safety properties of NjuReliable.                                *)
(***************************************************************************)
EXTENDS NjuReliable, FiniteSetTheorems, SequenceTheorems,
        WellFoundedInduction, TLAPS

(***************************************************************************)
(* Facts about the operators of the model                                  *)
(***************************************************************************)

\* A nonempty set of natural numbers has a minimum, and Min returns it.
LEMMA MinOfNats ==
  ASSUME NEW S, S \subseteq Nat, S # {}
  PROVE  Min(S) \in S /\ \A y \in S : Min(S) <= y
<1>1. PICK x \in S : \A y \in S : ~ (<<y, x>> \in OpToRel(<, Nat))
  BY WFMin, NatLessThanWellFounded
<1>2. ASSUME NEW y \in S
      PROVE  x <= y
  <2>1. x \in Nat /\ y \in Nat
    OBVIOUS
  <2>2. y < x => <<y, x>> \in OpToRel(<, Nat)
    BY <2>1, Zenon DEF OpToRel
  <2>3. ~ (y < x)
    BY <1>1, <2>2, Zenon
  <2> QED
    BY <2>1, <2>3
<1> QED
  BY <1>2 DEF Min

\* The loops "while i in self.acked" stop at the first number that is not
\* acknowledged, and at Num + 1 at the latest.
LEMMA SkipAckedStops ==
  ASSUME NEW i \in 1 .. Num + 1, NEW ack, ack \subseteq SeqNo
  PROVE  /\ SkipAcked(i, ack) \in i .. Num + 1
         /\ SkipAcked(i, ack) \notin ack
         /\ i .. SkipAcked(i, ack) - 1 \subseteq ack
<1> DEFINE S == {j \in i .. Num + 1 : j \notin ack}
<1>1. S \subseteq Nat
  BY NumAssumption
<1>2. Num + 1 \in S
  BY NumAssumption DEF SeqNo
<1>3. Min(S) \in S /\ \A y \in S : Min(S) <= y
  BY <1>1, <1>2, MinOfNats
<1>4. SkipAcked(i, ack) = Min(S)
  BY DEF SkipAcked
<1>5. Min(S) \in i .. Num + 1 /\ Min(S) \notin ack
  BY <1>3
<1>6. ASSUME NEW j \in i .. Min(S) - 1
      PROVE  j \in ack
  <2>1. j \in i .. Num + 1 /\ ~ (Min(S) <= j)
    BY <1>5, <1>6, NumAssumption
  <2> QED
    BY <1>3, <2>1
<1> QED
  BY <1>4, <1>5, <1>6

\* What a link holds after a frame is appended to it.
LEMMA InAppended ==
  ASSUME NEW S, NEW q \in Seq(S), NEW e \in S
  PROVE  /\ Append(q, e) \in Seq(S)
         /\ \A s : InLink(s, Append(q, e)) <=> InLink(s, q) \/ s = e
BY DEF InLink

\* What a link holds after its first frame is taken.
LEMMA InRest ==
  ASSUME NEW S, NEW q \in Seq(S), q # << >>
  PROVE  /\ Head(q) \in S
         /\ Tail(q) \in Seq(S)
         /\ InLink(Head(q), q)
         /\ \A s : InLink(s, q) <=> InLink(s, Tail(q)) \/ s = Head(q)
<1>1. /\ Head(q) \in S
      /\ Tail(q) \in Seq(S)
      /\ Len(Tail(q)) = Len(q) - 1
      /\ \A i \in 1 .. Len(Tail(q)) : Tail(q)[i] = q[i + 1]
      /\ Len(q) \in Nat \ {0}
  BY HeadTailProperties, EmptySeq
<1>2. Head(q) = q[1]
  OBVIOUS
<1>3. InLink(Head(q), q)
  BY <1>1, <1>2 DEF InLink
<1>4. ASSUME NEW s, InLink(s, Tail(q))
      PROVE  InLink(s, q)
  <2>1. PICK i \in 1 .. Len(Tail(q)) : Tail(q)[i] = s
    BY <1>4 DEF InLink
  <2>2. i + 1 \in 1 .. Len(q) /\ q[i + 1] = s
    BY <1>1, <2>1
  <2> QED
    BY <2>2 DEF InLink
<1>5. ASSUME NEW s, InLink(s, q), s # Head(q)
      PROVE  InLink(s, Tail(q))
  <2>1. PICK i \in 1 .. Len(q) : q[i] = s
    BY <1>5 DEF InLink
  <2>2. i - 1 \in 1 .. Len(Tail(q))
    BY <1>1, <1>2, <1>5, <2>1
  <2>3. Tail(q)[i - 1] = s
    BY <1>1, <2>1, <2>2
  <2> QED
    BY <2>2, <2>3 DEF InLink
<1> QED
  BY <1>1, <1>3, <1>4, <1>5

\* Nothing is in an empty link.
LEMMA InEmpty == \A s : ~ InLink(s, << >>)
BY DEF InLink

-----------------------------------------------------------------------------
(***************************************************************************)
(* The inductive invariant                                                 *)
(***************************************************************************)

USE NumAssumption, LinkCapAssumption, WindowAssumption, TimeoutAssumption,
    OutputAssumption

\* The invariant holds initially.
LEMMA TransferInvInit == Init => TransferInv
<1> SUFFICES ASSUME Init PROVE TransferInv
  OBVIOUS
<1> USE DEF Init, LinksInit, BlasterInit, MiddleboxInit, BlasteeInit
<1>1. TypeOK
  BY DEF TypeOK, LinksTypeOK, BlasterTypeOK, MiddleboxTypeOK, BlasteeTypeOK,
         SeqNo, NoResend
<1>2. WindowBound /\ LhsIsFirstUnacked /\ AckedWasReceived /\ AckNeverLost
  BY DEF WindowBound, LhsIsFirstUnacked, AckedWasReceived, AckNeverLost
<1>3. LinksInv
  BY InEmpty DEF LinksInv
<1>4. EndsInv
  BY FS_EmptySet DEF EndsInv, NoResend
<1> QED
  BY <1>1, <1>2, <1>3, <1>4 DEF TransferInv

\* What try_to_send does, called with the values l, ack and el that
\* handle_ack may have left: at most one packet goes out, outstanding and
\* unacknowledged, and the window is respected.
LEMMA TryToSendEffect ==
  ASSUME TypeOK, resendIdx < rhs,
         NEW l \in 1 .. Num + 1, NEW ack, ack \subseteq SeqNo,
         NEW el \in 0 .. Timeout,
         l <= rhs, rhs - l <= SenderWindow, lhs <= l,
         1 .. l - 1 \subseteq ack, l \notin ack,
         TryToSend(l, ack, el)
  PROVE  /\ rhs' \in rhs .. rhs + 1
         /\ rhs' \in 1 .. Num + 1
         /\ rhs' - l <= SenderWindow
         /\ resendIdx' \in SeqNo \cup {NoResend}
         /\ resendIdx' < rhs'
         /\ elapsed' \in 0 .. Timeout
         /\ \/ erToMb' = erToMb
            \/ \E s \in SeqNo : /\ erToMb' = Append(erToMb, s)
                                /\ l <= s /\ s < rhs'
                                /\ s \notin ack \/ s = rhs
<1> USE DEF TypeOK, BlasterTypeOK, NoResend, SeqNo
<1>1. CASE SendNew(l, el)
  BY <1>1 DEF SendNew, MaySendNew, Send, SendNothing
<1>2. ASSUME NEW i \in 1 .. Num + 1, ResendFrom(l, ack, i)
      PROVE  /\ rhs' = rhs
             /\ resendIdx' \in SeqNo \cup {NoResend}
             /\ resendIdx' < rhs'
             /\ \/ erToMb' = erToMb
                \/ \E s \in SeqNo : /\ erToMb' = Append(erToMb, s)
                                    /\ l <= s /\ s < rhs'
                                    /\ s \notin ack
  <2> DEFINE next == SkipAcked(i, ack)
  <2>0. next \in i .. Num + 1 /\ next \notin ack
    BY SkipAckedStops, Zenon
  <2> HIDE DEF next
  <2>1. next \in 1 .. Num + 1 /\ next \notin ack
    BY <2>0
  <2>2. rhs' = rhs
    BY <1>2 DEF ResendFrom
  <2>3. CASE Outstanding(l, next)
    <3>1. erToMb' = Append(erToMb, next) /\ resendIdx' = CloseRound(next + 1)
      BY <1>2, <2>3 DEF ResendFrom, Send, next
    <3> QED
      BY <2>1, <2>2, <2>3, <3>1 DEF Outstanding, CloseRound
  <2>4. CASE ~ Outstanding(l, next)
    <3>1. erToMb' = erToMb /\ resendIdx' = CloseRound(next)
      BY <1>2, <2>4 DEF ResendFrom, SendNothing, next
    <3> QED
      BY <2>1, <2>2, <3>1 DEF CloseRound
  <2> QED
    BY <2>3, <2>4
<1>3. CASE StartRound(l, ack, el)
  BY <1>2, <1>3 DEF StartRound
<1>4. CASE ContinueRound(l, ack, el)
  BY <1>2, <1>4 DEF ContinueRound
<1> QED
  BY <1>1, <1>3, <1>4 DEF TryToSend

\* What a step of the blaster may change, and how: its two links, and at most
\* one packet goes out, outstanding and unacknowledged.
BlasterEffect ==
  /\ UNCHANGED <<mbToEe, eeToMb, middlebox, blasteeVars>>
  /\ acked \subseteq acked' /\ acked' \subseteq revData
  /\ lhs' \in 1 .. Num + 1 /\ lhs' <= rhs' /\ rhs' - lhs' <= SenderWindow
  /\ 1 .. lhs' - 1 \subseteq acked' /\ lhs' \notin acked'
  /\ rhs' \in rhs .. rhs + 1 /\ rhs' \in 1 .. Num + 1
  /\ resendIdx' \in SeqNo \cup {NoResend} /\ resendIdx' < rhs'
  /\ elapsed' \in 0 .. Timeout
  /\ blaster' \in {"start", "run", "done", "stopped"}
  /\ blaster' = "done" <=> lhs' = Num + 1
  /\ \/ erToMb' = erToMb
     \/ \E s \in SeqNo : /\ erToMb' = Append(erToMb, s)
                         /\ lhs' <= s /\ s < rhs'
                         /\ s \notin acked'
  /\ mbToEr' \in Seq(SeqNo)
  /\ \A s : InLink(s, mbToEr') => InLink(s, mbToEr)
  /\ \A s : InLink(s, mbToEr) => InLink(s, mbToEr') \/ s \in acked'

\* A step with that effect preserves the invariant.
LEMMA BlasterEffectInv == TransferInv /\ BlasterEffect => TransferInv'
<1> SUFFICES ASSUME TransferInv, BlasterEffect PROVE TransferInv'
  OBVIOUS
<1> USE DEF TransferInv, BlasterEffect, blasteeVars
<1>1. erToMb' \in Seq(SeqNo)
  <2>1. erToMb \in Seq(SeqNo)
    BY DEF TypeOK, LinksTypeOK
  <2>2. ASSUME NEW s \in SeqNo PROVE Append(erToMb, s) \in Seq(SeqNo)
    BY <2>1, InAppended
  <2> QED
    BY <2>1, <2>2
<1>2. TypeOK'
  BY <1>1 DEF TypeOK, LinksTypeOK, BlasterTypeOK, MiddleboxTypeOK, BlasteeTypeOK
<1>3. WindowBound' /\ LhsIsFirstUnacked'
  BY DEF WindowBound, LhsIsFirstUnacked
<1>4. AckedWasReceived' /\ AckNeverLost'
  BY DEF AckedWasReceived, AckNeverLost
<1>5. \A s \in SeqNo : InLink(s, erToMb') => s < rhs'
  <2>1. \A s \in SeqNo : InLink(s, erToMb) => s < rhs'
    BY DEF LinksInv, TypeOK, BlasterTypeOK, SeqNo
  <2>2. CASE erToMb' = erToMb
    BY <2>1, <2>2
  <2>3. CASE \E s \in SeqNo : erToMb' = Append(erToMb, s) /\ s < rhs'
    BY <2>1, <2>3, InAppended DEF TypeOK, LinksTypeOK
  <2> QED
    BY <2>2, <2>3
<1>6. \A s \in SeqNo : s < rhs => s < rhs'
  BY DEF TypeOK, BlasterTypeOK, SeqNo
<1>7. LinksInv'
  BY <1>5, <1>6 DEF LinksInv
<1>8. EndsInv'
  BY <1>6 DEF EndsInv, TypeOK, BlasteeTypeOK
<1> QED
  BY <1>2, <1>3, <1>4, <1>7, <1>8

\* Every step of the blaster has that effect.
LEMMA BlasterStepEffect == TransferInv /\ BlasterStep => BlasterEffect
<1> SUFFICES ASSUME TransferInv, BlasterStep PROVE BlasterEffect
  OBVIOUS
<1>0. /\ UNCHANGED <<mbToEe, eeToMb, middlebox, blasteeVars>>
      /\ TypeOK
      /\ lhs <= rhs /\ rhs - lhs <= SenderWindow
      /\ 1 .. lhs - 1 \subseteq acked /\ lhs \notin acked
      /\ acked \subseteq revData
      /\ \A s \in revData : s < rhs
      /\ resendIdx < rhs
      /\ blaster = "done" <=> lhs = Num + 1
      /\ lhs \in 1 .. Num + 1 /\ rhs \in 1 .. Num + 1
      /\ resendIdx \in SeqNo \cup {NoResend}
      /\ elapsed \in 0 .. Timeout
      /\ acked \subseteq SeqNo
      /\ mbToEr \in Seq(SeqNo)
  BY DEF BlasterStep, TransferInv, EndsInv, TypeOK, BlasterTypeOK,
     LinksTypeOK, WindowBound, LhsIsFirstUnacked, AckedWasReceived
<1>1. ASSUME NEW el \in 0 .. Timeout, TryToSend(lhs, acked, el),
             UNCHANGED <<lhs, acked, mbToEr>>,
             blaster # "done", blaster' = "run"
      PROVE  BlasterEffect
  <2>1. /\ rhs' \in rhs .. rhs + 1
        /\ rhs' \in 1 .. Num + 1
        /\ rhs' - lhs <= SenderWindow
        /\ resendIdx' \in SeqNo \cup {NoResend}
        /\ resendIdx' < rhs'
        /\ elapsed' \in 0 .. Timeout
        /\ \/ erToMb' = erToMb
           \/ \E s \in SeqNo : /\ erToMb' = Append(erToMb, s)
                               /\ lhs <= s /\ s < rhs'
                               /\ s \notin acked \/ s = rhs
    BY <1>0, <1>1, TryToSendEffect
  <2>2. rhs \notin acked
    BY <1>0
  <2>3. lhs' <= rhs'
    BY <1>0, <1>1, <2>1
  <2> QED
    BY <1>0, <1>1, <2>1, <2>2, <2>3 DEF BlasterEffect
<1>2. CASE Start
  BY <1>1, <1>2 DEF Start
<1>3. CASE HandleNoPacket
  BY <1>0, <1>1, <1>3 DEF HandleNoPacket
<1>4. CASE HandleAck
  <2> DEFINE s   == Head(mbToEr)
             ack == AddAck(s)
             l   == SkipAcked(lhs, ack)
             el  == IF l > lhs THEN 0 ELSE elapsed
  <2>1. /\ s \in SeqNo
        /\ mbToEr' \in Seq(SeqNo)
        /\ InLink(s, mbToEr)
        /\ \A r : InLink(r, mbToEr) <=> InLink(r, mbToEr') \/ r = s
    BY <1>0, <1>4, InRest DEF HandleAck
  <2>2. s \in revData
    BY <2>1 DEF TransferInv, LinksInv
  <2>3. /\ acked' = ack
        /\ lhs' = l
        /\ ack = acked \cup {s}
    BY <1>4 DEF HandleAck, AddAck
  <2> HIDE DEF s
  <2>4. ack \subseteq SeqNo /\ ack \subseteq revData
    BY <1>0, <2>1, <2>2, <2>3
  <2> HIDE DEF ack
  <2>5. /\ l \in lhs .. Num + 1
        /\ l \notin ack
        /\ lhs .. l - 1 \subseteq ack
    BY <1>0, <2>4, SkipAckedStops
  <2>6. el \in 0 .. Timeout
    BY <1>0
  <2> HIDE DEF l
  <2>7. 1 .. l - 1 \subseteq ack
    <3>1. ASSUME NEW j \in 1 .. l - 1 PROVE j \in ack
      <4>1. j \in 1 .. lhs - 1 \/ j \in lhs .. l - 1
        BY <1>0, <2>5
      <4> QED
        BY <1>0, <2>3, <2>5, <4>1
    <3> QED
      BY <3>1
  <2>8. rhs \notin ack
    BY <1>0, <2>4
  <2>9. l <= rhs /\ rhs - l <= SenderWindow /\ lhs <= l /\ l \in 1 .. Num + 1
    BY <1>0, <2>5, <2>7, <2>8
  <2> HIDE DEF el
  <2>10. CASE AllAcked(l)
    <3>1. UNCHANGED <<rhs, resendIdx, erToMb>> /\ blaster' = "done" /\ elapsed' = el
      BY <1>4, <2>10 DEF HandleAck, SendNothing, s, ack, l, el
    <3> QED
      BY <1>0, <2>1, <2>3, <2>4, <2>5, <2>6, <2>7, <2>9, <2>10, <3>1
         DEF AllAcked, BlasterEffect
  <2>11. CASE ~ AllAcked(l)
    <3>1. TryToSend(l, ack, el) /\ blaster' = "run"
      BY <1>4, <2>11 DEF HandleAck, s, ack, l, el
    <3>2. /\ rhs' \in rhs .. rhs + 1
          /\ rhs' \in 1 .. Num + 1
          /\ rhs' - l <= SenderWindow
          /\ resendIdx' \in SeqNo \cup {NoResend}
          /\ resendIdx' < rhs'
          /\ elapsed' \in 0 .. Timeout
          /\ \/ erToMb' = erToMb
             \/ \E r \in SeqNo : /\ erToMb' = Append(erToMb, r)
                                 /\ l <= r /\ r < rhs'
                                 /\ r \notin ack \/ r = rhs
      BY <1>0, <2>4, <2>5, <2>6, <2>7, <2>9, <3>1, TryToSendEffect
    <3>3. l <= rhs' /\ l # Num + 1
      BY <1>0, <2>9, <2>11, <3>2 DEF AllAcked
    <3> QED
      BY <1>0, <2>1, <2>3, <2>4, <2>5, <2>7, <2>8, <2>9, <3>1, <3>2, <3>3
         DEF BlasterEffect
  <2> QED
    BY <2>10, <2>11
<1>5. CASE Tick
  <2>1. /\ UNCHANGED <<lhs, rhs, acked, resendIdx, blaster, mbToEr, erToMb>>
        /\ blaster = "run" /\ elapsed' \in 0 .. Timeout
    BY <1>0, <1>5 DEF Tick, SendNothing
  <2> QED
    BY <1>0, <2>1 DEF BlasterEffect
<1> QED
  BY <1>2, <1>3, <1>4, <1>5 DEF BlasterStep

\* Every step of the middlebox preserves the invariant.
LEMMA MiddleboxStepInv ==
  TransferInv /\ (ForwardData \/ DropData \/ ForwardAck \/ MiddleboxShutdown)
    /\ UNCHANGED <<blasterVars, blasteeVars>>
  => TransferInv'
<1> SUFFICES ASSUME TransferInv,
                    ForwardData \/ DropData \/ ForwardAck \/ MiddleboxShutdown,
                    UNCHANGED <<blasterVars, blasteeVars>>
             PROVE  TransferInv'
  OBVIOUS
<1>0. LinksTypeOK /\ BlasterTypeOK /\ MiddleboxTypeOK /\ BlasteeTypeOK
  BY DEF TransferInv, TypeOK
<1>1. /\ BlasterTypeOK' /\ BlasteeTypeOK'
      /\ WindowBound' /\ LhsIsFirstUnacked' /\ AckedWasReceived' /\ EndsInv'
  BY <1>0 DEF TransferInv, blasterVars, blasteeVars, BlasterTypeOK,
         BlasteeTypeOK, WindowBound, LhsIsFirstUnacked, AckedWasReceived, EndsInv
<1>2. SUFFICES LinksTypeOK' /\ MiddleboxTypeOK' /\ LinksInv' /\ AckNeverLost'
  BY <1>1 DEF TransferInv, TypeOK
<1> USE DEF LinksTypeOK, MiddleboxTypeOK, LinksInv, AckNeverLost, TransferInv,
            blasterVars, blasteeVars
<1>3. CASE ForwardData
  <2>1. /\ Head(erToMb) \in SeqNo
        /\ erToMb' \in Seq(SeqNo)
        /\ InLink(Head(erToMb), erToMb)
        /\ \A s : InLink(s, erToMb') => InLink(s, erToMb)
    BY <1>0, <1>3, InRest DEF ForwardData
  <2>2. /\ mbToEe' \in Seq(SeqNo)
        /\ \A s : InLink(s, mbToEe') <=> InLink(s, mbToEe) \/ s = Head(erToMb)
    BY <1>0, <1>3, <2>1, InAppended DEF ForwardData
  <2> QED
    BY <1>0, <1>3, <2>1, <2>2 DEF ForwardData
<1>4. CASE DropData
  <2>1. /\ erToMb' \in Seq(SeqNo)
        /\ \A s : InLink(s, erToMb') => InLink(s, erToMb)
    BY <1>0, <1>4, InRest DEF DropData
  <2> QED
    BY <1>0, <1>4, <2>1 DEF DropData
<1>5. CASE ForwardAck
  <2>1. /\ Head(eeToMb) \in SeqNo
        /\ eeToMb' \in Seq(SeqNo)
        /\ InLink(Head(eeToMb), eeToMb)
        /\ \A s : InLink(s, eeToMb) <=> InLink(s, eeToMb') \/ s = Head(eeToMb)
    BY <1>0, <1>5, InRest DEF ForwardAck
  <2>2. /\ mbToEr' \in Seq(SeqNo)
        /\ \A s : InLink(s, mbToEr') <=> InLink(s, mbToEr) \/ s = Head(eeToMb)
    BY <1>0, <1>5, <2>1, InAppended DEF ForwardAck
  <2> QED
    BY <1>0, <1>5, <2>1, <2>2 DEF ForwardAck
<1>6. CASE MiddleboxShutdown
  BY <1>0, <1>6 DEF MiddleboxShutdown, links
<1> QED
  BY <1>3, <1>4, <1>5, <1>6

\* Every step of the blastee preserves the invariant.
LEMMA BlasteeStepInv ==
  TransferInv /\ (HandleData \/ BlasteeShutdown)
    /\ UNCHANGED <<blasterVars, middlebox>>
  => TransferInv'
<1> SUFFICES ASSUME TransferInv,
                    HandleData \/ BlasteeShutdown,
                    UNCHANGED <<blasterVars, middlebox>>
             PROVE  TransferInv'
  OBVIOUS
<1>0. LinksTypeOK /\ BlasterTypeOK /\ MiddleboxTypeOK /\ BlasteeTypeOK
  BY DEF TransferInv, TypeOK
<1>1. BlasterTypeOK' /\ MiddleboxTypeOK' /\ WindowBound' /\ LhsIsFirstUnacked'
  BY <1>0 DEF TransferInv, blasterVars, BlasterTypeOK, MiddleboxTypeOK,
         WindowBound, LhsIsFirstUnacked
<1>2. SUFFICES /\ LinksTypeOK' /\ BlasteeTypeOK'
               /\ AckedWasReceived' /\ AckNeverLost' /\ LinksInv' /\ EndsInv'
  BY <1>1 DEF TransferInv, TypeOK
<1> USE DEF TransferInv, blasterVars
<1>3. CASE HandleData
  <2> DEFINE s == Head(mbToEe)
  <2>1. /\ s \in SeqNo
        /\ mbToEe' \in Seq(SeqNo)
        /\ InLink(s, mbToEe)
        /\ \A r : InLink(r, mbToEe') => InLink(r, mbToEe)
    BY <1>0, <1>3, InRest DEF HandleData, LinksTypeOK
  <2>2. UNCHANGED <<erToMb, mbToEr>> /\ Record(s)
    BY <1>3 DEF HandleData
  <2>3. eeToMb' = Append(eeToMb, s)
    BY <1>3 DEF HandleData
  <2> HIDE DEF s
  <2>4. /\ eeToMb' \in Seq(SeqNo)
        /\ \A r : InLink(r, eeToMb') <=> InLink(r, eeToMb) \/ r = s
    BY <1>0, <2>1, <2>3, InAppended DEF LinksTypeOK
  <2>5. LinksTypeOK'
    BY <1>0, <2>1, <2>2, <2>4 DEF LinksTypeOK
  <2>6. s < rhs
    BY <2>1 DEF LinksInv
  <2>7. blastee = "run"
    BY <1>3 DEF HandleData
  <2>8. IsFiniteSet(revData)
    <3>1. IsFiniteSet(SeqNo)
      BY FS_Interval DEF SeqNo
    <3> QED
      BY <1>0, <3>1, FS_Subset DEF BlasteeTypeOK
  <2>9. CASE s \in revData
    <3>1. UNCHANGED blasteeVars
      BY <2>2, <2>9 DEF Record
    <3> QED
      BY <1>0, <2>1, <2>2, <2>4, <2>5, <2>9, <3>1
         DEF blasteeVars, BlasteeTypeOK, AckedWasReceived, AckNeverLost,
             LinksInv, EndsInv
  <2>10. CASE s \notin revData
    <3>1. /\ revData' = revData \cup {s}
          /\ received' = received + 1
          /\ blastee' = IF received' = Num /\ HasOutput THEN "done" ELSE "run"
      BY <2>2, <2>10 DEF Record
    <3>2. received' = Cardinality(revData')
      BY <2>8, <2>10, <3>1, FS_AddElement DEF EndsInv
    <3> QED
      BY <1>0, <2>1, <2>2, <2>4, <2>5, <2>6, <3>1, <3>2
         DEF BlasteeTypeOK, AckedWasReceived, AckNeverLost, LinksInv, EndsInv
  <2> QED
    BY <2>9, <2>10
<1>4. CASE BlasteeShutdown
  BY <1>0, <1>4 DEF BlasteeShutdown, links, LinksTypeOK, BlasteeTypeOK,
     AckedWasReceived, AckNeverLost, LinksInv, EndsInv
<1> QED
  BY <1>3, <1>4

\* The invariant does not depend on anything but the variables.
LEMMA StutterInv == TransferInv /\ UNCHANGED vars => TransferInv'
BY DEF TransferInv, TypeOK, LinksTypeOK, BlasterTypeOK, MiddleboxTypeOK,
       BlasteeTypeOK, WindowBound, LhsIsFirstUnacked, AckedWasReceived,
       AckNeverLost, LinksInv, EndsInv, vars, ends, links, blasterVars,
       blasteeVars

\* Stopping the blaster preserves the invariant.
LEMMA BlasterShutdownInv ==
  TransferInv /\ BlasterShutdown
    /\ UNCHANGED <<mbToEe, eeToMb, middlebox, blasteeVars>>
  => TransferInv'
BY DEF BlasterShutdown, SendNothing, TransferInv, TypeOK, LinksTypeOK,
       BlasterTypeOK, MiddleboxTypeOK, BlasteeTypeOK, WindowBound,
       LhsIsFirstUnacked, AckedWasReceived, AckNeverLost, LinksInv, EndsInv,
       blasteeVars

\* Every step of the three programs preserves the invariant.
LEMMA TransferInvStep == TransferInv /\ [Next]_vars => TransferInv'
<1> SUFFICES ASSUME TransferInv, [Next]_vars PROVE TransferInv'
  OBVIOUS
<1>1. CASE BlasterStep
  BY <1>1, BlasterStepEffect, BlasterEffectInv
<1>2. CASE MiddleboxStep
  BY <1>2, MiddleboxStepInv DEF MiddleboxStep
<1>3. CASE BlasteeStep
  BY <1>3, BlasteeStepInv DEF BlasteeStep
<1>4. CASE Interrupt
  BY <1>4, BlasterShutdownInv, MiddleboxStepInv, BlasteeStepInv DEF Interrupt
<1>5. CASE UNCHANGED vars
  BY <1>5, StutterInv
<1> QED
  BY <1>1, <1>2, <1>3, <1>4, <1>5 DEF Next, Run

\* In every behaviour of the three programs the invariant holds throughout.
THEOREM TransferInvariant == Spec => []TransferInv
<1>1. Init => TransferInv
  BY TransferInvInit
<1>2. TransferInv /\ [Next]_vars => TransferInv'
  BY TransferInvStep
<1> QED
  BY <1>1, <1>2, PTL DEF Spec

-----------------------------------------------------------------------------
(***************************************************************************)
(* The properties the runs check                                           *)
(***************************************************************************)

\* Every variable of the three programs keeps its range.
THEOREM TypeCorrect == Spec => []TypeOK
<1>1. TransferInv => TypeOK
  BY DEF TransferInv
<1> QED
  BY <1>1, TransferInvariant, PTL

\* The window of the blaster is never exceeded and its two ends never cross.
THEOREM WindowBounded == Spec => []WindowBound
<1>1. TransferInv => WindowBound
  BY DEF TransferInv
<1> QED
  BY <1>1, TransferInvariant, PTL

\* An acknowledged packet is held by the blastee, and lhs is the first one
\* that is not acknowledged.
THEOREM AckedReceived == Spec => [](AckedWasReceived /\ LhsIsFirstUnacked)
<1>1. TransferInv => AckedWasReceived /\ LhsIsFirstUnacked
  BY DEF TransferInv
<1> QED
  BY <1>1, TransferInvariant, PTL

\* The acknowledgement of a packet the blastee holds is handled or on its way.
THEOREM AcksNeverLost == Spec => []AckNeverLost
<1>1. TransferInv => AckNeverLost
  BY DEF TransferInv
<1> QED
  BY <1>1, TransferInvariant, PTL

\* Both ends finish only when the blastee holds everything.
THEOREM FinishIsComplete == Spec => []DoneIsComplete
<1>1. TransferInv => DoneIsComplete
  <2> SUFFICES ASSUME TransferInv PROVE DoneIsComplete
    OBVIOUS
  <2>1. revData \subseteq SeqNo /\ acked \subseteq revData
    BY DEF TransferInv, TypeOK, BlasteeTypeOK, AckedWasReceived
  <2>2. blaster = "done" => revData = SeqNo
    <3> SUFFICES ASSUME blaster = "done" PROVE SeqNo \subseteq revData
      BY <2>1
    <3>1. lhs - 1 = Num /\ 1 .. lhs - 1 \subseteq acked
      BY DEF TransferInv, EndsInv, LhsIsFirstUnacked
    <3> QED
      BY <2>1, <3>1 DEF SeqNo
  <2>3. blastee = "done" => revData = SeqNo
    <3> SUFFICES ASSUME blastee = "done" PROVE revData = SeqNo
      OBVIOUS
    <3>1. Cardinality(revData) = Num
      BY DEF TransferInv, EndsInv
    <3>2. IsFiniteSet(SeqNo) /\ Cardinality(SeqNo) = Num
      BY FS_Interval DEF SeqNo
    <3> QED
      BY <2>1, <3>1, <3>2, FS_Subset
  <2> QED
    BY <2>2, <2>3 DEF DoneIsComplete, TransferInv, EndsInv
<1> QED
  BY <1>1, TransferInvariant, PTL

\* No link carries a number the blaster has not sent.
THEOREM NothingAhead == Spec => []NothingAheadOfRhs
<1>1. TransferInv => NothingAheadOfRhs
  BY DEF TransferInv, LinksInv, EndsInv, NothingAheadOfRhs
<1> QED
  BY <1>1, TransferInvariant, PTL

-----------------------------------------------------------------------------
(***************************************************************************)
(* The abstract specification                                              *)
(***************************************************************************)

\* The three programs implement reliable delivery: filling an entry of
\* rev_data delivers a packet, handling its first acknowledgement confirms it,
\* and every other step changes nothing the abstract specification sees.
THEOREM DeliveryImplemented == Spec => ImplementsDelivery
<1>1. Init => Delivery!Init
  BY DEF Init, BlasterInit, BlasteeInit, Delivery!Init
<1>2. ASSUME TransferInv, [Next]_vars
      PROVE  [Delivery!Next]_Delivery!vars
  <2> USE DEF Delivery!vars
  <2>0. /\ acked \subseteq revData
        /\ acked \subseteq SeqNo
        /\ lhs \in 1 .. Num + 1
        /\ blaster = "done" <=> lhs = Num + 1
        /\ mbToEr \in Seq(SeqNo)
        /\ mbToEe \in Seq(SeqNo)
    BY <1>2 DEF TransferInv, TypeOK, BlasterTypeOK, LinksTypeOK,
       AckedWasReceived, EndsInv
  <2>1. CASE HandleAck /\ UNCHANGED blasteeVars
    <3> DEFINE s == Head(mbToEr)
               l == SkipAcked(lhs, acked \cup {s})
    <3>1. s \in SeqNo /\ InLink(s, mbToEr)
      BY <2>0, <2>1, InRest DEF HandleAck
    <3>2. s \in revData
      BY <1>2, <3>1 DEF TransferInv, LinksInv
    <3>3. acked' = acked \cup {s} /\ revData' = revData /\ blaster = "run"
      BY <2>1 DEF HandleAck, AddAck, blasteeVars
    <3>4. blaster' = "done" <=> l = Num + 1
      BY <2>1 DEF HandleAck, AddAck, AllAcked
    <3> HIDE DEF s
    <3>5. /\ l \in lhs .. Num + 1
          /\ l \notin acked'
          /\ lhs .. l - 1 \subseteq acked'
      BY <2>0, <3>1, <3>3, SkipAckedStops
    <3> HIDE DEF l
    <3>6. l = Num + 1 <=> acked' = SeqNo
      <4>1. ASSUME l = Num + 1, NEW j \in SeqNo PROVE j \in acked'
        <5>1. j \in 1 .. lhs - 1 \/ j \in lhs .. l - 1
          BY <2>0, <4>1 DEF SeqNo
        <5> QED
          BY <1>2, <3>3, <3>5, <5>1 DEF TransferInv, LhsIsFirstUnacked
      <4>2. acked' \subseteq SeqNo
        BY <2>0, <3>1, <3>3
      <4>3. l # Num + 1 => l \in SeqNo
        BY <2>0, <3>5 DEF SeqNo
      <4> QED
        BY <3>5, <4>1, <4>2, <4>3
    <3>7. CASE s \in acked
      <4>1. acked' = acked
        BY <3>3, <3>7
      <4>2. acked # SeqNo
        <5>1. lhs \in SeqNo
          BY <2>0, <3>3 DEF SeqNo
        <5> QED
          BY <1>2, <5>1 DEF TransferInv, LhsIsFirstUnacked
      <4> QED
        BY <3>3, <3>4, <3>6, <4>1, <4>2
    <3>8. CASE s \notin acked
      <4>1. Delivery!Confirm(s)
        BY <3>2, <3>3, <3>4, <3>6, <3>8 DEF Delivery!Confirm
      <4> QED
        BY <3>1, <4>1 DEF Delivery!Next
    <3> QED
      BY <3>7, <3>8
  <2>2. CASE HandleData /\ UNCHANGED blasterVars
    <3> DEFINE s == Head(mbToEe)
    <3>1. s \in SeqNo
      BY <2>0, <2>2, InRest DEF HandleData
    <3>2. UNCHANGED <<acked, blaster>> /\ Record(s)
      BY <2>2 DEF HandleData, blasterVars
    <3> HIDE DEF s
    <3>3. CASE s \in revData
      BY <3>2, <3>3 DEF Record, blasteeVars
    <3>4. CASE s \notin revData
      <4>1. Delivery!Deliver(s)
        BY <3>2, <3>4 DEF Record, Delivery!Deliver
      <4> QED
        BY <3>1, <4>1 DEF Delivery!Next
    <3> QED
      BY <3>3, <3>4
  <2>3. CASE (Start \/ HandleNoPacket \/ Tick) /\ UNCHANGED blasteeVars
    BY <2>3 DEF Start, HandleNoPacket, Tick, blasteeVars
  <2>4. CASE UNCHANGED <<blasterVars, blasteeVars>>
    BY <2>4 DEF blasterVars, blasteeVars
  <2>5. CASE BlasterShutdown /\ UNCHANGED blasteeVars
    BY <2>5 DEF BlasterShutdown, blasteeVars
  <2>6. CASE BlasteeShutdown /\ UNCHANGED blasterVars
    BY <2>6 DEF BlasteeShutdown, blasterVars
  <2>7. CASE UNCHANGED vars
    BY <2>4, <2>7 DEF vars, ends
  <2> QED
    BY <1>2, <2>1, <2>2, <2>3, <2>4, <2>5, <2>6, <2>7
       DEF Next, Run, BlasterStep, MiddleboxStep, BlasteeStep, Interrupt
<1> QED
  BY <1>1, <1>2, TransferInvariant, PTL DEF Spec, ImplementsDelivery, Delivery!Spec

-----------------------------------------------------------------------------
(***************************************************************************)
(* Action properties                                                       *)
(***************************************************************************)

\* Whatever the blaster sends is outstanding and unacknowledged.
THEOREM OnlyUnackedSent == Spec => SendsOnlyUnacked
<1> DEFINE P == \A s \in SeqNo :
                  JustSent(s) => s \notin acked' /\ lhs' <= s /\ s < rhs'
<1>1. ASSUME TransferInv, [Next]_vars
      PROVE  [P]_vars
  <2>1. erToMb \in Seq(SeqNo)
    BY <1>1 DEF TransferInv, TypeOK, LinksTypeOK
  <2>2. CASE Len(erToMb') # Len(erToMb) + 1
    BY <2>1, <2>2 DEF JustSent
  <2>3. CASE BlasterStep
    <3>1. BlasterEffect
      BY <1>1, <2>3, BlasterStepEffect
    <3>2. CASE erToMb' = erToMb
      BY <2>1, <2>2, <3>2
    <3>3. ASSUME NEW r \in SeqNo, erToMb' = Append(erToMb, r),
                 lhs' <= r, r < rhs', r \notin acked'
          PROVE  P
      <4>1. ASSUME NEW s \in SeqNo, JustSent(s) PROVE s = r
        <5>1. ASSUME NEW e \in SeqNo
              PROVE  Append(erToMb, e)[Len(erToMb) + 1] = e
          BY <2>1
        <5>2. Append(erToMb, s) = Append(erToMb, r)
          BY <3>3, <4>1 DEF JustSent
        <5> QED
          BY <5>1, <5>2
      <4> QED
        BY <3>3, <4>1
    <3> QED
      BY <3>1, <3>2, <3>3 DEF BlasterEffect
  <2>4. CASE ForwardData \/ DropData
    <3>1. erToMb # << >> /\ erToMb' = Tail(erToMb)
      BY <2>4 DEF ForwardData, DropData
    <3>2. Len(erToMb') = Len(erToMb) - 1 /\ Len(erToMb) \in Nat
      BY <2>1, <3>1, HeadTailProperties, LenProperties
    <3> QED
      BY <2>2, <3>2
  <2>5. CASE UNCHANGED erToMb
    BY <2>1, <2>2, <2>5
  <2>6. ForwardAck \/ BlasteeStep \/ Interrupt \/ UNCHANGED vars => UNCHANGED erToMb
    BY DEF ForwardAck, BlasteeStep, HandleData, Interrupt, BlasterShutdown,
       SendNothing, MiddleboxShutdown, BlasteeShutdown, vars, links
  <2> QED
    BY <1>1, <2>3, <2>4, <2>5, <2>6 DEF Next, Run, MiddleboxStep
<1> QED
  BY <1>1, TransferInvariant, PTL DEF Spec, SendsOnlyUnacked
=============================================================================
