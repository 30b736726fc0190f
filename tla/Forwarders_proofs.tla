-------------------------- MODULE Forwarders_proofs ---------------------------
(***************************************************************************)
(* Theorems about Firewall, for any rules, packets and period; about the   *)
(* buffer of OpenFlowSwitch, for any controllers, ports and capacity; about*)
(* OpenFlowMatch, for any matches and packets; and about LearningSwitches, *)
(* for any hosts, ports and tables, and its refinement of LruTable.        *)
(***************************************************************************)
EXTENDS LearningSwitches, Firewall, OpenFlowSwitch, OpenFlowMatch, FiniteSetTheorems,
        SequenceTheorems, WellFoundedInduction, TLAPS

(***************************************************************************)
(* The firewall.  RateHolds compares with the clock; what is inductive     *)
(* compares with the time of the last refill, because a refill may come    *)
(* late and a round may find no refill due.                                *)
(***************************************************************************)
Rate(i) == Rules[i].rate

\* what a rule has let through and what it still may
Used(i) == passed[i] + tokens[i]

FwInv ==
  /\ tokens \in [Limited -> Nat] /\ passed \in [Limited -> Nat]
  /\ now \in Nat /\ setTime \in Nat /\ setTime <= now
  /\ \A i \in Limited :
       /\ 2 * Period * Used(i) <= Rate(i) * setTime
       /\ 2 * tokens[i] < 5 * Rate(i)

-----------------------------------------------------------------------------
\* The rates are even numbers: half a second is worth a whole number of tokens.
LEMMA Rates ==
  ASSUME NEW i \in Limited
  PROVE  Rate(i) \in Nat \ {0} /\ Rate(i) \div 2 \in Nat /\ 2 * (Rate(i) \div 2) = Rate(i)
  <1>1. i \in DOMAIN Rules /\ Rate(i) # 0 /\ Rate(i) % 2 = 0
    BY RulesAssumption DEF Limited, Rate
  <1>2. Rules[i] \in FirewallRule
    BY <1>1, RulesAssumption
  <1>3. Rate(i) \in Nat
    BY <1>2 DEF FirewallRule, Rate
  <1>4. QED
    BY <1>1, <1>3

LEMMA Monotone ==
  ASSUME NEW r \in Nat, NEW a \in Nat, NEW b \in Nat, a <= b
  PROVE  r * a <= r * b
  OBVIOUS

\* The worth of one refill is at most that of the time since the one before.
LEMMA RefillIsEarned ==
  ASSUME NEW r \in Nat, NEW h \in Nat, 2 * h = r, NEW u \in Nat,
         NEW s \in Nat, NEW t \in Nat, s + Period <= t, 2 * Period * u <= r * s
  PROVE  2 * Period * (u + h) <= r * t
  <1>1. Period \in Nat
    BY PeriodAssumption
  <1>2. r * (s + Period) <= r * t
    BY <1>1, Monotone
  <1>3. 2 * Period * (u + h) = 2 * Period * u + Period * r
    BY <1>1
  <1>4. r * (s + Period) = r * s + Period * r
    BY <1>1
  <1>5. QED
    BY <1>1, <1>2, <1>3, <1>4

\* Every round refills first: afterwards the invariant holds of the new bucket
\* and the new time.
LEMMA RefillInv ==
  ASSUME FwInv, Round, NEW i \in Limited
  PROVE  /\ Refilled[i] \in Nat
         /\ 2 * Period * (passed[i] + Refilled[i]) <= Rate(i) * setTime'
         /\ 2 * Refilled[i] < 5 * Rate(i)
         /\ setTime' \in Nat /\ setTime' <= now
  <1>1. /\ tokens[i] \in Nat /\ passed[i] \in Nat /\ now \in Nat /\ setTime \in Nat
        /\ setTime <= now /\ Period \in Nat
        /\ 2 * Period * (passed[i] + tokens[i]) <= Rate(i) * setTime
        /\ 2 * tokens[i] < 5 * Rate(i)
    BY PeriodAssumption DEF FwInv, Used
  <1>2. Rate(i) \in Nat /\ Rate(i) \div 2 \in Nat /\ 2 * (Rate(i) \div 2) = Rate(i)
    BY Rates
  <1>3. CASE now - setTime > Period
    <2>1. setTime' = now
      BY <1>3 DEF Round
    <2>2. CASE tokens[i] < 2 * Rate(i)
      <3>1. Refilled[i] = tokens[i] + Rate(i) \div 2
        BY <1>3, <2>2 DEF Refilled, Rate
      <3>2. 2 * Period * ((passed[i] + tokens[i]) + Rate(i) \div 2) <= Rate(i) * now
        <4>1. setTime + Period <= now /\ passed[i] + tokens[i] \in Nat
          BY <1>1, <1>3
        <4>2. QED
          BY <1>1, <1>2, <4>1, RefillIsEarned
      <3>3. passed[i] + Refilled[i] = (passed[i] + tokens[i]) + Rate(i) \div 2
        BY <1>1, <1>2, <3>1
      <3>4. QED
        BY <1>1, <1>2, <2>1, <2>2, <3>1, <3>2, <3>3
    <2>3. CASE ~ (tokens[i] < 2 * Rate(i))
      <3>1. Refilled[i] = tokens[i]
        BY <1>3, <2>3 DEF Refilled, Rate
      <3>2. Rate(i) * setTime <= Rate(i) * now
        BY <1>1, <1>2, Monotone
      <3>3. 2 * Period * (passed[i] + tokens[i]) \in Nat /\ Rate(i) * setTime \in Nat
            /\ Rate(i) * now \in Nat
        BY <1>1, <1>2
      <3>4. QED
        BY <1>1, <2>1, <3>1, <3>2, <3>3
    <2>4. QED
      BY <2>2, <2>3
  <1>4. CASE ~ (now - setTime > Period)
    BY <1>1, <1>4 DEF Refilled, Round
  <1>5. QED
    BY <1>3, <1>4

LEMMA RefilledDomain == tokens \in [Limited -> Nat] => DOMAIN Refilled = Limited
  BY DEF Refilled

LEMMA FwInit_Inv == FwInit => FwInv
  BY Rates, PeriodAssumption DEF FwInit, FwInv, Used

\* A round that lets nothing through leaves the refilled buckets.
LEMMA RefillOnly ==
  ASSUME FwInv, Round, tokens' = Refilled, UNCHANGED <<now, passed>>
  PROVE  FwInv'
  <1>1. tokens' \in [Limited -> Nat]
    BY RefillInv, RefilledDomain DEF FwInv, Refilled
  <1>2. setTime' \in Nat /\ setTime' <= now'
    BY DEF FwInv, Round
  <1>3. QED
    BY <1>1, <1>2, RefillInv DEF FwInv, Used, Rate

LEMMA FwStep == FwInv /\ [FwNext]_fwVars => FwInv'
  <1> SUFFICES ASSUME FwInv, [FwNext]_fwVars PROVE FwInv'
    OBVIOUS
  <1>1. CASE NoPacketRound
    BY <1>1, RefillOnly DEF NoPacketRound
  <1>2. ASSUME NEW p \in Packets, LimitedRound(p) PROVE FwInv'
    <2> DEFINE k == FirstMatch(p)
    <2>1. CASE tokens' = Refilled /\ passed' = passed
      BY <1>2, <2>1, RefillOnly DEF LimitedRound
    <2>2. CASE /\ p.size <= Refilled[k]
               /\ tokens' = [Refilled EXCEPT ![k] = @ - p.size]
               /\ passed' = [passed EXCEPT ![k] = @ + p.size]
      <3>1. k \in Limited /\ Round /\ now' = now /\ p.size \in Nat
        BY <1>2, PacketsAssumption DEF LimitedRound
      <3>2. /\ tokens'[k] = Refilled[k] - p.size /\ passed'[k] = passed[k] + p.size
            /\ \A i \in Limited \ {k} : tokens'[i] = Refilled[i] /\ passed'[i] = passed[i]
        BY <2>2, <3>1, RefilledDomain DEF FwInv
      <3>3. \A i \in Limited : /\ tokens'[i] \in Nat /\ passed'[i] \in Nat
                               /\ tokens'[i] <= Refilled[i] /\ Refilled[i] \in Nat
                               /\ passed'[i] + tokens'[i] = passed[i] + Refilled[i]
        BY <2>2, <3>1, <3>2, RefillInv DEF FwInv
      <3>4. tokens' \in [Limited -> Nat] /\ passed' \in [Limited -> Nat]
        BY <2>2, <3>1, <3>3, RefilledDomain DEF FwInv, Refilled
      <3>5. \A i \in Limited : /\ 2 * Period * (passed'[i] + tokens'[i]) <= Rate(i) * setTime'
                               /\ 2 * tokens'[i] < 5 * Rate(i)
        BY <3>1, <3>3, RefillInv, Rates
      <3>6. setTime' \in Nat /\ setTime' <= now'
        BY <3>1 DEF FwInv, Round
      <3>7. QED
        BY <3>1, <3>4, <3>5, <3>6 DEF FwInv, Used, Rate
    <2>3. QED
      BY <1>2, <2>1, <2>2 DEF LimitedRound
  <1>3. ASSUME NEW p \in Packets, OtherRound(p) PROVE FwInv'
    BY <1>3, RefillOnly DEF OtherRound
  <1>4. CASE FwTick
    BY <1>4 DEF FwTick, FwInv, Used, Rate
  <1>5. CASE UNCHANGED fwVars
    BY <1>5 DEF fwVars, FwInv, Used, Rate
  <1>6. QED
    BY <1>1, <1>2, <1>3, <1>4, <1>5 DEF FwNext, Main

-----------------------------------------------------------------------------
\* Whatever packets come and however late a round of the loop is, a rule with a
\* rate has let through no more than that rate since the start, what its bucket
\* holds included, and the bucket never holds two and a half seconds' worth
\* (token_bucket of firewall.py).
THEOREM RateIsKept == FwSpec => []RateHolds
  <1>1. FwInv => RateHolds
    <2> SUFFICES ASSUME FwInv, NEW i \in Limited
                 PROVE  /\ 2 * Period * (passed[i] + tokens[i]) <= Rate(i) * now
                        /\ 2 * tokens[i] < 5 * Rate(i)
      BY DEF RateHolds, Rate
    <2>1. /\ Rate(i) \in Nat /\ Period \in Nat /\ now \in Nat /\ setTime \in Nat /\ setTime <= now
          /\ passed[i] \in Nat /\ tokens[i] \in Nat
          /\ 2 * Period * (passed[i] + tokens[i]) <= Rate(i) * setTime
          /\ 2 * tokens[i] < 5 * Rate(i)
      BY Rates, PeriodAssumption DEF FwInv, Used
    <2>2. Rate(i) * setTime <= Rate(i) * now
      BY <2>1, Monotone
    <2>3. /\ 2 * Period * (passed[i] + tokens[i]) \in Nat
          /\ Rate(i) * setTime \in Nat /\ Rate(i) * now \in Nat
      BY <2>1
    <2>4. QED
      BY <2>1, <2>2, <2>3
  <1>2. QED
    BY <1>1, FwInit_Inv, FwStep, PTL DEF FwSpec

-----------------------------------------------------------------------------
(***************************************************************************)
(* The buffer of the OpenFlow switch.  As long as every packet taken was   *)
(* the newest, and none was taken while another was being added, the ids   *)
(* in use are 1 .. n: so the next id is free, and an id that a controller  *)
(* knows stands for the packet it was told of, or for one that has been    *)
(* taken.                                                                  *)
(***************************************************************************)
\* The ranges of the variables the proofs look at
Shape ==
  /\ wire \in [Controller -> [lib : {"of10", "of13"}, version : {"of10", "of13", "none"},
                              code : Nat, id : 0 .. BufferSize, meant : Nat \cup {None},
                              outs : Outputs] \cup {None}]
  /\ told \in [Controller -> [Ids -> Nat \cup {None}]]
  /\ DOMAIN buffer \subseteq Ids /\ \A i \in DOMAIN buffer : buffer[i] \in Nat
  /\ packets \in Nat
  /\ current \in [packet : Nat \cup {None}, id : Nat]
  /\ dp \in {"add", "tell"} => current.packet \in Nat /\ current.id \in Ids

\* The packet that id was announced with is still there, or has been taken.
Stands(packet, id) ==
  packet \in taken \/ (id \in DOMAIN buffer /\ buffer[id] = packet)

\* the newest packet has the highest id
Stack(n) ==
  /\ DOMAIN buffer = 1 .. n
  /\ dp = "add" => current.id = n + 1
  /\ dp = "tell" => current.id = n /\ buffer[n] = current.packet

Known ==
  \A c \in Controller :
    /\ \A i \in Ids : told[c][i] # None => Stands(told[c][i], i)
    /\ wire[c] # None /\ wire[c].id # 0 => Stands(wire[c].meant, wire[c].id)

Orderly == (\E n \in Nat : Stack(n)) /\ Known /\ lost = {} /\ wrong = {}

BufferInv == Shape /\ (~ disorder => Orderly)

-----------------------------------------------------------------------------
LEMMA BufferInit == SwitchInit => BufferInv
  <1> SUFFICES ASSUME SwitchInit PROVE BufferInv
    OBVIOUS
  <1>1. Shape
    BY DEF SwitchInit, Shape
  <1>2. Stack(0)
    BY DEF SwitchInit, Stack
  <1>3. Known
    BY DEF SwitchInit, Known
  <1>4. QED
    BY <1>1, <1>2, <1>3 DEF SwitchInit, BufferInv, Orderly

\* Steps that touch neither the buffer nor what is known of it: they may empty a
\* wire, and end the main thread's work.
LEMMA OtherSteps ==
  ASSUME BufferInv, UNCHANGED <<told, buffer, current, packets, historyVars>>,
         \/ wire' = wire
         \/ \E c \in Controller : wire' = [wire EXCEPT ![c] = None],
         dp' = dp \/ dp' \notin {"add", "tell"}
  PROVE  BufferInv'
  <1>1. Shape'
    BY DEF BufferInv, Shape
  <1>2. \A n : Stack(n) => Stack(n)'
    BY DEF Stack
  <1>3. Known => Known'
    <2>1. \A p, i : Stands(p, i)' <=> Stands(p, i)
      BY DEF Stands, historyVars
    <2>2. \A c \in Controller : wire'[c] # None => wire'[c] = wire[c]
      BY DEF BufferInv, Shape
    <2>3. QED
      BY <2>1, <2>2 DEF Known
  <1>4. QED
    BY <1>1, <1>2, <1>3 DEF BufferInv, Orderly, historyVars

LEMMA SendInv ==
  ASSUME BufferInv, NEW c \in Controller, ControllerSends(c)
  PROVE  BufferInv'
  <1> USE DEF historyVars, dpVars
  <1>1. PICK m \in Requests \cup PacketOuts(c) :
          /\ wire' = [wire EXCEPT ![c] = m]
          /\ told' = IF m.id = 0 THEN told ELSE [told EXCEPT ![c][m.id] = None]
    BY DEF ControllerSends
  <1>2. /\ m.id = 0 \/ (m.id \in Ids /\ told[c][m.id] # None /\ m.meant = told[c][m.id])
        /\ m \in [lib : {"of10", "of13"}, version : {"of10", "of13", "none"},
                  code : Nat, id : 0 .. BufferSize, meant : Nat \cup {None}, outs : Outputs]
    BY SwitchAssumption DEF Requests, PacketOuts, Message, Flood, Outputs, Ids, BufferInv, Shape
  <1>3. UNCHANGED <<buffer, dp, current, packets, sent, taken, lost, wrong, disorder>>
    BY DEF ControllerSends
  <1>4. \A b \in Controller : \A i \in Ids : told'[b][i] = None \/ told'[b][i] = told[b][i]
    BY <1>1, <1>2 DEF BufferInv, Shape
  <1>5. Shape'
    BY <1>1, <1>2, <1>3 DEF BufferInv, Shape
  <1>6. \A n : Stack(n) => Stack(n)'
    BY <1>3 DEF Stack
  <1>7. Known => Known'
    <2>1. \A p, i : Stands(p, i)' <=> Stands(p, i)
      BY <1>3 DEF Stands
    <2>2. \A b \in Controller : wire'[b] = IF b = c THEN m ELSE wire[b]
      BY <1>1 DEF BufferInv, Shape
    <2>3. QED
      BY <1>2, <1>4, <2>1, <2>2 DEF Known
  <1>8. QED
    BY <1>3, <1>5, <1>6, <1>7 DEF BufferInv, Orderly

\* A packet taken out of turn counts as disorder; the newest is the last one.
LEMMA PacketOutInv ==
  ASSUME BufferInv, NEW c \in Controller, PacketOutHandler(c)
  PROVE  BufferInv'
  <1> DEFINE m == wire[c]
  <1>1. /\ m # None /\ wire' = [wire EXCEPT ![c] = None]
        /\ UNCHANGED <<told, dp, current, packets>>
    BY DEF PacketOutHandler, Handles, dpVars
  <1>2. CASE m.id \notin DOMAIN buffer
    BY <1>1, <1>2, OtherSteps DEF PacketOutHandler
  <1>3. CASE m.id \in DOMAIN buffer
    <2>1. /\ buffer' = Taken(m.id) /\ taken' = taken \cup {buffer[m.id]} /\ lost' = lost
          /\ wrong' = IF buffer[m.id] # m.meant /\ m.meant \notin taken
                      THEN wrong \cup {buffer[m.id]} ELSE wrong
          /\ disorder' = (disorder \/ dp \in {"add", "tell"} \/ m.id + 1 \in DOMAIN buffer)
      BY <1>3 DEF PacketOutHandler
    <2>2. /\ DOMAIN buffer' = DOMAIN buffer \ {m.id}
          /\ \A i \in DOMAIN buffer' : buffer'[i] = buffer[i]
      BY <2>1 DEF Taken
    <2>3. Shape'
      BY <1>1, <2>1, <2>2 DEF BufferInv, Shape, Taken
    <2>4. ASSUME ~ disorder' PROVE Orderly'
      <3>1. PICK n \in Nat : Stack(n)
        BY <2>1, <2>4 DEF BufferInv, Orderly
      <3>2. Known /\ lost = {} /\ wrong = {} /\ dp \notin {"add", "tell"}
        BY <2>1, <2>4 DEF BufferInv, Orderly
      <3>3. m.id = n /\ n # 0
        <4>1. m.id \in 1 .. n /\ m.id + 1 \notin 1 .. n
          BY <1>3, <2>1, <2>4, <3>1 DEF Stack
        <4>2. QED
          BY <4>1
      <3>4. DOMAIN buffer' = 1 .. n - 1 /\ n - 1 \in Nat
        BY <2>2, <3>1, <3>3 DEF Stack
      <3>5. Stack(n - 1)'
        BY <1>1, <3>2, <3>4 DEF Stack
      <3>6. \A p, i : Stands(p, i) => Stands(p, i)'
        BY <2>1, <2>2 DEF Stands
      <3>7. Known'
        <4>1. \A b \in Controller : wire'[b] # None => wire'[b] = wire[b]
          BY <1>1 DEF BufferInv, Shape
        <4>2. QED
          BY <1>1, <3>2, <3>6, <4>1 DEF Known
      <3>8. wrong' = {}
        <4>1. Stands(m.meant, m.id)
          BY <1>1, <3>2, <3>3 DEF Known
        <4>2. QED
          BY <2>1, <3>2, <4>1 DEF Stands
      <3>9. QED
        BY <2>1, <3>2, <3>4, <3>5, <3>7, <3>8 DEF Orderly
    <2>5. QED
      BY <2>3, <2>4 DEF BufferInv
  <1>4. QED
    BY <1>2, <1>3

LEMMA BufferFinite ==
  ASSUME Shape
  PROVE  Cardinality(DOMAIN buffer) \in Nat
  <1>1. IsFiniteSet(Ids) /\ DOMAIN buffer \subseteq Ids
    BY SwitchAssumption, FS_Interval DEF Ids, Shape
  <1>2. QED
    BY <1>1, FS_Subset, FS_CardinalityType

LEMMA DatapathInv ==
  ASSUME BufferInv, Datapath
  PROVE  BufferInv'
  <1>1. /\ dp = "idle" /\ packets' = packets + 1
        /\ UNCHANGED <<wire, told, buffer, sent, taken, lost, wrong, disorder>>
    BY DEF Datapath, threadVars, historyVars
  <1>2. CASE NextId > BufferSize
    <2>1. dp' = "dead" /\ current' = current
      BY <1>2 DEF Datapath
    <2>2. QED
      BY <1>1, <2>1 DEF BufferInv, Shape, Orderly, Stack, Known, Stands
  <1>3. CASE ~ (NextId > BufferSize)
    <2>1. dp' = "add" /\ current' = [packet |-> packets + 1, id |-> NextId]
      BY <1>3 DEF Datapath
    <2>2. ASSUME ~ disorder PROVE Orderly'
      <3>1. PICK n \in Nat : Stack(n)
        BY <2>2 DEF BufferInv, Orderly
      <3>2. NextId = n + 1
        <4>1. Cardinality(1 .. n) = n
          BY FS_Interval
        <4>2. QED
          BY <3>1, <4>1 DEF Stack, NextId
      <3>3. Stack(n)'
        BY <1>1, <2>1, <3>1, <3>2 DEF Stack
      <3>4. QED
        BY <1>1, <2>2, <3>3 DEF BufferInv, Orderly, Known, Stands
    <2>3. NextId \in Ids
      BY <1>3, SwitchAssumption, BufferFinite DEF NextId, Ids, BufferInv
    <2>4. Shape'
      BY <1>1, <2>1, <2>3 DEF BufferInv, Shape, Ids
    <2>5. QED
      BY <1>1, <2>2, <2>4 DEF BufferInv
  <1>4. QED
    BY <1>2, <1>3

LEMMA AddInv ==
  ASSUME BufferInv, BufferAdd
  PROVE  BufferInv'
  <1>1. /\ dp = "add" /\ dp' = "tell"
        /\ buffer' = [i \in DOMAIN buffer \cup {current.id} |->
                       IF i = current.id THEN current.packet ELSE buffer[i]]
        /\ lost' = IF current.id \in DOMAIN buffer THEN lost \cup {buffer[current.id]} ELSE lost
        /\ UNCHANGED <<wire, told, current, packets, taken, wrong, disorder>>
    BY DEF BufferAdd, threadVars
  <1>2. Shape'
    BY <1>1 DEF BufferInv, Shape
  <1>3. ASSUME ~ disorder PROVE Orderly'
    <2>1. PICK n \in Nat : Stack(n)
      BY <1>3 DEF BufferInv, Orderly
    <2>2. current.id = n + 1 /\ current.id \notin DOMAIN buffer
      BY <1>1, <2>1 DEF Stack
    <2>3. Stack(n + 1)'
      BY <1>1, <2>1, <2>2 DEF Stack
    <2>4. \A q, i : Stands(q, i) => Stands(q, i)'
      BY <1>1, <2>2 DEF Stands
    <2>5. Known' /\ lost' = {}
      BY <1>1, <1>3, <2>2, <2>4 DEF BufferInv, Orderly, Known
    <2>6. QED
      BY <1>1, <1>3, <2>3, <2>5 DEF BufferInv, Orderly
  <1>4. QED
    BY <1>1, <1>2, <1>3 DEF BufferInv

LEMMA TellInv ==
  ASSUME BufferInv, SendPacketIn
  PROVE  BufferInv'
  <1>1. dp = "tell" /\ UNCHANGED <<wire, current, packets, buffer, historyVars>>
    BY DEF SendPacketIn, threadVars
  <1>2. CASE lib = "of13"
    BY <1>1, <1>2, OtherSteps DEF SendPacketIn
  <1>3. CASE lib # "of13"
    <2>1. /\ dp' = "idle"
          /\ told' = [c \in Controller |-> [told[c] EXCEPT ![current.id] = current.packet]]
      BY <1>3 DEF SendPacketIn
    <2>2. Shape'
      BY <1>1, <2>1 DEF BufferInv, Shape
    <2>3. ASSUME ~ disorder PROVE Orderly'
      <3>1. PICK n \in Nat : Stack(n)
        BY <2>3 DEF BufferInv, Orderly
      <3>2. Stack(n)'
        BY <1>1, <2>1, <3>1 DEF Stack
      <3>3. \A q, i : Stands(q, i) => Stands(q, i)'
        BY <1>1 DEF Stands, historyVars
      <3>4. Stands(current.packet, current.id)
        BY <1>1, <3>1 DEF Stack, Stands, BufferInv, Shape, Ids
      <3>5. Known'
        BY <1>1, <2>1, <2>3, <3>3, <3>4 DEF BufferInv, Shape, Orderly, Known
      <3>6. QED
        BY <1>1, <2>3, <3>2, <3>5 DEF BufferInv, Orderly, historyVars
    <2>4. QED
      BY <1>1, <2>2, <2>3 DEF BufferInv, historyVars
  <1>4. QED
    BY <1>2, <1>3

LEMMA BufferStep == BufferInv /\ [SwitchNext]_switchVars => BufferInv'
  <1> SUFFICES ASSUME BufferInv, [SwitchNext]_switchVars PROVE BufferInv'
    OBVIOUS
  <1> USE DEF dpVars, threadVars, historyVars
  <1>1. CASE Datapath
    BY <1>1, DatapathInv
  <1>2. CASE BufferAdd
    BY <1>2, AddInv
  <1>3. CASE SendPacketIn
    BY <1>3, TellInv
  <1>4. CASE NetworkShutsDown \/ Join
    BY <1>4, OtherSteps DEF NetworkShutsDown, Join
  <1>5. ASSUME NEW c \in Controller, ControllerSends(c) PROVE BufferInv'
    BY <1>5, SendInv
  <1>6. ASSUME NEW c \in Controller, ThreadStarts(c) PROVE BufferInv'
    BY <1>6, OtherSteps DEF ThreadStarts
  <1>7. ASSUME NEW c \in Controller, ThreadRound(c) PROVE BufferInv'
    <2>1. CASE PacketOutHandler(c)
      BY <2>1, PacketOutInv
    <2>2. CASE ReceiveNothing(c)
      BY <2>2, OtherSteps DEF ReceiveNothing
    <2>3. CASE HelloHandler(c)
      <3>1. Handles(c, "hello") /\ UNCHANGED <<buffer, missLen, historyVars>>
        BY <2>3 DEF HelloHandler
      <3>2. QED
        BY <3>1, OtherSteps DEF Handles
    <2>4. CASE SetConfigHandler(c)
      <3>1. Handles(c, "set_config") /\ UNCHANGED <<lib, reply, buffer, historyVars>>
        BY <2>4 DEF SetConfigHandler
      <3>2. QED
        BY <3>1, OtherSteps DEF Handles
    <2>5. CASE \/ FeaturesRequestHandler(c) \/ GetConfigRequestHandler(c)
               \/ BarrierRequestHandler(c) \/ UnknownTypeHandler(c)
      BY <2>5, OtherSteps
      DEF FeaturesRequestHandler, GetConfigRequestHandler, BarrierRequestHandler,
          UnknownTypeHandler, Handles, UNTOUCHED
    <2>6. CASE FlowModHandler(c) \/ StatsRequestHandler(c) \/ EchoRequestHandler(c)
      BY <2>6, OtherSteps
      DEF FlowModHandler, StatsRequestHandler, EchoRequestHandler, Handles, NameMissing
    <2>7. QED
      BY <1>7, <2>1, <2>2, <2>3, <2>4, <2>5, <2>6 DEF ThreadRound
  <1>8. CASE UNCHANGED switchVars
    BY <1>8, OtherSteps DEF switchVars
  <1>9. QED
    BY <1>1, <1>2, <1>3, <1>4, <1>5, <1>6, <1>7, <1>8 DEF SwitchNext

-----------------------------------------------------------------------------
\* Counting the ids is enough while packets are taken newest first: then no
\* buffered packet is overwritten, and no controller gets another packet than
\* the one it asked for (PacketBufferManager of ofswitch.py).
THEOREM BufferIsKept == SwitchSpec => []BufferedPacketsKept
  <1>1. BufferInv => BufferedPacketsKept
    BY DEF BufferInv, Orderly, BufferedPacketsKept
  <1>2. QED
    BY <1>1, BufferInit, BufferStep, PTL DEF SwitchSpec

-----------------------------------------------------------------------------
(***************************************************************************)
(* OpenFlowMatch                                                           *)
(***************************************************************************)
\* What packets may say of attributes
Said == UNION {UNION {{p[h][f] : f \in Field} : h \in DOMAIN p} : p \in MatchPacket}

\* Wildcards are attributes other than the addresses, or "All"; addresses are
\* numbers.
MatchInv ==
  /\ match \in [value : [Field -> Nat \cup Said], wild : SUBSET ((Field \ Address) \cup {"All"}),
                prefix : [Address -> Nat]]
  /\ \A a \in Address : match.value[a] \in Int

\* Without ignored bits an address is in a network of its own.
LEMMA OwnNetwork ==
  ASSUME NEW v, NEW net \in Int, InNetwork(v, net, 0)
  PROVE  v = net
  <1>1. 2 ^ 0 = 1
    OBVIOUS
  <1>2. v \in Int
    <2>1. 2 ^ AddrBits \in Int
      BY MatchAssumption
    <2>2. QED
      BY <2>1 DEF InNetwork, Addresses
  <1>3. v \div 1 = v /\ net \div 1 = net
    BY <1>2
  <1>4. QED
    BY <1>1, <1>3 DEF InNetwork

\* What a packet's own match says of an attribute is what its only header says.
LEMMA BuiltFromHeader ==
  ASSUME NEW p, CanBuild(p), OneHeaderEach(p), NEW f \in Field, NEW h \in Read(p, f)
  PROVE  Built(p).value[f] = p[h][f] /\ Settable(f, p[h][f])
  <1>1. f = "dl_type" => h = "Ethernet"
    <2>1. "Vlan" \notin DOMAIN p
      BY DEF CanBuild, Unreadable, Field
    <2>2. HeadersOf("dl_type") = {"Vlan", "Ethernet"}
      BY DEF HeadersOf, Address
    <2>3. QED
      BY <2>1, <2>2 DEF Read
  <1>2. (CHOOSE g \in Read(p, f) : f = "dl_type" => g = "Ethernet") = h
    BY <1>1 DEF OneHeaderEach
  <1>3. QED
    BY <1>2 DEF Built, DefaultMatch, CanBuild

\* The addresses of a packet's own match are numbers.
LEMMA BuiltAddress ==
  ASSUME NEW p, CanBuild(p), NEW a \in Address
  PROVE  Built(p).value[a] \in Int
  <1>1. a \in Field /\ a # "dl_type" /\ a # "nw_proto"
    BY DEF Address, Field
  <1>2. CASE Read(p, a) = {}
    BY <1>1, <1>2 DEF Built, DefaultMatch
  <1>3. CASE Read(p, a) # {}
    <2>1. PICK h \in Read(p, a) : Built(p).value[a] = p[h][a]
      BY <1>1, <1>3 DEF Built, DefaultMatch
    <2>2. Settable(a, p[h][a])
      BY <1>1 DEF CanBuild
    <2>3. p[h][a] \in Addresses
      BY <1>1, <2>2 DEF Settable
    <2>4. 2 ^ AddrBits \in Int
      BY MatchAssumption
    <2>5. QED
      BY <2>1, <2>3, <2>4 DEF Addresses
  <1>4. QED
    BY <1>2, <1>3

LEMMA MatchInvInit == MatchInit => MatchInv
  <1> SUFFICES ASSUME MatchInit PROVE MatchInv
    OBVIOUS
  <1>1. DefaultMatch \in [value : [Field -> Nat \cup Said],
          wild : SUBSET ((Field \ Address) \cup {"All"}), prefix : [Address -> Nat]]
    BY DEF DefaultMatch, IP, ICMP
  <1>2. CASE match = DefaultMatch
    BY <1>1, <1>2 DEF DefaultMatch, IP, ICMP, MatchInv, Address, Field
  <1>3. ASSUME NEW p \in MatchPacket, CanBuild(p), match = Built(p)
        PROVE  MatchInv
    <2>1. ASSUME NEW f \in Field
          PROVE  (IF Read(p, f) = {} THEN DefaultMatch.value[f]
                  ELSE p[CHOOSE h \in Read(p, f) : f = "dl_type" => h = "Ethernet"][f])
                 \in Nat \cup Said
      <3>1. CASE Read(p, f) = {}
        BY <1>1, <3>1
      <3>2. CASE Read(p, f) # {}
        <4> DEFINE h == CHOOSE h \in Read(p, f) : f = "dl_type" => h = "Ethernet"
        <4>1. h \in Read(p, f)
          <5>1. "Vlan" \notin DOMAIN p
            BY <1>3 DEF CanBuild, Unreadable, Field
          <5>2. HeadersOf("dl_type") = {"Vlan", "Ethernet"}
            BY DEF HeadersOf, Address
          <5>3. \E g \in Read(p, f) : f = "dl_type" => g = "Ethernet"
            BY <3>2, <5>1, <5>2 DEF Read
          <5>4. QED
            BY <5>3
        <4>2. h \in DOMAIN p
          BY <4>1 DEF Read
        <4> HIDE DEF h
        <4>3. p[h][f] \in UNION {{p[k][g] : g \in Field} : k \in DOMAIN p}
          BY <4>2
        <4>4. p[h][f] \in Said
          BY <4>3 DEF Said
        <4>5. QED
          BY <3>2, <4>4 DEF h
      <3>3. QED
        BY <3>1, <3>2
    <2>2. Built(p) \in [value : [Field -> Nat \cup Said],
            wild : SUBSET ((Field \ Address) \cup {"All"}), prefix : [Address -> Nat]]
      BY <1>1, <2>1 DEF Built
    <2>3. QED
      BY <1>3, <2>2, BuiltAddress DEF MatchInv
  <1>4. QED
    BY <1>2, <1>3 DEF MatchInit

LEMMA MatchInvStep == MatchInv /\ [MatchNext]_matchVars => MatchInv'
  <1> SUFFICES ASSUME MatchInv, [MatchNext]_matchVars PROVE MatchInv'
    OBVIOUS
  <1> USE MatchAssumption
  <1>1. CASE SetField
    <2>1. PICK f \in Field, v \in MatchValue : match' = [match EXCEPT !.value[f] = v]
      BY <1>1 DEF SetField, Becomes
    <2>2. QED
      BY <2>1 DEF MatchInv
  <1>2. CASE AddWildcard
    BY <1>2 DEF MatchInv, AddWildcard, Becomes
  <1>3. CASE RemoveWildcard
    BY <1>3 DEF MatchInv, RemoveWildcard, Becomes
  <1>4. CASE ResetWildcards
    BY <1>4 DEF MatchInv, ResetWildcards, Becomes
  <1>5. CASE WildcardAll
    BY <1>5 DEF MatchInv, WildcardAll, Becomes
  <1>6. CASE SetPrefix
    BY <1>6 DEF MatchInv, SetPrefix, Becomes
  <1>7. CASE UNCHANGED matchVars
    BY <1>7 DEF MatchInv, matchVars
  <1>8. QED
    BY <1>1, <1>2, <1>3, <1>4, <1>5, <1>6, <1>7 DEF MatchNext

\* What matches an entry when compared as a match matches it as a packet.
LEMMA EntryToPacket ==
  ASSUME MatchInv, NEW p, CanBuild(p), OneHeaderEach(p), MatchesEntry(Built(p), match)
  PROVE  MatchesPacket(match, p)
  <1> SUFFICES ASSUME NEW f \in Field, NEW h \in Read(p, f)
               PROVE  IF f \in Address /\ match.prefix[f] > 0
                      THEN InNetwork(p[h][f], match.value[f], match.prefix[f])
                      ELSE Ignored(match, f) \/ p[h][f] = match.value[f]
    BY DEF MatchesPacket
  <1>1. Built(p).value[f] = p[h][f] /\ Settable(f, p[h][f])
    BY BuiltFromHeader
  <1>2. CASE f \in Address
    <2>1. /\ match.value[f] \in Int /\ match.prefix[f] \in Nat
          /\ p[h][f] = match.value[f] \/ InNetwork(p[h][f], match.value[f], match.prefix[f])
      BY <1>1, <1>2 DEF MatchInv, MatchesEntry
    <2>2. p[h][f] \in Addresses
      BY <1>1, <1>2 DEF Settable, Address
    <2>3. CASE match.prefix[f] > 0
      BY <1>2, <2>1, <2>2, <2>3 DEF InNetwork
    <2>4. CASE match.prefix[f] = 0
      BY <1>2, <2>1, <2>4, OwnNetwork
    <2>5. QED
      BY <2>1, <2>3, <2>4
  <1>3. CASE f \notin Address
    BY <1>1, <1>3 DEF MatchesEntry, Ignored
  <1>4. QED
    BY <1>2, <1>3

\* And the other way round, but for what the packet does not say.
LEMMA PacketToEntry ==
  ASSUME MatchInv, NEW p, CanBuild(p), OneHeaderEach(p), MatchesPacket(match, p),
         "All" \notin match.wild,
         \A f \in Unsaid(p) : f \in match.wild \/ match.value[f] = Built(p).value[f]
  PROVE  MatchesEntry(Built(p), match)
  <1> SUFFICES ASSUME NEW f \in Field
               PROVE  \/ Built(p).value[f] = match.value[f]
                      \/ f \in Address /\ InNetwork(Built(p).value[f], match.value[f],
                                                    match.prefix[f])
                      \/ f \notin Address /\ f \in match.wild
    BY DEF MatchesEntry
  <1>1. f \in match.wild => f \notin Address
    BY DEF MatchInv, Address
  <1>2. CASE Read(p, f) = {}
    BY <1>1, <1>2 DEF Unsaid
  <1>3. CASE Read(p, f) # {}
    <2>1. PICK h \in Read(p, f) : TRUE
      BY <1>3
    <2>2. Built(p).value[f] = p[h][f]
      BY BuiltFromHeader
    <2>3. QED
      BY <1>1, <2>2 DEF MatchesPacket, Ignored
  <1>4. QED
    BY <1>2, <1>3

\* A packet's own match and the packet itself are judged alike, by a match of any
\* attributes, wildcards and prefixes (matches_packet, matches_entry).
THEOREM MatchesAreConsistent == MatchSpec => []MatchesAgree
  <1>1. MatchInv => MatchesAgree
    <2> SUFFICES ASSUME MatchInv, NEW p \in MatchPacket, CanBuild(p), OneHeaderEach(p)
                 PROVE  /\ ~ RaisesFor(match, p)
                        /\ MatchesEntry(Built(p), match) => MatchesPacket(match, p)
                        /\ (MatchesPacket(match, p) /\ "All" \notin match.wild
                             /\ \A f \in Unsaid(p) : f \in match.wild
                                                     \/ match.value[f] = Built(p).value[f])
                           => MatchesEntry(Built(p), match)
      BY DEF MatchesAgree
    <2>1. ~ RaisesFor(match, p)
      BY DEF CanBuild, RaisesFor
    <2>2. QED
      BY <2>1, EntryToPacket, PacketToEntry
  <1>2. QED
    BY MatchInvInit, MatchInvStep, <1>1, PTL DEF MatchSpec

-----------------------------------------------------------------------------
(***************************************************************************)
(* The learning switches.  What is inductive is that every entry of a      *)
(* table, old or new, has the port its host was heard by last: a learner   *)
(* keeps or corrects the entry it has, or enters the host anew, and all    *)
(* that happens to the other entries is that they go, age or are counted.  *)
(***************************************************************************)
Entry == [mac : Host, port : Port, n : Nat]

Fits(t, h) == t \in Seq(Entry) /\ \A i \in DOMAIN t : t[i].port = h[t[i].mac]

SwInv ==
  /\ heard \in [Host -> Port \cup {Nowhere}]
  /\ macs \in Seq(Entry)
  /\ switch # "m" => Fits(macs, heard)
  /\ switch \in {"njuHub", "mHub"} => macs = << >>
  /\ SentWhereHeard

-----------------------------------------------------------------------------
\* Of finitely many integers there is a first one that none is below.
LEMMA FirstLeast ==
  ASSUME NEW m \in Nat \ {0}, NEW f \in [1 .. m -> Int]
  PROVE  \E i \in 1 .. m : \A j \in 1 .. m : f[j] > f[i] \/ (f[j] = f[i] /\ i <= j)
  <1> DEFINE Least(k, g) ==
        \E i \in 1 .. k : \A j \in 1 .. k : g[j] > g[i] \/ (g[j] = g[i] /\ i <= j)
  <1> DEFINE Without == {k \in Nat \ {0} : \E g \in [1 .. k -> Int] : ~ Least(k, g)}
  <1>1. CASE Without = {}
    <2>1. Least(m, f)
      BY <1>1, Zenon
    <2> QED
      BY <2>1, Zenon
  <1>2. CASE Without # {}
    <2>1. Without \subseteq Nat
      OBVIOUS
    <2> HIDE DEF Without
    <2>2. PICK k \in Without : \A y \in Without : ~ (<<y, k>> \in OpToRel(<, Nat))
      BY <1>2, <2>1, WFMin, NatLessThanWellFounded
    <2>3. k \in Nat \ {0}
      BY <2>2 DEF Without
    <2>4. PICK g \in [1 .. k -> Int] : ~ Least(k, g)
      BY <2>2 DEF Without
    <2>5. CASE k = 1
      <3>1. \A j \in 1 .. k : g[j] = g[1] /\ 1 <= j
        BY <2>5
      <3> QED
        BY <2>4, <2>5, <3>1
    <2>6. CASE k # 1
      <3> DEFINE r == [j \in 1 .. k - 1 |-> g[j]]
      <3>1. k - 1 \in Nat \ {0} /\ k - 1 < k /\ r \in [1 .. k - 1 -> Int]
        BY <2>3, <2>6
      <3>2. k - 1 \notin Without
        BY <2>1, <2>2, <2>3, <3>1, Zenon DEF OpToRel
      <3>3. Least(k - 1, r)
        BY <3>1, <3>2, Zenon DEF Without
      <3>4. PICK i \in 1 .. k - 1 :
              \A j \in 1 .. k - 1 : r[j] > r[i] \/ (r[j] = r[i] /\ i <= j)
        BY <3>3
      <3>5. \A j \in 1 .. k - 1 : g[j] > g[i] \/ (g[j] = g[i] /\ i <= j)
        BY <3>4
      <3>6. /\ i \in 1 .. k /\ k \in 1 .. k /\ g[i] \in Int /\ g[k] \in Int
            /\ \A j \in 1 .. k : g[j] \in Int
            /\ \A j \in 1 .. k : j = k \/ j \in 1 .. k - 1
        BY <2>3, <3>4
      <3>7. CASE g[k] < g[i]
        <4>1. \A j \in 1 .. k : g[j] > g[k] \/ (g[j] = g[k] /\ k <= j)
          BY <2>3, <3>5, <3>6, <3>7
        <4> QED
          BY <2>4, <3>6, <4>1
      <3>8. CASE ~ (g[k] < g[i])
        <4>1. \A j \in 1 .. k : g[j] > g[i] \/ (g[j] = g[i] /\ i <= j)
          BY <2>3, <3>4, <3>5, <3>6, <3>8
        <4> QED
          BY <2>4, <3>6, <4>1
      <3> QED
        BY <3>7, <3>8
    <2> QED
      BY <2>5, <2>6
  <1> QED
    BY <1>1, <1>2

\* The entry that makes room is one of the table's.
LEMMA RoomMaker ==
  ASSUME NEW t \in Seq(Entry), t # << >>
  PROVE  /\ Oldest(t) \in 1 .. Len(t) /\ Idlest(t) \in 1 .. Len(t) /\ MinPos(t) \in 1 .. Len(t)
         /\ \A j \in DOMAIN t : \/ t[j].n < t[Oldest(t)].n
                                \/ t[j].n = t[Oldest(t)].n /\ Oldest(t) <= j
  <1>1. Len(t) \in Nat \ {0} /\ DOMAIN t = 1 .. Len(t) /\ \A i \in 1 .. Len(t) : t[i].n \in Nat
    <2>1. Len(t) \in Nat \ {0} /\ DOMAIN t = 1 .. Len(t) /\ t \in [1 .. Len(t) -> Entry]
      BY EmptySeq, LenProperties
    <2> QED
      BY <2>1 DEF Entry
  <1>2. Idlest(t) \in 1 .. Len(t)
    <2> DEFINE f == [i \in 1 .. Len(t) |-> t[i].n]
    <2>1. f \in [1 .. Len(t) -> Int]
      BY <1>1
    <2>2. \E i \in 1 .. Len(t) : \A j \in 1 .. Len(t) : f[j] > f[i] \/ (f[j] = f[i] /\ i <= j)
      BY <1>1, <2>1, FirstLeast
    <2>3. \E i \in DOMAIN t : \A j \in DOMAIN t : t[j].n > t[i].n \/ (t[j].n = t[i].n /\ i <= j)
      BY <1>1, <2>2
    <2> QED
      BY <1>1, <2>3 DEF Idlest
  <1>3. /\ Oldest(t) \in 1 .. Len(t)
        /\ \A j \in DOMAIN t : \/ t[j].n < t[Oldest(t)].n
                               \/ t[j].n = t[Oldest(t)].n /\ Oldest(t) <= j
    <2> DEFINE f == [i \in 1 .. Len(t) |-> - t[i].n]
    <2>1. f \in [1 .. Len(t) -> Int]
      BY <1>1
    <2>2. \E i \in 1 .. Len(t) : \A j \in 1 .. Len(t) : f[j] > f[i] \/ (f[j] = f[i] /\ i <= j)
      BY <1>1, <2>1, FirstLeast
    <2>3. \A i, j \in 1 .. Len(t) :
            (f[j] > f[i] <=> t[j].n < t[i].n) /\ (f[j] = f[i] <=> t[j].n = t[i].n)
      BY <1>1
    <2> HIDE DEF f
    <2>4. \E i \in DOMAIN t : \A j \in DOMAIN t : t[j].n < t[i].n \/ (t[j].n = t[i].n /\ i <= j)
      BY <1>1, <2>2, <2>3
    <2> QED
      BY <1>1, <2>4 DEF Oldest
  <1> QED
    BY <1>1, <1>2, <1>3 DEF MinPos

-----------------------------------------------------------------------------
(***************************************************************************)
(* What is done to a table                                                 *)
(***************************************************************************)

\* A table with some of another's entries fits where that does.
LEMMA SomeFit ==
  ASSUME NEW h, NEW t, Fits(t, h), NEW u \in Seq(Entry),
         \A i \in DOMAIN u : \E j \in DOMAIN t : u[i] = t[j]
  PROVE  Fits(u, h)
  BY DEF Fits

LEMMA Removed ==
  ASSUME NEW t \in Seq(Entry), NEW i \in 1 .. Len(t)
  PROVE  /\ RemoveAt(t, i) \in Seq(Entry)
         /\ Len(RemoveAt(t, i)) = Len(t) - 1 /\ DOMAIN RemoveAt(t, i) = 1 .. Len(t) - 1
         /\ \A k \in 1 .. Len(t) - 1 : RemoveAt(t, i)[k] = IF k < i THEN t[k] ELSE t[k + 1]
         /\ \A k \in DOMAIN RemoveAt(t, i) : \E j \in DOMAIN t : RemoveAt(t, i)[k] = t[j]
  <1> DEFINE a == SubSeq(t, 1, i - 1)
             b == SubSeq(t, i + 1, Len(t))
  <1>1. /\ a \in Seq(Entry) /\ Len(a) = i - 1
        /\ \A k \in 1 .. i - 1 : a[k] = t[k]
    BY SubSeqProperties
  <1>2. /\ b \in Seq(Entry) /\ Len(b) = Len(t) - i
        /\ \A k \in 1 .. Len(t) - i : b[k] = t[i + k]
    BY SubSeqProperties
  <1>3. /\ a \o b \in Seq(Entry) /\ Len(a \o b) = Len(t) - 1
        /\ \A k \in 1 .. Len(t) - 1 : (a \o b)[k] = IF k < i THEN t[k] ELSE t[k + 1]
    <2> HIDE DEF a, b
    <2>1. Len(a) + Len(b) = Len(t) - 1
      BY <1>1, <1>2, LenProperties
    <2>2. /\ a \o b \in Seq(Entry) /\ Len(a \o b) = Len(t) - 1
          /\ \A k \in 1 .. Len(t) - 1 : (a \o b)[k] = IF k <= i - 1 THEN a[k] ELSE b[k - (i - 1)]
      <3>1. /\ a \o b \in Seq(Entry) /\ Len(a \o b) = Len(a) + Len(b)
            /\ \A k \in 1 .. Len(a) + Len(b) :
                 (a \o b)[k] = IF k <= Len(a) THEN a[k] ELSE b[k - Len(a)]
        BY <1>1, <1>2, ConcatProperties
      <3> QED
        BY <1>1, <2>1, <3>1
    <2>3. \A k \in 1 .. Len(t) - 1 : k >= i => b[k - (i - 1)] = t[k + 1]
      <3>1. \A k \in 1 .. Len(t) - 1 : k >= i =>
              k - (i - 1) \in 1 .. Len(t) - i /\ i + (k - (i - 1)) = k + 1
        OBVIOUS
      <3> QED
        BY <1>2, <3>1
    <2>4. \A k \in 1 .. Len(t) - 1 : k < i => k <= i - 1 /\ a[k] = t[k]
      BY <1>1
    <2>5. \A k \in 1 .. Len(t) - 1 : ~ k < i => k >= i /\ ~ k <= i - 1
      OBVIOUS
    <2> QED
      BY <2>2, <2>3, <2>4, <2>5
  <1>4. \A k \in 1 .. Len(t) - 1 : \E j \in 1 .. Len(t) : (a \o b)[k] = t[j]
    <2> HIDE DEF a, b
    <2> TAKE k \in 1 .. Len(t) - 1
    <2>1. k \in 1 .. Len(t) /\ k + 1 \in 1 .. Len(t)
      OBVIOUS
    <2> QED
      BY <1>3, <2>1
  <1>5. DOMAIN (a \o b) = 1 .. Len(t) - 1 /\ DOMAIN t = 1 .. Len(t)
    <2> HIDE DEF a, b
    <2> QED
      BY <1>3, LenProperties
  <1>6. RemoveAt(t, i) = a \o b
    BY DEF RemoveAt
  <1> HIDE DEF a, b
  <1> QED
    BY <1>3, <1>4, <1>5, <1>6

LEMMA RemovedFits ==
  ASSUME NEW h, NEW t, Fits(t, h), NEW i \in 1 .. Len(t)
  PROVE  Fits(RemoveAt(t, i), h)
  BY Removed, SomeFit DEF Fits

LEMMA TailFits ==
  ASSUME NEW h, NEW t, Fits(t, h), t # << >>
  PROVE  Fits(Tail(t), h)
  <1>1. /\ Tail(t) \in Seq(Entry) /\ Len(Tail(t)) = Len(t) - 1
        /\ \A i \in 1 .. Len(t) - 1 : Tail(t)[i] = t[i + 1]
    BY HeadTailProperties DEF Fits
  <1> QED
    BY <1>1, SomeFit DEF Fits

LEMMA AppendFits ==
  ASSUME NEW h, NEW t, Fits(t, h), NEW e \in Entry, e.port = h[e.mac]
  PROVE  Fits(Append(t, e), h)
  BY AppendProperties DEF Fits

\* Ages and counts do not matter.
LEMMA RenumberedFits ==
  ASSUME NEW h, NEW t, Fits(t, h), NEW mac, NEW n \in Nat
  PROVE  Fits(SetN(t, mac, n), h) /\ Fits(Count(t, mac), h) /\ Fits(Aged(t), h)
  <1>1. t \in Seq(Entry) /\ DOMAIN t = 1 .. Len(t) /\ Len(t) \in Nat
    BY DEF Fits
  <1>2. \A i \in DOMAIN t : t[i] \in Entry
    BY <1>1
  <1>3. \A i \in DOMAIN t : \A k \in Nat :
          /\ [t[i] EXCEPT !.n = k] \in Entry
          /\ [t[i] EXCEPT !.n = k].port = t[i].port
          /\ [t[i] EXCEPT !.n = k].mac = t[i].mac
    BY <1>2 DEF Entry
  <1>4. \A i \in DOMAIN t : t[i].n + 1 \in Nat
    BY <1>2 DEF Entry
  <1>5. Fits(SetN(t, mac, n), h)
    BY <1>1, <1>2, <1>3 DEF Fits, SetN
  <1>6. Fits(Count(t, mac), h)
    BY <1>1, <1>2, <1>3, <1>4 DEF Fits, Count
  <1>7. Fits(Aged(t), h)
    <2>1. DOMAIN Aged(t) = 1 .. Len(t) /\ \A i \in DOMAIN t :
            /\ Aged(t)[i] = [t[i] EXCEPT !.n = t[i].n + 1]
      BY <1>1 DEF Aged
    <2>2. \A i \in DOMAIN t : /\ Aged(t)[i] \in Entry
                             /\ Aged(t)[i].port = t[i].port /\ Aged(t)[i].mac = t[i].mac
      <3> TAKE i \in DOMAIN t
      <3> DEFINE k == t[i].n + 1
      <3>1. k \in Nat /\ Aged(t)[i] = [t[i] EXCEPT !.n = k]
        BY <1>4, <2>1
      <3> HIDE DEF k
      <3> QED
        BY <1>3, <3>1
    <2>3. Aged(t) \in [1 .. Len(t) -> Entry]
      BY <1>1, <2>2 DEF Aged
    <2> QED
      BY <1>1, <2>1, <2>2, <2>3 DEF Fits
  <1> QED
    BY <1>5, <1>6, <1>7

LEMMA ToEndFits ==
  ASSUME NEW h, NEW t, Fits(t, h), NEW mac
  PROVE  Fits(ToEnd(t, mac), h)
  <1>1. CASE Has(t, mac)
    <2>1. Pos(t, mac) \in 1 .. Len(t)
      BY <1>1 DEF Has, Pos, At, Fits
    <2>2. t[Pos(t, mac)] \in Entry /\ t[Pos(t, mac)].port = h[t[Pos(t, mac)].mac]
      BY <2>1 DEF Fits
    <2> QED
      BY <1>1, <2>1, <2>2, RemovedFits, AppendFits DEF ToEnd
  <1> QED
    BY <1>1 DEF ToEnd

\* What is usable are entries of the table that are young enough.
LEMMA UsableFits ==
  ASSUME NEW h, NEW t, Fits(t, h), NEW limit \in Nat
  PROVE  /\ Fits(Usable(t, limit), h)
         /\ \A i \in DOMAIN Usable(t, limit) :
              Usable(t, limit)[i].n < limit
              /\ \E j \in DOMAIN t : Usable(t, limit)[i] = t[j]
  <1> DEFINE young == {e \in Range(t) : e.n < limit}
  <1>1. IsFiniteSet(young) /\ young \subseteq Entry
    <2>1. DOMAIN t = 1 .. Len(t) /\ Len(t) \in Nat /\ t \in [1 .. Len(t) -> Entry]
      BY LenProperties DEF Fits
    <2>2. Range(t) = {t[i] : i \in DOMAIN t}
      BY DEF Range
    <2>3. IsFiniteSet(Range(t))
      <3>1. t \in Surjection(1 .. Len(t), Range(t))
        BY <2>1, <2>2 DEF Surjection
      <3> QED
        BY <2>1, <3>1, FS_NatSurjection DEF ExistsSurjection
    <2>4. Range(t) \subseteq Entry
      BY <2>2 DEF Fits
    <2> QED
      BY <2>3, <2>4, FS_Subset
  <1>2. Cardinality(young) \in Nat /\ ExistsBijection(1 .. Cardinality(young), young)
    BY <1>1, FS_CardinalityType
  <1>3. \E f \in [1 .. Cardinality(young) -> young] : IsInjective(f)
    BY <1>2 DEF ExistsBijection, Bijection, Injection, IsInjective
  <1>4. Usable(t, limit) \in [1 .. Cardinality(young) -> young]
    BY <1>3 DEF Usable, SetToSeq
  <1>5. \A i \in DOMAIN Usable(t, limit) : Usable(t, limit)[i] \in young
    BY <1>4
  <1>6. Usable(t, limit) \in Seq(Entry)
    <2>1. Usable(t, limit) \in [1 .. Cardinality(young) -> Entry]
      BY <1>1, <1>4
    <2> HIDE DEF young
    <2> QED
      BY <1>2, <2>1, SeqDef
  <1>7. \A i \in DOMAIN Usable(t, limit) :
          Usable(t, limit)[i].n < limit /\ \E j \in DOMAIN t : Usable(t, limit)[i] = t[j]
    BY <1>5 DEF Range
  <1> QED
    BY <1>6, <1>7, SomeFit

-----------------------------------------------------------------------------
(***************************************************************************)
(* Learning, and sending                                                   *)
(***************************************************************************)

Heard(src, in) == [heard EXCEPT ![src] = in]

LEMMA HeardType ==
  ASSUME heard \in [Host -> Port \cup {Nowhere}], NEW src \in Host, NEW in \in Port
  PROVE  /\ Heard(src, in) \in [Host -> Port \cup {Nowhere}]
         /\ Heard(src, in)[src] = in
         /\ \A m \in Host : m # src => Heard(src, in)[m] = heard[m]
  BY DEF Heard

\* A host that is known has its port corrected.
LEMMA Corrected ==
  ASSUME heard \in [Host -> Port \cup {Nowhere}], NEW src \in Host, NEW in \in Port,
         NEW t, Fits(t, heard)
  PROVE  Fits(SetPort(t, src, in), Heard(src, in))
  <1>1. t \in Seq(Entry) /\ DOMAIN t = 1 .. Len(t) /\ Len(t) \in Nat
    BY DEF Fits
  <1>2. \A i \in DOMAIN t : t[i] \in Entry
    BY <1>1
  <1>3. \A i \in DOMAIN t :
          /\ [t[i] EXCEPT !.port = in] \in Entry
          /\ [t[i] EXCEPT !.port = in].port = in
          /\ [t[i] EXCEPT !.port = in].mac = t[i].mac
    BY <1>2 DEF Entry
  <1>4. \A i \in DOMAIN t : t[i].mac \in Host /\ t[i].port = heard[t[i].mac]
    BY <1>2 DEF Fits, Entry
  <1> QED
    BY <1>1, <1>2, <1>3, <1>4, HeardType DEF Fits, SetPort

\* A host that is not known is entered; no other entry is its.
LEMMA Entered ==
  ASSUME heard \in [Host -> Port \cup {Nowhere}], NEW src \in Host, NEW in \in Port,
         NEW t, Fits(t, heard), ~ Has(t, src),
         NEW u, Fits(u, heard),
         \A i \in DOMAIN u : \E j \in DOMAIN t : u[i] = t[j]
  PROVE  Fits(Append(u, EntryFor(src, in)), Heard(src, in))
  <1>1. \A i \in DOMAIN u : u[i].mac \in Host /\ u[i].mac # src
    <2>1. u \in [1 .. Len(u) -> Entry] /\ DOMAIN u = 1 .. Len(u)
      BY LenProperties DEF Fits
    <2>2. \A i \in DOMAIN u : u[i].mac \in Host
      BY <2>1 DEF Entry
    <2> QED
      BY <2>2 DEF Has, At
  <1>2. Fits(u, Heard(src, in))
    BY <1>1, HeardType DEF Fits
  <1>3. EntryFor(src, in) \in Entry /\ EntryFor(src, in).port = in /\ EntryFor(src, in).mac = src
    BY DEF EntryFor, Entry
  <1> QED
    BY <1>2, <1>3, AppendFits, HeardType

LEMMA Learned ==
  ASSUME heard \in [Host -> Port \cup {Nowhere}], NEW src \in Host, NEW in \in Port,
         NEW t, Fits(t, heard)
  PROVE  /\ Fits(Learn(t, src, in), Heard(src, in))
         /\ Fits(HhLruLearn(t, src, in), Heard(src, in))
         /\ Fits(CachePut(t, src, in), Heard(src, in))
         /\ Fits(MLruLearn(t, src, in), Heard(src, in))
         /\ Fits(TrafficLearn(t, src, in), Heard(src, in))
         /\ Fits(MTrafficLearn(t, src, in), Heard(src, in))
  <1>1. CASE Has(t, src)
    BY <1>1, Corrected DEF Learn, HhLruLearn, CachePut, MLruLearn, TrafficLearn, MTrafficLearn
  <1>2. CASE ~ Has(t, src)
    <2>1. Fits(Append(t, EntryFor(src, in)), Heard(src, in))
      BY <1>2, Entered
    <2>2. t \in Seq(Entry) /\ (Len(t) >= Size \/ Len(t) = Size => t # << >>)
      BY SizeAssumption, EmptySeq DEF Fits
    <2>3. ASSUME NEW i \in 1 .. Len(t)
          PROVE  Fits(Append(RemoveAt(t, i), EntryFor(src, in)), Heard(src, in))
      BY <1>2, <2>2, <2>3, Removed, RemovedFits, Entered
    <2>4. ASSUME t # << >>
          PROVE  Fits(Append(Tail(t), EntryFor(src, in)), Heard(src, in))
      <3>1. \A i \in DOMAIN Tail(t) : \E j \in DOMAIN t : Tail(t)[i] = t[j]
        <4>1. /\ Len(Tail(t)) = Len(t) - 1 /\ DOMAIN Tail(t) = 1 .. Len(Tail(t))
              /\ \A i \in 1 .. Len(t) - 1 : Tail(t)[i] = t[i + 1]
              /\ DOMAIN t = 1 .. Len(t) /\ Len(t) \in Nat
          BY <2>2, <2>4, HeadTailProperties, LenProperties
        <4> QED
          BY <4>1
      <3> QED
        BY <1>2, <2>4, <3>1, TailFits, Entered
    <2>5. t # << >> => /\ Oldest(t) \in 1 .. Len(t) /\ Idlest(t) \in 1 .. Len(t)
                       /\ MinPos(t) \in 1 .. Len(t)
      BY <2>2, RoomMaker
    <2>6. Fits(Learn(t, src, in), Heard(src, in))
      BY <1>2, <2>1 DEF Learn
    <2>7. Fits(HhLruLearn(t, src, in), Heard(src, in))
      BY <1>2, <2>1, <2>2, <2>3, <2>5 DEF HhLruLearn
    <2>8. Fits(CachePut(t, src, in), Heard(src, in))
      BY <1>2, <2>1, <2>2, <2>4 DEF CachePut, RemoveLru
    <2>9. Fits(MLruLearn(t, src, in), Heard(src, in))
      BY <1>2, <2>1, <2>2, <2>4 DEF MLruLearn
    <2>10. Fits(TrafficLearn(t, src, in), Heard(src, in))
      BY <1>2, <2>1, <2>2, <2>3, <2>5 DEF TrafficLearn
    <2>11. Fits(MTrafficLearn(t, src, in), Heard(src, in))
      BY <1>2, <2>1, <2>2, <2>3, <2>5 DEF MTrafficLearn
    <2> QED
      BY <2>6, <2>7, <2>8, <2>9, <2>10, <2>11
  <1> QED
    BY <1>1, <1>2

\* mTo keeps the entry of a host that stays.
LEMMA MToLearned ==
  ASSUME heard \in [Host -> Port \cup {Nowhere}], NEW src \in Host, NEW in \in Port,
         NEW t, Fits(t, heard)
  PROVE  Fits(MToLearn(t, src, in), Heard(src, in))
  <1>1. CASE ~ Has(t, src)
    BY <1>1, Entered DEF MToLearn
  <1>2. CASE Has(t, src) /\ PortOf(t, src) = in
    <2>1. Pos(t, src) \in DOMAIN t /\ t[Pos(t, src)].mac = src
      BY <1>2 DEF Has, At, Pos
    <2>2. heard[src] = in
      BY <1>2, <2>1 DEF Fits, PortOf
    <2>3. Heard(src, in) = heard
      BY <2>2 DEF Heard
    <2> QED
      BY <1>2, <2>3 DEF MToLearn
  <1>3. CASE Has(t, src) /\ PortOf(t, src) # in
    BY <1>3, Corrected, RenumberedFits DEF MToLearn
  <1> QED
    BY <1>1, <1>2, <1>3

\* A frame that leaves by one port leaves by the one its destination has.
LEMMA OneOut ==
  ASSUME NEW h, NEW t, Fits(t, h), NEW in \in Port, NEW to, Cardinality(Outs(t, in, to)) = 1
  PROVE  Has(t, to) /\ Outs(t, in, to) = {h[to]}
  <1>1. Outs(t, in, to) # {}
    BY FS_EmptySet
  <1>2. Outs(t, in, to) # Port \ {in}
    <2>1. Cardinality(Port \ {in}) = Cardinality(Port) - 1 /\ Cardinality(Port) \in Nat
      BY PortAssumption, FS_RemoveElement, FS_CardinalityType
    <2>2. Cardinality(Port \ {in}) # 1
      BY <2>1, PortAssumption
    <2> QED
      BY <2>2
  <1>3. Has(t, to) /\ Outs(t, in, to) = {PortOf(t, to)}
    BY <1>1, <1>2 DEF Outs
  <1>4. Pos(t, to) \in DOMAIN t /\ t[Pos(t, to)].mac = to
    BY <1>3 DEF Has, At, Pos
  <1>5. PortOf(t, to) = h[to]
    BY <1>4 DEF PortOf, Fits
  <1> QED
    BY <1>3, <1>5

\* A frame handled with tables that fit keeps the invariant; with a timeout the
\* entry used must be young and stay in the table.
LEMMA HandledInv ==
  ASSUME SwInv, NEW src \in Host, NEW in \in Port, NEW to, NEW t, NEW u,
         Handled(src, in, to, u, Outs(t, in, to)),
         switch # "m", switch \in {"njuHub", "mHub"} => u = << >>,
         Fits(t, Heard(src, in)), Fits(u, Heard(src, in)),
         switch \in {"hhTo", "njuTo", "mTo"} =>
           (Has(t, to) => \E i \in At(u, to) : u[i].n < Limit)
  PROVE  SwInv'
  <1>1. /\ heard' = Heard(src, in) /\ macs' = u /\ dst' = to /\ out' = Outs(t, in, to)
        /\ switch' = switch /\ Limit' = Limit
    BY DEF Handled, Heard, Limit
  <1>2. SentWhereHeard'
    <2> SUFFICES ASSUME Cardinality(out') = 1
                 PROVE  /\ out' = {heard'[dst']}
                        /\ switch \in {"hhTo", "njuTo", "mTo"} =>
                             \E i \in At(u, to) : u[i].n < Limit
      BY <1>1 DEF SentWhereHeard
    <2>1. Has(t, to) /\ Outs(t, in, to) = {Heard(src, in)[to]}
      BY <1>1, OneOut
    <2> QED
      BY <1>1, <2>1
  <1> QED
    BY <1>1, <1>2, HeardType DEF SwInv, Fits

\* so does a step after which no frame has gone out
LEMMA QuietInv ==
  ASSUME SwInv, heard' = heard, switch' = switch, out' = {},
         macs' \in Seq(Entry), Fits(macs, heard) => Fits(macs', heard),
         macs = << >> => macs' = << >>
  PROVE  SwInv'
  <1>1. Cardinality(out') # 1
    BY FS_EmptySet
  <1> QED
    BY <1>1 DEF SwInv, SentWhereHeard

LEMMA FrameInv ==
  ASSUME SwInv, NEW src \in Host, NEW in \in HostPort, NEW to \in Host \cup {Mine, Broadcast},
         \/ HhSwitch(src, in, to) \/ NjuSwitch(src, in, to) \/ MSwitch(src, in, to)
         \/ NjuHub(src, in, to) \/ MHub(src, in, to)
         \/ HhLru(src, in, to) \/ NjuLru(src, in, to) \/ MLru(src, in, to)
         \/ HhTraffic(src, in, to) \/ NjuTraffic(src, in, to) \/ MTraffic(src, in, to)
         \/ HhTo(src, in, to) \/ NjuTo(src, in, to) \/ MTo(src, in, to)
  PROVE  SwInv'
  <1> DEFINE h == Heard(src, in)
  <1>1. in \in Port /\ heard \in [Host -> Port \cup {Nowhere}]
    BY PortAssumption DEF SwInv
  <1>2. switch # "m" => /\ Fits(Learn(macs, src, in), h)
                        /\ Fits(HhLruLearn(macs, src, in), h)
                        /\ Fits(CachePut(macs, src, in), h)
                        /\ Fits(MLruLearn(macs, src, in), h)
                        /\ Fits(TrafficLearn(macs, src, in), h)
                        /\ Fits(MTrafficLearn(macs, src, in), h)
    BY <1>1, Learned DEF SwInv
  <1> HIDE DEF h
  <1>3. CASE Unseen(to)
    BY <1>3, QuietInv DEF Unseen, SwInv
  <1>4. CASE HhSwitch(src, in, to) \/ NjuSwitch(src, in, to)
    <2>1. /\ switch \in {"hh", "nju"}
          /\ Handled(src, in, to, Learn(macs, src, in), Outs(Learn(macs, src, in), in, to))
      BY <1>4 DEF HhSwitch, NjuSwitch
    <2> QED
      BY <1>1, <1>2, <2>1, HandledInv DEF h
  <1>5. CASE MSwitch(src, in, to)
    <2>1. CASE Handled(src, in, to, MLearn(macs, src, in), Outs(MLearn(macs, src, in), in, to))
      <3>1. EntryFor(src, in) \in Entry
        BY <1>1 DEF EntryFor, Entry
      <3>2. MLearn(macs, src, in) \in Seq(Entry)
        BY <3>1, AppendProperties DEF MLearn, SwInv
      <3>3. switch = "m" /\ switch' = "m" /\ heard' = h /\ macs' = MLearn(macs, src, in)
        BY <1>5, <2>1 DEF MSwitch, Handled, h, Heard
      <3> QED
        BY <1>1, <3>2, <3>3, HeardType DEF SwInv, SentWhereHeard, h
    <2> QED
      BY <1>3, <1>5, <2>1 DEF MSwitch
  <1>6. CASE NjuHub(src, in, to) \/ MHub(src, in, to)
    <2>1. switch \in {"njuHub", "mHub"} /\ Handled(src, in, to, macs, Outs(macs, in, to))
      BY <1>6 DEF NjuHub, MHub
    <2>2. macs = << >> /\ Fits(macs, h)
      BY <2>1, EmptySeq DEF SwInv, Fits
    <2> QED
      BY <1>1, <2>1, <2>2, HandledInv DEF h
  <1>7. CASE HhLru(src, in, to)
    <2> DEFINE t == Aged(HhLruLearn(macs, src, in))
    <2>1. switch = "hhLru" /\ Handled(src, in, to, SetN(t, to, 0), Outs(t, in, to))
      BY <1>7 DEF HhLru
    <2>2. Fits(t, h)
      BY <1>2, <2>1, RenumberedFits
    <2>3. Fits(SetN(t, to, 0), h)
      BY <2>2, RenumberedFits
    <2> HIDE DEF t
    <2> QED
      BY <1>1, <2>1, <2>2, <2>3, HandledInv DEF h
  <1>8. CASE NjuLru(src, in, to)
    <2> DEFINE t == CachePut(macs, src, in)
    <2>1. switch = "njuLru" /\ Handled(src, in, to, ToEnd(t, to), Outs(t, in, to))
      BY <1>8 DEF NjuLru, CacheGet
    <2>2. Fits(t, h) /\ Fits(ToEnd(t, to), h)
      BY <1>2, <2>1, ToEndFits
    <2> HIDE DEF t
    <2> QED
      BY <1>1, <2>1, <2>2, HandledInv DEF h
  <1>9. CASE MLru(src, in, to)
    <2> DEFINE t == MLruLearn(macs, src, in)
    <2>1. switch = "mLru"
          /\ (Unseen(to) \/ Handled(src, in, to, ToEnd(t, to), Outs(t, in, to)))
      BY <1>9 DEF MLru, MLruHit
    <2>2. Fits(t, h) /\ Fits(ToEnd(t, to), h)
      BY <1>2, <2>1, ToEndFits
    <2> HIDE DEF t
    <2> QED
      BY <1>1, <1>3, <2>1, <2>2, HandledInv DEF h
  <1>10. CASE HhTraffic(src, in, to) \/ NjuTraffic(src, in, to)
    <2> DEFINE t == TrafficLearn(macs, src, in)
    <2>1. /\ switch \in {"hhTraffic", "njuTraffic"}
          /\ Handled(src, in, to, Count(t, to), Outs(t, in, to))
      BY <1>10 DEF HhTraffic, NjuTraffic
    <2>2. Fits(t, h) /\ Fits(Count(t, to), h)
      BY <1>2, <2>1, RenumberedFits
    <2> HIDE DEF t
    <2> QED
      BY <1>1, <2>1, <2>2, HandledInv DEF h
  <1>11. CASE MTraffic(src, in, to)
    <2> DEFINE t == MTrafficLearn(macs, src, in)
    <2>1. switch = "mTraffic"
          /\ (Unseen(to) \/ Handled(src, in, to, Count(t, to), Outs(t, in, to)))
      BY <1>11 DEF MTraffic
    <2>2. Fits(t, h) /\ Fits(Count(t, to), h)
      BY <1>2, <2>1, RenumberedFits
    <2> HIDE DEF t
    <2> QED
      BY <1>1, <1>3, <2>1, <2>2, HandledInv DEF h
  <1>12. CASE HhTo(src, in, to)
    <2> DEFINE t == HhToLearn(macs, src, in)
    <2>1. switch = "hhTo" /\ Handled(src, in, to, t, Outs(t, in, to))
      BY <1>12 DEF HhTo
    <2>2. Fits(SetN(Learn(macs, src, in), src, 0), h) /\ HhTimeout \in Nat
      BY <1>2, <2>1, RenumberedFits, SizeAssumption
    <2>3. Fits(t, h) /\ \A i \in DOMAIN t : t[i].n < Limit
      BY <2>1, <2>2, UsableFits DEF HhToLearn, Limit
    <2>4. Has(t, to) => \E i \in At(t, to) : t[i].n < Limit
      BY <2>3 DEF Has, At
    <2> HIDE DEF t
    <2> QED
      BY <1>1, <2>1, <2>3, <2>4, HandledInv DEF h
  <1>13. CASE NjuTo(src, in, to)
    <2> DEFINE t == NjuToLearn(macs, src, in)
               u == Usable(t, Timeout)
    <2>1. switch = "njuTo" /\ Handled(src, in, to, t, Outs(u, in, to))
      BY <1>13 DEF NjuTo
    <2>2. Fits(t, h) /\ Timeout \in Nat
      BY <1>2, <2>1, RenumberedFits, SizeAssumption DEF NjuToLearn
    <2>3. /\ Fits(u, h)
          /\ \A i \in DOMAIN u : u[i].n < Limit /\ \E j \in DOMAIN t : u[i] = t[j]
      BY <2>1, <2>2, UsableFits DEF Limit
    <2>4. Has(u, to) => \E i \in At(t, to) : t[i].n < Limit
      BY <2>3 DEF Has, At
    <2> HIDE DEF t, u
    <2> QED
      BY <1>1, <2>1, <2>2, <2>3, <2>4, HandledInv DEF h
  <1>14. CASE MTo(src, in, to)
    <2> DEFINE t == Usable(macs, Timeout)
               u == MToLearn(t, src, in)
    <2>1. switch = "mTo" /\ MToFrame(src, in, to, t) /\ Limit = Timeout
          /\ Timeout \in Nat \ {0}
      BY <1>14, SizeAssumption DEF MTo, Limit
    <2>2. Fits(t, heard) /\ \A i \in DOMAIN t : t[i].n < Limit
      BY <2>1, UsableFits DEF SwInv
    <2> HIDE DEF t
    <2>3. CASE heard' = heard /\ out' = {} /\ macs' = t /\ switch' = switch
      BY <2>1, <2>2, <2>3, FS_EmptySet DEF SwInv, SentWhereHeard, Fits
    <2>4. CASE Handled(src, in, to, u, Outs(u, in, to))
      <3>1. Fits(u, h)
        BY <1>1, <2>2, MToLearned DEF h
      <3>2. \A i \in DOMAIN u : u[i].n < Limit
        <4>1. t \in Seq(Entry) /\ DOMAIN t = 1 .. Len(t) /\ Len(t) \in Nat
          BY <2>2 DEF Fits
        <4>2. CASE ~ Has(t, src)
          <5>1. u = Append(t, EntryFor(src, in)) /\ EntryFor(src, in).n = 0
                /\ EntryFor(src, in) \in Entry
            BY <1>1, <4>2 DEF MToLearn, EntryFor, Entry
          <5> HIDE DEF u
          <5> QED
            BY <2>1, <2>2, <4>1, <5>1, AppendProperties
        <4>3. CASE Has(t, src) /\ PortOf(t, src) = in
          BY <2>2, <4>3 DEF MToLearn
        <4>4. CASE Has(t, src) /\ PortOf(t, src) # in
          <5>1. \A i \in DOMAIN t : t[i] \in Entry
            BY <4>1
          <5>2. u = SetN(SetPort(t, src, in), src, 0)
            BY <4>4 DEF MToLearn
          <5>3. DOMAIN u = DOMAIN t
                /\ \A i \in DOMAIN t : u[i].n = IF t[i].mac = src THEN 0 ELSE t[i].n
            BY <5>1, <5>2 DEF SetN, SetPort, Entry
          <5> QED
            BY <2>1, <2>2, <5>3
        <4> QED
          BY <4>2, <4>3, <4>4
      <3>3. Has(u, to) => \E i \in At(u, to) : u[i].n < Limit
        BY <3>2 DEF Has, At
      <3> HIDE DEF u
      <3> QED
        BY <1>1, <2>1, <2>4, <3>1, <3>3, HandledInv DEF h
    <2> QED
      BY <2>1, <2>3, <2>4 DEF MToFrame
  <1> QED
    BY <1>4, <1>5, <1>6, <1>7, <1>8, <1>9, <1>10, <1>11, <1>12, <1>13, <1>14

LEMMA SwTickInv ==
  ASSUME SwInv, SwTick
  PROVE  SwInv'
  <1>1. /\ macs' = [i \in DOMAIN macs |->
                     [macs[i] EXCEPT !.n = IF macs[i].n < Limit THEN macs[i].n + 1 ELSE macs[i].n]]
        /\ out' = {} /\ heard' = heard /\ switch' = switch
    BY DEF SwTick
  <1>2. macs \in Seq(Entry) /\ DOMAIN macs = 1 .. Len(macs) /\ Len(macs) \in Nat
        /\ \A i \in DOMAIN macs : macs[i] \in Entry
    BY DEF SwInv
  <1>3. \A i \in DOMAIN macs : /\ macs'[i] \in Entry
                               /\ macs'[i].mac = macs[i].mac /\ macs'[i].port = macs[i].port
    BY <1>1, <1>2 DEF Entry
  <1>4. macs' \in Seq(Entry) /\ DOMAIN macs' = DOMAIN macs
    BY <1>1, <1>2, <1>3
  <1>5. macs = << >> => macs' = << >>
    BY <1>1, <1>2, <1>4, EmptySeq
  <1>6. Fits(macs, heard) => Fits(macs', heard)
    BY <1>3, <1>4 DEF Fits
  <1> QED
    BY <1>1, <1>4, <1>5, <1>6, QuietInv

\* However many frames come, wherever hosts move and whatever has been evicted or
\* has aged: a frame that goes out by one port goes where its destination was
\* heard last, in every switch but the one that learns for good.
THEOREM FramesFollowTheHosts == SwSpec => []SentWhereHeard
  <1>1. SwInit => SwInv
    BY FS_EmptySet, EmptySeq DEF SwInit, SwInv, SentWhereHeard, Fits
  <1>2. SwInv /\ [SwNext]_swVars => SwInv'
    <2> SUFFICES ASSUME SwInv, [SwNext]_swVars PROVE SwInv'
      OBVIOUS
    <2>1. CASE Frame
      BY <2>1, FrameInv DEF Frame
    <2>2. CASE SwTick
      BY <2>2, SwTickInv
    <2>3. CASE UNCHANGED swVars
      BY <2>3 DEF swVars, SwInv, SentWhereHeard, Fits, At, Limit
    <2> QED
      BY <2>1, <2>2, <2>3 DEF SwNext
  <1>3. SwInv => SentWhereHeard
    BY DEF SwInv
  <1> QED
    BY <1>1, <1>2, <1>3, PTL DEF SwSpec
-----------------------------------------------------------------------------
(***************************************************************************)
(* The least-recently-used tables implement LruTable.  The proof looks at  *)
(* places: no address is twice in a table, so that each has one place, and *)
(* what is done to a table keeps the order of the places of the others.    *)
(***************************************************************************)
Table(t) ==
  t \in Seq(Entry) /\ \A i, j \in DOMAIN t : t[i].mac = t[j].mac => i = j

LEMMA Places ==
  ASSUME NEW t, Table(t)
  PROVE  /\ DOMAIN t = 1 .. Len(t) /\ Len(t) \in Nat
         /\ \A i \in DOMAIN t :
              /\ t[i] \in Entry /\ t[i].mac \in Host /\ t[i].port \in Port /\ t[i].n \in Nat
              /\ Has(t, t[i].mac) /\ Pos(t, t[i].mac) = i
         /\ \A m : Has(t, m) => /\ m \in Host /\ Pos(t, m) \in DOMAIN t
                                /\ t[Pos(t, m)].mac = m
  <1>1. DOMAIN t = 1 .. Len(t) /\ Len(t) \in Nat /\ t \in [1 .. Len(t) -> Entry]
    BY LenProperties DEF Table
  <1>2. \A i \in DOMAIN t :
          t[i] \in Entry /\ t[i].mac \in Host /\ t[i].port \in Port /\ t[i].n \in Nat
    BY <1>1 DEF Entry
  <1>3. \A i \in DOMAIN t : Has(t, t[i].mac) /\ Pos(t, t[i].mac) = i
    <2> TAKE i \in DOMAIN t
    <2>1. At(t, t[i].mac) = {i}
      BY DEF At, Table
    <2> QED
      BY <2>1 DEF Has, Pos
  <1>4. ASSUME NEW m, Has(t, m) PROVE Pos(t, m) \in DOMAIN t /\ t[Pos(t, m)].mac = m
    BY <1>4 DEF Has, Pos, At
  <1> QED
    BY <1>1, <1>2, <1>3, <1>4

\* An address is in a table exactly if it has a place there, and that is its only one.
LEMMA PlaceIs ==
  ASSUME NEW t, Table(t), NEW m, NEW i \in DOMAIN t, t[i].mac = m
  PROVE  Has(t, m) /\ Pos(t, m) = i
  BY Places

-----------------------------------------------------------------------------
\* Entries that are changed in their places, and keep their addresses
LEMMA ChangedPlaces ==
  ASSUME NEW t, Table(t), NEW u \in Seq(Entry), DOMAIN u = DOMAIN t,
         \A i \in DOMAIN t : u[i].mac = t[i].mac
  PROVE  Table(u) /\ \A m : (Has(u, m) <=> Has(t, m)) /\ Pos(u, m) = Pos(t, m)
  <1>1. \A m : At(u, m) = At(t, m)
    BY DEF At
  <1> QED
    BY <1>1 DEF Has, Pos, Table

LEMMA RemovedPlaces ==
  ASSUME NEW t, Table(t), NEW k \in DOMAIN t
  PROVE  LET u == RemoveAt(t, k) IN
         /\ Table(u) /\ Len(u) = Len(t) - 1
         /\ ~ Has(u, t[k].mac)
         /\ \A m : m # t[k].mac =>
              /\ Has(u, m) <=> Has(t, m)
              /\ Has(t, m) =>
                   /\ Pos(u, m) = IF Pos(t, m) < k THEN Pos(t, m) ELSE Pos(t, m) - 1
                   /\ Pos(t, m) # k /\ Pos(t, m) \in Nat
                   /\ u[Pos(u, m)] = t[Pos(t, m)]
  <1> DEFINE u == RemoveAt(t, k)
  <1>1. t \in Seq(Entry) /\ k \in 1 .. Len(t) /\ DOMAIN t = 1 .. Len(t) /\ Len(t) \in Nat
    BY Places DEF Table
  <1>2. /\ u \in Seq(Entry) /\ Len(u) = Len(t) - 1 /\ DOMAIN u = 1 .. Len(t) - 1
        /\ \A i \in 1 .. Len(t) - 1 : u[i] = IF i < k THEN t[i] ELSE t[i + 1]
    BY <1>1, Removed
  <1> HIDE DEF u
  <1>3. Table(u)
    <2> SUFFICES ASSUME NEW i \in DOMAIN u, NEW j \in DOMAIN u, u[i].mac = u[j].mac
                 PROVE  i = j
      BY <1>2 DEF Table
    <2> DEFINE a == IF i < k THEN i ELSE i + 1
               b == IF j < k THEN j ELSE j + 1
    <2>1. a \in DOMAIN t /\ b \in DOMAIN t /\ u[i] = t[a] /\ u[j] = t[b]
      BY <1>1, <1>2
    <2>2. a = b
      <3> HIDE DEF a, b
      <3> QED
        BY <2>1 DEF Table
    <2> QED
      BY <1>1, <1>2, <2>2
  <1>4. ~ Has(u, t[k].mac)
    <2> SUFFICES ASSUME NEW i \in DOMAIN u, u[i].mac = t[k].mac PROVE FALSE
      BY DEF Has, At
    <2> DEFINE a == IF i < k THEN i ELSE i + 1
    <2>1. a \in DOMAIN t /\ u[i] = t[a] /\ a # k
      BY <1>1, <1>2
    <2> HIDE DEF a
    <2> QED
      BY <2>1 DEF Table
  <1>5. ASSUME NEW m, m # t[k].mac, Has(t, m)
        PROVE  /\ Has(u, m) /\ Pos(t, m) # k /\ Pos(t, m) \in Nat
               /\ Pos(u, m) = IF Pos(t, m) < k THEN Pos(t, m) ELSE Pos(t, m) - 1
               /\ u[Pos(u, m)] = t[Pos(t, m)]
    <2> DEFINE p == Pos(t, m)
               i == IF p < k THEN p ELSE p - 1
    <2>1. p \in DOMAIN t /\ t[p].mac = m /\ p # k
      BY <1>5, Places
    <2>2. i \in DOMAIN u /\ u[i] = t[p]
      <3> HIDE DEF p
      <3> QED
        BY <1>1, <1>2, <2>1
    <2>3. Has(u, m) /\ Pos(u, m) = i
      <3> HIDE DEF i
      <3> QED
        BY <1>3, <2>1, <2>2, PlaceIs
    <2> QED
      BY <1>1, <2>1, <2>2, <2>3
  <1>6. ASSUME NEW m, Has(u, m) PROVE Has(t, m)
    <2> DEFINE i == Pos(u, m)
               a == IF i < k THEN i ELSE i + 1
    <2>1. i \in DOMAIN u /\ u[i].mac = m
      BY <1>3, <1>6, Places
    <2>2. a \in DOMAIN t /\ t[a].mac = m
      <3> HIDE DEF i
      <3> QED
        BY <1>1, <1>2, <2>1
    <2> HIDE DEF a
    <2> QED
      BY <2>2 DEF Has, At
  <1>7. QED
    BY <1>2, <1>3, <1>4, <1>5, <1>6 DEF u

LEMMA AppendedPlaces ==
  ASSUME NEW t, Table(t), NEW e \in Entry, ~ Has(t, e.mac)
  PROVE  LET u == Append(t, e) IN
         /\ Table(u) /\ Len(u) = Len(t) + 1
         /\ Has(u, e.mac) /\ Pos(u, e.mac) = Len(t) + 1 /\ u[Len(t) + 1] = e
         /\ \A m : m # e.mac =>
              /\ Has(u, m) <=> Has(t, m)
              /\ Has(t, m) => Pos(u, m) = Pos(t, m) /\ u[Pos(t, m)] = t[Pos(t, m)]
  <1> DEFINE u == Append(t, e)
  <1>1. t \in Seq(Entry) /\ DOMAIN t = 1 .. Len(t) /\ Len(t) \in Nat
    BY Places DEF Table
  <1>2. /\ u \in Seq(Entry) /\ Len(u) = Len(t) + 1 /\ DOMAIN u = 1 .. Len(t) + 1
        /\ \A i \in 1 .. Len(t) : u[i] = t[i]
        /\ u[Len(t) + 1] = e
    BY <1>1, AppendProperties
  <1> HIDE DEF u
  <1>3. \A i \in 1 .. Len(t) : u[i].mac # e.mac
    BY <1>1, <1>2 DEF Has, At
  <1>4. Table(u)
    <2> SUFFICES ASSUME NEW i \in DOMAIN u, NEW j \in DOMAIN u, u[i].mac = u[j].mac
                 PROVE  i = j
      BY <1>2 DEF Table
    <2>1. CASE i \in 1 .. Len(t) /\ j \in 1 .. Len(t)
      BY <1>1, <1>2, <2>1 DEF Table
    <2>2. CASE ~ (i \in 1 .. Len(t) /\ j \in 1 .. Len(t))
      <3>1. (i = Len(t) + 1 \/ i \in 1 .. Len(t)) /\ (j = Len(t) + 1 \/ j \in 1 .. Len(t))
        BY <1>1, <1>2
      <3> QED
        BY <1>2, <1>3, <2>2, <3>1
    <2> QED
      BY <2>1, <2>2
  <1>5. Len(t) + 1 \in DOMAIN u
    BY <1>1, <1>2
  <1>6. Has(u, e.mac) /\ Pos(u, e.mac) = Len(t) + 1
    BY <1>2, <1>4, <1>5, PlaceIs
  <1>7. ASSUME NEW m, Has(t, m)
        PROVE  Has(u, m) /\ Pos(u, m) = Pos(t, m) /\ u[Pos(t, m)] = t[Pos(t, m)]
    <2>1. Pos(t, m) \in DOMAIN t /\ t[Pos(t, m)].mac = m
      BY <1>7, Places
    <2>2. Pos(t, m) \in DOMAIN u /\ u[Pos(t, m)] = t[Pos(t, m)]
      BY <1>1, <1>2, <2>1
    <2> QED
      BY <1>4, <2>1, <2>2, PlaceIs
  <1>8. ASSUME NEW m, m # e.mac, Has(u, m) PROVE Has(t, m)
    <2>1. Pos(u, m) \in DOMAIN u /\ u[Pos(u, m)].mac = m
      BY <1>4, <1>8, Places
    <2>2. Pos(u, m) \in DOMAIN t /\ t[Pos(u, m)].mac = m
      BY <1>1, <1>2, <1>8, <2>1
    <2> QED
      BY <2>2 DEF Has, At
  <1> QED
    BY <1>2, <1>4, <1>6, <1>7, <1>8 DEF u

-----------------------------------------------------------------------------
\* What LruTable sees of a table: tables with the same ports and order are the same.
LEMMA SameState ==
  ASSUME NEW t, NEW u,
         \A m \in Host : /\ Has(u, m) <=> Has(t, m)
                         /\ Has(t, m) => PortOf(u, m) = PortOf(t, m),
         \A a, b \in Host : Has(t, a) /\ Has(t, b) => (Before(u, a, b) <=> Before(t, a, b))
  PROVE  LruTableOf(u) = LruTableOf(t)
  <1>1. [h \in Host |-> IF Has(u, h) THEN PortOf(u, h) ELSE Nowhere]
        = [h \in Host |-> IF Has(t, h) THEN PortOf(t, h) ELSE Nowhere]
    OBVIOUS
  <1>2. {q \in Host \X Host : Has(u, q[1]) /\ Has(u, q[2]) /\ Before(u, q[1], q[2])}
        = {q \in Host \X Host : Has(t, q[1]) /\ Has(t, q[2]) /\ Before(t, q[1], q[2])}
    OBVIOUS
  <1> QED
    BY <1>1, <1>2 DEF LruTableOf

\* The instance has its own copy of Cardinality.
LEMMA SameCardinality == \A S : Lru!Cardinality(S) = Cardinality(S)
  BY DEF Lru!Cardinality, Cardinality

LEMMA KnownOf ==
  ASSUME NEW t, Table(t)
  PROVE  /\ Lru!Known(LruTableOf(t)) = {m \in Host : Has(t, m)}
         /\ Cardinality(Lru!Known(LruTableOf(t))) = Len(t)
  <1>1. \A m \in Host : Has(t, m) => PortOf(t, m) # Nowhere
    BY Places, PortAssumption DEF PortOf
  <1>2. Lru!Known(LruTableOf(t)) = {m \in Host : Has(t, m)}
    BY <1>1 DEF Lru!Known, LruTableOf
  <1> DEFINE known == {m \in Host : Has(t, m)}
             f == [i \in 1 .. Len(t) |-> t[i].mac]
  <1>3. f \in Bijection(1 .. Len(t), known)
    <2>1. f \in [1 .. Len(t) -> known]
      BY Places
    <2>2. \A i, j \in 1 .. Len(t) : f[i] = f[j] => i = j
      BY Places DEF Table
    <2>3. \A m \in known : \E i \in 1 .. Len(t) : f[i] = m
      BY Places
    <2> QED
      BY <2>1, <2>2, <2>3 DEF Bijection, Injection, Surjection, IsInjective
  <1>4. Cardinality(known) = Len(t)
    <2>1. ExistsBijection(1 .. Len(t), known)
      BY <1>3 DEF ExistsBijection
    <2> HIDE DEF known
    <2> QED
      BY <2>1, Places, FS_CountingElements
  <1> QED
    BY <1>2, <1>4

\* A known address gets its port.
LEMMA PutKnown ==
  ASSUME NEW t, Table(t), NEW src \in Host, NEW in \in Port, Has(t, src)
  PROVE  /\ Table(SetPort(t, src, in)) /\ Len(SetPort(t, src, in)) = Len(t)
         /\ LruTableOf(SetPort(t, src, in)) = Lru!Put(LruTableOf(t), src, in)
  <1> DEFINE u == SetPort(t, src, in)
  <1>1. \A i \in DOMAIN t : /\ [t[i] EXCEPT !.port = in] \in Entry
                            /\ [t[i] EXCEPT !.port = in].mac = t[i].mac
                            /\ [t[i] EXCEPT !.port = in].port = in
                            /\ [t[i] EXCEPT !.port = in].n = t[i].n
    BY Places DEF Entry
  <1>2. /\ u \in Seq(Entry) /\ DOMAIN u = DOMAIN t /\ Len(u) = Len(t)
        /\ \A i \in DOMAIN t : /\ u[i].mac = t[i].mac /\ u[i].n = t[i].n
                               /\ u[i].port = IF t[i].mac = src THEN in ELSE t[i].port
    <2>1. /\ DOMAIN u = 1 .. Len(t)
          /\ \A i \in 1 .. Len(t) : u[i] \in Entry
          /\ \A i \in DOMAIN t : /\ u[i].mac = t[i].mac /\ u[i].n = t[i].n
                                 /\ u[i].port = IF t[i].mac = src THEN in ELSE t[i].port
      BY <1>1, Places DEF SetPort
    <2>2. u = [i \in 1 .. Len(t) |-> u[i]]
      BY <2>1 DEF SetPort
    <2> HIDE DEF u
    <2>3. u \in [1 .. Len(t) -> Entry]
      BY <2>1, <2>2
    <2> QED
      BY <2>1, <2>3, Places, SeqDef, LenProperties
  <1> HIDE DEF u
  <1>3. Table(u) /\ \A m : (Has(u, m) <=> Has(t, m)) /\ Pos(u, m) = Pos(t, m)
    BY <1>2, ChangedPlaces
  <1>4. \A m \in Host : Has(t, m) => PortOf(u, m) = IF m = src THEN in ELSE PortOf(t, m)
    BY <1>2, <1>3, Places DEF PortOf
  <1>5. \A a, b \in Host : Has(t, a) /\ Has(t, b) => (Before(u, a, b) <=> Before(t, a, b))
    BY <1>2, <1>3, Places DEF Before
  <1>6. LruTableOf(u).port = [LruTableOf(t).port EXCEPT ![src] = in]
    BY <1>3, <1>4 DEF LruTableOf
  <1>7. LruTableOf(u).older = LruTableOf(t).older
    BY <1>3, <1>5 DEF LruTableOf
  <1>8. LruTableOf(u) = [port |-> LruTableOf(u).port, older |-> LruTableOf(u).older]
    BY DEF LruTableOf
  <1>9. src \in Lru!Known(LruTableOf(t))
    BY KnownOf
  <1>10. LruTableOf(u) = Lru!Put(LruTableOf(t), src, in)
    BY <1>6, <1>7, <1>8, <1>9 DEF Lru!Put, Lru!WithPort
  <1> QED
    BY <1>2, <1>3, <1>10 DEF u

\* An entry appended is used after all others; its age is that of no other, or less.
LEMMA AppendedState ==
  ASSUME NEW t, Table(t), NEW e \in Entry, ~ Has(t, e.mac), switch = "hhLru" => e.n = 0
  PROVE  /\ Table(Append(t, e)) /\ Len(Append(t, e)) = Len(t) + 1
         /\ LruTableOf(Append(t, e))
              = Lru!Youngest(Lru!WithPort(LruTableOf(t), e.mac, e.port), e.mac)
  <1> DEFINE u == Append(t, e)
             m == e.mac
             known == {a \in Host : Has(t, a)}
  <1>1. m \in Host /\ e.port \in Port /\ e.n \in Nat
    BY DEF Entry
  <1>2. /\ Table(u) /\ Len(u) = Len(t) + 1
        /\ Has(u, m) /\ Pos(u, m) = Len(t) + 1 /\ u[Len(t) + 1] = e
        /\ \A a : a # m =>
              /\ Has(u, a) <=> Has(t, a)
              /\ Has(t, a) => Pos(u, a) = Pos(t, a) /\ u[Pos(t, a)] = t[Pos(t, a)]
    BY AppendedPlaces
  <1> HIDE DEF u
  <1>3. \A a \in Host : Has(u, a) <=> Has(t, a) \/ a = m
    BY <1>2
  <1>4. \A a \in Host : Has(t, a) => a # m /\ PortOf(u, a) = PortOf(t, a)
    BY <1>2 DEF PortOf
  <1>5. PortOf(u, m) = e.port
    BY <1>2 DEF PortOf
  <1>6. \A a, b \in Host : Has(t, a) /\ Has(t, b) => (Before(u, a, b) <=> Before(t, a, b))
    BY <1>2 DEF Before
  <1>7. \A a \in Host : Has(t, a) => Before(u, a, m) /\ ~ Before(u, m, a)
    <2> TAKE a \in Host
    <2> HAVE Has(t, a)
    <2>1. /\ Pos(u, a) = Pos(t, a) /\ Pos(u, m) = Len(t) + 1 /\ u[Pos(u, a)].n \in Nat
          /\ u[Pos(u, m)] = e /\ Pos(t, a) \in 1 .. Len(t) /\ Len(t) \in Nat
      BY <1>2, Places
    <2> QED
      BY <1>1, <2>1 DEF Before
  <1>8. ~ Before(u, m, m)
    BY <1>1, <1>2, Places DEF Before
  <1>9. LruTableOf(u).port = [LruTableOf(t).port EXCEPT ![m] = e.port]
    BY <1>1, <1>3, <1>4, <1>5 DEF LruTableOf
  <1> DEFINE o == {q \in LruTableOf(t).older : q[1] # m /\ q[2] # m}
  <1>10. LruTableOf(u).older = o \cup (known \X {m})
    <2>1. \A a, b \in Host : <<a, b>> \in LruTableOf(u).older
                              <=> Has(u, a) /\ Has(u, b) /\ Before(u, a, b)
      BY DEF LruTableOf
    <2>2. \A a, b \in Host : <<a, b>> \in LruTableOf(t).older
                              <=> Has(t, a) /\ Has(t, b) /\ Before(t, a, b)
      BY DEF LruTableOf
    <2>3. LruTableOf(u).older \subseteq Host \X Host /\ LruTableOf(t).older \subseteq Host \X Host
      BY DEF LruTableOf
    <2>4. \A a, b \in Host :
            <<a, b>> \in LruTableOf(u).older <=> <<a, b>> \in o \/ <<a, b>> \in known \X {m}
      BY <1>1, <1>3, <1>4, <1>6, <1>7, <1>8, <2>1, <2>2
    <2>5. o \subseteq Host \X Host /\ known \X {m} \subseteq Host \X Host
      BY <1>1, <2>3
    <2> HIDE DEF o, known
    <2> QED
      BY <2>3, <2>4, <2>5
  <1>11. Lru!Known(Lru!WithPort(LruTableOf(t), m, e.port)) \ {m} = known
    <2>1. \A a \in Host : Has(t, a) => PortOf(t, a) # Nowhere
      BY Places, PortAssumption DEF PortOf
    <2> QED
      BY <1>1, <1>4, <2>1 DEF Lru!Known, Lru!WithPort, LruTableOf
  <1>12. LruTableOf(u) = [port |-> LruTableOf(u).port, older |-> LruTableOf(u).older]
    BY DEF LruTableOf
  <1>13. LruTableOf(u) = Lru!Youngest(Lru!WithPort(LruTableOf(t), m, e.port), m)
    <2> HIDE DEF known
    <2> QED
      BY <1>9, <1>10, <1>11, <1>12 DEF Lru!Youngest, Lru!WithPort
  <1> QED
    BY <1>2, <1>13 DEF u

LEMMA RemovedState ==
  ASSUME NEW t, Table(t), NEW k \in DOMAIN t
  PROVE  LruTableOf(RemoveAt(t, k)) = Lru!Without(LruTableOf(t), t[k].mac)
  <1> DEFINE u == RemoveAt(t, k)
             v == t[k].mac
  <1>1. /\ ~ Has(u, v)
        /\ \A m : m # v =>
             /\ Has(u, m) <=> Has(t, m)
             /\ Has(t, m) =>
                  /\ Pos(u, m) = IF Pos(t, m) < k THEN Pos(t, m) ELSE Pos(t, m) - 1
                  /\ Pos(t, m) # k /\ Pos(t, m) \in Nat
                  /\ u[Pos(u, m)] = t[Pos(t, m)]
    BY RemovedPlaces
  <1>2. v \in Host /\ k \in Nat
    BY Places
  <1> HIDE DEF u, v
  <1>3. \A a \in Host : Has(u, a) <=> Has(t, a) /\ a # v
    BY <1>1
  <1>4. \A a \in Host : Has(u, a) => PortOf(u, a) = PortOf(t, a)
    BY <1>1 DEF PortOf
  <1>5. \A a, b \in Host : Has(u, a) /\ Has(u, b) => (Before(u, a, b) <=> Before(t, a, b))
    <2> TAKE a, b \in Host
    <2> HAVE Has(u, a) /\ Has(u, b)
    <2>1. /\ u[Pos(u, a)] = t[Pos(t, a)] /\ u[Pos(u, b)] = t[Pos(t, b)]
          /\ Pos(u, a) = IF Pos(t, a) < k THEN Pos(t, a) ELSE Pos(t, a) - 1
          /\ Pos(u, b) = IF Pos(t, b) < k THEN Pos(t, b) ELSE Pos(t, b) - 1
          /\ Pos(t, a) # k /\ Pos(t, b) # k /\ Pos(t, a) \in Nat /\ Pos(t, b) \in Nat
      BY <1>1
    <2>2. Pos(u, a) < Pos(u, b) <=> Pos(t, a) < Pos(t, b)
      BY <1>2, <2>1
    <2> QED
      BY <2>1, <2>2 DEF Before
  <1>6. LruTableOf(u).port = [LruTableOf(t).port EXCEPT ![v] = Nowhere]
    BY <1>2, <1>3, <1>4 DEF LruTableOf
  <1>7. LruTableOf(u).older = {q \in LruTableOf(t).older : q[1] # v /\ q[2] # v}
    BY <1>3, <1>5 DEF LruTableOf
  <1>8. LruTableOf(u) = [port |-> LruTableOf(u).port, older |-> LruTableOf(u).older]
    BY DEF LruTableOf
  <1> QED
    BY <1>6, <1>7, <1>8 DEF Lru!Without, u, v

\* The entry that was used before all others is the one that makes room.
LEMMA RoomState ==
  ASSUME NEW t, Table(t), Len(t) = Size, NEW k \in DOMAIN t,
         \A m \in Host : Has(t, m) /\ m # t[k].mac => Before(t, t[k].mac, m)
  PROVE  /\ Table(RemoveAt(t, k)) /\ Len(RemoveAt(t, k)) = Len(t) - 1
         /\ \A m : Has(RemoveAt(t, k), m) => Has(t, m)
         /\ LruTableOf(RemoveAt(t, k)) = Lru!MadeRoom(LruTableOf(t))
  <1> DEFINE v == t[k].mac
             s == LruTableOf(t)
  <1>1. v \in Host /\ Has(t, v) /\ Lru!Known(s) = {m \in Host : Has(t, m)}
        /\ Cardinality(Lru!Known(s)) = Size
    BY KnownOf, Places
  <1>2. \A a, b \in Host : <<a, b>> \in s.older <=> Has(t, a) /\ Has(t, b) /\ Before(t, a, b)
    BY DEF LruTableOf
  <1>3. \A a, b \in Host : Has(t, a) /\ Has(t, b) /\ a # b =>
           ~ (Before(t, a, b) /\ Before(t, b, a))
    <2> TAKE a, b \in Host
    <2> HAVE Has(t, a) /\ Has(t, b) /\ a # b
    <2>1. /\ Pos(t, a) \in Nat /\ Pos(t, b) \in Nat
          /\ t[Pos(t, a)].n \in Nat /\ t[Pos(t, b)].n \in Nat
      BY Places
    <2> QED
      BY <2>1 DEF Before
  <1> HIDE DEF s
  <1>4. \A m \in Lru!Known(s) \ {v} : <<v, m>> \in s.older
    <2> HIDE DEF v
    <2> QED
      BY <1>1, <1>2 DEF v
  <1>5. \A w \in Lru!Known(s) : (\A m \in Lru!Known(s) \ {w} : <<w, m>> \in s.older) => w = v
    <2> SUFFICES ASSUME NEW w \in Lru!Known(s),
                        \A m \in Lru!Known(s) \ {w} : <<w, m>> \in s.older, w # v
                 PROVE  FALSE
      OBVIOUS
    <2> HIDE DEF v
    <2>1. <<w, v>> \in s.older /\ <<v, w>> \in s.older
      BY <1>1, <1>4
    <2> QED
      BY <1>1, <1>2, <1>3, <2>1
  <1>6. Lru!First(s) = v
    <2> HIDE DEF v
    <2> QED
      BY <1>1, <1>4, <1>5 DEF Lru!First
  <1>7. LruTableOf(RemoveAt(t, k)) = Lru!MadeRoom(s)
    <2>1. LruTableOf(RemoveAt(t, k)) = Lru!Without(s, v)
      BY RemovedState DEF s
    <2>2. Lru!MadeRoom(s) = Lru!Without(s, Lru!First(s))
      BY <1>1, SameCardinality DEF Lru!MadeRoom
    <2> HIDE DEF v
    <2> QED
      BY <1>6, <2>1, <2>2
  <1> QED
    BY <1>7, RemovedPlaces DEF s

-----------------------------------------------------------------------------
\* the three programs' learning
LruLearn(t, src, in) ==
  IF switch = "hhLru" THEN HhLruLearn(t, src, in)
  ELSE IF switch = "njuLru" THEN CachePut(t, src, in) ELSE MLruLearn(t, src, in)

\* The entry the programs choose is the one that was used before all others.
LEMMA ChosenFirst ==
  ASSUME NEW t, Table(t), Len(t) = Size
  PROVE  /\ 1 \in DOMAIN t /\ Oldest(t) \in DOMAIN t
         /\ LET k == IF switch = "hhLru" THEN Oldest(t) ELSE 1 IN
            \A m \in Host : Has(t, m) /\ m # t[k].mac => Before(t, t[k].mac, m)
  <1>1. Len(t) \in Nat \ {0} /\ t # << >> /\ t \in Seq(Entry) /\ DOMAIN t = 1 .. Len(t)
    BY SizeAssumption, EmptySeq, Places DEF Table
  <1>2. Oldest(t) \in 1 .. Len(t)
        /\ \A j \in DOMAIN t : t[j].n < t[Oldest(t)].n
                               \/ (t[j].n = t[Oldest(t)].n /\ Oldest(t) <= j)
    BY <1>1, RoomMaker
  <1>3. ASSUME NEW m \in Host, Has(t, m), switch = "hhLru", m # t[Oldest(t)].mac
        PROVE  Before(t, t[Oldest(t)].mac, m)
    <2> DEFINE i == Oldest(t)
               j == Pos(t, m)
    <2>1. i \in DOMAIN t /\ j \in DOMAIN t /\ i # j /\ Pos(t, t[i].mac) = i
          /\ i \in Nat /\ j \in Nat
      BY <1>1, <1>2, <1>3, Places
    <2>2. t[j].n < t[i].n \/ (t[j].n = t[i].n /\ i <= j)
      BY <1>2, <2>1
    <2> HIDE DEF i
    <2> QED
      BY <1>3, <2>1, <2>2 DEF Before, i
  <1>4. ASSUME NEW m \in Host, Has(t, m), switch # "hhLru", m # t[1].mac
        PROVE  Before(t, t[1].mac, m)
    <2>1. 1 \in DOMAIN t /\ Pos(t, t[1].mac) = 1 /\ Pos(t, m) \in 1 .. Len(t) /\ Pos(t, m) # 1
      BY <1>1, <1>4, Places
    <2> QED
      BY <1>1, <1>4, <2>1 DEF Before
  <1> QED
    BY <1>1, <1>2, <1>3, <1>4

LEMMA TailIsRemoved ==
  ASSUME NEW t \in Seq(Entry), Len(t) \in Nat \ {0}
  PROVE  Tail(t) = RemoveAt(t, 1)
  <1>1. t # << >> /\ 1 \in 1 .. Len(t)
    BY EmptySeq
  <1>2. /\ Tail(t) \in Seq(Entry) /\ Len(Tail(t)) = Len(t) - 1
        /\ \A i \in 1 .. Len(t) - 1 : Tail(t)[i] = t[i + 1]
    BY <1>1, HeadTailProperties
  <1>3. /\ RemoveAt(t, 1) \in Seq(Entry) /\ Len(RemoveAt(t, 1)) = Len(t) - 1
        /\ \A i \in 1 .. Len(t) - 1 : RemoveAt(t, 1)[i] = t[i + 1]
    BY <1>1, Removed
  <1> QED
    BY <1>2, <1>3, SeqEqual

\* Learning is what LruTable calls Put, and keeps the table within its size.
LEMMA LearnIsPut ==
  ASSUME NEW t, Table(t), Len(t) <= Size, NEW src \in Host, NEW in \in Port
  PROVE  LET u == LruLearn(t, src, in) IN
         /\ Table(u) /\ Len(u) <= Size
         /\ LruTableOf(u) = Lru!Put(LruTableOf(t), src, in)
  <1>0. Len(t) \in Nat /\ Size \in Nat \ {0} /\ t \in Seq(Entry)
    BY SizeAssumption, Places DEF Table
  <1>1. CASE Has(t, src)
    <2>1. LruLearn(t, src, in) = SetPort(t, src, in)
      BY <1>1 DEF LruLearn, HhLruLearn, CachePut, MLruLearn
    <2> QED
      BY <1>1, <2>1, PutKnown
  <1>2. CASE ~ Has(t, src)
    <2> DEFINE e == EntryFor(src, in)
               k == IF switch = "hhLru" THEN Oldest(t) ELSE 1
               r == IF Len(t) = Size THEN RemoveAt(t, k) ELSE t
    <2>1. e \in Entry /\ e.mac = src /\ e.port = in /\ e.n = 0
      BY DEF EntryFor, Entry
    <2>2. LruLearn(t, src, in) = Append(r, e)
      <3>1. Len(t) = Size => Tail(t) = RemoveAt(t, 1)
        BY <1>0, TailIsRemoved
      <3>2. Len(t) >= Size <=> Len(t) = Size
        BY <1>0
      <3> QED
        BY <1>2, <3>1, <3>2 DEF LruLearn, HhLruLearn, CachePut, RemoveLru, MLruLearn
    <2>3. /\ Table(r) /\ Len(r) + 1 <= Size /\ ~ Has(r, src)
          /\ LruTableOf(r) = Lru!MadeRoom(LruTableOf(t))
      <3>1. CASE Len(t) = Size
        <4>1. k \in DOMAIN t
              /\ \A m \in Host : Has(t, m) /\ m # t[k].mac => Before(t, t[k].mac, m)
          BY <3>1, ChosenFirst
        <4> HIDE DEF k
        <4>2. /\ Table(RemoveAt(t, k)) /\ Len(RemoveAt(t, k)) = Len(t) - 1
              /\ \A m : Has(RemoveAt(t, k), m) => Has(t, m)
              /\ LruTableOf(RemoveAt(t, k)) = Lru!MadeRoom(LruTableOf(t))
          BY <3>1, <4>1, RoomState
        <4> QED
          BY <1>0, <1>2, <3>1, <4>2
      <3>2. CASE Len(t) # Size
        <4>1. Lru!MadeRoom(LruTableOf(t)) = LruTableOf(t)
          BY <3>2, KnownOf, SameCardinality DEF Lru!MadeRoom
        <4> QED
          BY <1>0, <1>2, <3>2, <4>1
      <3> QED
        BY <3>1, <3>2
    <2>4. Lru!Put(LruTableOf(t), src, in)
            = Lru!Youngest(Lru!WithPort(Lru!MadeRoom(LruTableOf(t)), src, in), src)
      <3>1. src \notin Lru!Known(LruTableOf(t))
        BY <1>2, KnownOf
      <3> QED
        BY <3>1 DEF Lru!Put
    <2> HIDE DEF e, r
    <2>5. /\ Table(Append(r, e)) /\ Len(Append(r, e)) = Len(r) + 1
          /\ LruTableOf(Append(r, e)) = Lru!Youngest(Lru!WithPort(LruTableOf(r), src, in), src)
      BY <2>1, <2>3, AppendedState
    <2> QED
      BY <2>2, <2>3, <2>4, <2>5
  <1> QED
    BY <1>1, <1>2

-----------------------------------------------------------------------------
\* Every entry is a frame older: none is used before another that was not, and
\* none was used now.
LEMMA AgedState ==
  ASSUME NEW t, Table(t), switch = "hhLru"
  PROVE  /\ Table(Aged(t)) /\ Len(Aged(t)) = Len(t)
         /\ \A i \in DOMAIN Aged(t) : Aged(t)[i].n > 0
         /\ LruTableOf(Aged(t)) = LruTableOf(t)
  <1> DEFINE u == Aged(t)
  <1>1. \A i \in DOMAIN t : \A n \in Nat :
          /\ [t[i] EXCEPT !.n = n] \in Entry
          /\ [t[i] EXCEPT !.n = n].mac = t[i].mac
          /\ [t[i] EXCEPT !.n = n].port = t[i].port
          /\ [t[i] EXCEPT !.n = n].n = n
    <2>1. \A e \in Entry : \A n \in Nat :
            /\ [e EXCEPT !.n = n] \in Entry
            /\ [e EXCEPT !.n = n].mac = e.mac
            /\ [e EXCEPT !.n = n].port = e.port
            /\ [e EXCEPT !.n = n].n = n
      BY DEF Entry
    <2>2. \A i \in DOMAIN t : t[i] \in Entry
      BY Places
    <2> QED
      BY <2>1, <2>2
  <1>2. DOMAIN u = DOMAIN t /\ \A i \in DOMAIN t : u[i] = [t[i] EXCEPT !.n = t[i].n + 1]
    BY DEF Aged
  <1>3. \A i \in DOMAIN t : /\ u[i] \in Entry /\ u[i].mac = t[i].mac /\ u[i].port = t[i].port
                            /\ u[i].n = t[i].n + 1
    <2> TAKE i \in DOMAIN t
    <2> DEFINE n == t[i].n + 1
    <2>1. n \in Nat /\ u[i] = [t[i] EXCEPT !.n = n]
      BY <1>2, Places
    <2> HIDE DEF n, u
    <2>2. /\ u[i] \in Entry /\ u[i].mac = t[i].mac /\ u[i].port = t[i].port /\ u[i].n = n
      BY <1>1, <2>1
    <2> QED
      BY <2>2 DEF n
  <1>4. u = [i \in 1 .. Len(t) |-> u[i]]
    BY Places DEF Aged
  <1> HIDE DEF u
  <1>5. u \in Seq(Entry) /\ Len(u) = Len(t)
    <2>1. u \in [1 .. Len(t) -> Entry]
      BY <1>3, <1>4, Places
    <2> QED
      BY <2>1, Places, SeqDef, LenProperties
  <1>6. Table(u) /\ \A m : (Has(u, m) <=> Has(t, m)) /\ Pos(u, m) = Pos(t, m)
    BY <1>2, <1>3, <1>5, ChangedPlaces
  <1>7. \A m \in Host : Has(t, m) => PortOf(u, m) = PortOf(t, m)
    BY <1>3, <1>6, Places DEF PortOf
  <1>8. \A a, b \in Host : Has(t, a) /\ Has(t, b) => (Before(u, a, b) <=> Before(t, a, b))
    <2> TAKE a, b \in Host
    <2> HAVE Has(t, a) /\ Has(t, b)
    <2> DEFINE i == Pos(t, a)
               j == Pos(t, b)
    <2>1. /\ i \in DOMAIN t /\ j \in DOMAIN t /\ Pos(u, a) = i /\ Pos(u, b) = j
          /\ t[i].n \in Nat /\ t[j].n \in Nat
      BY <1>6, Places
    <2>2. u[i].n = t[i].n + 1 /\ u[j].n = t[j].n + 1
      BY <1>3, <2>1
    <2> QED
      BY <2>1, <2>2 DEF Before
  <1>9. LruTableOf(u) = LruTableOf(t)
    BY <1>6, <1>7, <1>8, SameState
  <1>10. \A i \in DOMAIN u : u[i].n > 0
    BY <1>2, <1>3, Places
  <1> QED
    BY <1>5, <1>6, <1>9, <1>10 DEF u

\* The age of the destination is set to zero, below that of all others.
LEMMA ResetIsTouch ==
  ASSUME NEW t, Table(t), switch = "hhLru", \A i \in DOMAIN t : t[i].n > 0,
         NEW to \in Host \cup {Mine, Broadcast}
  PROVE  /\ Table(SetN(t, to, 0)) /\ Len(SetN(t, to, 0)) = Len(t)
         /\ LruTableOf(SetN(t, to, 0)) = Lru!Touch(LruTableOf(t), to)
  <1> DEFINE u == SetN(t, to, 0)
  <1>1. \A i \in DOMAIN t : /\ [t[i] EXCEPT !.n = 0] \in Entry
                            /\ [t[i] EXCEPT !.n = 0].mac = t[i].mac
                            /\ [t[i] EXCEPT !.n = 0].port = t[i].port
                            /\ [t[i] EXCEPT !.n = 0].n = 0
    BY Places DEF Entry
  <1>2. /\ DOMAIN u = DOMAIN t
        /\ \A i \in DOMAIN t : /\ u[i] \in Entry /\ u[i].mac = t[i].mac /\ u[i].port = t[i].port
                               /\ u[i].n = IF t[i].mac = to THEN 0 ELSE t[i].n
    BY <1>1, Places DEF SetN
  <1>3. u = [i \in 1 .. Len(t) |-> u[i]]
    BY Places DEF SetN
  <1> HIDE DEF u
  <1>4. u \in Seq(Entry) /\ Len(u) = Len(t)
    <2>1. u \in [1 .. Len(t) -> Entry]
      BY <1>2, <1>3, Places
    <2> QED
      BY <2>1, Places, SeqDef, LenProperties
  <1>5. Table(u) /\ \A m : (Has(u, m) <=> Has(t, m)) /\ Pos(u, m) = Pos(t, m)
    BY <1>2, <1>4, ChangedPlaces
  <1>6. \A m \in Host : Has(t, m) => PortOf(u, m) = PortOf(t, m)
    BY <1>2, <1>5, Places DEF PortOf
  <1>7. \A a, b \in Host : Has(t, a) /\ Has(t, b) =>
          (Before(u, a, b) <=> IF a = to THEN FALSE ELSE b = to \/ Before(t, a, b))
    <2> TAKE a, b \in Host
    <2> HAVE Has(t, a) /\ Has(t, b)
    <2> DEFINE i == Pos(t, a)
               j == Pos(t, b)
    <2>1. /\ i \in DOMAIN t /\ j \in DOMAIN t /\ Pos(u, a) = i /\ Pos(u, b) = j
          /\ t[i].mac = a /\ t[j].mac = b /\ i \in Nat /\ j \in Nat
          /\ t[i].n \in Nat /\ t[j].n \in Nat /\ t[i].n > 0 /\ t[j].n > 0
      BY <1>5, Places
    <2>2. /\ u[i].n = IF a = to THEN 0 ELSE t[i].n
          /\ u[j].n = IF b = to THEN 0 ELSE t[j].n
          /\ a = b <=> i = j
      BY <1>2, <2>1 DEF Table
    <2>3. Before(u, a, b) <=> u[j].n < u[i].n \/ (u[j].n = u[i].n /\ i < j)
      BY <2>1 DEF Before
    <2>4. Before(t, a, b) <=> t[j].n < t[i].n \/ (t[j].n = t[i].n /\ i < j)
      BY DEF Before
    <2> HIDE DEF i, j
    <2>5. CASE a = to
      BY <2>1, <2>2, <2>3, <2>5
    <2>6. CASE a # to /\ b = to
      BY <2>1, <2>2, <2>3, <2>6
    <2>7. CASE a # to /\ b # to
      BY <2>2, <2>3, <2>4, <2>7
    <2> QED
      BY <2>5, <2>6, <2>7
  <1>8. CASE ~ Has(t, to)
    <2>1. LruTableOf(u) = LruTableOf(t)
      BY <1>5, <1>6, <1>7, <1>8, SameState
    <2>2. to \notin Lru!Known(LruTableOf(t))
      BY <1>8, KnownOf
    <2> QED
      BY <1>4, <1>5, <2>1, <2>2 DEF Lru!Touch, u
  <1>9. CASE Has(t, to)
    <2> DEFINE known == {m \in Host : Has(t, m)}
    <2>1. to \in Host /\ to \in known /\ Lru!Known(LruTableOf(t)) = known
      BY <1>9, Places, KnownOf
    <2>2. LruTableOf(u).port = LruTableOf(t).port
      BY <1>5, <1>6 DEF LruTableOf
    <2>3. LruTableOf(u).older = {q \in LruTableOf(t).older : q[1] # to /\ q[2] # to}
                                 \cup ((known \ {to}) \X {to})
      <3>1. \A a, b \in Host : <<a, b>> \in LruTableOf(u).older
                                <=> Has(t, a) /\ Has(t, b) /\ Before(u, a, b)
        BY <1>5 DEF LruTableOf
      <3>2. \A a, b \in Host : <<a, b>> \in LruTableOf(t).older
                                <=> Has(t, a) /\ Has(t, b) /\ Before(t, a, b)
        BY DEF LruTableOf
      <3>3. LruTableOf(u).older \subseteq Host \X Host
            /\ LruTableOf(t).older \subseteq Host \X Host
        BY DEF LruTableOf
      <3> QED
        BY <1>7, <1>9, <2>1, <3>1, <3>2, <3>3
    <2>4. LruTableOf(u) = [port |-> LruTableOf(u).port, older |-> LruTableOf(u).older]
      BY DEF LruTableOf
    <2> HIDE DEF known
    <2>5. LruTableOf(u) = Lru!Youngest(LruTableOf(t), to)
      BY <2>1, <2>2, <2>3, <2>4 DEF Lru!Youngest
    <2>6. Lru!Touch(LruTableOf(t), to) = Lru!Youngest(LruTableOf(t), to)
      BY <2>1 DEF Lru!Touch
    <2> QED
      BY <1>4, <1>5, <2>5, <2>6 DEF u
  <1> QED
    BY <1>8, <1>9

\* The entry of the destination goes to the end.
LEMMA ToEndIsTouch ==
  ASSUME NEW t, Table(t), switch # "hhLru", NEW to \in Host \cup {Mine, Broadcast}
  PROVE  /\ Table(ToEnd(t, to)) /\ Len(ToEnd(t, to)) = Len(t)
         /\ LruTableOf(ToEnd(t, to)) = Lru!Touch(LruTableOf(t), to)
  <1>1. CASE ~ Has(t, to)
    <2>1. to \notin Lru!Known(LruTableOf(t))
      BY <1>1, KnownOf
    <2> QED
      BY <1>1, <2>1 DEF Lru!Touch, ToEnd
  <1>2. CASE Has(t, to)
    <2> DEFINE k == Pos(t, to)
               e == t[k]
               r == RemoveAt(t, k)
               s == LruTableOf(t)
    <2>1. k \in DOMAIN t /\ e \in Entry /\ e.mac = to /\ to \in Host /\ e.port \in Port
      BY <1>2, Places
    <2>2. ToEnd(t, to) = Append(r, e)
      BY <1>2 DEF ToEnd
    <2>3. s.port[to] = e.port /\ s.port \in [Host -> Port \cup {Nowhere}]
      BY <1>2, <2>1, Places DEF LruTableOf, PortOf
    <2>4. Len(t) \in Nat
      BY Places
    <2> HIDE DEF k
    <2>5. /\ Table(r) /\ Len(r) = Len(t) - 1 /\ ~ Has(r, to)
          /\ LruTableOf(r) = Lru!Without(s, to)
      BY <2>1, RemovedPlaces, RemovedState
    <2> HIDE DEF e, r, s
    <2>6. /\ Table(Append(r, e)) /\ Len(Append(r, e)) = Len(r) + 1
          /\ LruTableOf(Append(r, e)) = Lru!Youngest(Lru!WithPort(Lru!Without(s, to), to, e.port), to)
      BY <2>1, <2>5, AppendedState
    <2>7. Lru!Youngest(Lru!WithPort(Lru!Without(s, to), to, e.port), to) = Lru!Youngest(s, to)
      <3> DEFINE w == Lru!WithPort(Lru!Without(s, to), to, e.port)
      <3>1. w.port = s.port
        BY <2>1, <2>3 DEF Lru!WithPort, Lru!Without
      <3>2. w.older = {q \in s.older : q[1] # to /\ q[2] # to}
        BY DEF Lru!WithPort, Lru!Without
      <3>3. Lru!Known(w) = Lru!Known(s)
        BY <3>1 DEF Lru!Known
      <3> HIDE DEF w
      <3>4. {q \in w.older : q[1] # to /\ q[2] # to} = {q \in s.older : q[1] # to /\ q[2] # to}
        BY <3>2
      <3>5. Lru!Youngest(w, to) = Lru!Youngest(s, to)
        BY <3>1, <3>3, <3>4 DEF Lru!Youngest
      <3> QED
        BY <3>5 DEF w
    <2>8. Lru!Touch(s, to) = Lru!Youngest(s, to)
      BY <1>2, <2>1, KnownOf DEF Lru!Touch, s
    <2> QED
      BY <2>2, <2>4, <2>5, <2>6, <2>7, <2>8 DEF s
  <1> QED
    BY <1>1, <1>2

-----------------------------------------------------------------------------
LruInv == WithLru => Table(macs) /\ Len(macs) <= Size

\* After an address was put it has its port, whatever is looked up.
LEMMA PortPut ==
  ASSUME NEW t, NEW src \in Host, NEW in \in Port, NEW to
  PROVE  Lru!Touch(Lru!Put(LruTableOf(t), src, in), to).port[src] = in
  <1> DEFINE s == LruTableOf(t)
  <1>1. DOMAIN s.port = Host
    BY DEF LruTableOf
  <1> HIDE DEF s
  <1>2. DOMAIN Lru!MadeRoom(s).port = Host
    BY <1>1 DEF Lru!MadeRoom, Lru!Without
  <1>3. Lru!Put(s, src, in).port[src] = in
    <2>1. CASE src \in Lru!Known(s)
      BY <1>1, <2>1 DEF Lru!Put, Lru!WithPort
    <2>2. CASE src \notin Lru!Known(s)
      BY <1>2, <2>2 DEF Lru!Put, Lru!WithPort, Lru!Youngest
    <2> QED
      BY <2>1, <2>2
  <1>4. Lru!Touch(Lru!Put(s, src, in), to).port = Lru!Put(s, src, in).port
    BY DEF Lru!Touch, Lru!Youngest
  <1> QED
    BY <1>3, <1>4 DEF s

\* The state LruTable is looked at in, after a step
LEMMA NextState ==
  ASSUME switch' = switch
  PROVE  LruTableOf(macs)' = LruTableOf(macs') /\ LruTableOf(<< >>)' = LruTableOf(<< >>)
  BY DEF LruTableOf, Before

\* A frame of one of the three programs is a step of LruTable.
LEMMA FrameIsStep ==
  ASSUME LruInv, WithLru, switch' = switch,
         NEW src \in Host, NEW in \in Port, NEW to \in Host \cup {Mine, Broadcast},
         dst' = to, Table(macs'), Len(macs') <= Size,
         LruTableOf(macs') = Lru!Touch(Lru!Put(LruTableOf(macs), src, in), to)
  PROVE  LruInv' /\ Lru!Next
  <1>1. WithLru'
    BY DEF WithLru
  <1>2. LruTableOf(IF WithLru THEN macs ELSE << >>)' = LruTableOf(macs')
        /\ LruTableOf(IF WithLru THEN macs ELSE << >>) = LruTableOf(macs)
        /\ (IF WithLru THEN dst ELSE Broadcast)' = to
    BY <1>1, NextState
  <1>3. LruTableOf(macs').port[src] = in
    BY PortPut
  <1>4. Lru!PutAndLookUp(src, in)
    BY <1>2, <1>3 DEF Lru!PutAndLookUp
  <1>5. LruInv'
    BY DEF LruInv, Table
  <1> QED
    BY <1>4, <1>5 DEF Lru!Next

\* The other programs look to LruTable as if nothing happened.
LEMMA OthersStand ==
  ASSUME ~ WithLru, switch' = switch
  PROVE  /\ LruInv'
         /\ UNCHANGED << LruTableOf(IF WithLru THEN macs ELSE << >>),
                         IF WithLru THEN dst ELSE Broadcast >>
  <1>1. ~ WithLru'
    BY DEF WithLru
  <1> QED
    BY <1>1, NextState DEF LruInv

LEMMA FrameIsLruStep ==
  ASSUME LruInv, NEW src \in Host, NEW in \in HostPort, NEW to \in Host \cup {Mine, Broadcast},
         \/ HhSwitch(src, in, to) \/ NjuSwitch(src, in, to) \/ MSwitch(src, in, to)
         \/ NjuHub(src, in, to) \/ MHub(src, in, to)
         \/ HhLru(src, in, to) \/ NjuLru(src, in, to) \/ MLru(src, in, to)
         \/ HhTraffic(src, in, to) \/ NjuTraffic(src, in, to) \/ MTraffic(src, in, to)
         \/ HhTo(src, in, to) \/ NjuTo(src, in, to) \/ MTo(src, in, to)
  PROVE  /\ LruInv'
         /\ \/ Lru!Next
            \/ UNCHANGED << LruTableOf(IF WithLru THEN macs ELSE << >>),
                            IF WithLru THEN dst ELSE Broadcast >>
  <1>1. in \in Port /\ switch' = switch
    BY PortAssumption
       DEF HhSwitch, NjuSwitch, MSwitch, NjuHub, MHub, HhLru, NjuLru, MLru, HhTraffic, NjuTraffic,
           MTraffic, HhTo, NjuTo, MTo, MToFrame, Handled, Unseen
  <1>2. CASE ~ WithLru
    BY <1>1, <1>2, OthersStand
  <1>3. CASE WithLru
    <2> DEFINE t == LruLearn(macs, src, in)
    <2>1. Table(macs) /\ Len(macs) <= Size
      BY <1>3 DEF LruInv
    <2>2. /\ Table(t) /\ Len(t) <= Size
          /\ LruTableOf(t) = Lru!Put(LruTableOf(macs), src, in)
      BY <1>1, <2>1, LearnIsPut
    <2>3. CASE HhLru(src, in, to)
      <3> DEFINE a == Aged(t)
                 u == SetN(a, to, 0)
      <3>1. switch = "hhLru" /\ macs' = u /\ dst' = to
        BY <2>3 DEF HhLru, Handled, LruLearn
      <3> HIDE DEF t
      <3>2. /\ Table(a) /\ Len(a) = Len(t) /\ \A i \in DOMAIN a : a[i].n > 0
            /\ LruTableOf(a) = LruTableOf(t)
        BY <2>2, <3>1, AgedState
      <3> HIDE DEF a
      <3>3. /\ Table(u) /\ Len(u) = Len(a)
            /\ LruTableOf(u) = Lru!Touch(LruTableOf(a), to)
        BY <3>1, <3>2, ResetIsTouch
      <3> HIDE DEF u
      <3>4. /\ Table(macs') /\ Len(macs') <= Size
            /\ LruTableOf(macs') = Lru!Touch(Lru!Put(LruTableOf(macs), src, in), to)
        BY <2>2, <3>1, <3>2, <3>3
      <3> QED
        BY <1>1, <1>3, <3>1, <3>4, FrameIsStep
    <2>4. ASSUME switch # "hhLru", macs' = ToEnd(t, to), dst' = to
          PROVE  LruInv' /\ Lru!Next
      <3> DEFINE u == ToEnd(t, to)
      <3> HIDE DEF t
      <3>1. /\ Table(u) /\ Len(u) = Len(t)
            /\ LruTableOf(u) = Lru!Touch(LruTableOf(t), to)
        BY <2>2, <2>4, ToEndIsTouch
      <3> HIDE DEF u
      <3>2. /\ Table(macs') /\ Len(macs') <= Size
            /\ LruTableOf(macs') = Lru!Touch(Lru!Put(LruTableOf(macs), src, in), to)
        BY <2>2, <2>4, <3>1 DEF u
      <3> QED
        BY <1>1, <1>3, <2>4, <3>2, FrameIsStep
    <2>5. CASE NjuLru(src, in, to)
      <3>1. switch # "hhLru" /\ macs' = ToEnd(t, to) /\ dst' = to
        BY <2>5 DEF NjuLru, CacheGet, Handled, LruLearn
      <3> QED
        BY <2>4, <3>1
    <2>6. CASE MLru(src, in, to)
      <3>1. CASE Unseen(to)
        <4>1. macs' = macs /\ dst' = to /\ to = Mine
          BY <3>1 DEF Unseen
        <4>2. WithLru'
          BY <1>1, <1>3 DEF WithLru
        <4>3. /\ LruTableOf(IF WithLru THEN macs ELSE << >>)'
                   = LruTableOf(IF WithLru THEN macs ELSE << >>)
              /\ (IF WithLru THEN dst ELSE Broadcast)' = to
          BY <1>1, <1>3, <4>1, <4>2, NextState
        <4>4. Lru!Ignore
          BY <4>1, <4>3 DEF Lru!Ignore
        <4> QED
          BY <2>1, <4>1, <4>4 DEF LruInv, Lru!Next, Table
      <3>2. CASE ~ Unseen(to)
        <4>1. switch # "hhLru" /\ macs' = ToEnd(t, to) /\ dst' = to
          BY <2>6, <3>2 DEF MLru, MLruHit, Handled, LruLearn
        <4> QED
          BY <2>4, <4>1
      <3> QED
        BY <3>1, <3>2
    <2> QED
      BY <1>3, <2>3, <2>5, <2>6
         DEF WithLru, HhSwitch, NjuSwitch, MSwitch, NjuHub, MHub, HhTraffic, NjuTraffic,
             MTraffic, HhTo, NjuTo, MTo
  <1> QED
    BY <1>2, <1>3

\* Each program with a least-recently-used table does in every step what the abstract
\* table does: for any hosts, ports and size, the entry that makes room is the one
\* that was entered or looked up before all others (myswitch_lru.py of the three
\* collections).
THEOREM LruIsImplemented == SwSpec => ImplementsLru
  <1>1. SwInit => LruInv /\ Lru!Init
    <2> SUFFICES ASSUME SwInit PROVE LruInv /\ Lru!Init
      OBVIOUS
    <2>1. macs = << >> /\ dst = Broadcast /\ Table(<< >>) /\ Len(<< >>) <= Size
      BY SizeAssumption DEF SwInit, Table
    <2>2. LruTableOf(<< >>) = [port |-> [m \in Host |-> Nowhere], older |-> {}]
      <3>1. \A m : ~ Has(<< >>, m)
        BY DEF Has, At
      <3> QED
        BY <3>1 DEF LruTableOf
    <2>3. LruTableOf(IF WithLru THEN macs ELSE << >>) = LruTableOf(<< >>)
          /\ (IF WithLru THEN dst ELSE Broadcast) = Broadcast
      BY <2>1
    <2> QED
      BY <2>1, <2>2, <2>3 DEF LruInv, Lru!Init
  <1>2. LruInv /\ [SwNext]_swVars =>
          /\ LruInv'
          /\ [Lru!Next]_<< LruTableOf(IF WithLru THEN macs ELSE << >>),
                           IF WithLru THEN dst ELSE Broadcast >>
    <2> SUFFICES ASSUME LruInv, [SwNext]_swVars
                 PROVE  /\ LruInv'
                        /\ \/ Lru!Next
                           \/ UNCHANGED << LruTableOf(IF WithLru THEN macs ELSE << >>),
                                           IF WithLru THEN dst ELSE Broadcast >>
      OBVIOUS
    <2>1. CASE Frame
      BY <2>1, FrameIsLruStep DEF Frame
    <2>2. CASE SwTick
      BY <2>2, OthersStand DEF SwTick, WithLru
    <2>3. CASE UNCHANGED swVars
      <3>1. UNCHANGED <<switch, macs, dst>>
        BY <2>3 DEF swVars
      <3>2. WithLru' = WithLru
        BY <3>1 DEF WithLru
      <3> QED
        BY <3>1, <3>2, NextState DEF LruInv, Table
    <2> QED
      BY <2>1, <2>2, <2>3 DEF SwNext
  <1> QED
    BY <1>1, <1>2, PTL DEF SwSpec, ImplementsLru, Lru!Spec
=============================================================================
