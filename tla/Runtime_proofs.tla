--------------------------- MODULE Runtime_proofs ----------------------------
(***************************************************************************)
(* Theorems about what the framework runs: NetThreads, for any devices and *)
(* any number of user threads, with or without an application, SIGINT and  *)
(* timeouts; ScenarioRun, for any devices, scenarios and timeout; and the  *)
(* Simulator, for any names, any topologies in files and any packets.      *)
(***************************************************************************)
EXTENDS NetThreads, ScenarioRun, Simulator, FiniteSetTheorems, SequenceTheorems, TLAPS

(***************************************************************************)
(* The threads.  The inductive invariant CoreInv says in which order the   *)
(* process starts and ends; the balance of frames rests on it.             *)
(***************************************************************************)
QueueItem == [dev : Devs, n : Nat] \cup {Dummy}

\* The ranges of the variables
Shape ==
  /\ running \in BOOLEAN /\ netobj \in BOOLEAN /\ sigint \in BOOLEAN /\ early \in BOOLEAN
  /\ built \in BuiltTo
  /\ pktqueue \in Seq(QueueItem)
  /\ lock \in Users \cup {NoOne}
  /\ user \in [Users -> UserAt]
  /\ item \in [Users -> QueueItem]
  /\ rx \in [Devs -> RxAt]
  /\ app \in AppAt
  /\ caller \in [Callers -> CallAt]
  /\ captured \in [Devs -> Nat] /\ closes \in [Devs -> Nat]
  /\ given \in [Devs -> Nat] /\ skipped \in [Devs -> Nat]

Spawned == \A d \in Devs : rx[d] # "new"

\* The network runs no earlier than its construction says; the threads are started
\* after that, the network object is assigned when they are, and user code runs
\* then.  SIGINT during the construction ends it or is early; after any other the
\* network stays down, and what is in the queue waits for the user code.
Phases ==
  /\ running \/ (\E d \in Devs : rx[d] # "new") \/ netobj => built = "running"
  /\ netobj => Spawned
  /\ ~ netobj => lock = NoOne /\ \A u \in Users : user[u] = "start"
  /\ sigint => built \notin {"no", "handler"}
  /\ sigint /\ ~ early => ~ running /\ built # "queue"
  /\ sigint /\ ~ early /\ ~ netobj /\ built = "running" => pktqueue # << >>

\* Devices are closed after their threads have been joined.
Closing ==
  /\ NoReceiveAfterClose
  /\ \A c \in Callers : caller[c] = "close" => Joined

CoreInv == Shape /\ Phases /\ Closing /\ SigintWakesUser

-----------------------------------------------------------------------------
LEMMA DummyIsItem == Dummy \in QueueItem
  BY DEF QueueItem

LEMMA WakeUpWakes ==
  ASSUME pktqueue \in Seq(QueueItem)
  PROVE  WakeUpItem \in Seq(QueueItem) /\ WakeUpItem # << >>
  BY DummyIsItem, AppendProperties DEF WakeUpItem

LEMMA QueuedIsQueue ==
  ASSUME pktqueue \in Seq(QueueItem), NEW d \in Devs, NEW n \in Nat
  PROVE  LET f == [dev |-> d, n |-> n]
         IN  Queued(f) \in Seq(QueueItem) /\ Queued(f) # << >>
  <1>1. [dev |-> d, n |-> n] \in QueueItem
    BY DEF QueueItem
  <1>2. QED
    BY <1>1, AppendProperties DEF Queued

LEMMA ReceiveCounts ==
  ASSUME given \in [Devs -> Nat], skipped \in [Devs -> Nat], item \in [Users -> QueueItem],
         NEW u \in Users, Receive(u)
  PROVE  given' \in [Devs -> Nat] /\ skipped' \in [Devs -> Nat]
  <1>1. CASE UNCHANGED <<given, skipped>>
    BY <1>1
  <1>2. CASE item[u] # Dummy
    <2>1. PICK d \in Devs : item[u].dev = d
      BY <1>2 DEF QueueItem
    <2>2. CASE given' = [given EXCEPT ![d] = given[d] + 1] /\ skipped' = skipped
      BY <2>2
    <2>3. CASE skipped' = [skipped EXCEPT ![d] = skipped[d] + 1] /\ given' = given
      BY <2>3
    <2>4. QED
      BY <1>1, <2>1, <2>2, <2>3 DEF Receive
  <1>3. QED
    BY <1>1, <1>2 DEF Receive

LEMMA CoreInit == NetInit => CoreInv
  <1> SUFFICES ASSUME NetInit PROVE CoreInv
    OBVIOUS
  <1>1. Shape
    <2>1. pktqueue \in Seq(QueueItem) /\ app \in AppAt
      BY DEF NetInit, AppAt
    <2>2. item \in [Users -> QueueItem] /\ user \in [Users -> UserAt] /\ rx \in [Devs -> RxAt]
      BY DummyIsItem DEF NetInit, UserAt, RxAt
    <2>3. caller \in [Callers -> CallAt]
      BY DEF NetInit, CallAt
    <2>4. QED
      BY <2>1, <2>2, <2>3 DEF NetInit, Shape, BuiltTo
  <1>2. Phases /\ Closing /\ SigintWakesUser
    BY DevsAssumption
    DEF NetInit, Spawned, Phases, Closing, SigintWakesUser, NoReceiveAfterClose
  <1>3. QED
    BY <1>1, <1>2 DEF CoreInv

LEMMA CoreStep == CoreInv /\ [NetNext]_netVars => CoreInv'
  <1> SUFFICES ASSUME CoreInv, [NetNext]_netVars PROVE CoreInv'
    OBVIOUS
  <1> USE UsersAssumption, DevsAssumption
      DEF CoreInv, Shape, Spawned, BuiltTo, startVars, Phases, Closing, SigintWakesUser,
          NoReceiveAfterClose, Joined, QueueItem, UserAt, RxAt, AppAt, CallAt, Callers,
          queueVars, userVars, rxVars, appVars, shutVars
  <1>1. CASE PassBarrier
    BY <1>1 DEF PassBarrier
  <1>2. CASE InstallHandler \/ MakeQueue \/ ConstructionRaises \/ InterruptConstruction
    <2>1. CASE InstallHandler
      BY <2>1 DEF InstallHandler
    <2>2. CASE MakeQueue
      BY <2>2 DEF MakeQueue
    <2>3. CASE ConstructionRaises
      BY <2>3 DEF ConstructionRaises
    <2>4. CASE InterruptConstruction
      BY <2>4 DEF InterruptConstruction
    <2>5. QED
      BY <1>2, <2>1, <2>2, <2>3, <2>4
  <1>3. CASE StartRunning \/ StartUser
    <2>1. CASE StartRunning
      BY <2>1 DEF StartRunning
    <2>2. CASE StartUser
      BY <2>2 DEF StartUser
    <2>3. QED
      BY <1>3, <2>1, <2>2
  <1>4. ASSUME NEW d \in Devs, Spawn(d) PROVE CoreInv'
    BY <1>4 DEF Spawn
  <1>5. ASSUME NEW u \in Users, UserStep(u) PROVE CoreInv'
    <2>1. CASE EnterGet(u)
      BY <2>1 DEF EnterGet
    <2>2. CASE TakeItem(u)
      <3>1. Head(pktqueue) \in QueueItem /\ Tail(pktqueue) \in Seq(QueueItem)
        BY <2>2, HeadTailProperties DEF TakeItem
      <3>2. QED
        BY <2>2, <3>1 DEF TakeItem, Taken
    <2>3. CASE WaitForItem(u)
      BY <2>3 DEF WaitForItem
    <2>4. CASE WakeUp(u)
      BY <2>4 DEF WakeUp
    <2>5. CASE TimeOut(u)
      BY <2>5 DEF TimeOut
    <2>6. CASE ReceiveShutdown(u)
      BY <2>6 DEF ReceiveShutdown, RaisesShutdown
    <2>7. CASE Receive(u)
      <3>1. given' \in [Devs -> Nat] /\ skipped' \in [Devs -> Nat]
        BY <2>7, ReceiveCounts
      <3>2. running /\ user' = [user EXCEPT ![u] = "code"]
        BY <2>7 DEF Receive, RaisesShutdown
      <3>3. UNCHANGED <<running, queueVars, item, rxVars, appVars, shutVars, sigint>>
        BY <2>7 DEF Receive
      <3>4. netobj
        BY <2>7 DEF Receive
      <3>5. QED
        BY <3>1, <3>2, <3>3, <3>4
    <2>8. CASE LeaveUserCode(u)
      BY <2>8 DEF LeaveUserCode
    <2>9. QED
      BY <1>5, <2>1, <2>2, <2>3, <2>4, <2>5, <2>6, <2>7, <2>8 DEF UserStep
  <1>6. ASSUME NEW u \in Users, LeaveLoop(u) PROVE CoreInv'
    BY <1>6 DEF LeaveLoop
  <1>7. CASE HandleSigint
    <2>1. WakeUpItem \in Seq(QueueItem) /\ WakeUpItem # << >>
      BY WakeUpWakes
    <2>2. QED
      BY <1>7, <2>1 DEF HandleSigint, MainRuns
  <1>8. CASE HandleSigintInGet
    BY <1>8 DEF HandleSigintInGet, MainRuns
  <1>9. ASSUME NEW d \in Devs, RxStep(d) PROVE CoreInv'
    <2>1. CASE CheckRunning(d)
      BY <2>1 DEF CheckRunning, KeepsReceiving
    <2>2. CASE Capture(d)
      <3>1. captured' \in [Devs -> Nat] /\ rx[d] = "recv" /\ rx' = [rx EXCEPT ![d] = "put"]
        BY <2>2 DEF Capture
      <3>2. UNCHANGED <<running, queueVars, userVars, appVars, shutVars, sigint>>
        BY <2>2 DEF Capture
      <3>3. QED
        BY <3>1, <3>2
    <2>3. CASE CaptureNothing(d)
      BY <2>3 DEF CaptureNothing
    <2>4. CASE PutFrame(d)
      <3>1. pktqueue' \in Seq(QueueItem) /\ pktqueue' # << >>
        BY <2>4, QueuedIsQueue DEF PutFrame
      <3>2. QED
        BY <2>4, <3>1 DEF PutFrame
    <2>5. CASE ReadStats(d)
      BY <2>5 DEF ReadStats
    <2>6. QED
      BY <1>9, <2>1, <2>2, <2>3, <2>4, <2>5 DEF RxStep
  <1>10. ASSUME NEW c \in Callers, ShutdownStep(c) PROVE CoreInv'
    <2>1. CASE ShutdownCheck(c)
      BY <2>1 DEF ShutdownCheck, MayShutDown
    <2>2. CASE ShutdownSet(c)
      BY <2>2 DEF ShutdownSet
    <2>3. CASE ShutdownJoin(c)
      BY <2>3 DEF ShutdownJoin
    <2>4. CASE ShutdownClose(c)
      BY <2>4 DEF ShutdownClose
    <2>5. QED
      BY <1>10, <2>1, <2>2, <2>3, <2>4 DEF ShutdownStep
  <1>11. CASE ShutdownAgain
    BY <1>11 DEF ShutdownAgain
  <1>12. CASE AppEnds
    BY <1>12 DEF AppEnds
  <1>13. CASE AppShutsDown
    BY <1>13 DEF AppShutsDown
  <1>14. CASE UNCHANGED netVars
    BY <1>14 DEF netVars
  <1>15. QED
    BY <1>1, <1>2, <1>3, <1>4, <1>5, <1>6, <1>7, <1>8, <1>9, <1>10, <1>11, <1>12, <1>13, <1>14
    DEF NetNext, Threads

-----------------------------------------------------------------------------
(***************************************************************************)
(* The balance of frames                                                   *)
(***************************************************************************)
InQueue(d) == {i \in DOMAIN pktqueue : pktqueue[i].dev = d}
Holders(d) == {u \in Users : user[u] = "got" /\ item[u].dev = d}

One(P) == IF P THEN 1 ELSE 0

Accounted(d) == captured[d] = InHand(d) + Count(d) + Held(d) + given[d] + skipped[d]

\* Nothing is lost while the network runs, and nothing is taken before user code is.
Balance == running \/ ~ netobj => \A d \in Devs : Accounted(d)

FrameInv == CoreInv /\ Balance

LEMMA QueueFinite ==
  ASSUME pktqueue \in Seq(QueueItem), NEW d \in Devs
  PROVE  IsFiniteSet(InQueue(d)) /\ Count(d) \in Nat
  <1>1. DOMAIN pktqueue = 1 .. Len(pktqueue) /\ Len(pktqueue) \in Nat
    OBVIOUS
  <1>2. IsFiniteSet(DOMAIN pktqueue) /\ InQueue(d) \subseteq DOMAIN pktqueue
    BY <1>1, FS_Interval DEF InQueue
  <1>3. QED
    BY <1>2, FS_Subset, FS_CardinalityType DEF Count, InQueue

LEMMA HoldersFinite ==
  ASSUME NEW d \in Devs
  PROVE  IsFiniteSet(Holders(d)) /\ Held(d) \in Nat /\ Held(d)' \in Nat
  <1>1. Holders(d) \subseteq Users /\ Holders(d)' \subseteq Users
    BY DEF Holders
  <1>2. /\ IsFiniteSet(Holders(d)) /\ Cardinality(Holders(d)) \in Nat
        /\ Cardinality(Holders(d)') \in Nat
    BY <1>1, UsersAssumption, FS_Subset, FS_CardinalityType
  <1>3. QED
    BY <1>2 DEF Held, Holders

LEMMA CountOfAppend ==
  ASSUME pktqueue \in Seq(QueueItem), NEW f \in QueueItem,
         pktqueue' = Append(pktqueue, f), NEW d \in Devs
  PROVE  Count(d)' = Count(d) + One(f.dev = d)
  <1> DEFINE n == Len(pktqueue) + 1
  <1>1. n \in Nat /\ n \notin InQueue(d)
    BY DEF InQueue
  <1>2. InQueue(d)' = IF f.dev = d THEN InQueue(d) \cup {n} ELSE InQueue(d)
    BY AppendProperties DEF InQueue
  <1>3. QED
    <2>1. Count(d) = Cardinality(InQueue(d)) /\ Count(d)' = Cardinality(InQueue(d)')
      BY DEF Count, InQueue
    <2>2. IsFiniteSet(InQueue(d)) /\ Cardinality(InQueue(d)) \in Nat
      BY QueueFinite, <2>1
    <2>3. Cardinality(InQueue(d) \cup {n}) = Cardinality(InQueue(d)) + 1
      BY <1>1, <2>2, FS_AddElement
    <2>4. QED
      BY <1>2, <2>1, <2>2, <2>3 DEF One

LEMMA DummyUncounted ==
  ASSUME pktqueue \in Seq(QueueItem), pktqueue' \in {pktqueue, WakeUpItem}, NEW d \in Devs
  PROVE  Count(d)' = Count(d)
  <1>1. CASE pktqueue' = pktqueue
    BY <1>1 DEF Count
  <1>2. CASE pktqueue' = Append(pktqueue, Dummy)
    <2>1. Count(d)' = Count(d) + One(Dummy.dev = d)
      BY <1>2, DummyIsItem, CountOfAppend
    <2>2. Dummy.dev # d /\ Count(d) \in Nat
      BY DevsAssumption, QueueFinite DEF Dummy
    <2>3. QED
      BY <2>1, <2>2 DEF One
  <1>3. QED
    BY <1>1, <1>2 DEF WakeUpItem

\* The places of the tail are those of the queue but the first, moved by one.
LEMMA CountOfTail ==
  ASSUME pktqueue \in Seq(QueueItem), pktqueue # << >>, pktqueue' = Tail(pktqueue), NEW d \in Devs
  PROVE  Count(d) = Count(d)' + One(Head(pktqueue).dev = d) /\ Count(d)' \in Nat
  <1> DEFINE T == InQueue(d) \ {1}
             move == [i \in T |-> i - 1]
  <1>1. /\ DOMAIN pktqueue = 1 .. Len(pktqueue) /\ Len(pktqueue) \in Nat \ {0}
        /\ DOMAIN pktqueue' = 1 .. Len(pktqueue) - 1
        /\ \A i \in 1 .. Len(pktqueue) - 1 : pktqueue'[i] = pktqueue[i + 1]
    BY HeadTailProperties
  <1>2. move \in Bijection(T, InQueue(d)')
    <2>1. move \in [T -> InQueue(d)']
      BY <1>1 DEF InQueue
    <2>2. \A i, j \in T : move[i] = move[j] => i = j
      BY <1>1 DEF InQueue
    <2>3. \A j \in InQueue(d)' : \E i \in T : move[i] = j
      <3> SUFFICES ASSUME NEW j \in InQueue(d)' PROVE \E i \in T : move[i] = j
        OBVIOUS
      <3>1. j \in 1 .. Len(pktqueue) - 1 /\ pktqueue[j + 1].dev = d
        BY <1>1 DEF InQueue
      <3>2. j + 1 \in T /\ move[j + 1] = j
        BY <1>1, <3>1 DEF InQueue
      <3>3. QED
        BY <3>2
    <2>4. QED
      BY <2>1, <2>2, <2>3 DEF Bijection, Injection, Surjection, IsInjective
  <1>3. /\ IsFiniteSet(T) /\ Cardinality(InQueue(d)) \in Nat /\ Cardinality(T) \in Nat
        /\ Cardinality(T) = IF 1 \in InQueue(d) THEN Cardinality(InQueue(d)) - 1
                            ELSE Cardinality(InQueue(d))
    BY QueueFinite, FS_RemoveElement, FS_CardinalityType
  <1>4. Cardinality(T) = Cardinality(InQueue(d)')
    <2>1. ExistsBijection(T, InQueue(d)')
      BY <1>2 DEF ExistsBijection
    <2>2. QED
      BY <1>3, <2>1, FS_Bijection
  <1>5. 1 \in InQueue(d) <=> Head(pktqueue).dev = d
    BY <1>1 DEF InQueue
  <1>6. Count(d) = Cardinality(InQueue(d)) /\ Count(d)' = Cardinality(InQueue(d)')
    BY DEF Count, InQueue
  <1>7. QED
    BY <1>3, <1>4, <1>5, <1>6 DEF One

LEMMA HeldAfterTaking ==
  ASSUME user \in [Users -> UserAt], item \in [Users -> QueueItem],
         NEW u \in Users, user[u] # "got", NEW x \in QueueItem,
         user' = [user EXCEPT ![u] = "got"], item' = [item EXCEPT ![u] = x], NEW d \in Devs
  PROVE  Held(d)' = Held(d) + One(x.dev = d)
  <1>1. Holders(d)' = IF x.dev = d THEN Holders(d) \cup {u} ELSE Holders(d)
    BY DEF Holders, UserAt
  <1>2. u \notin Holders(d)
    BY DEF Holders
  <1>3. QED
    <2>1. Held(d) = Cardinality(Holders(d)) /\ Held(d)' = Cardinality(Holders(d)')
      BY DEF Held, Holders
    <2>2. IsFiniteSet(Holders(d)) /\ Cardinality(Holders(d)) \in Nat
      BY HoldersFinite, <2>1
    <2>3. Cardinality(Holders(d) \cup {u}) = Cardinality(Holders(d)) + 1
      BY <1>2, <2>2, FS_AddElement
    <2>4. QED
      BY <1>1, <2>1, <2>2, <2>3 DEF One

LEMMA HeldAfterReturn ==
  ASSUME user \in [Users -> UserAt], item \in [Users -> QueueItem],
         NEW u \in Users, user[u] = "got", user' = [user EXCEPT ![u] = "code"], item' = item,
         NEW d \in Devs
  PROVE  Held(d) = Held(d)' + One(item[u].dev = d)
  <1>1. Holders(d)' = Holders(d) \ {u}
    BY DEF Holders, UserAt
  <1>2. u \in Holders(d) <=> item[u].dev = d
    BY DEF Holders
  <1>3. QED
    <2>1. Held(d) = Cardinality(Holders(d)) /\ Held(d)' = Cardinality(Holders(d)')
      BY DEF Held, Holders
    <2>2. IsFiniteSet(Holders(d)) /\ Cardinality(Holders(d)) \in Nat
      BY HoldersFinite, <2>1
    <2>3. Cardinality(Holders(d) \ {u})
            = IF u \in Holders(d) THEN Cardinality(Holders(d)) - 1 ELSE Cardinality(Holders(d))
      BY <2>2, FS_RemoveElement
    <2>4. QED
      BY <1>1, <1>2, <2>1, <2>2, <2>3 DEF One

LEMMA HeldUnchanged ==
  ASSUME user \in [Users -> UserAt], item' = item, NEW u \in Users, NEW at,
         user' = [user EXCEPT ![u] = at], user[u] # "got", at # "got", NEW d \in Devs
  PROVE  Held(d)' = Held(d)
  <1>1. Holders(d)' = Holders(d)
    BY DEF Holders
  <1>2. QED
    BY <1>1 DEF Held, Holders

-----------------------------------------------------------------------------
LEMMA FrameInit == NetInit => FrameInv
  <1> SUFFICES ASSUME NetInit PROVE FrameInv
    OBVIOUS
  <1>1. CoreInv
    BY CoreInit
  <1>2. ASSUME NEW d \in Devs PROVE Accounted(d)
    <2>1. Count(d) = 0
      <3>1. {i \in DOMAIN pktqueue : pktqueue[i].dev = d} = {}
        BY DEF NetInit
      <3>2. QED
        BY <3>1, FS_EmptySet DEF Count
    <2>2. Held(d) = 0
      <3>1. {u \in Users : user[u] = "got" /\ item[u].dev = d} = {}
        BY DEF NetInit
      <3>2. QED
        BY <3>1, FS_EmptySet DEF Held
    <2>3. QED
      BY <2>1, <2>2 DEF NetInit, Accounted, InHand
  <1>3. QED
    BY <1>1, <1>2 DEF FrameInv, Balance

\* Steps that move no frame: they may stop the network, not start it.
LEMMA NothingMoves ==
  ASSUME Balance, running' => running \/ ~ netobj, netobj => netobj',
         \A d \in Devs : /\ captured'[d] = captured[d] /\ InHand(d)' = InHand(d)
                         /\ Count(d)' = Count(d) /\ Held(d)' = Held(d)
                         /\ given'[d] = given[d] /\ skipped'[d] = skipped[d]
  PROVE  Balance'
  BY DEF Balance, Accounted

\* Steps outside the queue and the user threads' hands
LEMMA MovesElsewhere ==
  ASSUME Balance, UNCHANGED <<pktqueue, user, item, rx, captured, given, skipped>>,
         running' => running \/ ~ netobj, netobj => netobj'
  PROVE  Balance'
  BY NothingMoves DEF InHand, Count, Held

\* Steps of a user thread that neither take nor return a packet
LEMMA HandsUnchanged ==
  ASSUME FrameInv, NEW u \in Users, NEW at, user' = [user EXCEPT ![u] = at],
         user[u] # "got", at # "got",
         UNCHANGED <<pktqueue, item, rx, captured, given, skipped>>, running' => running,
         netobj' = netobj
  PROVE  Balance'
  <1>1. \A d \in Devs : Held(d)' = Held(d)
    BY HeldUnchanged DEF FrameInv, CoreInv, Shape
  <1>2. QED
    BY <1>1, NothingMoves DEF FrameInv, InHand, Count

LEMMA TakeItemBalances ==
  ASSUME FrameInv, NEW u \in Users, TakeItem(u)
  PROVE  Balance'
  <1>1. /\ pktqueue \in Seq(QueueItem) /\ pktqueue # << >> /\ Taken \in QueueItem
        /\ user \in [Users -> UserAt] /\ item \in [Users -> QueueItem]
    BY HeadTailProperties DEF TakeItem, FrameInv, CoreInv, Shape, Taken
  <1>2. ASSUME NEW d \in Devs
        PROVE  /\ Count(d) = Count(d)' + One(Taken.dev = d) /\ Count(d)' \in Nat
               /\ Held(d)' = Held(d) + One(Taken.dev = d)
    BY <1>1, CountOfTail, HeldAfterTaking DEF TakeItem, Taken
  <1>3. /\ UNCHANGED <<running, netobj, rx, captured, given, skipped>>
        /\ captured \in [Devs -> Nat] /\ given \in [Devs -> Nat] /\ skipped \in [Devs -> Nat]
    BY DEF TakeItem, rxVars, appVars, startVars, FrameInv, CoreInv, Shape
  <1>4. ASSUME NEW d \in Devs, Accounted(d) PROVE Accounted(d)'
    <2>1. InHand(d)' = InHand(d) /\ InHand(d) \in Nat /\ One(Taken.dev = d) \in Nat
      BY <1>3 DEF InHand, One
    <2>2. Held(d) \in Nat
      BY HoldersFinite
    <2>3. QED
      BY <1>2, <1>3, <1>4, <2>1, <2>2 DEF Accounted
  <1>5. QED
    BY <1>3, <1>4 DEF FrameInv, Balance

LEMMA ReceiveBalances ==
  ASSUME FrameInv, NEW u \in Users, Receive(u)
  PROVE  Balance'
  <1>1. /\ UNCHANGED <<running, netobj, pktqueue, item, rx, captured>>
        /\ user' = [user EXCEPT ![u] = "code"]
    BY DEF Receive, queueVars, rxVars, appVars, startVars
  <1>2. CASE user[u] = "empty"
    <2>1. UNCHANGED <<given, skipped>>
      BY <1>2 DEF Receive
    <2>2. QED
      BY <1>1, <1>2, <2>1, HandsUnchanged
  <1>3. CASE user[u] = "got"
    <2>1. /\ user \in [Users -> UserAt] /\ item \in [Users -> QueueItem]
          /\ given \in [Devs -> Nat] /\ skipped \in [Devs -> Nat] /\ captured \in [Devs -> Nat]
      BY DEF FrameInv, CoreInv, Shape
    <2>2. \A d \in Devs : Held(d) = Held(d)' + One(item[u].dev = d) /\ Held(d)' \in Nat
      BY <1>1, <1>3, <2>1, HeldAfterReturn, HoldersFinite
    <2>3. \A d \in Devs : Count(d)' = Count(d) /\ InHand(d)' = InHand(d) /\ Count(d) \in Nat
      BY <1>1, QueueFinite DEF Count, InHand, FrameInv, CoreInv, Shape
    <2>4. CASE item[u] = Dummy
      <3>1. \A d \in Devs : item[u].dev # d
        BY <2>4, DevsAssumption DEF Dummy
      <3>2. UNCHANGED <<given, skipped>>
        BY <2>4 DEF Receive
      <3>3. \A d \in Devs : Held(d)' = Held(d)
        BY <2>2, <3>1 DEF One
      <3>4. QED
        BY <1>1, <2>3, <3>2, <3>3, NothingMoves DEF FrameInv
    <2>5. CASE item[u] # Dummy
      <3>1. PICK e \in Devs : item[u].dev = e
        BY <2>1, <2>5 DEF QueueItem
      <3>2. \/ given' = [given EXCEPT ![e] = given[e] + 1] /\ skipped' = skipped
            \/ skipped' = [skipped EXCEPT ![e] = skipped[e] + 1] /\ given' = given
        BY <1>3, <2>5, <3>1 DEF Receive
      <3>3. \A d \in Devs : given'[d] + skipped'[d] = given[d] + skipped[d] + One(e = d)
        BY <2>1, <3>2 DEF One
      <3>4. \A d \in Devs : given'[d] \in Nat /\ skipped'[d] \in Nat
        BY <2>1, <3>2
      <3>5. ASSUME NEW d \in Devs, Accounted(d) PROVE Accounted(d)'
        <4>1. InHand(d) \in Nat /\ captured'[d] = captured[d]
          BY <1>1 DEF InHand
        <4>2. /\ given[d] \in Nat /\ skipped[d] \in Nat /\ given'[d] \in Nat /\ skipped'[d] \in Nat
              /\ given'[d] + skipped'[d] = given[d] + skipped[d] + One(e = d)
          BY <2>1, <3>3, <3>4
        <4>3. /\ Held(d) = Held(d)' + One(e = d) /\ Held(d)' \in Nat /\ One(e = d) \in Nat
              /\ Count(d)' = Count(d) /\ InHand(d)' = InHand(d) /\ Count(d) \in Nat
          BY <2>2, <2>3, <3>1 DEF One
        <4>4. QED
          BY <3>5, <4>1, <4>2, <4>3 DEF Accounted
      <3>6. QED
        BY <1>1, <3>5 DEF FrameInv, Balance
    <2>6. QED
      BY <2>4, <2>5
  <1>4. QED
    BY <1>2, <1>3 DEF Receive

LEMMA RxBalances ==
  ASSUME FrameInv, NEW e \in Devs, RxStep(e)
  PROVE  Balance'
  <1>1. /\ rx \in [Devs -> RxAt] /\ captured \in [Devs -> Nat] /\ pktqueue \in Seq(QueueItem)
        /\ given \in [Devs -> Nat] /\ skipped \in [Devs -> Nat]
        /\ UNCHANGED <<running, netobj, user, item, given, skipped>>
    BY DEF FrameInv, CoreInv, Shape, RxStep, CheckRunning, Capture, CaptureNothing, PutFrame,
           ReadStats, userVars, appVars, startVars
  <1>2. \A d \in Devs : Held(d)' = Held(d) /\ Held(d) \in Nat /\ Count(d) \in Nat
    BY <1>1, HoldersFinite, QueueFinite DEF Held
  <1>3. CASE CheckRunning(e) \/ CaptureNothing(e) \/ ReadStats(e)
    <2>1. UNCHANGED <<pktqueue, captured>> /\ \A d \in Devs : InHand(d)' = InHand(d)
      BY <1>1, <1>3 DEF CheckRunning, CaptureNothing, ReadStats, InHand, queueVars
    <2>2. QED
      BY <1>1, <1>2, <2>1, NothingMoves DEF Count, FrameInv
  <1>4. CASE Capture(e)
    <2>1. /\ pktqueue' = pktqueue
          /\ \A d \in Devs : /\ captured'[d] = captured[d] + One(d = e)
                              /\ InHand(d)' = InHand(d) + One(d = e)
      BY <1>1, <1>4 DEF Capture, InHand, One, queueVars
    <2>2. \A d \in Devs : Count(d)' = Count(d) /\ InHand(d) \in Nat /\ One(d = e) \in Nat
      BY <2>1 DEF Count, InHand, One
    <2>3. ASSUME NEW d \in Devs, Accounted(d) PROVE Accounted(d)'
      <3>1. captured[d] \in Nat /\ given[d] \in Nat /\ skipped[d] \in Nat
        BY <1>1
      <3>2. given'[d] = given[d] /\ skipped'[d] = skipped[d]
        BY <1>1
      <3>3. QED
        BY <1>2, <2>1, <2>2, <2>3, <3>1, <3>2 DEF Accounted
    <2>4. QED
      BY <1>1, <2>3 DEF FrameInv, Balance
  <1>5. CASE PutFrame(e)
    <2> DEFINE f == [dev |-> e, n |-> captured[e]]
    <2>1. f \in QueueItem /\ f.dev = e /\ pktqueue' = Append(pktqueue, f) /\ captured' = captured
      BY <1>1, <1>5 DEF PutFrame, Queued, QueueItem
    <2>2. \A d \in Devs : Count(d)' = Count(d) + One(e = d)
      BY <1>1, <2>1, CountOfAppend
    <2>3. \A d \in Devs : InHand(d) = InHand(d)' + One(e = d) /\ InHand(d)' \in Nat
      BY <1>1, <1>5 DEF PutFrame, InHand, One
    <2>4. ASSUME NEW d \in Devs, Accounted(d) PROVE Accounted(d)'
      <3>1. One(e = d) \in Nat
        BY DEF One
      <3>2. QED
        BY <1>1, <1>2, <2>1, <2>2, <2>3, <2>4, <3>1 DEF Accounted
    <2>5. QED
      BY <1>1, <2>4 DEF FrameInv, Balance
  <1>6. QED
    BY <1>3, <1>4, <1>5 DEF RxStep

LEMMA FrameStep == FrameInv /\ [NetNext]_netVars => FrameInv'
  <1> SUFFICES ASSUME FrameInv, [NetNext]_netVars PROVE Balance'
    BY CoreStep DEF FrameInv
  <1> USE DEF queueVars, userVars, rxVars, appVars, startVars, shutVars
  <1>1. CASE PassBarrier \/ ShutdownAgain \/ AppEnds \/ AppShutsDown \/ UNCHANGED netVars
    BY <1>1, MovesElsewhere
    DEF PassBarrier, ShutdownAgain, AppEnds, AppShutsDown, netVars, FrameInv
  <1>2. CASE InstallHandler \/ MakeQueue \/ ConstructionRaises \/ InterruptConstruction \/ StartRunning
    BY <1>2, MovesElsewhere
    DEF InstallHandler, MakeQueue, ConstructionRaises, InterruptConstruction, StartRunning,
        FrameInv, CoreInv, Phases
  <1>3. ASSUME NEW e \in Devs, Spawn(e) PROVE Balance'
    <2>1. \A d \in Devs : InHand(d)' = InHand(d)
      BY <1>3 DEF Spawn, InHand, FrameInv, CoreInv, Shape
    <2>2. QED
      BY <1>3, <2>1, NothingMoves DEF Spawn, Count, Held, FrameInv
  <1>4. CASE StartUser
    <2>1. \A d \in Devs : Held(d)' = Held(d)
      <3>1. \A u \in Users : user[u] # "got" /\ user'[u] # "got"
        BY <1>4 DEF StartUser, FrameInv, CoreInv, Phases
      <3>2. QED
        BY <3>1 DEF Held
    <2>2. QED
      BY <1>4, <2>1, NothingMoves DEF StartUser, InHand, Count, FrameInv
  <1>5. ASSUME NEW u \in Users, UserStep(u) PROVE Balance'
    <2>1. CASE EnterGet(u)
      BY <2>1, HandsUnchanged DEF EnterGet
    <2>2. CASE TakeItem(u)
      BY <2>2, TakeItemBalances
    <2>3. CASE WaitForItem(u)
      BY <2>3, HandsUnchanged DEF WaitForItem
    <2>4. CASE WakeUp(u)
      BY <2>4, HandsUnchanged DEF WakeUp
    <2>5. CASE TimeOut(u)
      BY <2>5, HandsUnchanged DEF TimeOut
    <2>6. CASE ReceiveShutdown(u)
      BY <2>6 DEF ReceiveShutdown, RaisesShutdown, FrameInv, CoreInv, Phases, Balance
    <2>7. CASE Receive(u)
      BY <2>7, ReceiveBalances
    <2>8. CASE LeaveUserCode(u)
      BY <2>8, HandsUnchanged DEF LeaveUserCode
    <2>9. QED
      BY <1>5, <2>1, <2>2, <2>3, <2>4, <2>5, <2>6, <2>7, <2>8 DEF UserStep
  <1>6. ASSUME NEW u \in Users, LeaveLoop(u) PROVE Balance'
    BY <1>6, HandsUnchanged DEF LeaveLoop
  <1>7. CASE HandleSigint \/ HandleSigintInGet
    <2>1. CASE netobj
      BY <1>7, <2>1 DEF HandleSigint, HandleSigintInGet, Balance
    <2>2. CASE ~ netobj
      <3>1. \A u \in Users : user[u] = "start"
        BY <2>2 DEF FrameInv, CoreInv, Phases
      <3>2. \A d \in Devs : Count(d)' = Count(d)
        BY <1>7, DummyUncounted DEF HandleSigint, HandleSigintInGet, FrameInv, CoreInv, Shape
      <3>3. \A d \in Devs : Held(d)' = Held(d)
        <4>1. \A u \in Users : user[u] # "got" /\ user'[u] # "got"
          BY <1>7, <3>1 DEF HandleSigint, HandleSigintInGet, FrameInv, CoreInv, Shape
        <4>2. QED
          BY <4>1 DEF Held
      <3>4. QED
        BY <1>7, <2>2, <3>2, <3>3, NothingMoves
        DEF HandleSigint, HandleSigintInGet, InHand, FrameInv
    <2>3. QED
      BY <2>1, <2>2
  <1>8. ASSUME NEW d \in Devs, RxStep(d) PROVE Balance'
    BY <1>8, RxBalances
  <1>9. ASSUME NEW c \in Callers, ShutdownStep(c) PROVE Balance'
    BY <1>9, MovesElsewhere
    DEF ShutdownStep, ShutdownCheck, ShutdownSet, ShutdownJoin, ShutdownClose, FrameInv
  <1>10. QED
    BY <1>1, <1>2, <1>3, <1>4, <1>5, <1>6, <1>7, <1>8, <1>9 DEF NetNext, Threads

-----------------------------------------------------------------------------
\* Every frame a device has delivered is, for as long as the network runs, with
\* its receiver thread, in the queue, with a user thread, handed out, or dropped
\* for want of a decoder: with any number of producers and consumers
\* (_low_level_dispatch and recv_packet of llnetreal.py).
THEOREM FramesKept == NetSpec => []NoFrameLost
  <1>1. FrameInv => NoFrameLost
    BY DEF FrameInv, Balance, Accounted, NoFrameLost
  <1>2. QED
    BY <1>1, FrameInit, FrameStep, PTL DEF NetSpec

\* After SIGINT the network is down for good and the queue has something for
\* whoever of the user threads gets to it first, wherever the signal finds the
\* main thread, but for the few statements of the constructor between the making
\* of the queue and "running = True" (_sig_handler, LLNetReal.__init__).
THEOREM SigintIsNoticed == NetSpec => []SigintWakesUser
  <1>1. CoreInv => SigintWakesUser
    BY DEF CoreInv
  <1>2. QED
    BY <1>1, CoreInit, CoreStep, PTL DEF NetSpec

\* shutdown() closes no device that its thread may still use, whichever thread
\* calls it and however the calls overlap.
THEOREM ClosedAfterUse == NetSpec => []NoReceiveAfterClose
  <1>1. CoreInv => NoReceiveAfterClose
    BY DEF CoreInv, Closing
  <1>2. QED
    BY <1>1, CoreInit, CoreStep, PTL DEF NetSpec

-----------------------------------------------------------------------------
(***************************************************************************)
(* Test mode.  That no timer belongs to anything but the output expected   *)
(* now follows from a stronger fact about the flag _timer alone: the flag  *)
(* of the current scenario is set only while an output is expected, and    *)
(* that of a scenario to come is not set.                                  *)
(***************************************************************************)
\* The ranges of the variables the proofs look at
TestShape ==
  /\ cur \in Nr
  /\ completed \in [Nr -> Nat]
  /\ timer \in [Nr -> BOOLEAN]
  /\ verdict \in [Nr -> Verdict]

\* The end of a scenario is never passed.
Progress == \A s \in Nr : completed[s] <= Len(Scenarios[s])

\* Only a scenario that has been started has a timer, and the current one has
\* it only for an output.
Timers ==
  /\ \A s \in Nr : s > cur => timer[s] = FALSE
  /\ timer[cur] => ExpectsOutput(cur)

\* A scenario is judged once it is over; nothing of it changes afterwards.
Verdicts ==
  \A s \in Nr :
    /\ s > cur => verdict[s] = "none"
    /\ verdict[s] = "passed" => Done(s)
    /\ s = cur /\ verdict[s] # "none" => pc \in {"finished", "died"}

TestInv == TestShape /\ Progress /\ Timers /\ Verdicts

\* A scenario that was found passed has had all its events.
PassMeansComplete == \A s \in Nr : verdict[s] = "passed" => Done(s)

-----------------------------------------------------------------------------
USE DEF Nr

LEMMA NrIsInterval == Nr = 1 .. Len(Scenarios) /\ Scenarios \in Seq(Seq(Event))
  BY ScenariosAssumption

LEMMA EventsOf ==
  ASSUME NEW s \in Nr
  PROVE  Scenarios[s] \in Seq(Event) /\ Len(Scenarios[s]) \in Nat
  BY ScenariosAssumption

LEMMA TestInvInit == Scenarios # << >> /\ TestInit => TestInv
  <1>1. Scenarios # << >> => 1 \in Nr
    BY NrIsInterval
  <1>2. \A s \in Nr : Len(Scenarios[s]) \in Nat
    BY EventsOf
  <1>3. QED
    BY <1>1, <1>2 DEF TestInit, TestInv, TestShape, Progress, Timers, Verdicts, Verdict

\* The head of the pending events is completed: the timer that is left is the
\* one its successor needs.
LEMMA TestPassInv ==
  ASSUME TestInv, pc = "user", ~ Done(cur), TestPass, UNCHANGED <<cur, verdict>>, pc' = pc
  PROVE  TestInv'
  <1>1. /\ cur \in Nr /\ completed[cur] \in Nat
        /\ Len(Scenarios[cur]) \in Nat
        /\ \A s \in Nr : completed[s] \in Nat /\ Len(Scenarios[s]) \in Nat
    BY EventsOf DEF TestInv, TestShape
  <1>2. completed' = [completed EXCEPT ![cur] = @ + 1]
    BY DEF TestPass
  <1>3. completed[cur] < Len(Scenarios[cur])
    BY <1>1 DEF TestInv, Progress, Done
  <1>4. timer' = [timer EXCEPT ![cur] = NeedsTimer(cur, completed[cur] + 1)]
    BY DEF TestPass, SetTimer, CancelTimer, NeedsTimer, TestInv, TestShape
  <1>5. TestShape'
    BY <1>1, <1>2, <1>4 DEF TestInv, TestShape, NeedsTimer
  <1>6. Progress'
    BY <1>1, <1>2, <1>3 DEF TestInv, TestShape, Progress
  <1>7. Timers'
    <2>1. ASSUME NEW s \in Nr, s > cur PROVE timer'[s] = FALSE
      BY <1>1, <1>4, <2>1, NrIsInterval DEF TestInv, TestShape, Timers
    <2>2. timer'[cur] = NeedsTimer(cur, completed[cur] + 1)
      BY <1>1, <1>4 DEF TestInv, TestShape
    <2>3. completed'[cur] = completed[cur] + 1
      BY <1>1, <1>2 DEF TestInv, TestShape
    <2>4. NeedsTimer(cur, completed[cur] + 1) => ExpectsOutput(cur)'
      BY <1>1, <2>3 DEF NeedsTimer, ExpectsOutput, Expected, Done
    <2>5. QED
      BY <2>1, <2>2, <2>4 DEF Timers
  <1>8. Verdicts'
    BY <1>1, <1>2 DEF TestInv, TestShape, Verdicts, Done
  <1>9. QED
    BY <1>5, <1>6, <1>7, <1>8 DEF TestInv

\* Steps that complete no event and leave the flags alone.
LEMMA QuietInv ==
  ASSUME TestInv, UNCHANGED <<cur, completed, timer, verdict>>,
         pc = "setup" => pc' \in {"setup", "user", "died"},
         pc \in {"finished", "died"} => pc' = pc
  PROVE  TestInv'
  BY DEF TestInv, TestShape, Progress, Timers, Verdicts, ExpectsOutput, Expected, Done

\* run_tests goes on to a scenario that has no timer yet.
LEMMA JudgeInv ==
  ASSUME TestInv, Judge
  PROVE  TestInv'
  <1>1. cur \in Nr /\ pc = "ended" /\ UNCHANGED <<completed, timer>>
    BY DEF TestInv, TestShape, Judge, eventVars, timerVars
  <1>2. /\ verdict' = [verdict EXCEPT ![cur] = IF Failed THEN "failed" ELSE "passed"]
        /\ \/ cur + 1 \in Nr /\ cur' = cur + 1 /\ pc' = "setup"
           \/ cur' = cur /\ pc' = "finished"
    BY DEF Judge
  <1>3. TestShape' /\ Progress'
    BY <1>1, <1>2 DEF TestInv, TestShape, Progress, Verdict
  <1>4. Timers'
    BY <1>1, <1>2, NrIsInterval DEF TestInv, TestShape, Timers, ExpectsOutput, Expected, Done
  <1>5. Verdicts'
    <2> SUFFICES ASSUME NEW s \in Nr
                 PROVE  /\ s > cur' => verdict'[s] = "none"
                        /\ verdict'[s] = "passed" => Done(s)
                        /\ s = cur' /\ verdict'[s] # "none" => pc' \in {"finished", "died"}
      BY <1>1 DEF Verdicts, Done
    <2>1. CASE s = cur
      <3>1. verdict'[s] = IF Failed THEN "failed" ELSE "passed"
        BY <1>1, <1>2, <2>1 DEF TestInv, TestShape
      <3>2. QED
        BY <1>1, <1>2, <2>1, <3>1, NrIsInterval DEF Failed
    <2>2. CASE s # cur
      <3>1. verdict'[s] = verdict[s]
        BY <1>1, <1>2, <2>2 DEF TestInv, TestShape
      <3>2. QED
        BY <1>1, <1>2, <2>2, <3>1, NrIsInterval DEF TestInv, Verdicts
    <2>3. QED
      BY <2>1, <2>2
  <1>6. QED
    BY <1>3, <1>4, <1>5 DEF TestInv

LEMMA TestNextInv == TestInv /\ [TestNext]_testVars => TestInv'
  <1> SUFFICES ASSUME TestInv, [TestNext]_testVars PROVE TestInv'
    OBVIOUS
  <1>1. CASE RecvExpected
    BY <1>1, TestPassInv DEF RecvExpected, InUserCode
  <1>2. CASE RecvShutdown
    BY <1>2, QuietInv DEF RecvShutdown, InUserCode, eventVars, timerVars
  <1>3. ASSUME NEW dev \in Dev, SendMatching(dev) PROVE TestInv'
    <2>1. pc = "user" /\ ~ Done(cur) /\ UNCHANGED <<cur, verdict, pc>>
      BY <1>3 DEF SendMatching, InUserCode, ExpectsOutput
    <2>2. CASE TestPass
      BY <2>1, <2>2, TestPassInv
    <2>3. CASE UNCHANGED <<completed, timerVars>>
      BY <2>1, <2>3, QuietInv DEF timerVars
    <2>4. QED
      BY <1>3, <2>2, <2>3 DEF SendMatching
  <1>4. CASE SendUnexpected
    BY <1>4, QuietInv DEF SendUnexpected, InUserCode, eventVars, timerVars
  <1>5. CASE Return
    BY <1>5, QuietInv DEF Return, InUserCode, eventVars, timerVars
  <1>6. CASE StartScenario
    BY <1>6, QuietInv DEF StartScenario, timerVars
  <1>7. CASE Judge
    BY <1>7, JudgeInv
  <1>8. CASE TestTick
    BY <1>8, QuietInv DEF TestTick, Running, eventVars
  <1>9. CASE AlarmRings
    <2>1. UNCHANGED <<cur, completed, timer, verdict>>
      BY <1>9 DEF AlarmRings, eventVars
    <2>2. pc \notin {"finished", "died"}
      BY <1>9 DEF AlarmRings, Running
    <2>3. pc = "setup" => pc' \in {"setup", "user", "died"}
      BY <1>9 DEF AlarmRings
    <2>4. QED
      BY <2>1, <2>2, <2>3, QuietInv
  <1>10. CASE UNCHANGED testVars
    BY <1>10, QuietInv DEF testVars
  <1>11. QED
    BY <1>1, <1>2, <1>3, <1>4, <1>5, <1>6, <1>7, <1>8, <1>9, <1>10 DEF TestNext

-----------------------------------------------------------------------------
\* Whatever the scenarios and however user code calls the network object, a
\* timer that can still fail the current scenario is for the output expected now
\* (testpass and _timer_expiry of testing.py).
THEOREM AlarmSafe ==
  Scenarios # << >> => (TestSpec => []AlarmIsForExpectedOutput)
  <1>1. TestInv => AlarmIsForExpectedOutput
    BY DEF TestInv, Timers, AlarmIsForExpectedOutput
  <1>2. QED
    BY <1>1, TestInvInit, TestNextInv, PTL DEF TestSpec

\* run_tests prints "passed" only of a scenario all of whose events happened,
\* and a verdict stays true: no later scenario completes or resets an event of
\* an earlier one.
THEOREM PassedIsComplete ==
  Scenarios # << >> => (TestSpec => []PassMeansComplete)
  <1>1. TestInv => PassMeansComplete
    BY DEF TestInv, Verdicts, PassMeansComplete
  <1>2. QED
    BY <1>1, TestInvInit, TestNextInv, PTL DEF TestSpec

-----------------------------------------------------------------------------
(***************************************************************************)
(* The simulator, for any topologies in files, names, delays and sizes of  *)
(* packets, and any bounds.  First the topology: every operation but one   *)
(* keeps what it was made of, and a link added while the counters are      *)
(* ahead takes interfaces and MAC addresses that nobody has.               *)
(***************************************************************************)

\* The interfaces of s are interfaces of t, where nobody assigned an address since;
\* the ends of its links are ends of links of t; a node t does not have has none.
Within(s, t) ==
  /\ \A n \in NodeNames(s) :
       IF n \in NodeNames(t)
       THEN /\ s.nodes[n].kind = t.nodes[n].kind
            /\ DOMAIN s.nodes[n].intfs = DOMAIN t.nodes[n].intfs
            /\ \A i \in DOMAIN t.nodes[n].intfs :
                 /\ s.nodes[n].intfs[i].mac = t.nodes[n].intfs[i].mac
                 /\ s.nodes[n].intfs[i].ip \in {t.nodes[n].intfs[i].ip, Typed}
       ELSE DOMAIN s.nodes[n].intfs = {}
  /\ \A e \in LinkEnds(s) :
       e \in LinkEnds(t) /\ s.links[e[1]].at[e[2]] = t.links[e[1]].at[e[2]]

LEMMA EndOf ==
  ASSUME NEW t, NEW e \in LinkEnds(t)
  PROVE  e[1] \in Links(t) /\ e[2] \in NodeNames(t) /\ e[2] \in e[1] /\ e = <<e[1], e[2]>>
  BY DEF LinkEnds

\* OwnMacs, place by place
LEMMA MacsApart ==
  ASSUME NEW t
  PROVE  OwnMacs(t) <=>
           \A n, m \in NodeNames(t) : \A i \in DOMAIN t.nodes[n].intfs, j \in DOMAIN t.nodes[m].intfs :
             n # m \/ i # j => t.nodes[n].intfs[i].mac # t.nodes[m].intfs[j].mac
  <1> DEFINE places == UNION {{<<n, i>> : i \in DOMAIN t.nodes[n].intfs} : n \in NodeNames(t)}
  <1>1. \A p \in places : /\ p = <<p[1], p[2]>> /\ p[1] \in NodeNames(t)
                          /\ p[2] \in DOMAIN t.nodes[p[1]].intfs
    OBVIOUS
  <1>2. \A n \in NodeNames(t) : \A i \in DOMAIN t.nodes[n].intfs : <<n, i>> \in places
    OBVIOUS
  <1>3. OwnMacs(t) <=> \A p, q \in places :
          p # q => t.nodes[p[1]].intfs[p[2]].mac # t.nodes[q[1]].intfs[q[2]].mac
    BY DEF OwnMacs
  <1> HIDE DEF places
  <1>4. ASSUME OwnMacs(t), NEW n \in NodeNames(t), NEW m \in NodeNames(t),
               NEW i \in DOMAIN t.nodes[n].intfs, NEW j \in DOMAIN t.nodes[m].intfs, n # m \/ i # j
        PROVE  t.nodes[n].intfs[i].mac # t.nodes[m].intfs[j].mac
    <2>1. <<n, i>> \in places /\ <<m, j>> \in places /\ <<n, i>> # <<m, j>>
      BY <1>2, <1>4
    <2> QED
      BY <1>3, <1>4, <2>1
  <1>5. ASSUME \A n, m \in NodeNames(t) :
                 \A i \in DOMAIN t.nodes[n].intfs, j \in DOMAIN t.nodes[m].intfs :
                   n # m \/ i # j => t.nodes[n].intfs[i].mac # t.nodes[m].intfs[j].mac,
               NEW p \in places, NEW q \in places, p # q
        PROVE  t.nodes[p[1]].intfs[p[2]].mac # t.nodes[q[1]].intfs[q[2]].mac
    BY <1>1, <1>5
  <1> QED
    BY <1>3, <1>4, <1>5

\* the address of an end of a link
IpAt(t, e) == t.nodes[e[2]].intfs[t.links[e[1]].at[e[2]]].ip

LEMMA WithinOwned ==
  ASSUME NEW s, NEW t, Within(s, t), Owned(t)
  PROVE  Owned(s)
  <1>1. ASSUME NEW e \in LinkEnds(s)
        PROVE  /\ e \in LinkEnds(t) /\ e[2] \in NodeNames(s) /\ e[2] \in NodeNames(t)
               /\ s.links[e[1]].at[e[2]] = t.links[e[1]].at[e[2]]
               /\ s.links[e[1]].at[e[2]] \in DOMAIN s.nodes[e[2]].intfs
               /\ s.nodes[e[2]].kind = t.nodes[e[2]].kind
               /\ IpAt(s, e) \in {IpAt(t, e), Typed}
    <2>1. e \in LinkEnds(t) /\ s.links[e[1]].at[e[2]] = t.links[e[1]].at[e[2]]
      BY DEF Within
    <2>2. e[2] \in NodeNames(s) /\ e[2] \in NodeNames(t)
      BY <2>1, EndOf
    <2>3. t.links[e[1]].at[e[2]] \in DOMAIN t.nodes[e[2]].intfs
      BY <2>1 DEF Owned, OwnInterfaces
    <2> QED
      BY <2>1, <2>2, <2>3 DEF Within, IpAt
  <1>2. OwnInterfaces(s)
    BY <1>1 DEF Owned, OwnInterfaces
  <1>3. OwnMacs(s)
    <2> SUFFICES ASSUME NEW n \in NodeNames(s), NEW m \in NodeNames(s),
                        NEW i \in DOMAIN s.nodes[n].intfs, NEW j \in DOMAIN s.nodes[m].intfs,
                        n # m \/ i # j
                 PROVE  s.nodes[n].intfs[i].mac # s.nodes[m].intfs[j].mac
      BY MacsApart
    <2>1. /\ n \in NodeNames(t) /\ i \in DOMAIN t.nodes[n].intfs
          /\ s.nodes[n].intfs[i].mac = t.nodes[n].intfs[i].mac
      BY DEF Within
    <2>2. /\ m \in NodeNames(t) /\ j \in DOMAIN t.nodes[m].intfs
          /\ s.nodes[m].intfs[j].mac = t.nodes[m].intfs[j].mac
      BY DEF Within
    <2> QED
      BY <2>1, <2>2, MacsApart DEF Owned
  <1>4. OwnAddresses(s)
    <2> SUFFICES ASSUME NEW e \in Numbered(s), NEW f \in Numbered(s), e # f, IpAt(s, e) > 0
                 PROVE  IpAt(s, e) # IpAt(s, f)
      BY DEF OwnAddresses, IpAt
    <2>1. e \in LinkEnds(s) /\ f \in LinkEnds(s) /\ e \in Numbered(t) /\ f \in Numbered(t)
      BY <1>1 DEF Numbered
    <2>2. IpAt(s, e) = IpAt(t, e) /\ IpAt(s, f) \in {IpAt(t, f), Typed}
      BY <1>1, <2>1 DEF Typed
    <2>3. IpAt(t, e) # IpAt(t, f)
      BY <2>1, <2>2 DEF Owned, OwnAddresses, IpAt
    <2> QED
      BY <2>2, <2>3 DEF Typed
  <1> QED
    BY <1>2, <1>3, <1>4 DEF Owned

-----------------------------------------------------------------------------
\* What the operations make of a topology: one, with what they keep of it.
LEMMA AddNodeKeeps ==
  ASSUME NEW t, IsTopology(t), NEW n, n \notin NodeNames(t), NEW kind
  PROVE  LET s == AddNode(t, n, kind) IN
         /\ IsTopology(s) /\ Within(s, t) /\ (Counted(t) => Counted(s))
         /\ NodeNames(s) = NodeNames(t) \cup {n} /\ s.ifnum = t.ifnum
  <1> DEFINE s == AddNode(t, n, kind)
  <1>1. /\ s = [nodes |-> With(t.nodes, n, NewNode(kind)), links |-> t.links, ifnum |-> t.ifnum]
        /\ t.ifnum \in Nat \ {0}
    BY DEF AddNode, IsTopology
  <1>2. /\ NodeNames(s) = NodeNames(t) \cup {n} /\ s.nodes[n] = NewNode(kind)
        /\ \A m \in NodeNames(t) : s.nodes[m] = t.nodes[m]
        /\ s.links = t.links /\ s.ifnum = t.ifnum
    BY <1>1 DEF With, NodeNames
  <1>3. s = [nodes |-> s.nodes, links |-> s.links, ifnum |-> s.ifnum]
    BY <1>1
  <1> HIDE DEF s
  <1>4. IsNode(NewNode(kind)) /\ DOMAIN NewNode(kind).intfs = {}
    BY DEF IsNode, NewNode
  <1>5. IsTopology(s)
    BY <1>1, <1>2, <1>3, <1>4 DEF IsTopology, Links
  <1>6. LinkEnds(s) = LinkEnds(t)
    <2>1. \A l \in Links(t) : n \notin l
      BY DEF IsTopology
    <2> QED
      BY <1>2, <2>1 DEF LinkEnds, Links
  <1>7. Within(s, t)
    BY <1>2, <1>4, <1>6 DEF Within
  <1>8. Counted(t) => Counted(s)
    BY <1>2, <1>4 DEF Counted
  <1> QED
    BY <1>2, <1>5, <1>7, <1>8 DEF s

\* nodes or links are taken away
LEMMA FewerKept ==
  ASSUME NEW t, IsTopology(t), NEW s, s.nodes = Only(t.nodes, NodeNames(s)),
         s.links = Only(t.links, Links(s)), s.ifnum = t.ifnum,
         s = [nodes |-> s.nodes, links |-> s.links, ifnum |-> s.ifnum],
         NodeNames(s) \subseteq NodeNames(t), Links(s) \subseteq Links(t),
         \A l \in Links(s) : l \subseteq NodeNames(s)
  PROVE  IsTopology(s) /\ Within(s, t) /\ (Counted(t) => Counted(s))
  <1>1. /\ \A n \in NodeNames(s) : s.nodes[n] = t.nodes[n] /\ n \in NodeNames(t)
        /\ \A l \in Links(s) : s.links[l] = t.links[l] /\ l \in Links(t)
    BY DEF Only, NodeNames, Links
  <1>2. IsTopology(s)
    <2>1. ASSUME NEW l \in Links(s)
          PROVE  IsLink(l, s.links[l]) /\ \E u, v \in NodeNames(s) : l = {u, v}
      <3>1. PICK u, v \in NodeNames(t) : l = {u, v}
        BY <1>1 DEF IsTopology
      <3>2. u \in NodeNames(s) /\ v \in NodeNames(s)
        BY <3>1
      <3> QED
        BY <1>1, <3>1, <3>2 DEF IsTopology
    <2> QED
      BY <1>1, <2>1 DEF IsTopology
  <1>3. Within(s, t)
    <2>1. ASSUME NEW e \in LinkEnds(s)
          PROVE  e \in LinkEnds(t) /\ s.links[e[1]].at[e[2]] = t.links[e[1]].at[e[2]]
      BY <1>1 DEF LinkEnds
    <2> QED
      BY <1>1, <2>1 DEF Within
  <1>4. Counted(t) => Counted(s)
    BY <1>1 DEF Counted
  <1> QED
    BY <1>2, <1>3, <1>4

LEMMA RemoveNodeKeeps ==
  ASSUME NEW t, IsTopology(t), NEW n
  PROVE  LET s == RemoveNode(t, n) IN
         /\ IsTopology(s) /\ Within(s, t) /\ (Counted(t) => Counted(s))
         /\ NodeNames(s) \subseteq NodeNames(t) /\ s.ifnum = t.ifnum
  <1> DEFINE s == RemoveNode(t, n)
             rest == {l \in Links(t) : n \notin l}
  <1>1. s = [nodes |-> Only(t.nodes, NodeNames(t) \ {n}), links |-> Only(t.links, rest),
             ifnum |-> t.ifnum]
    <2>1. t = [nodes |-> t.nodes, links |-> t.links, ifnum |-> t.ifnum]
      BY DEF IsTopology
    <2>2. s = [t EXCEPT !.nodes = Only(@, NodeNames(t) \ {n}), !.links = Only(@, rest)]
      BY DEF RemoveNode
    <2> HIDE DEF s, rest
    <2> QED
      BY <2>1, <2>2
  <1>2. /\ NodeNames(s) = NodeNames(t) \ {n} /\ Links(s) = rest /\ s.ifnum = t.ifnum
        /\ s.nodes = Only(t.nodes, NodeNames(s)) /\ s.links = Only(t.links, Links(s))
        /\ s = [nodes |-> s.nodes, links |-> s.links, ifnum |-> s.ifnum]
    BY <1>1 DEF Only, NodeNames, Links
  <1>3. \A l \in Links(s) : l \subseteq NodeNames(s)
    BY <1>2 DEF IsTopology
  <1> HIDE DEF s
  <1>4. NodeNames(s) \subseteq NodeNames(t) /\ Links(s) \subseteq Links(t)
    BY <1>2
  <1>5. IsTopology(s) /\ Within(s, t) /\ (Counted(t) => Counted(s))
    BY <1>2, <1>3, <1>4, FewerKept
  <1> QED
    BY <1>2, <1>4, <1>5 DEF s

LEMMA RemoveLinkKeeps ==
  ASSUME NEW t, IsTopology(t), NEW l
  PROVE  LET s == RemoveLink(t, l) IN
         /\ IsTopology(s) /\ Within(s, t) /\ (Counted(t) => Counted(s))
         /\ NodeNames(s) \subseteq NodeNames(t) /\ s.ifnum = t.ifnum
  <1> DEFINE s == RemoveLink(t, l)
  <1>1. s = [nodes |-> t.nodes, links |-> Only(t.links, Links(t) \ {l}), ifnum |-> t.ifnum]
    BY DEF RemoveLink, IsTopology
  <1>2. /\ NodeNames(s) = NodeNames(t) /\ Links(s) = Links(t) \ {l} /\ s.ifnum = t.ifnum
        /\ s.links = Only(t.links, Links(s)) /\ s.nodes = t.nodes
        /\ s = [nodes |-> s.nodes, links |-> s.links, ifnum |-> s.ifnum]
    BY <1>1 DEF Only, NodeNames, Links
  <1> HIDE DEF s
  <1>3. IsTopology(s) /\ Within(s, t) /\ (Counted(t) => Counted(s))
    <2>1. \A k \in Links(s) : s.links[k] = t.links[k] /\ k \in Links(t)
      BY <1>2 DEF Only, Links
    <2>2. IsTopology(s)
      <3>1. \A k \in Links(s) : IsLink(k, s.links[k]) /\ \E u, v \in NodeNames(s) : k = {u, v}
        <4> TAKE k \in Links(s)
        <4>1. k \in Links(t) /\ s.links[k] = t.links[k]
          BY <2>1
        <4>2. IsLink(k, t.links[k]) /\ \E u, v \in NodeNames(t) : k = {u, v}
          BY <4>1 DEF IsTopology
        <4> QED
          BY <1>2, <4>1, <4>2
      <3>2. s.ifnum \in Nat \ {0} /\ \A n \in NodeNames(s) : IsNode(s.nodes[n])
        BY <1>2 DEF IsTopology
      <3> QED
        BY <1>2, <3>1, <3>2 DEF IsTopology
    <2>3. \A e \in LinkEnds(s) : e \in LinkEnds(t) /\ e[1] \in Links(s)
      BY <1>2 DEF LinkEnds
    <2> QED
      BY <1>2, <2>1, <2>2, <2>3 DEF Within, Counted
  <1> QED
    BY <1>2, <1>3 DEF s

\* the delay of a link
LEMMA SetLinkKeeps ==
  ASSUME NEW t, IsTopology(t), NEW l, NEW d \in Nat
  PROVE  LET s == SetLinkCharacteristics(t, l, d) IN
         /\ IsTopology(s) /\ Within(s, t) /\ (Counted(t) => Counted(s))
         /\ NodeNames(s) = NodeNames(t) /\ LinkEnds(s) = LinkEnds(t) /\ s.ifnum = t.ifnum
         /\ \A e \in LinkEnds(t) : s.links[e[1]].at = t.links[e[1]].at
  <1> DEFINE s == SetLinkCharacteristics(t, l, d)
  <1>1. s = [nodes |-> t.nodes, links |-> [t.links EXCEPT ![l].delay = d], ifnum |-> t.ifnum]
    BY DEF SetLinkCharacteristics, IsTopology
  <1>2. /\ NodeNames(s) = NodeNames(t) /\ Links(s) = Links(t) /\ s.ifnum = t.ifnum
        /\ s.nodes = t.nodes
        /\ s = [nodes |-> s.nodes, links |-> s.links, ifnum |-> s.ifnum]
    BY <1>1 DEF NodeNames, Links
  <1>3. \A k \in Links(t) :
          /\ s.links[k].at = t.links[k].at /\ s.links[k].delay \in {t.links[k].delay, d}
          /\ s.links[k] = [at |-> s.links[k].at, delay |-> s.links[k].delay]
    <2> TAKE k \in Links(t)
    <2>1. t.links[k] = [at |-> t.links[k].at, delay |-> t.links[k].delay]
      BY DEF IsTopology, IsLink
    <2>2. s.links[k] = IF k = l THEN [t.links[k] EXCEPT !.delay = d] ELSE t.links[k]
      BY <1>1 DEF Links
    <2> HIDE DEF s
    <2>3. CASE k = l
      BY <2>1, <2>2, <2>3
    <2>4. CASE k # l
      BY <2>1, <2>2, <2>4
    <2> QED
      BY <2>3, <2>4
  <1> HIDE DEF s
  <1>4. LinkEnds(s) = LinkEnds(t)
    BY <1>2 DEF LinkEnds
  <1>5. \A e \in LinkEnds(t) : s.links[e[1]].at = t.links[e[1]].at
    <2> TAKE e \in LinkEnds(t)
    <2>1. e[1] \in Links(t)
      BY EndOf
    <2> QED
      BY <1>3, <2>1
  <1>6. IsTopology(s)
    <2>1. ASSUME NEW k \in Links(t)
          PROVE  IsLink(k, s.links[k])
      <3>1. t.links[k].at \in [k -> Nat] /\ t.links[k].delay \in Nat
        BY DEF IsTopology, IsLink
      <3>2. s.links[k].at = t.links[k].at /\ s.links[k].delay \in Nat
            /\ s.links[k] = [at |-> s.links[k].at, delay |-> s.links[k].delay]
        BY <1>3, <3>1
      <3> QED
        BY <3>1, <3>2 DEF IsLink
    <2> QED
      BY <1>2, <2>1 DEF IsTopology
  <1>7. Within(s, t) /\ (Counted(t) => Counted(s))
    BY <1>2, <1>4, <1>5 DEF Within, Counted
  <1> QED
    BY <1>2, <1>4, <1>5, <1>6, <1>7 DEF s

\* Two topologies with the same nodes but for their addresses and counters, and the
\* same links.
LEMMA SameLinks ==
  ASSUME NEW t, IsTopology(t), NEW s, s.links = t.links, NodeNames(s) = NodeNames(t),
         s = [nodes |-> s.nodes, links |-> s.links, ifnum |-> s.ifnum], s.ifnum \in Nat \ {0},
         \A n \in NodeNames(t) :
           /\ IsNode(s.nodes[n]) /\ s.nodes[n].kind = t.nodes[n].kind
           /\ DOMAIN s.nodes[n].intfs = DOMAIN t.nodes[n].intfs
           /\ \A i \in DOMAIN t.nodes[n].intfs :
                /\ s.nodes[n].intfs[i].mac = t.nodes[n].intfs[i].mac
                /\ s.nodes[n].intfs[i].ip \in {t.nodes[n].intfs[i].ip, Typed}
  PROVE  IsTopology(s) /\ Within(s, t) /\ LinkEnds(s) = LinkEnds(t)
  <1>1. LinkEnds(s) = LinkEnds(t)
    BY DEF LinkEnds, Links
  <1>2. IsTopology(s)
    BY DEF IsTopology, Links
  <1> QED
    BY <1>1, <1>2 DEF Within

\* an address that somebody chose
LEMMA Readdressed ==
  ASSUME NEW old, IsNode(old), NEW i
  PROVE  LET node == [old EXCEPT !.intfs[i].ip = Typed] IN
         /\ IsNode(node) /\ node.kind = old.kind /\ node.ifnum = old.ifnum
         /\ DOMAIN node.intfs = DOMAIN old.intfs
         /\ \A k \in DOMAIN old.intfs :
              /\ node.intfs[k].mac = old.intfs[k].mac
              /\ node.intfs[k].ip \in {old.intfs[k].ip, Typed}
  <1> DEFINE node == [old EXCEPT !.intfs[i].ip = Typed]
             new  == [old.intfs EXCEPT ![i].ip = Typed]
  <1>1. /\ old = [kind |-> old.kind, ifnum |-> old.ifnum, intfs |-> old.intfs]
        /\ old.ifnum \in Nat /\ DOMAIN old.intfs \subseteq Nat
    BY DEF IsNode
  <1>2. node = [kind |-> old.kind, ifnum |-> old.ifnum, intfs |-> new]
    BY <1>1
  <1>3. DOMAIN new = DOMAIN old.intfs
    OBVIOUS
  <1>4. ASSUME NEW k \in DOMAIN old.intfs
        PROVE  /\ new[k] \in [mac : Nat, ip : Int] /\ new[k].mac = old.intfs[k].mac
               /\ new[k].ip \in {old.intfs[k].ip, Typed}
    <2>1. old.intfs[k] \in [mac : Nat, ip : Int] /\ Typed \in Int
      BY DEF IsNode, Typed
    <2>2. CASE k = i
      <3>1. new[k] = [old.intfs[k] EXCEPT !.ip = Typed]
        BY <2>2
      <3> HIDE DEF new
      <3> QED
        BY <2>1, <3>1
    <2>3. CASE k # i
      <3>1. new[k] = old.intfs[k]
        BY <2>3
      <3> HIDE DEF new
      <3> QED
        BY <2>1, <3>1
    <2> QED
      BY <2>2, <2>3
  <1> HIDE DEF node, new
  <1>5. IsNode(node)
    BY <1>1, <1>2, <1>3, <1>4 DEF IsNode
  <1>6. /\ node.kind = old.kind /\ node.ifnum = old.ifnum
        /\ DOMAIN node.intfs = DOMAIN old.intfs
        /\ \A k \in DOMAIN old.intfs :
             /\ node.intfs[k].mac = old.intfs[k].mac
             /\ node.intfs[k].ip \in {old.intfs[k].ip, Typed}
    BY <1>2, <1>3, <1>4
  <1> QED
    BY <1>5, <1>6 DEF node

LEMMA SetAddressKeeps ==
  ASSUME NEW t, IsTopology(t), NEW n, NEW i
  PROVE  LET s == SetInterfaceAddresses(t, n, i, Typed) IN
         /\ IsTopology(s) /\ Within(s, t) /\ (Counted(t) => Counted(s))
         /\ NodeNames(s) = NodeNames(t) /\ LinkEnds(s) = LinkEnds(t) /\ s.ifnum = t.ifnum
         /\ s.links = t.links
  <1> DEFINE s    == SetInterfaceAddresses(t, n, i, Typed)
             node == [t.nodes[n] EXCEPT !.intfs[i].ip = Typed]
  <1>1. s = [nodes |-> [t.nodes EXCEPT ![n] = node], links |-> t.links, ifnum |-> t.ifnum]
    BY DEF SetInterfaceAddresses, IsTopology
  <1>2. /\ NodeNames(s) = NodeNames(t) /\ s.links = t.links /\ s.ifnum = t.ifnum
        /\ s = [nodes |-> s.nodes, links |-> s.links, ifnum |-> s.ifnum]
        /\ \A m \in NodeNames(t) : s.nodes[m] = IF m = n THEN node ELSE t.nodes[m]
    BY <1>1 DEF NodeNames
  <1>3. ASSUME n \in NodeNames(t)
        PROVE  /\ IsNode(node) /\ node.kind = t.nodes[n].kind /\ node.ifnum = t.nodes[n].ifnum
               /\ DOMAIN node.intfs = DOMAIN t.nodes[n].intfs
               /\ \A k \in DOMAIN t.nodes[n].intfs :
                    /\ node.intfs[k].mac = t.nodes[n].intfs[k].mac
                    /\ node.intfs[k].ip \in {t.nodes[n].intfs[k].ip, Typed}
    <2>1. IsNode(t.nodes[n])
      BY <1>3 DEF IsTopology
    <2> QED
      BY <2>1, Readdressed
  <1> HIDE DEF s, node
  <1>4. IsTopology(s) /\ Within(s, t) /\ LinkEnds(s) = LinkEnds(t)
    <2>1. s.ifnum \in Nat \ {0} /\ \A m \in NodeNames(t) : IsNode(t.nodes[m])
      BY <1>2 DEF IsTopology
    <2>2. ASSUME NEW m \in NodeNames(t)
          PROVE  /\ IsNode(s.nodes[m]) /\ s.nodes[m].kind = t.nodes[m].kind
                 /\ DOMAIN s.nodes[m].intfs = DOMAIN t.nodes[m].intfs
                 /\ \A k \in DOMAIN t.nodes[m].intfs :
                      /\ s.nodes[m].intfs[k].mac = t.nodes[m].intfs[k].mac
                      /\ s.nodes[m].intfs[k].ip \in {t.nodes[m].intfs[k].ip, Typed}
      BY <1>2, <1>3, <2>1
    <2> QED
      BY <1>2, <2>1, <2>2, SameLinks
  <1>5. Counted(t) => Counted(s)
    BY <1>2, <1>3 DEF Counted
  <1> QED
    BY <1>2, <1>4, <1>5 DEF s

\* A topology in a file comes back with its counters at the start.
LEMMA UnserializeKeeps ==
  ASSUME NEW t, IsTopology(t)
  PROVE  LET s == Unserialize(t) IN
         IsTopology(s) /\ Within(s, t) /\ NodeNames(s) = NodeNames(t) /\ s.ifnum = 1
  <1> DEFINE s     == Unserialize(t)
             nodes == [n \in NodeNames(t) |-> [t.nodes[n] EXCEPT !.ifnum = 0]]
  <1>1. s = [nodes |-> nodes, links |-> t.links, ifnum |-> 1]
    <2>1. t = [nodes |-> t.nodes, links |-> t.links, ifnum |-> t.ifnum]
      BY DEF IsTopology
    <2>2. s = [t EXCEPT !.nodes = nodes, !.ifnum = 1]
      BY DEF Unserialize, NodeNames
    <2> HIDE DEF s, nodes
    <2> QED
      BY <2>1, <2>2
  <1>2. /\ NodeNames(s) = NodeNames(t) /\ s.links = t.links /\ s.ifnum = 1
        /\ s = [nodes |-> s.nodes, links |-> s.links, ifnum |-> s.ifnum]
        /\ \A n \in NodeNames(t) : s.nodes[n] = [t.nodes[n] EXCEPT !.ifnum = 0]
    BY <1>1 DEF NodeNames
  <1> HIDE DEF s, nodes
  <1>3. ASSUME NEW n \in NodeNames(t)
        PROVE  /\ IsNode(s.nodes[n]) /\ s.nodes[n].kind = t.nodes[n].kind
               /\ s.nodes[n].intfs = t.nodes[n].intfs
    <2>1. IsNode(t.nodes[n])
      BY DEF IsTopology
    <2>2. s.nodes[n] = [kind |-> t.nodes[n].kind, ifnum |-> 0, intfs |-> t.nodes[n].intfs]
      BY <1>2, <2>1 DEF IsNode
    <2> QED
      BY <2>1, <2>2 DEF IsNode
  <1>4. ASSUME NEW n \in NodeNames(t)
        PROVE  /\ IsNode(s.nodes[n]) /\ s.nodes[n].kind = t.nodes[n].kind
               /\ DOMAIN s.nodes[n].intfs = DOMAIN t.nodes[n].intfs
               /\ \A i \in DOMAIN t.nodes[n].intfs :
                    /\ s.nodes[n].intfs[i].mac = t.nodes[n].intfs[i].mac
                    /\ s.nodes[n].intfs[i].ip \in {t.nodes[n].intfs[i].ip, Typed}
    BY <1>3
  <1>5. s.ifnum \in Nat \ {0}
    BY <1>2
  <1>6. IsTopology(s) /\ Within(s, t)
    BY <1>2, <1>4, <1>5, SameLinks
  <1> QED
    BY <1>2, <1>6 DEF s

LEMMA NextKept ==
  ASSUME NEW old, IsNode(old), NEW mac \in Nat
  PROVE  LET node == NextInterface(old, mac) IN
         /\ IsNode(node) /\ node.kind = old.kind /\ node.ifnum = old.ifnum + 1
         /\ DOMAIN node.intfs = DOMAIN old.intfs \cup {old.ifnum}
         /\ node.intfs[old.ifnum].mac = mac /\ node.intfs[old.ifnum].ip = 0
         /\ \A i \in DOMAIN old.intfs : i # old.ifnum => node.intfs[i] = old.intfs[i]
  <1> DEFINE node == NextInterface(old, mac)
             new  == With(old.intfs, old.ifnum, Interface(mac))
  <1>1. /\ old = [kind |-> old.kind, ifnum |-> old.ifnum, intfs |-> old.intfs]
        /\ old.ifnum \in Nat /\ DOMAIN old.intfs \subseteq Nat
        /\ \A i \in DOMAIN old.intfs : old.intfs[i] \in [mac : Nat, ip : Int]
    BY DEF IsNode
  <1>2. node = [kind |-> old.kind, ifnum |-> old.ifnum + 1, intfs |-> new]
    <2>1. node = [old EXCEPT !.ifnum = @ + 1, !.intfs = new]
      BY DEF NextInterface
    <2> HIDE DEF node, new
    <2> QED
      BY <1>1, <2>1
  <1>3. /\ DOMAIN new = DOMAIN old.intfs \cup {old.ifnum} /\ new[old.ifnum] = Interface(mac)
        /\ \A i \in DOMAIN old.intfs : i # old.ifnum => new[i] = old.intfs[i]
    BY DEF With
  <1>4. Interface(mac) = [mac |-> mac, ip |-> 0] /\ Interface(mac) \in [mac : Nat, ip : Int]
    BY DEF Interface, NoAddress
  <1> HIDE DEF node, new
  <1>5. /\ DOMAIN new \subseteq Nat /\ \A i \in DOMAIN new : new[i] \in [mac : Nat, ip : Int]
    BY <1>1, <1>3, <1>4
  <1>6. IsNode(node)
    BY <1>1, <1>2, <1>5 DEF IsNode
  <1> QED
    BY <1>2, <1>3, <1>4, <1>6 DEF node

\* A link adds interfaces to the nodes at its ends, and is at the new ones.
Grows(s, t, new) ==
  /\ NodeNames(s) = NodeNames(t) /\ s.ifnum = t.ifnum + 2
  /\ Links(s) = Links(t) \cup {new}
  /\ \A l \in Links(t) : l # new => s.links[l] = t.links[l]
  /\ \A n \in NodeNames(t) : s.nodes[n].kind = t.nodes[n].kind
                             /\ s.nodes[n].ifnum >= t.nodes[n].ifnum

\* With counters that are ahead, what is added is new.
GrowsNew(s, t, new) ==
  /\ \A n \in NodeNames(t) :
       /\ DOMAIN t.nodes[n].intfs \subseteq DOMAIN s.nodes[n].intfs
       /\ \A i \in DOMAIN t.nodes[n].intfs : s.nodes[n].intfs[i] = t.nodes[n].intfs[i]
       /\ \A i \in DOMAIN s.nodes[n].intfs \ DOMAIN t.nodes[n].intfs :
            /\ s.nodes[n].intfs[i].ip = 0 /\ i < s.nodes[n].ifnum
            /\ s.nodes[n].intfs[i].mac \in {t.ifnum, t.ifnum + 1}
       /\ n \in new => s.links[new].at[n] \in DOMAIN s.nodes[n].intfs \ DOMAIN t.nodes[n].intfs
  /\ \A n, m \in NodeNames(t) :
       \A i \in DOMAIN s.nodes[n].intfs \ DOMAIN t.nodes[n].intfs,
          j \in DOMAIN s.nodes[m].intfs \ DOMAIN t.nodes[m].intfs :
         n # m \/ i # j => s.nodes[n].intfs[i].mac # s.nodes[m].intfs[j].mac

LEMMA GrownOwned ==
  ASSUME NEW t, IsTopology(t), Counted(t), Owned(t), NEW s, IsTopology(s), NEW new,
         Grows(s, t, new), GrowsNew(s, t, new)
  PROVE  Owned(s) /\ Counted(s)
  <1>1. t.ifnum \in Nat /\ s.ifnum = t.ifnum + 2
    BY DEF IsTopology, Grows
  <1>2. ASSUME NEW n \in NodeNames(s)
        PROVE  /\ n \in NodeNames(t) /\ IsNode(t.nodes[n]) /\ IsNode(s.nodes[n])
               /\ t.nodes[n].ifnum \in Nat /\ s.nodes[n].ifnum \in Nat
               /\ s.nodes[n].ifnum >= t.nodes[n].ifnum
               /\ DOMAIN t.nodes[n].intfs \subseteq Nat
               /\ \A i \in DOMAIN t.nodes[n].intfs : t.nodes[n].intfs[i].mac \in Nat
    <2>1. n \in NodeNames(t) /\ IsNode(t.nodes[n]) /\ IsNode(s.nodes[n])
      BY DEF Grows, IsTopology
    <2> QED
      BY <2>1 DEF Grows, IsNode
  <1>3. Counted(s)
    <2> SUFFICES ASSUME NEW n \in NodeNames(s), NEW i \in DOMAIN s.nodes[n].intfs
                 PROVE  i < s.nodes[n].ifnum /\ s.nodes[n].intfs[i].mac < s.ifnum
      BY DEF Counted
    <2>1. CASE i \in DOMAIN t.nodes[n].intfs
      <3>1. i < t.nodes[n].ifnum /\ t.nodes[n].intfs[i].mac < t.ifnum
        BY <1>2, <2>1 DEF Counted
      <3>2. s.nodes[n].intfs[i] = t.nodes[n].intfs[i]
        BY <1>2, <2>1 DEF GrowsNew
      <3>3. i \in Nat /\ t.nodes[n].intfs[i].mac \in Nat
        BY <1>2, <2>1
      <3> QED
        BY <1>1, <1>2, <3>1, <3>2, <3>3
    <2>2. CASE i \notin DOMAIN t.nodes[n].intfs
      BY <1>1, <1>2, <2>2 DEF GrowsNew
    <2> QED
      BY <2>1, <2>2
  <1>4. ASSUME NEW e \in LinkEnds(s)
        PROVE  /\ e[2] \in NodeNames(s) /\ e[2] \in NodeNames(t) /\ e[2] \in e[1]
               /\ e = <<e[1], e[2]>>
               /\ \/ /\ e[1] # new /\ e \in LinkEnds(t)
                     /\ s.links[e[1]].at[e[2]] = t.links[e[1]].at[e[2]]
                     /\ t.links[e[1]].at[e[2]] \in DOMAIN t.nodes[e[2]].intfs
                     /\ IpAt(s, e) = IpAt(t, e)
                  \/ /\ e[1] = new /\ IpAt(s, e) = 0
                     /\ s.links[e[1]].at[e[2]] \in
                          DOMAIN s.nodes[e[2]].intfs \ DOMAIN t.nodes[e[2]].intfs
    <2>1. e[1] \in Links(s) /\ e[2] \in NodeNames(s) /\ e[2] \in NodeNames(t) /\ e[2] \in e[1]
          /\ e = <<e[1], e[2]>>
      BY <1>2, EndOf
    <2>2. CASE e[1] = new
      BY <2>1, <2>2 DEF GrowsNew, IpAt
    <2>3. CASE e[1] # new
      <3>1. e[1] \in Links(t) /\ s.links[e[1]] = t.links[e[1]]
        BY <2>1, <2>3 DEF Grows
      <3>2. e \in LinkEnds(t)
        BY <2>1, <3>1 DEF LinkEnds
      <3>3. t.links[e[1]].at[e[2]] \in DOMAIN t.nodes[e[2]].intfs
        BY <3>2 DEF Owned, OwnInterfaces
      <3>4. IpAt(s, e) = IpAt(t, e)
        <4>1. \A i \in DOMAIN t.nodes[e[2]].intfs : s.nodes[e[2]].intfs[i] = t.nodes[e[2]].intfs[i]
          BY <2>1 DEF GrowsNew
        <4> QED
          BY <3>1, <3>3, <4>1 DEF IpAt
      <3> QED
        BY <2>1, <2>3, <3>1, <3>2, <3>3, <3>4
    <2> QED
      BY <2>2, <2>3
  <1>5. OwnInterfaces(s)
    <2>1. ASSUME NEW e \in LinkEnds(s)
          PROVE  s.links[e[1]].at[e[2]] \in DOMAIN s.nodes[e[2]].intfs
      BY <1>4 DEF GrowsNew
    <2>2. ASSUME NEW e \in LinkEnds(s), NEW f \in LinkEnds(s), e # f, e[2] = f[2]
          PROVE  s.links[e[1]].at[e[2]] # s.links[f[1]].at[f[2]]
      <3>1. e[1] # f[1]
        BY <1>4, <2>2
      <3>2. CASE e[1] # new /\ f[1] # new
        BY <1>4, <2>2, <3>2 DEF Owned, OwnInterfaces
      <3>3. CASE e[1] = new \/ f[1] = new
        BY <1>4, <2>2, <3>1, <3>3
      <3> QED
        BY <3>2, <3>3
    <2> QED
      BY <2>1, <2>2 DEF OwnInterfaces
  <1>6. OwnMacs(s)
    <2> SUFFICES ASSUME NEW n \in NodeNames(s), NEW m \in NodeNames(s),
                        NEW i \in DOMAIN s.nodes[n].intfs, NEW j \in DOMAIN s.nodes[m].intfs,
                        n # m \/ i # j
                 PROVE  s.nodes[n].intfs[i].mac # s.nodes[m].intfs[j].mac
      BY MacsApart
    <2>1. ASSUME NEW k \in NodeNames(s), NEW h \in DOMAIN s.nodes[k].intfs
          PROVE  \/ /\ h \in DOMAIN t.nodes[k].intfs /\ k \in NodeNames(t)
                    /\ s.nodes[k].intfs[h] = t.nodes[k].intfs[h]
                    /\ s.nodes[k].intfs[h].mac \in Nat /\ s.nodes[k].intfs[h].mac < t.ifnum
                 \/ /\ h \in DOMAIN s.nodes[k].intfs \ DOMAIN t.nodes[k].intfs
                    /\ k \in NodeNames(t) /\ s.nodes[k].intfs[h].mac >= t.ifnum
      <3>1. CASE h \in DOMAIN t.nodes[k].intfs
        BY <1>2, <3>1 DEF GrowsNew, Counted
      <3>2. CASE h \notin DOMAIN t.nodes[k].intfs
        BY <1>1, <1>2, <3>2 DEF GrowsNew
      <3> QED
        BY <3>1, <3>2
    <2>2. CASE i \in DOMAIN t.nodes[n].intfs /\ j \in DOMAIN t.nodes[m].intfs
      <3>1. t.nodes[n].intfs[i].mac # t.nodes[m].intfs[j].mac
        BY <1>2, <2>2, MacsApart DEF Owned
      <3> QED
        BY <2>1, <2>2, <3>1
    <2>3. CASE i \notin DOMAIN t.nodes[n].intfs /\ j \notin DOMAIN t.nodes[m].intfs
      BY <1>2, <2>3 DEF GrowsNew
    <2>4. CASE i \in DOMAIN t.nodes[n].intfs /\ j \notin DOMAIN t.nodes[m].intfs
      BY <1>1, <2>1, <2>4
    <2>5. CASE i \notin DOMAIN t.nodes[n].intfs /\ j \in DOMAIN t.nodes[m].intfs
      BY <1>1, <2>1, <2>5
    <2> QED
      BY <2>2, <2>3, <2>4, <2>5
  <1>7. OwnAddresses(s)
    <2> SUFFICES ASSUME NEW e \in Numbered(s), NEW f \in Numbered(s), e # f, IpAt(s, e) > 0
                 PROVE  IpAt(s, e) # IpAt(s, f)
      BY DEF OwnAddresses, IpAt
    <2>1. e \in LinkEnds(s) /\ f \in LinkEnds(s)
      BY DEF Numbered
    <2>2. e[1] # new /\ e \in LinkEnds(t) /\ IpAt(s, e) = IpAt(t, e)
      BY <1>4, <2>1
    <2>3. CASE f[1] = new
      BY <1>4, <2>1, <2>3
    <2>4. CASE f[1] # new
      <3>1. f \in LinkEnds(t) /\ IpAt(s, f) = IpAt(t, f)
        BY <1>4, <2>1, <2>4
      <3>2. e \in Numbered(t) /\ f \in Numbered(t)
        BY <1>4, <2>1, <2>2, <3>1 DEF Numbered, Grows
      <3>3. IpAt(t, e) # IpAt(t, f)
        BY <2>2, <3>2 DEF Owned, OwnAddresses, IpAt
      <3> QED
        BY <2>2, <3>1, <3>3
    <2> QED
      BY <2>3, <2>4
  <1> QED
    BY <1>3, <1>5, <1>6, <1>7 DEF Owned

LEMMA AddLinkGrows ==
  ASSUME NEW t, IsTopology(t), NEW u \in NodeNames(t), NEW v \in NodeNames(t), NEW d \in Nat
  PROVE  LET s == AddLink(t, u, v, d) IN
         /\ IsTopology(s) /\ Grows(s, t, {u, v}) /\ (Counted(t) => GrowsNew(s, t, {u, v}))
  <1> DEFINE s    == AddLink(t, u, v, d)
             new  == {u, v}
             one  == [t.nodes EXCEPT ![u] = NextInterface(@, t.ifnum)]
             two  == [one EXCEPT ![v] = NextInterface(@, t.ifnum + 1)]
             ends == [n \in {u, v} |-> IF n = v THEN one[v].ifnum ELSE t.nodes[u].ifnum]
             a    == NextInterface(t.nodes[u], t.ifnum)
             b    == NextInterface(IF u = v THEN a ELSE t.nodes[v], t.ifnum + 1)
             was  == IF u = v THEN a ELSE t.nodes[v]
  <1>1. t.ifnum \in Nat \ {0} /\ IsNode(t.nodes[u]) /\ IsNode(t.nodes[v])
        /\ t.nodes[u].ifnum \in Nat /\ t.nodes[v].ifnum \in Nat
    BY DEF IsTopology, IsNode
  <1>2. s = [nodes |-> two, ifnum |-> t.ifnum + 2,
             links |-> With(t.links, new, [at |-> ends, delay |-> d])]
    BY DEF AddLink
  <1>3. /\ NodeNames(s) = NodeNames(t) /\ s.ifnum = t.ifnum + 2
        /\ Links(s) = Links(t) \cup {new} /\ s.links[new] = [at |-> ends, delay |-> d]
        /\ \A l \in Links(t) : l # new => s.links[l] = t.links[l]
        /\ s = [nodes |-> s.nodes, links |-> s.links, ifnum |-> s.ifnum]
    BY <1>2 DEF NodeNames, Links, With
  <1>4. /\ \A n \in NodeNames(t) : n \notin new => s.nodes[n] = t.nodes[n]
        /\ s.nodes[v] = b /\ (u # v => s.nodes[u] = a)
        /\ one[v] = was
    BY <1>2 DEF NodeNames
  <1>5. /\ IsNode(a) /\ a.kind = t.nodes[u].kind /\ a.ifnum = t.nodes[u].ifnum + 1
        /\ DOMAIN a.intfs = DOMAIN t.nodes[u].intfs \cup {t.nodes[u].ifnum}
        /\ a.intfs[t.nodes[u].ifnum].mac = t.ifnum /\ a.intfs[t.nodes[u].ifnum].ip = 0
        /\ \A i \in DOMAIN t.nodes[u].intfs :
             i # t.nodes[u].ifnum => a.intfs[i] = t.nodes[u].intfs[i]
    BY <1>1, NextKept
  <1> HIDE DEF s, a, two, one
  <1>6. IsNode(was) /\ was.ifnum \in Nat /\ was.kind = t.nodes[v].kind
    BY <1>1, <1>5
  <1> HIDE DEF was
  <1>7. /\ IsNode(b) /\ b.kind = was.kind /\ b.ifnum = was.ifnum + 1
        /\ DOMAIN b.intfs = DOMAIN was.intfs \cup {was.ifnum}
        /\ b.intfs[was.ifnum].mac = t.ifnum + 1 /\ b.intfs[was.ifnum].ip = 0
        /\ \A i \in DOMAIN was.intfs : i # was.ifnum => b.intfs[i] = was.intfs[i]
    <2>1. b = NextInterface(was, t.ifnum + 1) /\ t.ifnum + 1 \in Nat
      BY <1>1 DEF was
    <2> HIDE DEF b
    <2> QED
      BY <1>6, <2>1, NextKept
  <1> HIDE DEF b
  <1>8. /\ DOMAIN ends = new /\ ends \in [new -> Nat]
        /\ ends[v] = was.ifnum /\ (u # v => ends[u] = t.nodes[u].ifnum)
    BY <1>1, <1>4, <1>6
  <1> HIDE DEF ends
  <1>9. IsTopology(s)
    <2>1. ASSUME NEW n \in NodeNames(s)
          PROVE  IsNode(s.nodes[n])
      BY <1>3, <1>4, <1>5, <1>7 DEF IsTopology
    <2>2. ASSUME NEW l \in Links(s)
          PROVE  IsLink(l, s.links[l]) /\ \E x, y \in NodeNames(s) : l = {x, y}
      <3>1. CASE l = new
        <4>1. IsLink(new, [at |-> ends, delay |-> d])
          BY <1>8 DEF IsLink
        <4>2. u \in NodeNames(s) /\ v \in NodeNames(s) /\ l = {u, v}
          BY <1>3, <3>1
        <4> QED
          BY <1>3, <3>1, <4>1, <4>2
      <3>2. CASE l # new
        BY <1>3, <3>2 DEF IsTopology
      <3> QED
        BY <3>1, <3>2
    <2> QED
      BY <1>1, <1>3, <2>1, <2>2 DEF IsTopology
  <1>10. Grows(s, t, new)
    <2>1. ASSUME NEW n \in NodeNames(t)
          PROVE  s.nodes[n].kind = t.nodes[n].kind /\ s.nodes[n].ifnum >= t.nodes[n].ifnum
      <3>1. t.nodes[n].ifnum \in Nat
        BY DEF IsTopology, IsNode
      <3>2. CASE n \notin new
        BY <1>4, <3>1, <3>2
      <3>3. CASE n = v
        BY <1>1, <1>4, <1>5, <1>6, <1>7, <3>3 DEF was
      <3>4. CASE n = u /\ u # v
        BY <1>1, <1>4, <1>5, <3>4
      <3> QED
        BY <3>2, <3>3, <3>4
    <2> QED
      BY <1>3, <2>1 DEF Grows
  <1>11. ASSUME Counted(t)
         PROVE  GrowsNew(s, t, new)
    \* u's new interface is its next one; so is v's, after it if they are the same
    <2>1. \A n \in NodeNames(t) : /\ t.nodes[n].ifnum \in Nat
                                  /\ t.nodes[n].ifnum \notin DOMAIN t.nodes[n].intfs
                                  /\ t.nodes[n].ifnum + 1 \notin DOMAIN t.nodes[n].intfs
      <3> TAKE n \in NodeNames(t)
      <3>1. t.nodes[n].ifnum \in Nat /\ DOMAIN t.nodes[n].intfs \subseteq Nat
        BY DEF IsTopology, IsNode
      <3>2. \A i \in DOMAIN t.nodes[n].intfs : i < t.nodes[n].ifnum
        BY <1>11 DEF Counted
      <3> QED
        BY <3>1, <3>2
    <2>2. ASSUME NEW n \in NodeNames(t), NEW i \in DOMAIN t.nodes[n].intfs
          PROVE  i \in DOMAIN s.nodes[n].intfs /\ s.nodes[n].intfs[i] = t.nodes[n].intfs[i]
      <3>1. CASE n \notin new
        BY <1>4, <3>1
      <3>2. CASE n = u /\ u # v
        BY <1>4, <1>5, <2>1, <3>2
      <3>3. CASE n = v /\ u # v
        BY <1>4, <1>7, <2>1, <3>3 DEF was
      <3>4. CASE n = v /\ u = v
        <4>1. i \in DOMAIN a.intfs /\ a.intfs[i] = t.nodes[n].intfs[i]
          BY <1>5, <2>1, <3>4
        <4>2. was = a /\ i # was.ifnum
          BY <1>5, <2>1, <3>4 DEF was
        <4> QED
          BY <1>4, <1>7, <3>4, <4>1, <4>2
      <3> QED
        BY <3>1, <3>2, <3>3, <3>4
    \* what is new, and its address
    <2>3. ASSUME NEW n \in NodeNames(t), NEW i \in DOMAIN s.nodes[n].intfs \ DOMAIN t.nodes[n].intfs
          PROVE  \/ /\ n = u /\ i = t.nodes[u].ifnum /\ i < s.nodes[n].ifnum
                    /\ s.nodes[n].intfs[i].ip = 0 /\ s.nodes[n].intfs[i].mac = t.ifnum
                 \/ /\ n = v /\ i = was.ifnum /\ i < s.nodes[n].ifnum
                    /\ s.nodes[n].intfs[i].ip = 0 /\ s.nodes[n].intfs[i].mac = t.ifnum + 1
      <3>1. CASE n \notin new
        BY <1>4, <3>1
      <3>2. CASE n = u /\ u # v
        BY <1>4, <1>5, <2>1, <3>2
      <3>3. CASE n = v /\ i = was.ifnum
        BY <1>4, <1>6, <1>7, <3>3
      <3>4. CASE n = v /\ i # was.ifnum
        <4>1. i \in DOMAIN was.intfs /\ s.nodes[n].intfs[i] = was.intfs[i]
          BY <1>4, <1>7, <3>4
        <4>2. u = v /\ was = a
          BY <3>4, <4>1 DEF was
        <4>3. i = t.nodes[u].ifnum
          BY <1>5, <3>4, <4>1, <4>2
        <4>4. s.nodes[n].ifnum = i + 2
          BY <1>4, <1>5, <1>7, <2>1, <3>4, <4>2, <4>3
        <4> QED
          BY <1>5, <2>1, <3>4, <4>1, <4>2, <4>3, <4>4
      <3> QED
        BY <3>1, <3>2, <3>3, <3>4
    <2>4. ASSUME NEW n \in new
          PROVE  s.links[new].at[n] \in DOMAIN s.nodes[n].intfs \ DOMAIN t.nodes[n].intfs
      <3>1. s.links[new].at = ends
        BY <1>3
      <3>2. CASE n = u /\ u # v
        BY <1>4, <1>5, <1>8, <2>1, <3>1, <3>2
      <3>3. CASE n = v
        BY <1>4, <1>5, <1>7, <1>8, <2>1, <3>1, <3>3 DEF was
      <3> QED
        BY <3>2, <3>3
    <2>5. ASSUME NEW n \in NodeNames(t), NEW m \in NodeNames(t),
                 NEW i \in DOMAIN s.nodes[n].intfs \ DOMAIN t.nodes[n].intfs,
                 NEW j \in DOMAIN s.nodes[m].intfs \ DOMAIN t.nodes[m].intfs, n # m \/ i # j
          PROVE  s.nodes[n].intfs[i].mac # s.nodes[m].intfs[j].mac
      BY <1>1, <2>3, <2>5
    <2>6. ASSUME NEW n \in NodeNames(t)
          PROVE  /\ DOMAIN t.nodes[n].intfs \subseteq DOMAIN s.nodes[n].intfs
                 /\ \A i \in DOMAIN t.nodes[n].intfs : s.nodes[n].intfs[i] = t.nodes[n].intfs[i]
                 /\ \A i \in DOMAIN s.nodes[n].intfs \ DOMAIN t.nodes[n].intfs :
                      /\ s.nodes[n].intfs[i].ip = 0 /\ i < s.nodes[n].ifnum
                      /\ s.nodes[n].intfs[i].mac \in {t.ifnum, t.ifnum + 1}
      BY <2>2, <2>3
    <2> QED
      BY <2>4, <2>5, <2>6 DEF GrowsNew
  <1> QED
    BY <1>9, <1>10, <1>11 DEF s

-----------------------------------------------------------------------------
(***************************************************************************)
(* Then packets on links.  Between two nodes a packet has to leave before  *)
(* another that is earlier and no longer: so of two packets in the heap or *)
(* before it, the one that is ahead expires no later, and what has arrived *)
(* is ahead of what is still on its way.                                   *)
(***************************************************************************)
AnyName == Name \cup UNION {NodeNames(t) : t \in Start \cup File}

\* A packet that is ahead of another to the same node is the earlier one, unless
\* it is the shorter.
HostPacket == [dev |-> HostDevice]
Packet == [left : Int, to : AnyName, dev : Nat, from : AnyName, size : Nat, nr : Nat]
Ahead(p, q) == p.to = q.to /\ p.size >= q.size => p.nr < q.nr
Elems(s) == {s[k] : k \in DOMAIN s}

\* The heap h and the queue q of the link emulator of n, after c packets, over the
\* pipes ps
Ordered(h, q, ps, n, c) ==
  /\ h \in Seq(Packet) /\ q \in Seq(Packet)
  /\ \A x \in Elems(h) \cup Elems(q) :
       /\ x.from = n /\ x.nr <= c
       /\ \A i \in DOMAIN ps : ps[i].to = x.to => x.left <= ps[i].delay + x.size
  /\ \A j, k \in DOMAIN h : j < k => Ahead(h[j], h[k])
  /\ \A x \in Elems(h), y \in Elems(q) : x.nr < y.nr
  /\ \A j, k \in DOMAIN q : j < k => q[j].nr < q[k].nr
  /\ \A x, y \in Elems(h) \cup Elems(q) :
       x.to = y.to /\ x.nr < y.nr /\ x.size <= y.size => x.left <= y.left

\* what has arrived at m, and F from n is still to come
Arrived(g, m, c) ==
  /\ g \in Seq(Packet \cup {HostPacket})
  /\ \A p \in Elems(g) : p.dev # HostDevice => p.to = m /\ p.nr <= c
  /\ \A j, k \in DOMAIN g :
       j < k /\ g[j].dev # HostDevice /\ g[k].dev # HostDevice /\ g[j].from = g[k].from =>
         Ahead(g[j], g[k])
Behind(g, F, n) ==
  \A p \in Elems(g) : \A x \in F : p.dev # HostDevice /\ p.from = n => Ahead(p, x)

LEMMA HeadAndTail ==
  ASSUME NEW S, NEW s \in Seq(S), s # << >>
  PROVE  /\ Head(s) = s[1] /\ 1 \in DOMAIN s /\ Head(s) \in S /\ Head(s) \in Elems(s)
         /\ Tail(s) \in Seq(S) /\ Elems(Tail(s)) \subseteq Elems(s)
         /\ \A k \in DOMAIN Tail(s) : k \in Nat \ {0} /\ k + 1 \in DOMAIN s /\ Tail(s)[k] = s[k + 1]
  <1>1. /\ Head(s) = s[1] /\ 1 \in DOMAIN s /\ Head(s) \in S /\ Tail(s) \in Seq(S)
        /\ DOMAIN s = 1 .. Len(s) /\ Len(s) \in Nat \ {0}
        /\ DOMAIN Tail(s) = 1 .. Len(s) - 1
        /\ \A k \in 1 .. Len(s) - 1 : Tail(s)[k] = s[k + 1]
    <2>1. /\ Tail(s) \in Seq(S) /\ Len(Tail(s)) = Len(s) - 1 /\ Head(s) \in S
          /\ \A k \in 1 .. Len(s) - 1 : Tail(s)[k] = s[k + 1]
      BY HeadTailProperties
    <2>2. DOMAIN s = 1 .. Len(s) /\ Len(s) \in Nat \ {0} /\ Head(s) = s[1]
      BY LenProperties, EmptySeq
    <2>3. DOMAIN Tail(s) = 1 .. Len(s) - 1
      BY <2>1, LenProperties
    <2>4. s[1] \in S /\ 1 \in DOMAIN s
      BY <2>2, ElementOfSeq
    <2> QED
      BY <2>1, <2>2, <2>3, <2>4
  <1>2. \A k \in DOMAIN Tail(s) : k \in Nat \ {0} /\ k + 1 \in DOMAIN s /\ Tail(s)[k] = s[k + 1]
    BY <1>1
  <1>3. Elems(Tail(s)) \subseteq Elems(s)
    BY <1>2 DEF Elems
  <1>4. Head(s) \in Elems(s)
    BY <1>1 DEF Elems
  <1> QED
    BY <1>1, <1>2, <1>3, <1>4

LEMMA Appended ==
  ASSUME NEW S, NEW s \in Seq(S), NEW e \in S
  PROVE  /\ Append(s, e) \in Seq(S) /\ Elems(Append(s, e)) = Elems(s) \cup {e}
         /\ DOMAIN s = 1 .. Len(s) /\ Len(s) \in Nat /\ DOMAIN Append(s, e) = 1 .. Len(s) + 1
         /\ Append(s, e)[Len(s) + 1] = e
         /\ \A k \in 1 .. Len(s) : Append(s, e)[k] = s[k]
  <1>1. /\ Append(s, e) \in Seq(S) /\ Len(Append(s, e)) = Len(s) + 1
        /\ \A k \in 1 .. Len(s) : Append(s, e)[k] = s[k]
        /\ Append(s, e)[Len(s) + 1] = e
    BY AppendProperties
  <1>2. /\ DOMAIN s = 1 .. Len(s) /\ Len(s) \in Nat /\ DOMAIN Append(s, e) = 1 .. Len(s) + 1
    <2> DEFINE r == Append(s, e)
    <2>1. r \in Seq(S) /\ Len(r) = Len(s) + 1
      BY <1>1
    <2> HIDE DEF r
    <2>2. DOMAIN s = 1 .. Len(s) /\ Len(s) \in Nat /\ DOMAIN r = 1 .. Len(s) + 1
      BY <2>1, LenProperties
    <2> QED
      BY <2>2 DEF r
  <1>3. Elems(Append(s, e)) = Elems(s) \cup {e}
    <2>1. \A k \in DOMAIN Append(s, e) : k \in DOMAIN s \/ k = Len(s) + 1
      BY <1>2
    <2>2. \A k \in DOMAIN s : k \in DOMAIN Append(s, e)
      BY <1>2
    <2>3. Len(s) + 1 \in DOMAIN Append(s, e)
      BY <1>2
    <2> QED
      BY <1>1, <1>2, <2>1, <2>2, <2>3 DEF Elems
  <1> QED
    BY <1>1, <1>2, <1>3

LEMMA Inserted ==
  ASSUME NEW S, NEW s \in Seq(S), NEW e \in S, NEW i \in 1 .. Len(s) + 1
  PROVE  LET r == InsertAt(s, i, e) IN
         /\ r \in Seq(S) /\ Elems(r) = Elems(s) \cup {e}
         /\ DOMAIN s = 1 .. Len(s) /\ Len(s) \in Nat /\ DOMAIN r = 1 .. Len(s) + 1
         /\ \A k \in 1 .. Len(s) + 1 : r[k] = IF k < i THEN s[k] ELSE IF k = i THEN e ELSE s[k - 1]
  <1> DEFINE r == InsertAt(s, i, e)
             a == SubSeq(s, 1, i - 1)
             b == SubSeq(s, i, Len(s))
  <1>1. DOMAIN s = 1 .. Len(s) /\ Len(s) \in Nat
    BY LenProperties
  <1>2. /\ a \in Seq(S) /\ Len(a) = i - 1 /\ \A k \in 1 .. i - 1 : a[k] = s[k]
    BY <1>1, SubSeqProperties
  <1>3. /\ b \in Seq(S) /\ Len(b) = Len(s) - i + 1
        /\ \A k \in 1 .. Len(s) - i + 1 : b[k] = s[i + k - 1]
    BY <1>1, SubSeqProperties
  <1>4. r = (a \o <<e>>) \o b
    BY DEF InsertAt
  <1> HIDE DEF a, b, r
  <1>5. /\ a \o <<e>> \in Seq(S) /\ Len(a \o <<e>>) = i
        /\ \A k \in 1 .. i - 1 : (a \o <<e>>)[k] = s[k]
        /\ (a \o <<e>>)[i] = e
    <2>1. <<e>> \in Seq(S) /\ Len(<<e>>) = 1 /\ <<e>>[1] = e
      OBVIOUS
    <2> QED
      BY <1>2, <2>1, ConcatProperties
  <1>6. /\ r \in Seq(S) /\ Len(r) = Len(s) + 1
        /\ \A k \in 1 .. i : r[k] = (a \o <<e>>)[k]
        /\ \A k \in 1 .. Len(s) - i + 1 : r[i + k] = b[k]
    <2> DEFINE f == a \o <<e>>
    <2>1. f \in Seq(S) /\ Len(f) = i /\ r = f \o b
      BY <1>4, <1>5
    <2> HIDE DEF f
    <2>2. /\ r \in Seq(S) /\ Len(r) = i + Len(b)
          /\ \A k \in 1 .. i : r[k] = f[k]
          /\ \A k \in 1 .. Len(b) : r[i + k] = b[k]
      BY <1>3, <2>1, ConcatProperties
    <2>3. /\ Len(r) = Len(s) + 1
          /\ \A k \in 1 .. Len(s) - i + 1 : r[i + k] = b[k]
      BY <1>1, <1>3, <2>2
    <2> QED
      BY <2>2, <2>3 DEF f
  <1>7. DOMAIN r = 1 .. Len(s) + 1
    BY <1>6, LenProperties
  <1>8. ASSUME NEW k \in 1 .. Len(s) + 1
        PROVE  r[k] = IF k < i THEN s[k] ELSE IF k = i THEN e ELSE s[k - 1]
    <2>1. CASE k < i
      <3>1. k \in 1 .. i - 1 /\ k \in 1 .. i
        BY <1>1, <2>1
      <3>2. r[k] = (a \o <<e>>)[k] /\ (a \o <<e>>)[k] = s[k]
        BY <1>5, <1>6, <3>1
      <3> QED
        BY <2>1, <3>2
    <2>2. CASE k = i
      BY <1>5, <1>6, <2>2
    <2>3. CASE k > i
      <3>1. k - i \in 1 .. Len(s) - i + 1 /\ i + (k - i) = k /\ i + (k - i) - 1 = k - 1
        BY <1>1, <2>3
      <3>2. r[i + (k - i)] = b[k - i] /\ b[k - i] = s[i + (k - i) - 1]
        BY <1>3, <1>6, <3>1
      <3> QED
        BY <2>3, <3>1, <3>2
    <2> QED
      BY <2>1, <2>2, <2>3
  <1>9. Elems(r) = Elems(s) \cup {e}
    <2>1. ASSUME NEW k \in DOMAIN r
          PROVE  r[k] \in Elems(s) \cup {e}
      BY <1>1, <1>7, <1>8 DEF Elems
    <2>2. ASSUME NEW k \in DOMAIN s
          PROVE  s[k] \in Elems(r)
      <3>1. CASE k < i
        BY <1>1, <1>7, <1>8, <3>1 DEF Elems
      <3>2. CASE k >= i
        <4>1. k + 1 \in DOMAIN r /\ r[k + 1] = s[k]
          BY <1>1, <1>7, <1>8, <3>2
        <4> QED
          BY <4>1 DEF Elems
      <3> QED
        BY <1>1, <3>1, <3>2
    <2>3. e \in Elems(r)
      BY <1>7, <1>8 DEF Elems
    <2> QED
      BY <2>1, <2>2, <2>3 DEF Elems
  <1> QED
    BY <1>1, <1>6, <1>7, <1>8, <1>9 DEF r

\* A packet is sent.
LEMMA PacketSent ==
  ASSUME NEW h, NEW q, NEW ps, NEW n, NEW c \in Nat, Ordered(h, q, ps, n, c),
         NEW y \in Packet, y.from = n, y.nr = c + 1,
         \A j \in DOMAIN ps : ps[j].to = y.to => y.left = ps[j].delay + y.size,
         \A j \in DOMAIN ps : ps[j].delay \in Nat,
         NEW i \in DOMAIN ps, ps[i].to = y.to
  PROVE  /\ Ordered(h, Append(q, y), ps, n, c + 1)
         /\ Elems(h) \cup Elems(Append(q, y)) = (Elems(h) \cup Elems(q)) \cup {y}
  <1> DEFINE r == Append(q, y)
  <1>1. /\ h \in Seq(Packet) /\ q \in Seq(Packet)
        /\ \A x \in Elems(h) \cup Elems(q) :
             /\ x.from = n /\ x.nr <= c
             /\ \A j \in DOMAIN ps : ps[j].to = x.to => x.left <= ps[j].delay + x.size
        /\ \A x \in Elems(h) \cup Elems(q) : x \in Packet
    <2>1. /\ h \in Seq(Packet) /\ q \in Seq(Packet)
          /\ \A x \in Elems(h) \cup Elems(q) :
               /\ x.from = n /\ x.nr <= c
               /\ \A j \in DOMAIN ps : ps[j].to = x.to => x.left <= ps[j].delay + x.size
      BY DEF Ordered
    <2>2. \A x \in Elems(h) \cup Elems(q) : x \in Packet
      BY <2>1, ElementOfSeq DEF Elems
    <2> QED
      BY <2>1, <2>2
  <1>2. /\ r \in Seq(Packet) /\ Elems(r) = Elems(q) \cup {y}
        /\ DOMAIN q = 1 .. Len(q) /\ Len(q) \in Nat /\ DOMAIN r = 1 .. Len(q) + 1
        /\ r[Len(q) + 1] = y /\ \A k \in 1 .. Len(q) : r[k] = q[k]
    BY <1>1, Appended
  <1> HIDE DEF r
  <1>3. ASSUME NEW x \in Elems(h) \cup Elems(r)
        PROVE  /\ x.from = n /\ x.nr <= c + 1 /\ x \in Packet
               /\ \A j \in DOMAIN ps : ps[j].to = x.to => x.left <= ps[j].delay + x.size
    <2>1. CASE x = y
      BY <2>1 DEF Packet
    <2>2. CASE x \in Elems(h) \cup Elems(q)
      <3>1. x.nr \in Nat /\ x.nr <= c /\ x \in Packet
        BY <1>1, <2>2 DEF Packet
      <3> QED
        BY <1>1, <2>2, <3>1
    <2> QED
      BY <1>2, <2>1, <2>2
  <1>4. \A x \in Elems(h), z \in Elems(r) : x.nr < z.nr
    <2> TAKE x \in Elems(h), z \in Elems(r)
    <2>1. CASE z = y
      <3>1. x.nr \in Nat /\ x.nr <= c
        BY <1>1 DEF Packet
      <3> QED
        BY <2>1, <3>1
    <2>2. CASE z \in Elems(q)
      BY <2>2 DEF Ordered
    <2> QED
      BY <1>2, <2>1, <2>2
  <1>5. ASSUME NEW j \in DOMAIN r, NEW k \in DOMAIN r, j < k
        PROVE  r[j].nr < r[k].nr
    <2>1. j \in DOMAIN q /\ r[j] = q[j]
      BY <1>2, <1>5
    <2>2. CASE k = Len(q) + 1
      <3>1. q[j] \in Elems(q)
        BY <2>1 DEF Elems
      <3>2. q[j].nr \in Nat /\ q[j].nr <= c
        BY <1>1, <3>1 DEF Packet
      <3> QED
        BY <1>2, <2>1, <2>2, <3>2
    <2>3. CASE k # Len(q) + 1
      <3>1. k \in DOMAIN q /\ r[k] = q[k]
        BY <1>2, <2>3
      <3> QED
        BY <1>5, <2>1, <3>1 DEF Ordered
    <2> QED
      BY <2>2, <2>3
  <1>6. ASSUME NEW x \in Elems(h) \cup Elems(r), NEW z \in Elems(h) \cup Elems(r),
               x.to = z.to, x.nr < z.nr, x.size <= z.size
        PROVE  x.left <= z.left
    <2>1. CASE z = y
      <3>1. x # y
        BY <1>6, <2>1
      <3>2. x \in Elems(h) \cup Elems(q)
        BY <1>2, <3>1
      <3>3. x.left <= ps[i].delay + x.size /\ y.left = ps[i].delay + y.size
        BY <1>1, <1>6, <2>1, <3>2
      <3>4. x.left \in Int /\ x.size \in Nat /\ y.size \in Nat /\ y.left \in Int /\ ps[i].delay \in Nat
        BY <1>3 DEF Packet
      <3> QED
        BY <1>6, <2>1, <3>3, <3>4
    <2>2. CASE z # y
      <3>1. z \in Elems(h) \cup Elems(q)
        BY <1>2, <2>2
      <3>2. z.nr \in Nat /\ z.nr <= c
        BY <1>1, <3>1 DEF Packet
      <3>3. x # y
        BY <1>6, <3>2
      <3>4. x \in Elems(h) \cup Elems(q)
        BY <1>2, <3>3
      <3> QED
        BY <1>6, <3>1, <3>4 DEF Ordered
    <2> QED
      BY <2>1, <2>2
  <1>7. \A j, k \in DOMAIN h : j < k => Ahead(h[j], h[k])
    BY DEF Ordered
  <1>8. Ordered(h, r, ps, n, c + 1)
    BY <1>1, <1>2, <1>3, <1>4, <1>5, <1>6, <1>7 DEF Ordered
  <1> QED
    BY <1>2, <1>8 DEF r

\* A packet goes from the queue into the heap.
LEMMA PacketPushed ==
  ASSUME NEW h, NEW q, NEW ps, NEW n, NEW c \in Nat, Ordered(h, q, ps, n, c), q # << >>,
         NEW i \in 1 .. Len(h) + 1, Place(h, Head(q), i)
  PROVE  /\ Ordered(InsertAt(h, i, Head(q)), Tail(q), ps, n, c)
         /\ Elems(InsertAt(h, i, Head(q))) \cup Elems(Tail(q)) \subseteq Elems(h) \cup Elems(q)
  <1> DEFINE y == Head(q)
             r == InsertAt(h, i, y)
             s == Tail(q)
  <1>1. /\ h \in Seq(Packet) /\ q \in Seq(Packet)
        /\ \A x \in Elems(h) \cup Elems(q) : x \in Packet
    BY ElementOfSeq DEF Ordered, Elems
  <1>2. /\ y = q[1] /\ 1 \in DOMAIN q /\ y \in Packet /\ y \in Elems(q)
        /\ s \in Seq(Packet) /\ Elems(s) \subseteq Elems(q)
        /\ \A k \in DOMAIN s : k \in Nat \ {0} /\ k + 1 \in DOMAIN q /\ s[k] = q[k + 1]
    BY <1>1, HeadAndTail
  <1>3. /\ r \in Seq(Packet) /\ Elems(r) = Elems(h) \cup {y}
        /\ DOMAIN h = 1 .. Len(h) /\ Len(h) \in Nat /\ DOMAIN r = 1 .. Len(h) + 1
        /\ \A k \in 1 .. Len(h) + 1 : r[k] = IF k < i THEN h[k] ELSE IF k = i THEN y ELSE h[k - 1]
    BY <1>1, <1>2, Inserted
  <1>4. \A k \in DOMAIN h : k < i <=> h[k].left <= y.left
    BY DEF Place
  <1> HIDE DEF y, r, s
  <1>5. ASSUME NEW k \in DOMAIN h
        PROVE  /\ h[k].nr < y.nr /\ h[k].nr \in Nat /\ y.nr \in Nat
               /\ k >= i => ~ (h[k].to = y.to /\ h[k].size <= y.size)
    <2>1. h[k] \in Elems(h) /\ h[k] \in Packet
      BY <1>1, ElementOfSeq DEF Elems
    <2>2. h[k].nr < y.nr
      BY <1>2, <2>1 DEF Ordered
    <2>3. h[k].to = y.to /\ h[k].size <= y.size => h[k].left <= y.left
      BY <1>2, <2>1, <2>2 DEF Ordered
    <2>4. k >= i => ~ k < i
      BY <1>3
    <2> QED
      BY <1>2, <1>4, <2>1, <2>2, <2>3, <2>4 DEF Packet
  <1>6. ASSUME NEW j \in DOMAIN r, NEW k \in DOMAIN r, j < k
        PROVE  Ahead(r[j], r[k])
    <2>1. CASE j < i /\ k < i
      <3>1. r[j] = h[j] /\ r[k] = h[k] /\ j \in DOMAIN h /\ k \in DOMAIN h
        BY <1>3, <2>1
      <3> QED
        BY <1>6, <3>1 DEF Ordered
    <2>2. CASE k = i
      <3>1. r[j] = h[j] /\ r[k] = y /\ j \in DOMAIN h
        BY <1>3, <1>6, <2>2
      <3> QED
        BY <1>5, <3>1 DEF Ahead
    <2>3. CASE j = i
      <3>1. r[j] = y /\ r[k] = h[k - 1] /\ k - 1 \in DOMAIN h /\ k - 1 >= i
        BY <1>3, <1>6, <2>3
      <3>2. h[k - 1] \in Packet
        BY <1>1, <3>1, ElementOfSeq
      <3>3. ~ (h[k - 1].to = y.to /\ h[k - 1].size <= y.size)
        BY <1>5, <3>1
      <3>4. ~ (y.to = h[k - 1].to /\ y.size >= h[k - 1].size)
        BY <1>2, <3>2, <3>3 DEF Packet
      <3> QED
        BY <3>1, <3>4 DEF Ahead
    <2>4. CASE j > i
      <3>1. r[j] = h[j - 1] /\ r[k] = h[k - 1] /\ j - 1 \in DOMAIN h /\ k - 1 \in DOMAIN h
            /\ j - 1 < k - 1
        BY <1>3, <1>6, <2>4
      <3> QED
        BY <3>1 DEF Ordered
    <2>5. CASE j < i /\ k > i
      <3>1. r[j] = h[j] /\ r[k] = h[k - 1] /\ j \in DOMAIN h /\ k - 1 \in DOMAIN h /\ j < k - 1
        BY <1>3, <1>6, <2>5
      <3> QED
        BY <3>1 DEF Ordered
    <2> QED
      BY <1>3, <1>6, <2>1, <2>2, <2>3, <2>4, <2>5
  <1>7. ASSUME NEW k \in DOMAIN s
        PROVE  y.nr < s[k].nr
    <2>1. s[k] = q[k + 1] /\ k + 1 \in DOMAIN q /\ 1 < k + 1
      BY <1>2
    <2>2. q[1].nr < q[k + 1].nr
      BY <1>2, <2>1 DEF Ordered
    <2> QED
      BY <1>2, <2>1, <2>2
  <1>8. \A x \in Elems(r), z \in Elems(s) : x.nr < z.nr
    <2> TAKE x \in Elems(r), z \in Elems(s)
    <2>1. CASE x \in Elems(h)
      BY <1>2, <2>1 DEF Ordered
    <2>2. CASE x = y
      BY <1>7, <2>2 DEF Elems
    <2> QED
      BY <1>3, <2>1, <2>2
  <1>9. ASSUME NEW j \in DOMAIN s, NEW k \in DOMAIN s, j < k
        PROVE  s[j].nr < s[k].nr
    <2>1. /\ s[j] = q[j + 1] /\ s[k] = q[k + 1] /\ j + 1 \in DOMAIN q /\ k + 1 \in DOMAIN q
          /\ j + 1 < k + 1
      BY <1>2, <1>9
    <2> QED
      BY <2>1 DEF Ordered
  <1>10. Elems(r) \cup Elems(s) \subseteq Elems(h) \cup Elems(q)
    BY <1>2, <1>3
  <1>11. Ordered(r, s, ps, n, c)
    <2>1. \A x \in Elems(r) \cup Elems(s) :
            /\ x.from = n /\ x.nr <= c
            /\ \A j \in DOMAIN ps : ps[j].to = x.to => x.left <= ps[j].delay + x.size
      BY <1>10 DEF Ordered
    <2>2. \A x, z \in Elems(r) \cup Elems(s) :
            x.to = z.to /\ x.nr < z.nr /\ x.size <= z.size => x.left <= z.left
      BY <1>10 DEF Ordered
    <2> QED
      BY <1>2, <1>3, <1>6, <1>8, <1>9, <2>1, <2>2 DEF Ordered
  <1> QED
    BY <1>10, <1>11 DEF r, s, y

\* The head of the heap is delivered: it is ahead of all that is left.
LEMMA PacketPopped ==
  ASSUME NEW h, NEW q, NEW ps, NEW n, NEW c \in Nat, Ordered(h, q, ps, n, c), h # << >>
  PROVE  /\ Ordered(Tail(h), q, ps, n, c)
         /\ Head(h) \in Packet /\ Head(h).from = n /\ Head(h).nr <= c
         /\ Head(h) \in Elems(h) /\ Elems(Tail(h)) \subseteq Elems(h)
         /\ \A x \in Elems(Tail(h)) \cup Elems(q) : Ahead(Head(h), x)
  <1> DEFINE s == Tail(h)
             y == Head(h)
  <1>1. h \in Seq(Packet)
    BY DEF Ordered
  <1>2. /\ y = h[1] /\ 1 \in DOMAIN h /\ y \in Packet /\ y \in Elems(h)
        /\ s \in Seq(Packet) /\ Elems(s) \subseteq Elems(h)
        /\ \A k \in DOMAIN s : k \in Nat \ {0} /\ k + 1 \in DOMAIN h /\ s[k] = h[k + 1]
    BY <1>1, HeadAndTail
  <1> HIDE DEF s, y
  <1>3. \A k \in DOMAIN s : Ahead(y, s[k])
    <2> TAKE k \in DOMAIN s
    <2>1. s[k] = h[k + 1] /\ k + 1 \in DOMAIN h /\ 1 < k + 1
      BY <1>2
    <2> QED
      BY <1>2, <2>1 DEF Ordered
  <1>4. \A x \in Elems(s) \cup Elems(q) : Ahead(y, x)
    <2>1. \A x \in Elems(q) : y.nr < x.nr
      BY <1>2 DEF Ordered
    <2> QED
      BY <1>3, <2>1 DEF Ahead, Elems
  <1>5. ASSUME NEW j \in DOMAIN s, NEW k \in DOMAIN s, j < k
        PROVE  Ahead(s[j], s[k])
    <2>1. /\ s[j] = h[j + 1] /\ s[k] = h[k + 1] /\ j + 1 \in DOMAIN h /\ k + 1 \in DOMAIN h
          /\ j + 1 < k + 1
      BY <1>2, <1>5
    <2> QED
      BY <2>1 DEF Ordered
  <1>6. Ordered(s, q, ps, n, c)
    <2>1. /\ \A x \in Elems(s) \cup Elems(q) :
               /\ x.from = n /\ x.nr <= c
               /\ \A j \in DOMAIN ps : ps[j].to = x.to => x.left <= ps[j].delay + x.size
          /\ \A x \in Elems(s), z \in Elems(q) : x.nr < z.nr
      BY <1>2 DEF Ordered
    <2>2. \A x, z \in Elems(s) \cup Elems(q) :
            x.to = z.to /\ x.nr < z.nr /\ x.size <= z.size => x.left <= z.left
      BY <1>2 DEF Ordered
    <2>3. q \in Seq(Packet) /\ \A j, k \in DOMAIN q : j < k => q[j].nr < q[k].nr
      BY DEF Ordered
    <2> QED
      BY <1>2, <1>5, <2>1, <2>2, <2>3 DEF Ordered
  <1> QED
    BY <1>2, <1>4, <1>6 DEF Ordered, s, y

-----------------------------------------------------------------------------
\* A packet is taken from what has arrived, or arrives.
LEMMA ArrivalTaken ==
  ASSUME NEW g, NEW m, NEW c \in Nat, Arrived(g, m, c), g # << >>
  PROVE  Arrived(Tail(g), m, c) /\ Elems(Tail(g)) \subseteq Elems(g)
  <1> DEFINE s == Tail(g)
  <1>1. g \in Seq(Packet \cup {HostPacket})
    BY DEF Arrived
  <1>2. /\ s \in Seq(Packet \cup {HostPacket}) /\ Elems(s) \subseteq Elems(g)
        /\ \A k \in DOMAIN s : k \in Nat \ {0} /\ k + 1 \in DOMAIN g /\ s[k] = g[k + 1]
    BY <1>1, HeadAndTail
  <1> HIDE DEF s
  <1>3. ASSUME NEW j \in DOMAIN s, NEW k \in DOMAIN s,
               j < k /\ s[j].dev # HostDevice /\ s[k].dev # HostDevice /\ s[j].from = s[k].from
        PROVE  Ahead(s[j], s[k])
    <2>1. /\ s[j] = g[j + 1] /\ s[k] = g[k + 1] /\ j + 1 \in DOMAIN g /\ k + 1 \in DOMAIN g
          /\ j + 1 < k + 1
      BY <1>2, <1>3
    <2> QED
      BY <1>3, <2>1 DEF Arrived
  <1>4. \A p \in Elems(s) : p.dev # HostDevice => p.to = m /\ p.nr <= c
    BY <1>2 DEF Arrived
  <1>5. Arrived(s, m, c)
    BY <1>2, <1>3, <1>4 DEF Arrived
  <1> QED
    BY <1>2, <1>5 DEF s

LEMMA PacketArrives ==
  ASSUME NEW g, NEW m, NEW c \in Nat, Arrived(g, m, c), NEW p \in Packet \cup {HostPacket},
         p.dev # HostDevice =>
           /\ p.to = m /\ p.nr <= c
           /\ \A x \in Elems(g) : x.dev # HostDevice /\ x.from = p.from => Ahead(x, p)
  PROVE  Arrived(Append(g, p), m, c) /\ Elems(Append(g, p)) = Elems(g) \cup {p}
  <1> DEFINE r == Append(g, p)
  <1>1. g \in Seq(Packet \cup {HostPacket})
    BY DEF Arrived
  <1>2. /\ r \in Seq(Packet \cup {HostPacket}) /\ Elems(r) = Elems(g) \cup {p}
        /\ DOMAIN g = 1 .. Len(g) /\ Len(g) \in Nat /\ DOMAIN r = 1 .. Len(g) + 1
        /\ r[Len(g) + 1] = p /\ \A k \in 1 .. Len(g) : r[k] = g[k]
    BY <1>1, Appended
  <1> HIDE DEF r
  <1>3. ASSUME NEW j \in DOMAIN r, NEW k \in DOMAIN r,
               j < k /\ r[j].dev # HostDevice /\ r[k].dev # HostDevice /\ r[j].from = r[k].from
        PROVE  Ahead(r[j], r[k])
    <2>1. j \in DOMAIN g /\ r[j] = g[j]
      BY <1>2, <1>3
    <2>2. CASE k = Len(g) + 1
      <3>1. g[j] \in Elems(g)
        BY <2>1 DEF Elems
      <3> QED
        BY <1>2, <1>3, <2>1, <2>2, <3>1
    <2>3. CASE k # Len(g) + 1
      <3>1. k \in DOMAIN g /\ r[k] = g[k]
        BY <1>2, <2>3
      <3> QED
        BY <1>3, <2>1, <3>1 DEF Arrived
    <2> QED
      BY <2>2, <2>3
  <1>4. \A x \in Elems(r) : x.dev # HostDevice => x.to = m /\ x.nr <= c
    BY <1>2 DEF Arrived
  <1>5. \A j, k \in DOMAIN r :
          j < k /\ r[j].dev # HostDevice /\ r[k].dev # HostDevice /\ r[j].from = r[k].from =>
            Ahead(r[j], r[k])
    BY <1>3
  <1>6. Arrived(r, m, c)
    BY <1>2, <1>4, <1>5 DEF Arrived
  <1> QED
    BY <1>2, <1>6 DEF r

\* Time passes for the packets of a queue: nothing else about them changes.
LEMMA PacketOlder ==
  ASSUME NEW x \in Packet
  PROVE  LET z == [x EXCEPT !.left = IF @ < 0 THEN @ ELSE @ - 1] IN
         /\ z \in Packet /\ z.to = x.to /\ z.dev = x.dev /\ z.from = x.from /\ z.size = x.size
         /\ z.nr = x.nr /\ z.left = IF x.left < 0 THEN x.left ELSE x.left - 1
  BY DEF Packet

LEMMA QueueOlder ==
  ASSUME NEW s \in Seq(Packet)
  PROVE  /\ Older(s) \in Seq(Packet) /\ DOMAIN Older(s) = DOMAIN s
         /\ \A k \in DOMAIN s :
              /\ Older(s)[k].to = s[k].to /\ Older(s)[k].from = s[k].from
              /\ Older(s)[k].size = s[k].size /\ Older(s)[k].nr = s[k].nr
              /\ Older(s)[k].left = IF s[k].left < 0 THEN s[k].left ELSE s[k].left - 1
  <1>1. DOMAIN s = 1 .. Len(s) /\ Len(s) \in Nat /\ \A k \in DOMAIN s : s[k] \in Packet
    BY LenProperties, ElementOfSeq
  <1>2. DOMAIN Older(s) = DOMAIN s
    BY DEF Older
  <1>3. ASSUME NEW k \in DOMAIN s
        PROVE  /\ Older(s)[k] \in Packet
               /\ Older(s)[k].to = s[k].to /\ Older(s)[k].from = s[k].from
               /\ Older(s)[k].size = s[k].size /\ Older(s)[k].nr = s[k].nr
               /\ Older(s)[k].left = IF s[k].left < 0 THEN s[k].left ELSE s[k].left - 1
    <2>1. Older(s)[k] = [s[k] EXCEPT !.left = IF @ < 0 THEN @ ELSE @ - 1]
      BY DEF Older
    <2>2. s[k] \in Packet
      BY <1>1
    <2> QED
      BY <2>1, <2>2, PacketOlder
  <1>4. Older(s) \in [1 .. Len(s) -> Packet]
    <2>1. Older(s) = [k \in 1 .. Len(s) |-> Older(s)[k]]
      BY <1>1 DEF Older
    <2> QED
      BY <1>1, <1>3, <2>1
  <1>5. Older(s) \in Seq(Packet)
    BY <1>1, <1>4, SeqDef
  <1> QED
    BY <1>2, <1>3, <1>5

LEMMA OlderElement ==
  ASSUME NEW s \in Seq(Packet), NEW z \in Elems(Older(s))
  PROVE  \E x \in Elems(s) :
           /\ x \in Packet /\ z.to = x.to /\ z.from = x.from /\ z.size = x.size /\ z.nr = x.nr
           /\ z.left = IF x.left < 0 THEN x.left ELSE x.left - 1
  <1>1. PICK k \in DOMAIN Older(s) : z = Older(s)[k]
    BY DEF Elems
  <1>2. k \in DOMAIN s
    BY <1>1, QueueOlder
  <1>3. s[k] \in Elems(s) /\ s[k] \in Packet
    BY <1>2, ElementOfSeq DEF Elems
  <1> QED
    BY <1>1, <1>2, <1>3, QueueOlder

LEMMA OrderedOlder ==
  ASSUME NEW h, NEW q, NEW ps, NEW n, NEW c \in Nat, Ordered(h, q, ps, n, c),
         \A j \in DOMAIN ps : ps[j].delay \in Nat
  PROVE  /\ Ordered(Older(h), Older(q), ps, n, c)
         /\ \A z \in Elems(Older(h)) \cup Elems(Older(q)) : \E x \in Elems(h) \cup Elems(q) :
              z.to = x.to /\ z.size = x.size /\ z.nr = x.nr
  <1> DEFINE s == Older(h)
             r == Older(q)
             Same(z, x) == /\ x \in Packet /\ z.to = x.to /\ z.from = x.from
                           /\ z.size = x.size /\ z.nr = x.nr
                           /\ z.left = IF x.left < 0 THEN x.left ELSE x.left - 1
  <1>1. h \in Seq(Packet) /\ q \in Seq(Packet)
    BY DEF Ordered
  <1>2. /\ s \in Seq(Packet) /\ r \in Seq(Packet) /\ DOMAIN s = DOMAIN h /\ DOMAIN r = DOMAIN q
        /\ \A k \in DOMAIN h : s[k].to = h[k].to /\ s[k].size = h[k].size /\ s[k].nr = h[k].nr
        /\ \A k \in DOMAIN q : r[k].nr = q[k].nr
    BY <1>1, QueueOlder
  <1>3. /\ \A z \in Elems(s) : \E x \in Elems(h) : Same(z, x)
        /\ \A z \in Elems(r) : \E x \in Elems(q) : Same(z, x)
    BY <1>1, OlderElement
  <1> HIDE DEF s, r
  <1>4. ASSUME NEW z \in Elems(s) \cup Elems(r)
        PROVE  /\ z.from = n /\ z.nr <= c
               /\ \A i \in DOMAIN ps : ps[i].to = z.to => z.left <= ps[i].delay + z.size
    <2>1. PICK x \in Elems(h) \cup Elems(q) : Same(z, x)
      BY <1>3
    <2>2. /\ x.from = n /\ x.nr <= c
          /\ \A i \in DOMAIN ps : ps[i].to = x.to => x.left <= ps[i].delay + x.size
      BY DEF Ordered
    <2>3. x.left \in Int /\ x.size \in Nat /\ z.left <= x.left
      BY <2>1 DEF Packet
    <2>4. ASSUME NEW i \in DOMAIN ps, ps[i].to = z.to
          PROVE  z.left <= ps[i].delay + z.size
      <3>1. x.left <= ps[i].delay + x.size /\ ps[i].delay \in Nat
        BY <2>1, <2>2, <2>4
      <3> QED
        BY <2>1, <2>3, <3>1
    <2> QED
      BY <2>1, <2>2, <2>4
  <1>5. \A j, k \in DOMAIN s : j < k => Ahead(s[j], s[k])
    <2> TAKE j, k \in DOMAIN s
    <2>1. j < k => Ahead(h[j], h[k])
      BY <1>2 DEF Ordered
    <2> QED
      BY <1>2, <2>1 DEF Ahead
  <1>6. \A y \in Elems(s), z \in Elems(r) : y.nr < z.nr
    <2> TAKE y \in Elems(s), z \in Elems(r)
    <2>1. PICK u \in Elems(h) : Same(y, u)
      BY <1>3
    <2>2. PICK v \in Elems(q) : Same(z, v)
      BY <1>3
    <2>3. u.nr < v.nr
      BY DEF Ordered
    <2> QED
      BY <2>1, <2>2, <2>3
  <1>7. \A j, k \in DOMAIN r : j < k => r[j].nr < r[k].nr
    BY <1>2 DEF Ordered
  <1>8. ASSUME NEW y \in Elems(s) \cup Elems(r), NEW z \in Elems(s) \cup Elems(r),
               y.to = z.to, y.nr < z.nr, y.size <= z.size
        PROVE  y.left <= z.left
    <2>1. PICK u \in Elems(h) \cup Elems(q) : Same(y, u)
      BY <1>3
    <2>2. PICK v \in Elems(h) \cup Elems(q) : Same(z, v)
      BY <1>3
    <2>3. u.to = v.to /\ u.nr < v.nr /\ u.size <= v.size
      BY <1>8, <2>1, <2>2
    <2>4. u.left <= v.left
      BY <2>3 DEF Ordered
    <2>5. u.left \in Int /\ v.left \in Int
      BY <2>1, <2>2 DEF Packet
    <2> QED
      BY <2>1, <2>2, <2>4, <2>5
  <1>9. Ordered(s, r, ps, n, c)
    BY <1>2, <1>4, <1>5, <1>6, <1>7, <1>8 DEF Ordered
  <1>10. \A z \in Elems(s) \cup Elems(r) : \E x \in Elems(h) \cup Elems(q) :
            z.to = x.to /\ z.size = x.size /\ z.nr = x.nr
    BY <1>3
  <1> QED
    BY <1>9, <1>10 DEF s, r

LEMMA StillBehind ==
  ASSUME NEW g, NEW F, NEW n, Behind(g, F, n), NEW G,
         \A z \in G : \E x \in F : z.to = x.to /\ z.size = x.size /\ z.nr = x.nr
  PROVE  Behind(g, G, n)
  <1> SUFFICES ASSUME NEW p \in Elems(g), NEW z \in G, p.dev # HostDevice, p.from = n
               PROVE  Ahead(p, z)
    BY DEF Behind
  <1>1. PICK x \in F : z.to = x.to /\ z.size = x.size /\ z.nr = x.nr
    OBVIOUS
  <1>2. Ahead(p, x)
    BY DEF Behind
  <1> QED
    BY <1>1, <1>2 DEF Ahead

-----------------------------------------------------------------------------
\* Packets on links as they are between steps.
Steady(ps) ==
  /\ \A i \in DOMAIN ps : ps[i].to \in AnyName /\ ps[i].dev \in Nat /\ ps[i].delay \in Nat
  /\ \A i, j \in DOMAIN ps : ps[i].to = ps[j].to => ps[i].delay = ps[j].delay
InOrder(N, ps, g, q, h, c) ==
  /\ DOMAIN ps = N /\ DOMAIN g = N /\ DOMAIN q = N /\ DOMAIN h = N
  /\ N \subseteq AnyName /\ c \in Nat
  /\ \A n \in N : Steady(ps[n]) /\ Ordered(h[n], q[n], ps[n], n, c) /\ Arrived(g[n], n, c)
  /\ \A m, n \in N : Behind(g[m], Elems(h[n]) \cup Elems(q[n]), n)
OrderInv == InOrder(Nodes, pipes, ingress, tolinkem, heap, sentPackets)

LEMMA OthersName ==
  ASSUME NEW t, IsTopology(t), NEW l \in Links(t), NEW n \in l
  PROVE  /\ Other(l, n) \in l /\ l = {n, Other(l, n)} /\ l \subseteq NodeNames(t)
         /\ t.links[l].at \in [l -> Nat] /\ t.links[l].delay \in Nat
  <1>1. PICK u, v \in NodeNames(t) : l = {u, v}
    BY DEF IsTopology
  <1>2. t.links[l].at \in [l -> Nat] /\ t.links[l].delay \in Nat
    BY DEF IsTopology, IsLink
  <1>3. Other(l, n) \in l /\ l = {n, Other(l, n)}
    <2>1. CASE l = {n}
      BY <2>1 DEF Other
    <2>2. CASE l # {n}
      <3>1. \E m \in l : m # n
        BY <1>1, <2>2
      <3>2. Other(l, n) = CHOOSE m \in l : m # n
        BY <2>2 DEF Other
      <3>3. Other(l, n) \in l /\ Other(l, n) # n
        BY <3>1, <3>2
      <3> QED
        BY <1>1, <3>3
    <2> QED
      BY <2>1, <2>2
  <1> QED
    BY <1>1, <1>2, <1>3

LEMMA PipeOf ==
  ASSUME NEW t, IsTopology(t), NEW n, NEW i \in DOMAIN PipesOf(t, n)
  PROVE  \E l \in Links(t) :
           /\ n \in l /\ t.links[l].at[n] = i
           /\ PipesOf(t, n)[i].to = Other(l, n) /\ PipesOf(t, n)[i].dev = t.links[l].at[Other(l, n)]
           /\ PipesOf(t, n)[i].delay = t.links[l].delay
  <1> DEFINE mine == {l \in Links(t) : n \in l}
             l == CHOOSE m \in mine : t.links[m].at[n] = i
  <1>1. \E m \in mine : t.links[m].at[n] = i
    BY DEF PipesOf
  <1>2. l \in mine /\ t.links[l].at[n] = i
    BY <1>1
  <1>3. PipesOf(t, n)[i] =
          [to |-> Other(l, n), dev |-> t.links[l].at[Other(l, n)], delay |-> t.links[l].delay]
    BY DEF PipesOf
  <1> HIDE DEF l
  <1> QED
    BY <1>2, <1>3

LEMMA PipesSteady ==
  ASSUME NEW t, IsTopology(t), NodeNames(t) \subseteq AnyName, NEW n
  PROVE  Steady(PipesOf(t, n))
  <1> DEFINE ps == PipesOf(t, n)
  <1>1. ASSUME NEW i \in DOMAIN ps
        PROVE  /\ ps[i].to \in AnyName /\ ps[i].dev \in Nat /\ ps[i].delay \in Nat
               /\ {n, ps[i].to} \in Links(t) /\ ps[i].delay = t.links[{n, ps[i].to}].delay
    <2>1. PICK l \in Links(t) :
            /\ n \in l /\ t.links[l].at[n] = i
            /\ ps[i].to = Other(l, n) /\ ps[i].dev = t.links[l].at[Other(l, n)]
            /\ ps[i].delay = t.links[l].delay
      BY PipeOf
    <2>2. /\ Other(l, n) \in l /\ l = {n, Other(l, n)} /\ l \subseteq NodeNames(t)
          /\ t.links[l].at \in [l -> Nat] /\ t.links[l].delay \in Nat
      BY <2>1, OthersName
    <2> HIDE DEF ps
    <2> QED
      BY <2>1, <2>2
  <1> HIDE DEF ps
  <1>2. Steady(ps)
    BY <1>1 DEF Steady
  <1> QED
    BY <1>2 DEF ps

\* an empty network
LEMMA NothingOnTheWay ==
  ASSUME NEW n, NEW c \in Nat, NEW ps
  PROVE  /\ Ordered(<< >>, << >>, ps, n, c) /\ Arrived(<< >>, n, c) /\ Elems(<< >>) = {}
         /\ \A F, m : Behind(<< >>, F, m)
  <1>1. << >> \in Seq(Packet) /\ << >> \in Seq(Packet \cup {HostPacket}) /\ DOMAIN << >> = {}
    BY EmptySeq, LenProperties
  <1>2. Elems(<< >>) = {}
    BY <1>1 DEF Elems
  <1> QED
    BY <1>1, <1>2 DEF Ordered, Arrived, Behind

\* More packets have been sent since.
LEMMA LaterArrived ==
  ASSUME NEW g, NEW m, NEW c \in Nat, NEW d \in Nat, d >= c, Arrived(g, m, c)
  PROVE  Arrived(g, m, d)
  <1>1. ASSUME NEW p \in Elems(g), p.dev # HostDevice
        PROVE  p.to = m /\ p.nr <= d
    <2>1. p \in Packet \cup {HostPacket}
      BY ElementOfSeq DEF Arrived, Elems
    <2>2. p \in Packet
      BY <1>1, <2>1 DEF HostPacket
    <2>3. p.to = m /\ p.nr <= c
      BY <1>1 DEF Arrived
    <2> QED
      BY <2>2, <2>3 DEF Packet
  <1> QED
    BY <1>1 DEF Arrived
LEMMA LaterOrdered ==
  ASSUME NEW h, NEW q, NEW ps, NEW n, NEW c \in Nat, NEW d \in Nat, d >= c, Ordered(h, q, ps, n, c)
  PROVE  Ordered(h, q, ps, n, d)
  <1>1. ASSUME NEW x \in Elems(h) \cup Elems(q)
        PROVE  x.nr <= d
    <2>1. x.nr <= c /\ h \in Seq(Packet) /\ q \in Seq(Packet)
      BY DEF Ordered
    <2>2. x \in Packet
      BY <2>1, ElementOfSeq DEF Elems
    <2> QED
      BY <2>1, <2>2 DEF Packet
  <1> QED
    BY <1>1 DEF Ordered

LEMMA Started ==
  ASSUME NEW t, IsTopology(t), NodeNames(t) \subseteq AnyName, NEW c \in Nat
  PROVE  LET None == [n \in NodeNames(t) |-> << >>] IN
         InOrder(NodeNames(t), [n \in NodeNames(t) |-> PipesOf(t, n)], None, None, None, c)
  <1> DEFINE None == [n \in NodeNames(t) |-> << >>]
             ps == [n \in NodeNames(t) |-> PipesOf(t, n)]
  <1>1. \A n \in NodeNames(t) : ps[n] = PipesOf(t, n) /\ None[n] = << >>
    OBVIOUS
  <1>2. DOMAIN ps = NodeNames(t) /\ DOMAIN None = NodeNames(t)
    OBVIOUS
  <1> HIDE DEF ps, None
  <1>3. ASSUME NEW n \in NodeNames(t)
        PROVE  Steady(ps[n]) /\ Ordered(None[n], None[n], ps[n], n, c) /\ Arrived(None[n], n, c)
    BY <1>1, PipesSteady, NothingOnTheWay
  <1>4. ASSUME NEW m \in NodeNames(t), NEW n \in NodeNames(t)
        PROVE  Behind(None[m], Elems(None[n]) \cup Elems(None[n]), n)
    BY <1>1, NothingOnTheWay
  <1>5. InOrder(NodeNames(t), ps, None, None, None, c)
    BY <1>2, <1>3, <1>4 DEF InOrder
  <1> QED
    BY <1>5 DEF ps, None

\* What a step does to the packets of one node, and what that means for all.
LEMMA OneEmulator ==
  ASSUME NEW N, NEW ps, NEW g, NEW q, NEW h, NEW c, InOrder(N, ps, g, q, h, c),
         NEW r, NEW s, DOMAIN r = N, DOMAIN s = N, NEW n \in N,
         \A m \in N \ {n} : r[m] = q[m] /\ s[m] = h[m],
         NEW d \in Nat, d >= c, Ordered(s[n], r[n], ps[n], n, d),
         \A m \in N : Behind(g[m], Elems(s[n]) \cup Elems(r[n]), n)
  PROVE  InOrder(N, ps, g, r, s, d)
  <1>1. /\ DOMAIN ps = N /\ DOMAIN g = N /\ N \subseteq AnyName /\ c \in Nat
        /\ \A m \in N : Steady(ps[m]) /\ Ordered(h[m], q[m], ps[m], m, c) /\ Arrived(g[m], m, c)
        /\ \A m, k \in N : Behind(g[m], Elems(h[k]) \cup Elems(q[k]), k)
    BY DEF InOrder
  <1>2. ASSUME NEW m \in N
        PROVE  Ordered(s[m], r[m], ps[m], m, d) /\ Arrived(g[m], m, d)
    <2>1. Arrived(g[m], m, c)
      BY <1>1
    <2>2. Arrived(g[m], m, d)
      BY <1>1, <2>1, LaterArrived
    <2>3. CASE m = n
      BY <2>2, <2>3
    <2>4. CASE m # n
      <3>1. Ordered(h[m], q[m], ps[m], m, c)
        BY <1>1
      <3>2. Ordered(h[m], q[m], ps[m], m, d)
        BY <1>1, <3>1, LaterOrdered
      <3> QED
        BY <2>2, <2>4, <3>2
    <2> QED
      BY <2>3, <2>4
  <1>3. ASSUME NEW m \in N, NEW k \in N
        PROVE  Behind(g[m], Elems(s[k]) \cup Elems(r[k]), k)
    <2>1. CASE k = n
      BY <2>1
    <2>2. CASE k # n
      BY <1>1, <2>2
    <2> QED
      BY <2>1, <2>2
  <1> QED
    BY <1>1, <1>2, <1>3 DEF InOrder

LEMMA OneQueue ==
  ASSUME NEW N, NEW ps, NEW g, NEW q, NEW h, NEW c, InOrder(N, ps, g, q, h, c),
         NEW r, DOMAIN r = N, NEW m, \A k \in N \ {m} : r[k] = g[k],
         m \in N => /\ Arrived(r[m], m, c)
                    /\ \A n \in N : Behind(r[m], Elems(h[n]) \cup Elems(q[n]), n)
  PROVE  InOrder(N, ps, r, q, h, c)
  <1>1. ASSUME NEW k \in N, NEW n \in N
        PROVE  Arrived(r[k], k, c) /\ Behind(r[k], Elems(h[n]) \cup Elems(q[n]), n)
    <2>1. CASE k = m
      BY <2>1
    <2>2. CASE k # m
      BY <2>2 DEF InOrder
    <2> QED
      BY <2>1, <2>2
  <1> QED
    BY <1>1 DEF InOrder

-----------------------------------------------------------------------------
\* A node sends on one of its pipes.
LEMMA SendKeeps ==
  ASSUME OrderInv, NEW n \in Nodes, NEW i \in DOMAIN pipes[n], NEW size \in Sizes
  PROVE  InOrder(Nodes, pipes, ingress, [tolinkem EXCEPT ![n] = Append(@, Item(n, i, size))], heap,
                 sentPackets + 1)
  <1> DEFINE y == Item(n, i, size)
             ps == pipes[n]
             q == tolinkem[n]
             h == heap[n]
             c == sentPackets
  <1>1. /\ Steady(ps) /\ Ordered(h, q, ps, n, c) /\ c \in Nat /\ n \in AnyName
        /\ DOMAIN tolinkem = Nodes /\ DOMAIN heap = Nodes
    BY DEF OrderInv, InOrder
  <1>2. size \in Nat
    BY TimesAssumption
  <1>3. /\ y \in Packet /\ y.from = n /\ y.nr = c + 1 /\ ps[i].to = y.to
        /\ \A j \in DOMAIN ps : ps[j].delay \in Nat
        /\ \A j \in DOMAIN ps : ps[j].to = y.to => y.left = ps[j].delay + y.size
    <2>1. /\ ps[i].to \in AnyName /\ ps[i].dev \in Nat /\ ps[i].delay \in Nat
          /\ \A j \in DOMAIN ps : ps[j].delay \in Nat
          /\ \A j \in DOMAIN ps : ps[j].to = ps[i].to => ps[j].delay = ps[i].delay
      BY <1>1 DEF Steady
    <2>2. y = [left |-> ps[i].delay + size, to |-> ps[i].to, dev |-> ps[i].dev,
               from |-> n, size |-> size, nr |-> c + 1]
      BY DEF Item
    <2> HIDE DEF y, ps, c
    <2>3. /\ y.to = ps[i].to /\ y.left = ps[i].delay + size /\ y.size = size
          /\ y.from = n /\ y.nr = c + 1
      BY <2>2
    <2>4. y \in Packet
      BY <1>1, <1>2, <2>1, <2>2 DEF Packet
    <2>5. \A j \in DOMAIN ps : ps[j].to = y.to => y.left = ps[j].delay + y.size
      BY <2>1, <2>3
    <2> QED
      BY <2>1, <2>3, <2>4, <2>5
  <1> HIDE DEF y
  <1>4. /\ Ordered(h, Append(q, y), ps, n, c + 1)
        /\ Elems(h) \cup Elems(Append(q, y)) = (Elems(h) \cup Elems(q)) \cup {y}
    BY <1>1, <1>3, PacketSent
  <1>5. ASSUME NEW m \in Nodes
        PROVE  Behind(ingress[m], Elems(h) \cup Elems(Append(q, y)), n)
    <2>1. Arrived(ingress[m], m, c) /\ Behind(ingress[m], Elems(h) \cup Elems(q), n)
      BY DEF OrderInv, InOrder
    <2>2. ASSUME NEW p \in Elems(ingress[m]), p.dev # HostDevice
          PROVE  Ahead(p, y)
      <3>1. p \in Packet \cup {HostPacket} /\ p.nr <= c
        BY <2>1, <2>2, ElementOfSeq DEF Arrived, Elems
      <3>2. p.nr \in Nat
        BY <2>2, <3>1 DEF HostPacket, Packet
      <3> QED
        BY <1>1, <1>3, <3>1, <3>2 DEF Ahead
    <2> QED
      BY <1>4, <2>1, <2>2 DEF Behind
  <1> DEFINE Q == [tolinkem EXCEPT ![n] = Append(q, y)]
  <1>6. DOMAIN Q = Nodes /\ Q[n] = Append(q, y) /\ \A m \in Nodes \ {n} : Q[m] = tolinkem[m]
    BY <1>1
  <1>7. c + 1 \in Nat /\ c + 1 >= c
    BY <1>1
  <1> HIDE DEF Q
  <1>8. InOrder(Nodes, pipes, ingress, Q, heap, c + 1)
    BY <1>1, <1>4, <1>5, <1>6, <1>7, OneEmulator DEF OrderInv
  <1> QED
    BY <1>8 DEF y, Q

LEMMA HostSends ==
  ASSUME OrderInv, NEW n \in Nodes
  PROVE  InOrder(Nodes, pipes, [ingress EXCEPT ![n] = Append(@, [dev |-> HostDevice])], tolinkem,
                 heap, sentPackets)
  <1> DEFINE p == [dev |-> HostDevice]
             g == ingress[n]
  <1>1. Arrived(g, n, sentPackets) /\ sentPackets \in Nat
    BY DEF OrderInv, InOrder
  <1>2. p \in Packet \cup {HostPacket} /\ p.dev = HostDevice
    BY DEF HostPacket
  <1> HIDE DEF p
  <1>3. Arrived(Append(g, p), n, sentPackets) /\ Elems(Append(g, p)) = Elems(g) \cup {p}
    BY <1>1, <1>2, PacketArrives
  <1>4. ASSUME NEW k \in Nodes
        PROVE  Behind(Append(g, p), Elems(heap[k]) \cup Elems(tolinkem[k]), k)
    <2>1. Behind(g, Elems(heap[k]) \cup Elems(tolinkem[k]), k)
      BY DEF OrderInv, InOrder
    <2> QED
      BY <1>2, <1>3, <2>1 DEF Behind
  <1> DEFINE G == [ingress EXCEPT ![n] = Append(g, p)]
  <1>5. DOMAIN G = Nodes /\ G[n] = Append(g, p) /\ \A m \in Nodes \ {n} : G[m] = ingress[m]
    BY DEF OrderInv, InOrder
  <1> HIDE DEF G
  <1>6. /\ Arrived(G[n], n, sentPackets)
        /\ \A k \in Nodes : Behind(G[n], Elems(heap[k]) \cup Elems(tolinkem[k]), k)
    BY <1>3, <1>4, <1>5
  <1>7. InOrder(Nodes, pipes, ingress, tolinkem, heap, sentPackets)
    BY DEF OrderInv
  <1>8. InOrder(Nodes, pipes, G, tolinkem, heap, sentPackets)
    BY <1>5, <1>6, <1>7, OneQueue
  <1> QED
    BY <1>8 DEF p, G

LEMMA ReceiveKeeps ==
  ASSUME OrderInv, NEW n \in Nodes, ingress[n] # << >>
  PROVE  InOrder(Nodes, pipes, [ingress EXCEPT ![n] = Tail(@)], tolinkem, heap, sentPackets)
  <1> DEFINE g == ingress[n]
  <1>1. Arrived(g, n, sentPackets) /\ sentPackets \in Nat
    BY DEF OrderInv, InOrder
  <1>2. Arrived(Tail(g), n, sentPackets) /\ Elems(Tail(g)) \subseteq Elems(g)
    BY <1>1, ArrivalTaken
  <1>3. ASSUME NEW k \in Nodes
        PROVE  Behind(Tail(g), Elems(heap[k]) \cup Elems(tolinkem[k]), k)
    <2>1. Behind(g, Elems(heap[k]) \cup Elems(tolinkem[k]), k)
      BY DEF OrderInv, InOrder
    <2> QED
      BY <1>2, <2>1 DEF Behind
  <1> DEFINE G == [ingress EXCEPT ![n] = Tail(g)]
  <1>4. DOMAIN G = Nodes /\ G[n] = Tail(g) /\ \A m \in Nodes \ {n} : G[m] = ingress[m]
    BY DEF OrderInv, InOrder
  <1> HIDE DEF G
  <1>5. /\ Arrived(G[n], n, sentPackets)
        /\ \A k \in Nodes : Behind(G[n], Elems(heap[k]) \cup Elems(tolinkem[k]), k)
    BY <1>2, <1>3, <1>4
  <1>6. InOrder(Nodes, pipes, ingress, tolinkem, heap, sentPackets)
    BY DEF OrderInv
  <1>7. InOrder(Nodes, pipes, G, tolinkem, heap, sentPackets)
    BY <1>4, <1>5, <1>6, OneQueue
  <1> QED
    BY <1>7 DEF G

LEMMA DeliverKeeps ==
  ASSUME OrderInv, NEW n \in Nodes, heap[n] # << >>
  PROVE  LET p == Head(heap[n]) IN
         InOrder(Nodes, pipes, [ingress EXCEPT ![p.to] = Append(@, p)], tolinkem,
                 [heap EXCEPT ![n] = Tail(@)], sentPackets)
  <1> DEFINE h == heap[n]
             q == tolinkem[n]
             p == Head(h)
             c == sentPackets
             H == [heap EXCEPT ![n] = Tail(h)]
  <1>1. /\ Ordered(h, q, pipes[n], n, c) /\ c \in Nat
        /\ DOMAIN ingress = Nodes /\ DOMAIN heap = Nodes /\ DOMAIN tolinkem = Nodes
        /\ \A m \in Nodes : Behind(ingress[m], Elems(h) \cup Elems(q), n)
    BY DEF OrderInv, InOrder
  <1>2. /\ Ordered(Tail(h), q, pipes[n], n, c)
        /\ p \in Packet /\ p.from = n /\ p.nr <= c
        /\ p \in Elems(h) /\ Elems(Tail(h)) \subseteq Elems(h)
        /\ \A x \in Elems(Tail(h)) \cup Elems(q) : Ahead(p, x)
    BY <1>1, PacketPopped
  <1> HIDE DEF p
  <1>3. ASSUME NEW m \in Nodes
        PROVE  Behind(ingress[m], Elems(Tail(h)) \cup Elems(q), n)
    BY <1>1, <1>2 DEF Behind
  <1>4. DOMAIN H = Nodes /\ H[n] = Tail(h) /\ \A m \in Nodes \ {n} : H[m] = heap[m]
    BY <1>1
  <1> HIDE DEF H
  <1>5. InOrder(Nodes, pipes, ingress, tolinkem, H, c)
    <2>1. c >= c
      BY <1>1
    <2>2. /\ \A m \in Nodes \ {n} : tolinkem[m] = tolinkem[m] /\ H[m] = heap[m]
          /\ Ordered(H[n], tolinkem[n], pipes[n], n, c)
          /\ \A m \in Nodes : Behind(ingress[m], Elems(H[n]) \cup Elems(tolinkem[n]), n)
      BY <1>2, <1>3, <1>4
    <2>3. InOrder(Nodes, pipes, ingress, tolinkem, heap, c)
      BY DEF OrderInv
    <2> QED
      BY <1>1, <1>4, <2>1, <2>2, <2>3, OneEmulator
  <1> DEFINE m == p.to
             g == ingress[m]
             G == [ingress EXCEPT ![m] = Append(g, p)]
  <1>6. /\ DOMAIN G = Nodes /\ \A k \in Nodes \ {m} : G[k] = ingress[k]
        /\ m \in Nodes => G[m] = Append(g, p)
    BY <1>1
  <1> HIDE DEF G
  <1>7. ASSUME m \in Nodes
        PROVE  /\ Arrived(G[m], m, c)
               /\ \A k \in Nodes : Behind(G[m], Elems(H[k]) \cup Elems(tolinkem[k]), k)
    <2>1. Arrived(g, m, c) /\ p.dev # HostDevice
      BY <1>2, <1>7 DEF OrderInv, InOrder, Packet, HostDevice
    <2>2. ASSUME NEW x \in Elems(g), x.dev # HostDevice, x.from = p.from
          PROVE  Ahead(x, p)
      BY <1>1, <1>2, <1>7, <2>2 DEF Behind
    <2>3. Arrived(Append(g, p), m, c) /\ Elems(Append(g, p)) = Elems(g) \cup {p}
      BY <1>1, <1>2, <2>1, <2>2, PacketArrives
    <2>4. ASSUME NEW k \in Nodes
          PROVE  Behind(Append(g, p), Elems(H[k]) \cup Elems(tolinkem[k]), k)
      <3>1. Behind(g, Elems(H[k]) \cup Elems(tolinkem[k]), k)
        BY <1>5, <1>7 DEF InOrder
      <3>2. p.from = k => \A x \in Elems(H[k]) \cup Elems(tolinkem[k]) : Ahead(p, x)
        BY <1>2, <1>4
      <3> HIDE DEF m, g
      <3> QED
        BY <2>3, <3>1, <3>2 DEF Behind
    <2> QED
      BY <1>6, <1>7, <2>3, <2>4
  <1> HIDE DEF m
  <1>8. InOrder(Nodes, pipes, G, tolinkem, H, c)
    BY <1>5, <1>6, <1>7, OneQueue
  <1> QED
    BY <1>8 DEF G, m, H, p

LEMMA PushKeeps ==
  ASSUME OrderInv, NEW n \in Nodes, tolinkem[n] # << >>, NEW i \in 1 .. Len(heap[n]) + 1,
         Place(heap[n], Head(tolinkem[n]), i)
  PROVE  InOrder(Nodes, pipes, ingress, [tolinkem EXCEPT ![n] = Tail(@)],
                 [heap EXCEPT ![n] = InsertAt(@, i, Head(tolinkem[n]))], sentPackets)
  <1> DEFINE h == heap[n]
             q == tolinkem[n]
             c == sentPackets
             r == InsertAt(h, i, Head(q))
  <1>1. /\ Ordered(h, q, pipes[n], n, c) /\ c \in Nat
        /\ \A m \in Nodes : Behind(ingress[m], Elems(h) \cup Elems(q), n)
    BY DEF OrderInv, InOrder
  <1>2. /\ Ordered(r, Tail(q), pipes[n], n, c)
        /\ Elems(r) \cup Elems(Tail(q)) \subseteq Elems(h) \cup Elems(q)
    BY <1>1, PacketPushed
  <1> HIDE DEF r
  <1>3. ASSUME NEW m \in Nodes
        PROVE  Behind(ingress[m], Elems(r) \cup Elems(Tail(q)), n)
    BY <1>1, <1>2 DEF Behind
  <1> DEFINE Q == [tolinkem EXCEPT ![n] = Tail(q)]
             H == [heap EXCEPT ![n] = r]
  <1>4. /\ DOMAIN Q = Nodes /\ Q[n] = Tail(q) /\ DOMAIN H = Nodes /\ H[n] = r
        /\ \A m \in Nodes \ {n} : Q[m] = tolinkem[m] /\ H[m] = heap[m]
    BY DEF OrderInv, InOrder
  <1>5. c >= c
    BY <1>1
  <1> HIDE DEF Q, H
  <1>6. InOrder(Nodes, pipes, ingress, Q, H, c)
    BY <1>1, <1>2, <1>3, <1>4, <1>5, OneEmulator DEF OrderInv
  <1> QED
    BY <1>6 DEF r, Q, H

LEMMA TickKeeps ==
  ASSUME OrderInv
  PROVE  InOrder(Nodes, pipes, ingress, [n \in Nodes |-> Older(tolinkem[n])],
                 [n \in Nodes |-> Older(heap[n])], sentPackets)
  <1> DEFINE q == [n \in Nodes |-> Older(tolinkem[n])]
             h == [n \in Nodes |-> Older(heap[n])]
  <1>1. /\ DOMAIN q = Nodes /\ DOMAIN h = Nodes
        /\ \A n \in Nodes : q[n] = Older(tolinkem[n]) /\ h[n] = Older(heap[n])
    OBVIOUS
  <1> HIDE DEF q, h
  <1>2. ASSUME NEW n \in Nodes
        PROVE  /\ Ordered(h[n], q[n], pipes[n], n, sentPackets)
               /\ \A m \in Nodes : Behind(ingress[m], Elems(h[n]) \cup Elems(q[n]), n)
    <2>1. /\ Ordered(heap[n], tolinkem[n], pipes[n], n, sentPackets) /\ sentPackets \in Nat
          /\ \A j \in DOMAIN pipes[n] : pipes[n][j].delay \in Nat
      BY DEF OrderInv, InOrder, Steady
    <2>2. /\ Ordered(h[n], q[n], pipes[n], n, sentPackets)
          /\ \A z \in Elems(h[n]) \cup Elems(q[n]) : \E x \in Elems(heap[n]) \cup Elems(tolinkem[n]) :
               z.to = x.to /\ z.size = x.size /\ z.nr = x.nr
      BY <1>1, <2>1, OrderedOlder
    <2>3. ASSUME NEW m \in Nodes
          PROVE  Behind(ingress[m], Elems(h[n]) \cup Elems(q[n]), n)
      <3>1. Behind(ingress[m], Elems(heap[n]) \cup Elems(tolinkem[n]), n)
        BY DEF OrderInv, InOrder
      <3> QED
        BY <2>2, <3>1, StillBehind
    <2> QED
      BY <2>2, <2>3
  <1>3. InOrder(Nodes, pipes, ingress, q, h, sentPackets)
    BY <1>1, <1>2 DEF OrderInv, InOrder
  <1> QED
    BY <1>3 DEF q, h

-----------------------------------------------------------------------------
\* The topology, and the network that runs while it is at the prompt.
TopologyOK(t, r) ==
  /\ IsTopology(t) /\ NodeNames(t) \subseteq AnyName
  /\ r \in BOOLEAN /\ (~ r => Counted(t))
  /\ (r => t.ifnum = 1) => Owned(t)
Follows(t, r, N, ps) ==
  /\ N = NodeNames(t)
  /\ (r => t.ifnum = 1) =>
       \A e \in LinkEnds(t) :
         /\ ps[e[2]][t.links[e[1]].at[e[2]]].to = Other(e[1], e[2])
         /\ ps[e[2]][t.links[e[1]].at[e[2]]].dev = t.links[e[1]].at[Other(e[1], e[2])]
Typing == {"prompt", "command", "after"}
SimInv ==
  /\ TopologyOK(topology, reloaded)
  /\ main \in Typing => Follows(topology, reloaded, Nodes, pipes)
  /\ OrderInv

\* A pipe leads where its link does, when no other link has its interface.
LEMMA PipesFollow ==
  ASSUME NEW t, IsTopology(t), Owned(t), NEW e \in LinkEnds(t)
  PROVE  LET p == PipesOf(t, e[2])[t.links[e[1]].at[e[2]]] IN
         p.to = Other(e[1], e[2]) /\ p.dev = t.links[e[1]].at[Other(e[1], e[2])]
  <1> DEFINE n == e[2]
             i == t.links[e[1]].at[n]
  <1>1. e[1] \in Links(t) /\ n \in NodeNames(t) /\ n \in e[1] /\ e = <<e[1], n>>
    BY EndOf
  <1>2. i \in DOMAIN PipesOf(t, n)
    BY <1>1 DEF PipesOf
  <1>3. PICK l \in Links(t) :
          /\ n \in l /\ t.links[l].at[n] = i
          /\ PipesOf(t, n)[i].to = Other(l, n) /\ PipesOf(t, n)[i].dev = t.links[l].at[Other(l, n)]
    BY <1>2, PipeOf
  <1>4. <<l, n>> \in LinkEnds(t)
    BY <1>1, <1>3 DEF LinkEnds
  <1>5. <<l, n>> = e
    <2>1. <<l, n>>[1] = l /\ <<l, n>>[2] = n
      OBVIOUS
    <2>2. \A f, g \in LinkEnds(t) :
            f # g /\ f[2] = g[2] => t.links[f[1]].at[f[2]] # t.links[g[1]].at[g[2]]
      BY DEF Owned, OwnInterfaces
    <2> QED
      BY <1>3, <1>4, <2>1, <2>2
  <1>6. l = e[1]
    BY <1>1, <1>5
  <1> QED
    BY <1>3, <1>6

LEMMA BuiltFollows ==
  ASSUME NEW t, NEW r, TopologyOK(t, r)
  PROVE  Follows(t, r, NodeNames(t), [n \in NodeNames(t) |-> PipesOf(t, n)])
  <1> DEFINE ps == [n \in NodeNames(t) |-> PipesOf(t, n)]
  <1> SUFFICES ASSUME r => t.ifnum = 1, NEW e \in LinkEnds(t)
               PROVE  /\ ps[e[2]][t.links[e[1]].at[e[2]]].to = Other(e[1], e[2])
                      /\ ps[e[2]][t.links[e[1]].at[e[2]]].dev = t.links[e[1]].at[Other(e[1], e[2])]
    BY DEF Follows
  <1>1. IsTopology(t) /\ Owned(t)
    BY DEF TopologyOK
  <1>2. ps[e[2]] = PipesOf(t, e[2])
    BY EndOf
  <1> HIDE DEF ps
  <1> QED
    BY <1>1, <1>2, PipesFollow

LEMMA InitHolds == SimInit => SimInv
  <1> SUFFICES ASSUME SimInit PROVE SimInv
    OBVIOUS
  <1>1. PICK t \in Start :
          /\ topology = t /\ reloaded = FALSE /\ main = "prompt"
          /\ pipes = [n \in NodeNames(t) |-> PipesOf(t, n)]
          /\ thread = [n \in NodeNames(t) |-> "loop"]
          /\ ingress = [n \in NodeNames(t) |-> << >>] /\ tolinkem = [n \in NodeNames(t) |-> << >>]
          /\ heap = [n \in NodeNames(t) |-> << >>] /\ sentPackets = 0
    BY DEF SimInit
  <1>2. NodeNames(t) \subseteq AnyName /\ IsTopology(t) /\ Counted(t) /\ Owned(t)
    BY StartAssumption DEF AnyName
  <1>3. TopologyOK(topology, reloaded)
    BY <1>1, <1>2 DEF TopologyOK
  <1>4. Nodes = NodeNames(t)
    BY <1>1 DEF Nodes
  <1>5. Follows(topology, reloaded, Nodes, pipes)
    BY <1>1, <1>3, <1>4, BuiltFollows
  <1>6. OrderInv
    BY <1>1, <1>2, <1>4, Started DEF OrderInv
  <1> QED
    BY <1>3, <1>5, <1>6 DEF SimInv

\* Steps that leave the network what it is
LEMMA NetworkStays ==
  ASSUME SimInv, UNCHANGED <<topology, reloaded, pipes>>, Nodes' = Nodes,
         main' \in Typing => main \in Typing, OrderInv'
  PROVE  SimInv'
  BY DEF SimInv
LEMMA QuietStays ==
  ASSUME SimInv, UNCHANGED <<topology, reloaded, pipes, ingress, tolinkem, heap, sentPackets>>,
         Nodes' = Nodes, main' \in Typing => main \in Typing
  PROVE  SimInv'
  <1>1. OrderInv'
    BY DEF SimInv, OrderInv
  <1> QED
    BY <1>1, NetworkStays

\* and those that change the topology: a command stops the network, or goes on with it
LEMMA EditKeeps ==
  ASSUME SimInv, main' \notin Typing, TopologyOK(topology', reloaded'), UNCHANGED nodeVars,
         UNCHANGED sentPackets
  PROVE  SimInv'
  <1>1. OrderInv'
    BY DEF SimInv, OrderInv, nodeVars, Nodes
  <1> QED
    BY <1>1 DEF SimInv
LEMMA StopStops ==
  ASSUME NEW next, StopThen(next)
  PROVE  main' \notin Typing
  BY DEF StopThen, Typing

LEMMA SameOwned ==
  ASSUME NEW t, NEW r, TopologyOK(t, r), NEW s, IsTopology(s), Within(s, t), Counted(t) => Counted(s),
         NodeNames(s) \subseteq AnyName, s.ifnum = t.ifnum
  PROVE  TopologyOK(s, r)
  BY WithinOwned DEF TopologyOK

LEMMA AddKeeps ==
  ASSUME SimInv, NEW n \in Name, Add(n)
  PROVE  SimInv'
  <1> DEFINE t == topology
             s == AddNode(t, n, "Host")
  <1>1. TopologyOK(t, reloaded)
    BY DEF SimInv
  <1>2. CASE n \in NodeNames(t)
    BY <1>1, <1>2, EditKeeps DEF Add, Dies, Typing
  <1>3. CASE n \notin NodeNames(t)
    <2>1. /\ IsTopology(s) /\ Within(s, t) /\ (Counted(t) => Counted(s))
          /\ NodeNames(s) = NodeNames(t) \cup {n} /\ s.ifnum = t.ifnum
      BY <1>1, <1>3, AddNodeKeeps DEF TopologyOK
    <2>2. topology' = s /\ StopThen("rebuild") /\ UNCHANGED reloaded /\ UNCHANGED nodeVars
          /\ UNCHANGED sentPackets
      BY <1>3 DEF Add, Edits
    <2>3. NodeNames(s) \subseteq AnyName
      BY <1>1, <2>1 DEF TopologyOK, AnyName
    <2> HIDE DEF s
    <2>4. TopologyOK(topology', reloaded')
      BY <1>1, <2>1, <2>2, <2>3, SameOwned
    <2> QED
      BY <2>2, <2>4, StopStops, EditKeeps
  <1> QED
    BY <1>2, <1>3

LEMMA RemoveKeeps ==
  ASSUME SimInv, NEW x, RemoveNodeCommand(x) \/ RemoveLinkCommand(x)
  PROVE  SimInv'
  <1> DEFINE t == topology
  <1>1. TopologyOK(t, reloaded)
    BY DEF SimInv
  <1>2. PICK s \in {t, RemoveNode(t, x), RemoveLink(t, x)} : Edits(s)
    BY DEF RemoveNodeCommand, RemoveLinkCommand
  <1>3. topology' = s /\ StopThen("rebuild") /\ UNCHANGED reloaded /\ UNCHANGED nodeVars
        /\ UNCHANGED sentPackets
    BY <1>2 DEF Edits
  <1>4. TopologyOK(s, reloaded)
    <2>1. CASE s = t
      BY <1>1, <2>1
    <2>2. CASE s # t
      <3>1. /\ IsTopology(s) /\ Within(s, t) /\ (Counted(t) => Counted(s))
            /\ NodeNames(s) \subseteq NodeNames(t) /\ s.ifnum = t.ifnum
        BY <1>1, <1>2, <2>2, RemoveNodeKeeps, RemoveLinkKeeps DEF TopologyOK
      <3> QED
        BY <1>1, <3>1, SameOwned DEF TopologyOK
    <2> QED
      BY <2>1, <2>2
  <1> QED
    BY <1>3, <1>4, StopStops, EditKeeps

LEMMA AddLinkKeeps ==
  ASSUME SimInv, NEW u, NEW v, AddLinkCommand(u, v)
  PROVE  SimInv'
  <1> DEFINE t == topology
             s == AddLink(t, u, v, Delay)
  <1>1. TopologyOK(t, reloaded)
    BY DEF SimInv
  <1>2. CASE {u, v} \subseteq NodeNames(t)
    <2>1. topology' = s /\ StopThen("rebuild") /\ UNCHANGED reloaded /\ UNCHANGED nodeVars
          /\ UNCHANGED sentPackets
      BY <1>2 DEF AddLinkCommand, Edits
    <2>2. IsTopology(s) /\ Grows(s, t, {u, v}) /\ (Counted(t) => GrowsNew(s, t, {u, v}))
      BY <1>1, <1>2, TimesAssumption, AddLinkGrows DEF TopologyOK
    <2> HIDE DEF s
    <2>3. NodeNames(s) \subseteq AnyName /\ s.ifnum = t.ifnum + 2 /\ t.ifnum \in Nat \ {0}
      BY <1>1, <2>2 DEF TopologyOK, Grows, IsTopology
    <2>4. CASE reloaded
      <3>1. s.ifnum # 1
        BY <2>3
      <3> QED
        <4>1. TopologyOK(s, reloaded)
          BY <1>1, <2>2, <2>3, <2>4, <3>1 DEF TopologyOK
        <4> QED
          BY <2>1, <4>1, StopStops, EditKeeps
    <2>5. CASE ~ reloaded
      <3>1. IsTopology(t) /\ Counted(t) /\ Owned(t)
        BY <1>1, <2>5 DEF TopologyOK
      <3>2. Owned(s) /\ Counted(s)
        BY <2>2, <3>1, GrownOwned
      <3>3. TopologyOK(s, reloaded)
        BY <1>1, <2>2, <2>3, <3>2 DEF TopologyOK
      <3> QED
        BY <2>1, <3>3, StopStops, EditKeeps
    <2> QED
      BY <2>4, <2>5
  <1>3. CASE ~ {u, v} \subseteq NodeNames(t)
    <2>1. topology' = t /\ StopThen("rebuild") /\ UNCHANGED reloaded /\ UNCHANGED nodeVars
          /\ UNCHANGED sentPackets
      BY <1>3 DEF AddLinkCommand, Edits
    <2> QED
      BY <1>1, <2>1, StopStops, EditKeeps
  <1> QED
    BY <1>2, <1>3

LEMMA LoadKeeps ==
  ASSUME SimInv, Load
  PROVE  SimInv'
  <1>1. PICK t \in File : topology' = Unserialize(t)
    BY DEF Load
  <1>2. reloaded' = TRUE /\ StopThen("rebuildGlue") /\ UNCHANGED nodeVars /\ UNCHANGED sentPackets
    BY DEF Load
  <1>3. IsTopology(t) /\ Owned(t) /\ NodeNames(t) \subseteq AnyName
    BY FileAssumption DEF AnyName
  <1> DEFINE s == Unserialize(t)
  <1>4. IsTopology(s) /\ Within(s, t) /\ NodeNames(s) = NodeNames(t) /\ s.ifnum = 1
    BY <1>3, UnserializeKeeps
  <1> HIDE DEF s
  <1>5. Owned(s)
    BY <1>3, <1>4, WithinOwned
  <1>6. TopologyOK(s, TRUE)
    BY <1>3, <1>4, <1>5 DEF TopologyOK
  <1> QED
    BY <1>1, <1>2, <1>6, StopStops, EditKeeps DEF s

\* set node, set link
LEMMA SetsKeeps ==
  ASSUME SimInv, NEW s, Sets(s), main = "command", IsTopology(s), Within(s, topology),
         Counted(topology) => Counted(s), NodeNames(s) = NodeNames(topology),
         LinkEnds(s) = LinkEnds(topology), s.ifnum = topology.ifnum,
         \A e \in LinkEnds(s) : s.links[e[1]].at = topology.links[e[1]].at
  PROVE  SimInv'
  <1>1. topology' = s /\ UNCHANGED <<reloaded, nodeVars, sentPackets>>
    BY DEF Sets
  <1>2. TopologyOK(s, reloaded)
    BY SameOwned DEF SimInv, TopologyOK
  <1>3. Follows(topology, reloaded, Nodes, pipes)
    BY DEF SimInv, Typing
  <1>4. Follows(s, reloaded, Nodes, pipes)
    BY <1>3 DEF Follows
  <1>5. Nodes' = Nodes /\ pipes' = pipes
    BY <1>1 DEF nodeVars, Nodes
  <1>6. OrderInv'
    BY <1>1 DEF SimInv, OrderInv, nodeVars, Nodes
  <1> QED
    BY <1>1, <1>2, <1>4, <1>5, <1>6 DEF SimInv

-----------------------------------------------------------------------------
LEMMA SetCommandsKeep ==
  ASSUME SimInv, NEW n, NEW i, NEW l, SetAddress(n, i) \/ SetLink(l)
  PROVE  SimInv'
  <1>1. IsTopology(topology) /\ main = "command" /\ NodeNames(topology) \subseteq AnyName
    BY DEF SimInv, TopologyOK, SetAddress, SetLink, Command
  <1>2. CASE SetAddress(n, i)
    <2> DEFINE s == SetInterfaceAddresses(topology, n, i, Typed)
    <2>1. Sets(s)
      BY <1>2 DEF SetAddress
    <2>2. /\ IsTopology(s) /\ Within(s, topology) /\ (Counted(topology) => Counted(s))
          /\ NodeNames(s) = NodeNames(topology) /\ LinkEnds(s) = LinkEnds(topology)
          /\ s.ifnum = topology.ifnum /\ s.links = topology.links
      BY <1>1, SetAddressKeeps
    <2> HIDE DEF s
    <2> QED
      BY <1>1, <2>1, <2>2, SetsKeeps
  <1>3. CASE SetLink(l)
    <2> DEFINE s == SetLinkCharacteristics(topology, l, 0)
    <2>1. Sets(s)
      BY <1>3 DEF SetLink
    <2>2. /\ IsTopology(s) /\ Within(s, topology) /\ (Counted(topology) => Counted(s))
          /\ NodeNames(s) = NodeNames(topology) /\ LinkEnds(s) = LinkEnds(topology)
          /\ s.ifnum = topology.ifnum
          /\ \A e \in LinkEnds(topology) : s.links[e[1]].at = topology.links[e[1]].at
      BY <1>1, SetLinkKeeps
    <2> HIDE DEF s
    <2> QED
      BY <1>1, <2>1, <2>2, SetsKeeps
  <1> QED
    BY <1>2, <1>3

LEMMA ReplayKeeps ==
  ASSUME SimInv, NEW n \in Nodes, NEW i, NEW size \in Sizes, Replay(n, i, size)
  PROVE  SimInv'
  <1>1. /\ UNCHANGED <<topology, reloaded, pipes, thread, ingress, heap>> /\ main = "command"
        /\ IF i \notin DOMAIN pipes[n] \/ thread[n] = "new"
           THEN main' = "died" /\ UNCHANGED <<tolinkem, sentPackets>>
           ELSE /\ tolinkem' = [tolinkem EXCEPT ![n] = Append(@, Item(n, i, size))]
                /\ sentPackets' = sentPackets + 1
    BY DEF Replay, Command, Dies
  <1>2. OrderInv
    BY DEF SimInv
  <1>3. Nodes' = Nodes /\ (main' \in Typing => main \in Typing)
    BY <1>1 DEF Nodes, Typing
  <1>4. CASE i \notin DOMAIN pipes[n] \/ thread[n] = "new"
    BY <1>1, <1>3, <1>4, QuietStays
  <1>5. CASE ~ (i \notin DOMAIN pipes[n] \/ thread[n] = "new")
    <2>1. InOrder(Nodes, pipes, ingress, [tolinkem EXCEPT ![n] = Append(@, Item(n, i, size))], heap,
                  sentPackets + 1)
      BY <1>2, <1>5, SendKeeps
    <2>2. OrderInv'
      BY <1>1, <1>3, <1>5, <2>1 DEF OrderInv
    <2> QED
      BY <1>1, <1>3, <2>2, NetworkStays
  <1> QED
    BY <1>4, <1>5

LEMMA CommandKeeps ==
  ASSUME SimInv, CommandStep
  PROVE  SimInv'
  <1>1. ASSUME NEW n \in Name, Add(n) \/ RemoveNodeCommand(n)
        PROVE  SimInv'
    BY <1>1, AddKeeps, RemoveKeeps
  <1>2. ASSUME NEW e \in Ends,
               AddLinkCommand(e[1], e[2]) \/ RemoveLinkCommand({e[1], e[2]}) \/ SetLink({e[1], e[2]})
        PROVE  SimInv'
    BY <1>2, AddLinkKeeps, RemoveKeeps, SetCommandsKeep
  <1>3. CASE Load
    BY <1>3, LoadKeeps
  <1>4. CASE Exec \/ Exit
    <2>1. main' \notin Typing /\ UNCHANGED <<topology, reloaded, nodeVars, sentPackets>>
      BY <1>4, StopStops DEF Exec, Exit
    <2> QED
      BY <2>1, QuietStays DEF nodeVars, Nodes
  <1>5. ASSUME NEW n \in Nodes, NEW i, NEW size \in Sizes, Replay(n, i, size)
        PROVE  SimInv'
    BY <1>5, ReplayKeeps
  <1>6. ASSUME NEW n \in Nodes, NEW i, NEW how, SetMonitor(n, i, how)
        PROVE  SimInv'
    BY <1>6, QuietStays DEF SetMonitor, Command, Nodes, Typing
  <1>7. ASSUME NEW n \in Nodes, NEW i, SetAddress(n, i)
        PROVE  SimInv'
    BY <1>7, SetCommandsKeep
  <1>8. ASSUME NEW n \in Nodes, SendEth(n)
        PROVE  SimInv'
    <2>1. /\ UNCHANGED <<topology, reloaded, pipes, thread, tolinkem, heap, sentPackets>>
          /\ main = "command" /\ ingress' = [ingress EXCEPT ![n] = Append(@, [dev |-> HostDevice])]
      BY <1>8 DEF SendEth, Command
    <2>2. InOrder(Nodes, pipes, ingress', tolinkem, heap, sentPackets)
      BY <2>1, HostSends DEF SimInv
    <2>3. OrderInv'
      BY <2>1, <2>2 DEF OrderInv, Nodes
    <2> QED
      BY <2>1, <2>3, NetworkStays DEF Nodes, Typing
  <1> QED
    BY <1>1, <1>2, <1>3, <1>4, <1>5, <1>6, <1>7, <1>8 DEF CommandStep

LEMMA RebuildKeeps ==
  ASSUME SimInv, Rebuild
  PROVE  SimInv'
  <1> DEFINE t == topology
  <1>1. /\ pipes' = [n \in NodeNames(t) |-> PipesOf(t, n)]
        /\ thread' = [n \in NodeNames(t) |-> "new"]
        /\ ingress' = [n \in NodeNames(t) |-> << >>] /\ tolinkem' = [n \in NodeNames(t) |-> << >>]
        /\ heap' = [n \in NodeNames(t) |-> << >>]
        /\ UNCHANGED <<topology, reloaded, sentPackets>>
    BY DEF Rebuild
  <1>2. TopologyOK(t, reloaded) /\ sentPackets \in Nat
    BY DEF SimInv, OrderInv, InOrder
  <1>3. Nodes' = NodeNames(t)
    BY <1>1 DEF Nodes
  <1>4. Follows(t, reloaded, Nodes', pipes')
    BY <1>1, <1>2, <1>3, BuiltFollows
  <1>5. InOrder(Nodes', pipes', ingress', tolinkem', heap', sentPackets)
    BY <1>1, <1>2, <1>3, Started DEF TopologyOK
  <1>6. OrderInv'
    BY <1>1, <1>5 DEF OrderInv
  <1> QED
    BY <1>1, <1>2, <1>4, <1>6 DEF SimInv

LEMMA MainKeeps ==
  ASSUME SimInv, MainStep \/ Precmd
  PROVE  SimInv'
  <1>1. CASE Precmd \/ Postcmd
    <2>1. /\ UNCHANGED <<topology, reloaded, pipes, ingress, tolinkem, heap, sentPackets>>
          /\ main \in Typing /\ DebugOne
      BY <1>1 DEF Precmd, Postcmd, Typing
    <2>2. Nodes' = Nodes
      BY <2>1 DEF DebugOne, GetFromDebugQueue, LeavesBarrier, Nodes
    <2> QED
      BY <2>1, <2>2, QuietStays
  <1>2. CASE ShutLinkem \/ SetDone \/ ReadName \/ JoinLinkem
    BY <1>2, QuietStays DEF ShutLinkem, SetDone, ReadName, JoinLinkem, To, Dies, nodeVars, Nodes, Typing
  <1>3. CASE LinkemJoined \/ NodeJoined \/ Exited
    BY <1>3, QuietStays DEF LinkemJoined, NodeJoined, Exited, To, nodeVars, Nodes, Typing
  <1>4. CASE StopsAgain
    BY <1>4, StopStops, QuietStays DEF StopsAgain, nodeVars, Nodes
  <1>5. CASE Rebuild
    BY <1>5, RebuildKeeps
  <1> QED
    BY <1>1, <1>2, <1>3, <1>4, <1>5 DEF MainStep

LEMMA NodeKeeps ==
  ASSUME SimInv, NEW n \in Nodes, NodeStep(n)
  PROVE  SimInv'
  <1>1. CASE NodeStarts(n) \/ NodeEnds(n)
    BY <1>1, QuietStays DEF NodeStarts, NodeEnds, Goes, nodeRest, mainVars, Nodes
  <1>2. CASE NodeReceives(n)
    <2>1. /\ UNCHANGED <<topology, reloaded, main, pipes, tolinkem, heap, sentPackets>>
          /\ ingress[n] # << >> /\ ingress' = [ingress EXCEPT ![n] = Tail(@)]
      BY <1>2 DEF NodeReceives
    <2>2. Nodes' = Nodes
      BY <1>2 DEF NodeReceives, AddToDebugQueue, Nodes
    <2>3. InOrder(Nodes, pipes, ingress', tolinkem, heap, sentPackets)
      BY <2>1, ReceiveKeeps DEF SimInv
    <2>4. OrderInv'
      BY <2>1, <2>2, <2>3 DEF OrderInv
    <2> QED
      BY <2>1, <2>2, <2>4, NetworkStays
  <1> QED
    BY <1>1, <1>2 DEF NodeStep

LEMMA LinkemKeeps ==
  ASSUME SimInv, NEW n \in Nodes, LinkemStep(n)
  PROVE  SimInv'
  <1> USE DEF linkemRest, mainVars
  <1>1. CASE LinkemLoops(n) \/ LinkemTimeout(n)
    BY <1>1, QuietStays DEF LinkemLoops, LinkemTimeout, Nodes
  <1>2. CASE LinkemDelivers(n)
    <2>1. UNCHANGED <<topology, reloaded, main, pipes, tolinkem, sentPackets>> /\ Nodes' = Nodes
      BY <1>2 DEF LinkemDelivers, Nodes
    <2>2. CASE heap[n] # << >> /\ due[n] > 0
      <3> DEFINE p == Head(heap[n])
      <3>1. /\ ingress' = [ingress EXCEPT ![p.to] = Append(@, p)]
            /\ heap' = [heap EXCEPT ![n] = Tail(@)]
        BY <1>2, <2>2 DEF LinkemDelivers
      <3>2. InOrder(Nodes, pipes, ingress', tolinkem, heap', sentPackets)
        BY <2>2, <3>1, DeliverKeeps DEF SimInv
      <3>3. OrderInv'
        BY <2>1, <3>2 DEF OrderInv
      <3> QED
        BY <2>1, <3>3, NetworkStays
    <2>3. CASE ~ (heap[n] # << >> /\ due[n] > 0)
      BY <1>2, <2>1, <2>3, QuietStays DEF LinkemDelivers
    <2> QED
      BY <2>2, <2>3
  <1>3. CASE LinkemGets(n)
    <2>1. UNCHANGED <<topology, reloaded, main, pipes, ingress, sentPackets>> /\ Nodes' = Nodes
      BY <1>3 DEF LinkemGets, Nodes
    <2>2. CASE tolinkem[n] # << >>
      <3>1. PICK i \in 1 .. Len(heap[n]) + 1 :
              /\ Place(heap[n], Head(tolinkem[n]), i)
              /\ heap' = [heap EXCEPT ![n] = InsertAt(@, i, Head(tolinkem[n]))]
              /\ tolinkem' = [tolinkem EXCEPT ![n] = Tail(@)]
        BY <1>3, <2>2 DEF LinkemGets
      <3>2. InOrder(Nodes, pipes, ingress, tolinkem', heap', sentPackets)
        BY <2>2, <3>1, PushKeeps DEF SimInv
      <3>3. OrderInv'
        BY <2>1, <3>2 DEF OrderInv
      <3> QED
        BY <2>1, <3>3, NetworkStays
    <2>3. CASE tolinkem[n] = << >>
      BY <1>3, <2>1, <2>3, QuietStays DEF LinkemGets
    <2> QED
      BY <2>2, <2>3
  <1> QED
    BY <1>1, <1>2, <1>3 DEF LinkemStep

LEMMA TimeKeeps ==
  ASSUME SimInv, SimTick
  PROVE  SimInv'
  <1>1. /\ UNCHANGED <<topology, reloaded, main, pipes, ingress, sentPackets>> /\ Nodes' = Nodes
        /\ heap' = [n \in Nodes |-> Older(heap[n])] /\ tolinkem' = [n \in Nodes |-> Older(tolinkem[n])]
    BY DEF SimTick, linkemRest, mainVars, Nodes
  <1>2. InOrder(Nodes, pipes, ingress, tolinkem', heap', sentPackets)
    BY <1>1, TickKeeps DEF SimInv
  <1>3. OrderInv'
    BY <1>1, <1>2 DEF OrderInv
  <1> QED
    BY <1>1, <1>3, NetworkStays

LEMMA SimInvHolds == SimSpec => []SimInv
  <1>1. SimInv /\ [SimNext]_simVars => SimInv'
    <2> SUFFICES ASSUME SimInv, [SimNext]_simVars
                 PROVE  SimInv'
      OBVIOUS
    <2>1. CASE UNCHANGED simVars
      BY <2>1, QuietStays DEF simVars, mainVars, nodeVars, Nodes
    <2>2. CASE SimNext
      BY <2>2, MainKeeps, CommandKeeps, TimeKeeps, NodeKeeps, LinkemKeeps DEF SimNext
    <2> QED
      BY <2>1, <2>2
  <1> QED
    BY InitHolds, <1>1, PTL DEF SimSpec

\* At the prompt the network that runs is the topology: what the commands edit
\* and what was built last agree in every node, link, interface and address
\* (cli.py __addNode, __addLink, rebuildGlue; topobuild.py).
THEOREM TheTopologyRuns == SimSpec => []RunsTheTopology
  <1>1. SimInv => RunsTheTopology
    BY DEF SimInv, TopologyOK, Follows, Typing, RunsTheTopology
  <1> QED
    BY SimInvHolds, <1>1, PTL

\* The link emulator keeps the order of packets of one link, but for a longer
\* one that a shorter overtakes (linkem.py 14-36).
THEOREM OrderIsKept == SimSpec => []LinksKeepOrder
  <1>1. SimInv => LinksKeepOrder
    <2> SUFFICES ASSUME SimInv, NEW n \in Nodes, NEW j \in DOMAIN ingress[n], NEW k \in DOMAIN ingress[n],
                        j < k, ingress[n][j].dev # HostDevice, ingress[n][j].dev = ingress[n][k].dev,
                        ingress[n][j].from = ingress[n][k].from,
                        ingress[n][j].size >= ingress[n][k].size
                 PROVE  ingress[n][j].nr < ingress[n][k].nr
      BY DEF LinksKeepOrder
    <2>1. Arrived(ingress[n], n, sentPackets)
      BY DEF SimInv, OrderInv, InOrder
    <2>2. ingress[n][j].to = n /\ ingress[n][k].to = n
      BY <2>1 DEF Arrived, Elems
    <2>3. Ahead(ingress[n][j], ingress[n][k])
      BY <2>1 DEF Arrived
    <2> QED
      BY <2>2, <2>3 DEF Ahead
  <1> QED
    BY SimInvHolds, <1>1, PTL
=============================================================================
