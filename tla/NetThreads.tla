----------------------------- MODULE NetThreads -----------------------------
(***************************************************************************)
(* The threads of a live Switchyard process: switchyard/llnetreal.py and   *)
(* the start of the framework in switchyard/syinit.py.                     *)
(*                                                                         *)
(* One receiver thread per device puts frames into a queue that the user   *)
(* threads read with recv_packet.  SIGINT is taken by the main thread, at  *)
(* any point of what that thread does since the barrier, the construction  *)
(* of the network object included.  With an application (-a) a further     *)
(* thread shuts the network object down when the application ends.         *)
(*                                                                         *)
(* A frame is its number on its device; raw bytes are left out.  The queue *)
(* is Python's: a lock that is not reentrant, held by a user thread from   *)
(* the start of get() until it takes an item or waits; put() is one step.  *)
(***************************************************************************)
EXTENDS Integers, Sequences, FiniteSets

CONSTANTS
  Users,        \* threads that run user code
  Main,         \* the one that called main_real
  Devs,         \* network devices
  Decodable,    \* devices whose encapsulation has a decoder
  MaxFrames,    \* bound of the model: frames captured per device
  WithApp,      \* an application thread was started
  WithSigint,   \* the user may press Ctrl-C, once
  SigintInGet,  \* ... also while the main thread holds the queue's lock
  TimedReceive  \* user code gives recv_packet a timeout

NoOne == "none"

ASSUME UsersAssumption == IsFiniteSet(Users) /\ Main \in Users /\ NoOne \notin Users
\* without a device the framework does not start
ASSUME DevsAssumption ==
  IsFiniteSet(Devs) /\ Devs # {} /\ NoOne \notin Devs /\ Decodable \subseteq Devs
ASSUME BoundsAssumption == MaxFrames \in Nat
ASSUME SwitchAssumption ==
  {WithApp, WithSigint, SigintInGet, TimedReceive} \subseteq BOOLEAN

App == "app"
Callers == {Main, App}     \* threads that call shutdown()

VARIABLES
  running,    \* LLNetReal.running
  pktqueue,   \* _pktqueue: [dev, n], n = 0 for the dummy of _sig_handler
  lock,       \* the user thread that holds the queue's lock, or NoOne
  user,       \* where each user thread is
  item,       \* what each user thread took from the queue
  rx,         \* where each receiver thread is
  captured,   \* frames each device has delivered to its thread
  app,        \* where the application thread is
  netobj,     \* _netobj of syinit.py is assigned
  built,      \* how far LLNetReal.__init__ is
  early,      \* history: SIGINT was handled before __init__ set running
  caller,     \* where each call of shutdown() is
  closes,     \* how often each device was closed
  sigint,     \* Ctrl-C was pressed
  given,      \* history: frames of each device returned by recv_packet
  skipped     \* history: frames dropped for want of a decoder

netVars == <<running, pktqueue, lock, user, item, rx, captured, app, netobj,
          built, early, caller, closes, sigint, given, skipped>>
queueVars == <<pktqueue, lock>>
userVars == <<user, item, given, skipped>>
rxVars == <<rx, captured>>
startVars == <<netobj, built, early>>
appVars == <<app, startVars>>
shutVars == <<caller, closes>>

Dummy == [dev |-> NoOne, n |-> 0]
Frame == [dev : Devs, n : 1 .. MaxFrames]

UserAt == {"start", "code", "get", "waiting", "got", "empty", "stopped",
           "left", "stuck"}
RxAt == {"new", "check", "recv", "put", "stats", "exited"}
AppAt == {"none", "barrier", "runs", "ended", "stopped"}
BuiltTo == {"no", "handler", "queue", "running", "failed"}
CallAt == {"idle", "check", "set", "join", "close", "done"}

NetTypeOK ==
  /\ running \in BOOLEAN
  /\ pktqueue \in Seq(Frame \cup {Dummy})
  /\ lock \in Users \cup {NoOne}
  /\ user \in [Users -> UserAt]
  /\ item \in [Users -> Frame \cup {Dummy}]
  /\ rx \in [Devs -> RxAt]
  /\ captured \in [Devs -> 0 .. MaxFrames]
  /\ app \in AppAt
  /\ netobj \in BOOLEAN
  /\ built \in BuiltTo
  /\ early \in BOOLEAN
  /\ caller \in [Callers -> CallAt]
  /\ closes \in [Devs -> 0 .. 2]
  /\ sigint \in BOOLEAN
  /\ given \in [Devs -> 0 .. MaxFrames]
  /\ skipped \in [Devs -> 0 .. MaxFrames]

NetInit ==
  /\ running = FALSE
  /\ pktqueue = << >>
  /\ lock = NoOne
  /\ user = [u \in Users |-> "start"]
  /\ item = [u \in Users |-> Dummy]
  /\ rx = [d \in Devs |-> "new"]
  /\ captured = [d \in Devs |-> 0]
  /\ app = IF WithApp THEN "barrier" ELSE "none"
  /\ netobj = FALSE
  /\ built = "no"
  /\ early = FALSE
  /\ caller = [c \in Callers |-> "idle"]
  /\ closes = [d \in Devs |-> 0]
  /\ sigint = FALSE
  /\ given = [d \in Devs |-> 0]
  /\ skipped = [d \in Devs |-> 0]

-----------------------------------------------------------------------------
(***************************************************************************)
(* start_framework and LLNetReal.__init__                                  *)
(***************************************************************************)

\* The barrier opens; the application may run before there is a network object.
PassBarrier ==
  /\ app = "barrier"
  /\ app' = "runs"
  /\ UNCHANGED <<running, queueVars, userVars, rxVars, startVars, shutVars, sigint>>

BarrierOpen == app # "barrier"

\* __init__: the signal handlers are installed first, then the queue is made.
InstallHandler ==
  /\ BarrierOpen
  /\ built = "no" /\ built' = "handler"
  /\ UNCHANGED <<running, queueVars, userVars, rxVars, app, netobj, early, shutVars, sigint>>

MakeQueue ==
  /\ built = "handler" /\ built' = "queue"
  /\ UNCHANGED <<running, queueVars, userVars, rxVars, app, netobj, early, shutVars, sigint>>

\* A device has no addresses, or cannot be opened.
ConstructionRaises ==
  /\ built \in {"handler", "queue"} /\ built' = "failed"
  /\ UNCHANGED <<running, queueVars, userVars, rxVars, app, netobj, early, shutVars, sigint>>

\* "LLNetReal.running = True", when the devices are open
StartRunning ==
  /\ built = "queue" /\ built' = "running"
  /\ running' = TRUE
  /\ UNCHANGED <<queueVars, userVars, rxVars, app, netobj, early, shutVars, sigint>>

\* _spawn_threads
Spawn(d) ==
  /\ built = "running"
  /\ rx[d] = "new" /\ rx' = [rx EXCEPT ![d] = "check"]
  /\ UNCHANGED <<running, queueVars, userVars, captured, appVars, shutVars, sigint>>

\* "_netobj = LLNetReal(devlist)", then the user code starts
StartUser ==
  /\ built = "running" /\ \A d \in Devs : rx[d] # "new"
  /\ ~ netobj
  /\ netobj' = TRUE
  /\ user' = [u \in Users |-> "code"]
  /\ UNCHANGED <<running, queueVars, item, given, skipped, rxVars, app,
                 built, early, shutVars, sigint>>

-----------------------------------------------------------------------------
(***************************************************************************)
(* recv_packet and the user code around it                                 *)
(***************************************************************************)

\* pktqueue.get() takes the queue's lock.
EnterGet(u) ==
  /\ user[u] = "code"
  /\ lock = NoOne
  /\ lock' = u
  /\ user' = [user EXCEPT ![u] = "get"]
  /\ UNCHANGED <<running, pktqueue, item, given, skipped, rxVars,
                 appVars, shutVars, sigint>>

Taken == Head(pktqueue)

TakeItem(u) ==
  /\ user[u] = "get"
  /\ pktqueue # << >>
  /\ item' = [item EXCEPT ![u] = Taken]
  /\ pktqueue' = Tail(pktqueue)
  /\ lock' = NoOne
  /\ user' = [user EXCEPT ![u] = "got"]
  /\ UNCHANGED <<running, given, skipped, rxVars, appVars, shutVars, sigint>>

\* The condition's wait() releases the lock.
WaitForItem(u) ==
  /\ user[u] = "get"
  /\ pktqueue = << >>
  /\ lock' = NoOne
  /\ user' = [user EXCEPT ![u] = "waiting"]
  /\ UNCHANGED <<running, pktqueue, item, given, skipped, rxVars,
                 appVars, shutVars, sigint>>

WakeUp(u) ==
  /\ user[u] = "waiting"
  /\ pktqueue # << >>
  /\ lock = NoOne
  /\ lock' = u
  /\ user' = [user EXCEPT ![u] = "get"]
  /\ UNCHANGED <<running, pktqueue, item, given, skipped, rxVars,
                 appVars, shutVars, sigint>>

\* get() raises Empty
TimeOut(u) ==
  /\ TimedReceive
  /\ user[u] = "waiting"
  /\ lock = NoOne
  /\ user' = [user EXCEPT ![u] = "empty"]
  /\ UNCHANGED <<running, queueVars, item, given, skipped, rxVars,
                 appVars, shutVars, sigint>>

\* recv_packet finds that the network is down.
RaisesShutdown(u) == user[u] \in {"got", "empty"} /\ ~ running

\* user code leaves its loop on Shutdown
ReceiveShutdown(u) ==
  /\ RaisesShutdown(u)
  /\ user' = [user EXCEPT ![u] = "stopped"]
  /\ UNCHANGED <<running, queueVars, item, given, skipped, rxVars,
                 appVars, shutVars, sigint>>

\* NoPackets, a packet for the user, or a packet without a decoder: the loop of
\* recv_packet starts again with its full timeout.
Receive(u) ==
  /\ user[u] \in {"got", "empty"}
  /\ ~ RaisesShutdown(u)
  /\ user' = [user EXCEPT ![u] = "code"]
  /\ LET d == item[u].dev
     IN  IF user[u] = "empty" \/ item[u] = Dummy
         THEN UNCHANGED <<given, skipped>>
         ELSE IF d \in Decodable
         THEN given' = [given EXCEPT ![d] = @ + 1] /\ skipped' = skipped
         ELSE skipped' = [skipped EXCEPT ![d] = @ + 1] /\ given' = given
  /\ UNCHANGED <<running, queueVars, item, rxVars, appVars, shutVars, sigint>>

\* A user thread ends its loop by itself.
LeaveLoop(u) ==
  /\ user[u] = "code"
  /\ user' = [user EXCEPT ![u] = "stopped"]
  /\ UNCHANGED <<running, queueVars, item, given, skipped, rxVars,
                 appVars, shutVars, sigint>>

\* The main thread shuts the network object down; any other just ends.
LeaveUserCode(u) ==
  /\ user[u] = "stopped"
  /\ user' = [user EXCEPT ![u] = "left"]
  /\ caller' = IF u = Main THEN [caller EXCEPT ![Main] = "check"] ELSE caller
  /\ UNCHANGED <<running, queueVars, item, given, skipped, rxVars,
                 appVars, closes, sigint>>

UserStep(u) ==
  \/ EnterGet(u)
  \/ TakeItem(u)
  \/ WaitForItem(u)
  \/ WakeUp(u)
  \/ TimeOut(u)
  \/ ReceiveShutdown(u)
  \/ Receive(u)
  \/ LeaveUserCode(u)

-----------------------------------------------------------------------------
(***************************************************************************)
(* SIGINT, in the main thread                                              *)
(***************************************************************************)

\* Before the handler is installed SIGINT is a KeyboardInterrupt; before there is
\* a queue, the handler raises AttributeError when it asks for its length.
InterruptConstruction ==
  /\ WithSigint /\ ~ sigint /\ BarrierOpen
  /\ built \in {"no", "handler"} /\ built' = "failed"
  /\ sigint' = TRUE
  /\ UNCHANGED <<running, queueVars, userVars, rxVars, app, netobj, early, shutVars>>

\* The handler is there and has all it needs.
MainRuns == built \in {"queue", "running"} /\ user[Main] # "stuck"

\* Mutation: no dummy is put.
WakeUpItemNever == pktqueue

\* "if self._pktqueue.qsize() == 0: put the dummy"
WakeUpItem == IF pktqueue = << >> THEN Append(pktqueue, Dummy) ELSE pktqueue

\* _sig_handler; what it does before __init__ sets running is undone there.
HandleSigint ==
  /\ WithSigint /\ ~ sigint /\ MainRuns
  /\ lock = NoOne
  /\ sigint' = TRUE
  /\ running' = FALSE
  /\ pktqueue' = WakeUpItem
  /\ early' = (built = "queue")
  /\ UNCHANGED <<lock, userVars, rxVars, app, netobj, built, shutVars>>

\* The handler interrupts get() in its own thread: qsize() waits for a lock
\* that its own thread holds, for ever.
HandleSigintInGet ==
  /\ WithSigint /\ SigintInGet /\ ~ sigint /\ MainRuns
  /\ lock = Main
  /\ sigint' = TRUE
  /\ running' = FALSE
  /\ user' = [user EXCEPT ![Main] = "stuck"]
  /\ UNCHANGED <<queueVars, item, given, skipped, rxVars, appVars, shutVars>>

-----------------------------------------------------------------------------
(***************************************************************************)
(* _low_level_dispatch                                                     *)
(***************************************************************************)

\* Mutation: "while True".
KeepsReceivingAlways == TRUE

KeepsReceiving == running

CheckRunning(d) ==
  /\ rx[d] = "check"
  /\ rx' = [rx EXCEPT ![d] = IF KeepsReceiving THEN "recv" ELSE "stats"]
  /\ UNCHANGED <<running, queueVars, userVars, captured, appVars, shutVars, sigint>>

\* pcapdev.recv_packet(timeout=0.2) has a frame
Capture(d) ==
  /\ rx[d] = "recv"
  /\ captured[d] < MaxFrames
  /\ captured' = [captured EXCEPT ![d] = @ + 1]
  /\ rx' = [rx EXCEPT ![d] = "put"]
  /\ UNCHANGED <<running, queueVars, userVars, appVars, shutVars, sigint>>

\* ... or has none
CaptureNothing(d) ==
  /\ rx[d] = "recv"
  /\ rx' = [rx EXCEPT ![d] = "check"]
  /\ UNCHANGED <<running, queueVars, userVars, captured, appVars, shutVars, sigint>>

\* Mutation: put_nowait on a queue of one place.
QueuedIfEmpty(f) == IF pktqueue = << >> THEN <<f>> ELSE pktqueue

Queued(f) == Append(pktqueue, f)

PutFrame(d) ==
  /\ rx[d] = "put"
  /\ lock = NoOne
  /\ pktqueue' = Queued([dev |-> d, n |-> captured[d]])
  /\ rx' = [rx EXCEPT ![d] = "check"]
  /\ UNCHANGED <<running, lock, userVars, captured, appVars, shutVars, sigint>>

ReadStats(d) ==
  /\ rx[d] = "stats"
  /\ rx' = [rx EXCEPT ![d] = "exited"]
  /\ UNCHANGED <<running, queueVars, userVars, captured, appVars, shutVars, sigint>>

RxStep(d) ==
  CheckRunning(d) \/ Capture(d) \/ CaptureNothing(d) \/ PutFrame(d) \/ ReadStats(d)

-----------------------------------------------------------------------------
(***************************************************************************)
(* shutdown, called by the main thread and by the application thread       *)
(***************************************************************************)

\* "if not LLNetReal.running: return"
MayShutDown == running

ShutdownCheck(c) ==
  /\ caller[c] = "check"
  /\ caller' = [caller EXCEPT ![c] = IF MayShutDown THEN "set" ELSE "done"]
  /\ UNCHANGED <<running, queueVars, userVars, rxVars, appVars, closes, sigint>>

ShutdownSet(c) ==
  /\ caller[c] = "set"
  /\ running' = FALSE
  /\ caller' = [caller EXCEPT ![c] = "join"]
  /\ UNCHANGED <<queueVars, userVars, rxVars, appVars, closes, sigint>>

\* Mutation: one thread is joined.
JoinedOne == \E d \in Devs : rx[d] = "exited"

\* "for t in self._threads: t.join()"
Joined == \A d \in Devs : rx[d] = "exited"

ShutdownJoin(c) ==
  /\ caller[c] = "join"
  /\ Joined
  /\ caller' = [caller EXCEPT ![c] = "close"]
  /\ UNCHANGED <<running, queueVars, userVars, rxVars, appVars, closes, sigint>>

ShutdownClose(c) ==
  /\ caller[c] = "close"
  /\ closes' = [d \in Devs |-> closes[d] + 1]
  /\ caller' = [caller EXCEPT ![c] = "done"]
  /\ UNCHANGED <<running, queueVars, userVars, rxVars, appVars, sigint>>

\* main_real calls shutdown() again after user code that has called it.
ShutdownAgain ==
  /\ caller[Main] = "done"
  /\ caller' = [caller EXCEPT ![Main] = "check"]
  /\ UNCHANGED <<running, queueVars, userVars, rxVars, appVars, closes, sigint>>

ShutdownStep(c) ==
  ShutdownCheck(c) \/ ShutdownSet(c) \/ ShutdownJoin(c) \/ ShutdownClose(c)

\* _start_app: the application ends; the network object, if there is one yet,
\* is shut down.
AppEnds ==
  /\ app = "runs"
  /\ app' = "ended"
  /\ UNCHANGED <<running, queueVars, userVars, rxVars, startVars, shutVars, sigint>>

AppShutsDown ==
  /\ app = "ended"
  /\ app' = "stopped"
  /\ caller' = IF netobj THEN [caller EXCEPT ![App] = "check"] ELSE caller
  /\ UNCHANGED <<running, queueVars, userVars, rxVars, startVars, closes, sigint>>

Threads ==
  \/ \E u \in Users : UserStep(u)
  \/ \E d \in Devs : RxStep(d)
  \/ \E c \in Callers : ShutdownStep(c)
  \/ InstallHandler
  \/ MakeQueue
  \/ StartRunning
  \/ \E d \in Devs : Spawn(d)
  \/ StartUser

NetNext ==
  \/ Threads
  \/ \E u \in Users : LeaveLoop(u)
  \/ ConstructionRaises
  \/ InterruptConstruction
  \/ HandleSigint
  \/ HandleSigintInGet
  \/ ShutdownAgain
  \/ PassBarrier
  \/ AppEnds
  \/ AppShutsDown

NetSpec == NetInit /\ [][NetNext]_netVars

\* Every thread keeps running, the user threads keep calling recv_packet, and
\* the queue's lock is granted to whoever asks for it again and again.
NetFairness ==
  /\ WF_netVars(PassBarrier) /\ WF_netVars(InstallHandler) /\ WF_netVars(MakeQueue)
  /\ WF_netVars(StartRunning) /\ WF_netVars(StartUser)
  /\ \A u \in Users :
       /\ SF_netVars(EnterGet(u)) /\ SF_netVars(WakeUp(u)) /\ WF_netVars(TakeItem(u))
       /\ WF_netVars(WaitForItem(u)) /\ SF_netVars(TimeOut(u))
       /\ WF_netVars(ReceiveShutdown(u)) /\ WF_netVars(Receive(u))
       /\ WF_netVars(LeaveUserCode(u))
  /\ \A d \in Devs :
       /\ WF_netVars(Spawn(d)) /\ WF_netVars(CheckRunning(d)) /\ WF_netVars(CaptureNothing(d))
       /\ SF_netVars(PutFrame(d)) /\ WF_netVars(ReadStats(d))
  /\ \A c \in Callers : WF_netVars(ShutdownStep(c))
  /\ WF_netVars(AppShutsDown)
-----------------------------------------------------------------------------
Count(d) == Cardinality({i \in DOMAIN pktqueue : pktqueue[i].dev = d})

Held(d) == Cardinality({u \in Users : user[u] = "got" /\ item[u].dev = d})

InHand(d) == IF rx[d] = "put" THEN 1 ELSE 0

\* While the network runs no captured frame is lost or handed out twice: each
\* is with its receiver thread, in the queue, with a user thread, or handed out.
NoFrameLost ==
  running => \A d \in Devs :
    captured[d] = InHand(d) + Count(d) + Held(d) + given[d] + skipped[d]

\* After SIGINT the network is down for good, and something in the queue wakes a
\* user thread, until one of them has learnt of it: also an untimed recv_packet
\* ends.  The exception is SIGINT while the network object is made, after its
\* queue and before running is set: "LLNetReal.running = True" undoes it, the
\* threads start as if nothing had happened (llnetreal.py:54).
SigintWakesUser ==
  sigint /\ ~ early =>
    /\ ~ running
    /\ (\A u \in Users : user[u] \in {"code", "get", "waiting"}) => pktqueue # << >>

\* No receiver thread uses a device that has been closed.
NoReceiveAfterClose ==
  \A d \in Devs : closes[d] > 0 => rx[d] = "exited"

\* The process can end: once running is false, every receiver thread exits,
\* with the same exception.
ReceiversExit ==
  (netobj /\ ~ running)
    ~> ((\A d \in Devs : rx[d] = "exited") \/ user[Main] = "stuck")
=============================================================================
