----------------------------- MODULE ScenarioRun ----------------------------
(***************************************************************************)
(* Test mode: run_tests and LLNetTest of switchyard/llnettest.py with the  *)
(* scenarios of switchyard/lib/testing.py.  User code is run against one   *)
(* scenario after the other; it may call recv_packet and send_packet in any*)
(* order, return, or crash.                                                *)
(*                                                                         *)
(* A packet is what the test can tell of it: whether the matcher of its    *)
(* device accepts it.  The process has one alarm, with the handler of the  *)
(* scenario that set it last; its exception is raised wherever the process *)
(* is.  User code does not catch that exception, and there is no debugger  *)
(* (--nopdb).                                                              *)
(***************************************************************************)
EXTENDS Integers, Sequences, FiniteSets

CONSTANTS
  Dev,        \* device names
  Scenarios,  \* per scenario the sequence of its expected events
  Timeout     \* TestScenario.timeout, in ticks

EventKind == {"in", "nap", "out"}
\* PacketInputEvent, PacketInputTimeoutEvent with its delay in ticks,
\* PacketOutputEvent with its devices
Event == [kind : EventKind, nap : Nat, outs : SUBSET Dev]

ASSUME ScenariosAssumption == Scenarios \in Seq(Seq(Event))
ASSUME TimeoutAssumption == Timeout \in Nat

VARIABLES
  cur,        \* the scenario being run
  completed,  \* number of completed events of each scenario
  matched,    \* devices matched so far of the output event expected now
  timer,      \* _timer of each scenario
  alarm,      \* ticks to SIGALRM, 0 when none is pending
  handler,    \* the scenario whose _timer_expiry is installed, 0 for none
  napLeft,    \* ticks left of the sleep of a PacketInputTimeoutEvent
  pc,         \* "setup", "user", "ended", "finished", "died"
  failure,    \* the test failed with an exception
  verdict     \* what run_tests printed of each scenario

testVars == <<cur, completed, matched, timer, alarm, handler, napLeft, pc, failure, verdict>>
timerVars == <<timer, alarm, handler>>
eventVars == <<completed, matched>>

Nr == DOMAIN Scenarios
Verdict == {"none", "passed", "failed"}

TestTypeOK ==
  /\ cur \in Nr
  /\ completed \in [Nr -> Nat] /\ \A s \in Nr : completed[s] <= Len(Scenarios[s])
  /\ matched \subseteq Dev
  /\ timer \in [Nr -> BOOLEAN]
  /\ alarm \in 0 .. Timeout
  /\ handler \in Nr \cup {0}
  /\ napLeft \in Nat
  /\ pc \in {"setup", "user", "ended", "finished", "died"}
  /\ failure \in BOOLEAN
  /\ verdict \in [Nr -> Verdict]

TestInit ==
  /\ cur = 1
  /\ completed = [s \in Nr |-> 0]
  /\ matched = {}
  /\ timer = [s \in Nr |-> FALSE]
  /\ alarm = 0
  /\ handler = 0
  /\ napLeft = 0
  /\ pc = "setup"
  /\ failure = FALSE
  /\ verdict = [s \in Nr |-> "none"]

-----------------------------------------------------------------------------
(***************************************************************************)
(* TestScenario                                                            *)
(***************************************************************************)
Done(s) == completed[s] = Len(Scenarios[s])

\* next(): the head of _pending_events
Expected(s) == Scenarios[s][completed[s] + 1]

ExpectsOutput(s) == ~ Done(s) /\ Expected(s).kind = "out"

\* Mutation: the timer is not cancelled.
KeepTimer == UNCHANGED timerVars

CancelTimer ==
  /\ timer' = [timer EXCEPT ![cur] = FALSE]
  /\ alarm' = 0
  /\ UNCHANGED handler

\* signal.signal and signal.alarm of testpass; alarm(0) sets no alarm
SetTimer ==
  /\ timer' = [timer EXCEPT ![cur] = TRUE]
  /\ alarm' = Timeout
  /\ handler' = cur

\* Mutation: no timer for an output that follows an output.
NeedsTimerAfterInput(s, k) ==
  k < Len(Scenarios[s]) /\ Scenarios[s][k + 1].kind = "out" /\ Scenarios[s][k].kind # "out"

\* the event after the k-th is an output
NeedsTimer(s, k) == k < Len(Scenarios[s]) /\ Scenarios[s][k + 1].kind = "out"

\* testpass: the head of the pending events is completed.
TestPass ==
  /\ completed' = [completed EXCEPT ![cur] = @ + 1]
  /\ matched' = {}
  /\ IF NeedsTimer(cur, completed[cur] + 1) THEN SetTimer ELSE CancelTimer

-----------------------------------------------------------------------------
(***************************************************************************)
(* LLNetTest, called by user code                                          *)
(***************************************************************************)
InUserCode == pc = "user" /\ napLeft = 0

\* a TestScenarioFailure ends user code
RaiseFailure == pc' = "ended" /\ failure' = TRUE

\* recv_packet is called when a packet or a timeout is expected.
RecvExpected ==
  /\ InUserCode
  /\ ~ Done(cur)
  /\ Expected(cur).kind \in {"in", "nap"}
  /\ napLeft' = Expected(cur).nap
  /\ TestPass
  /\ UNCHANGED <<cur, pc, failure, verdict>>

\* recv_packet is called when an output is expected: NoPackets, and nothing
\* changes.  At the end of the scenario it raises Shutdown, and user code ends.
RecvShutdown ==
  /\ InUserCode
  /\ Done(cur)
  /\ pc' = "ended"
  /\ UNCHANGED <<cur, eventVars, timerVars, napLeft, failure, verdict>>

\* "len(self._device_packet_map) == 0"
Completes(outs, devs) == devs = outs

\* send_packet(dev, pkt) with a packet the matcher of dev accepts
SendMatching(dev) ==
  /\ InUserCode
  /\ ExpectsOutput(cur)
  /\ dev \in Expected(cur).outs \ matched
  /\ IF Completes(Expected(cur).outs, matched \cup {dev})
     THEN TestPass
     ELSE matched' = matched \cup {dev} /\ UNCHANGED <<completed, timerVars>>
  /\ UNCHANGED <<cur, napLeft, pc, failure, verdict>>

\* send_packet with a packet, or on a device, that is not expected: another
\* device, one matched already, no output expected, or the scenario is over
SendUnexpected ==
  /\ InUserCode
  /\ RaiseFailure
  /\ UNCHANGED <<cur, eventVars, timerVars, napLeft, verdict>>

\* User code returns, or crashes with an exception of its own.
Return ==
  /\ InUserCode
  /\ pc' = "ended"
  /\ failure' \in BOOLEAN
  /\ UNCHANGED <<cur, eventVars, timerVars, napLeft, verdict>>

-----------------------------------------------------------------------------
(***************************************************************************)
(* run_tests                                                               *)
(***************************************************************************)

\* set-up of the scenario, start of user code
StartScenario ==
  /\ pc = "setup"
  /\ pc' = "user"
  /\ failure' = FALSE
  /\ matched' = {}
  /\ UNCHANGED <<cur, completed, timerVars, napLeft, verdict>>

\* "if sobj.get_failed_test()": an expectation is left
Failed == failure \/ ~ Done(cur)

Judge ==
  /\ pc = "ended"
  /\ verdict' = [verdict EXCEPT ![cur] = IF Failed THEN "failed" ELSE "passed"]
  /\ IF cur + 1 \in Nr
     THEN cur' = cur + 1 /\ pc' = "setup"
     ELSE cur' = cur /\ pc' = "finished"
  /\ UNCHANGED <<eventVars, timerVars, napLeft, failure>>

-----------------------------------------------------------------------------
(***************************************************************************)
(* Time                                                                    *)
(***************************************************************************)
Running == pc \notin {"finished", "died"}

TestTick ==
  /\ Running
  /\ alarm # 1
  /\ alarm > 0 \/ napLeft > 0
  /\ alarm' = IF alarm > 1 THEN alarm - 1 ELSE alarm
  /\ napLeft' = IF napLeft > 0 THEN napLeft - 1 ELSE napLeft
  /\ UNCHANGED <<cur, eventVars, timer, handler, pc, failure, verdict>>

\* _timer_expiry of the scenario that set the alarm.  Outside user code nothing
\* catches its exception and the process dies.
AlarmRings ==
  /\ Running
  /\ alarm = 1
  /\ alarm' = 0
  /\ IF ~ timer[handler]
     THEN UNCHANGED <<pc, failure, napLeft>>
     ELSE IF pc = "user"
     THEN RaiseFailure /\ napLeft' = 0
     ELSE pc' = "died" /\ UNCHANGED <<failure, napLeft>>
  /\ UNCHANGED <<cur, eventVars, timer, handler, verdict>>

TestNext ==
  \/ RecvExpected
  \/ RecvShutdown
  \/ \E dev \in Dev : SendMatching(dev)
  \/ SendUnexpected
  \/ Return
  \/ StartScenario
  \/ Judge
  \/ TestTick
  \/ AlarmRings

TestSpec == TestInit /\ [][TestNext]_testVars

\* User code keeps calling recv_packet, and time passes.
TestFairness ==
  /\ WF_testVars(RecvExpected \/ RecvShutdown)
  /\ WF_testVars(StartScenario) /\ WF_testVars(Judge)
  /\ WF_testVars(TestTick) /\ WF_testVars(AlarmRings)
-----------------------------------------------------------------------------
\* A timer that can still fail the current scenario was set by it, for the
\* output it expects now: never one that an earlier event left behind.
AlarmIsForExpectedOutput ==
  pc = "user" /\ alarm > 0 /\ handler = cur /\ timer[cur] => ExpectsOutput(cur)

\* The run ends with a verdict on every scenario, also when user code only
\* calls recv_packet: NoPackets is not raised for ever.
EveryScenarioJudged == <>(pc \in {"finished", "died"})

\* "there may be a pending signal for ensuring test completion; turn it off"
\* (llnettest.py:187): no alarm outlives its scenario.
AlarmEndsWithScenario == pc = "user" /\ alarm > 0 => handler = cur
=============================================================================
