------------------------------ MODULE MCRuntime ------------------------------
(* The two ways in which the framework runs user code: on real devices or   *)
(* against test scenarios.  A behaviour is one of them.                     *)
EXTENDS NetThreads, ScenarioRun

CONSTANTS main0, eth0, raw0, eth1

VARIABLE runs   \* "net" or "tests"

vars == <<runs, netVars, testVars>>

---------------------------------------------------------------------------
\* Two scenarios: outputs on two devices, two outputs in a row, a timeout.
In == [kind |-> "in", nap |-> 0, outs |-> {}]
Nap(n) == [kind |-> "nap", nap |-> n, outs |-> {}]
Out(devs) == [kind |-> "out", nap |-> 0, outs |-> devs]

MCScenarios ==
  << <<In, Out({eth0, eth1}), Out({eth1}), Nap(2), Out({eth0}), In>>,
     <<Nap(1), Out({eth0}), In, Out({eth0, eth1})>> >>

---------------------------------------------------------------------------
\* What does not run has come to its end, or has nothing to do.
NetEnded ==
  /\ running = FALSE /\ netobj = TRUE /\ app = "none"
  /\ built = "running" /\ early = FALSE
  /\ rx = [d \in Devs |-> "exited"] /\ user = [u \in Users |-> "left"]

Init ==
  /\ runs \in {"net", "tests"}
  /\ IF runs = "net" THEN NetInit
     ELSE /\ NetEnded
          /\ pktqueue = << >> /\ lock = NoOne /\ item = [u \in Users |-> Dummy]
          /\ captured = [d \in Devs |-> 0] /\ given = captured /\ skipped = captured
          /\ caller = [c \in Callers |-> "done"] /\ closes = [d \in Devs |-> 1]
          /\ sigint = FALSE
  /\ IF runs = "tests" THEN TestInit
     ELSE /\ cur = 1 /\ completed = [s \in Nr |-> 0] /\ matched = {}
          /\ timer = [s \in Nr |-> FALSE] /\ alarm = 0 /\ handler = 0 /\ napLeft = 0
          /\ pc = "finished" /\ failure = FALSE /\ verdict = [s \in Nr |-> "none"]

Next ==
  \/ runs = "net" /\ NetNext /\ UNCHANGED <<runs, testVars>>
  \/ runs = "tests" /\ TestNext /\ UNCHANGED <<runs, netVars>>

Spec == Init /\ [][Next]_vars /\ NetFairness /\ TestFairness
=============================================================================
