------------------------------ MODULE LruTable ------------------------------
(***************************************************************************)
(* What a table with least-recently-used replacement promises: addresses   *)
(* are ordered by when they entered or were last looked up, and a new one  *)
(* takes the place of the first.                                           *)
(***************************************************************************)
EXTENDS Naturals, FiniteSets

CONSTANTS
  Mac,     \* addresses a table may know
  Other,   \* those it never knows
  Port,    \* what the table says about an address
  None,    \* nothing
  Cap      \* its capacity

VARIABLES
  table,   \* port: of each address its port or None;
           \* older: the pairs of addresses the first of which was used before
  asked    \* the address that was looked up last

Init ==
  /\ table = [port |-> [m \in Mac |-> None], older |-> {}]
  /\ asked \in Mac \cup Other

Known(s) == {m \in Mac : s.port[m] # None}

\* m was used now.
Youngest(s, m) ==
  [port |-> s.port,
   older |-> {q \in s.older : q[1] # m /\ q[2] # m} \cup ((Known(s) \ {m}) \X {m})]

\* the address that was used before all others
First(s) == CHOOSE v \in Known(s) : \A m \in Known(s) \ {v} : <<v, m>> \in s.older

Without(s, v) ==
  [port |-> [s.port EXCEPT ![v] = None],
   older |-> {q \in s.older : q[1] # v /\ q[2] # v}]

WithPort(s, m, p) == [port |-> [s.port EXCEPT ![m] = p], older |-> s.older]

MadeRoom(s) == IF Cardinality(Known(s)) = Cap THEN Without(s, First(s)) ELSE s

\* A known address gets its port and keeps its place.
Put(s, m, p) ==
  IF m \in Known(s) THEN WithPort(s, m, p)
  ELSE Youngest(WithPort(MadeRoom(s), m, p), m)

Touch(s, m) == IF m \in Known(s) THEN Youngest(s, m) ELSE s

\* An address is put, and one is looked up.
PutAndLookUp(m, p) ==
  /\ table'.port[m] = p
  /\ asked' \in Mac \cup Other
  /\ table' = Touch(Put(table, m, p), asked')

\* What asks for an address that is never known may be ignored.
Ignore == asked' \in Other /\ UNCHANGED table

Next == Ignore \/ \E m \in Mac, p \in Port : PutAndLookUp(m, p)

Spec == Init /\ [][Next]_<<table, asked>>
=============================================================================
