-------------------------- MODULE LearningSwitches --------------------------
(***************************************************************************)
(* The learning switches of lab 2 and the hubs of lab 1 in the three       *)
(* collections.  All are one loop that receives a frame, learns where its  *)
(* source is, and sends it out by the port of its destination or by all    *)
(* others.  A behaviour runs one of them:                                  *)
(*                                                                         *)
(*   hh, nju, m                       a table without limits               *)
(*   hhLru, njuLru, mLru              five entries, the least recently     *)
(*                                    used one makes room                  *)
(*   hhTraffic, njuTraffic, mTraffic  five entries, the one with the least *)
(*                                    traffic makes room                   *)
(*   hhTo, njuTo, mTo                 entries age                          *)
(*   njuHub, mHub                     no table                             *)
(*                                                                         *)
(* A table is the sequence of its entries in the order a dict or a list    *)
(* has them; n is the entry's age in frames (hhLru), its traffic, or its   *)
(* age in ticks, at most the time it may be used.                          *)
(***************************************************************************)
EXTENDS Integers, Sequences, FiniteSets, SequencesExt

CONSTANTS
  SwProgram,   \* the programs looked at
  Host,        \* addresses of hosts
  Mine,        \* an address of the switch itself
  Broadcast,   \* ff:ff:ff:ff:ff:ff
  Port,        \* ports of the switch
  HostPort,    \* those of them frames come in by
  Nowhere,     \* no port
  Size,        \* capacity of the tables that have one (5 in the code)
  MinData,     \* where mTraffic's search for a minimum starts (10000)
  HhTimeout,   \* time an entry may be used in hhTo (5 s), and in
  Timeout,     \* njuTo and mTo (10 s), in ticks
  MaxFrames    \* bound of the model: frames received

ASSUME HostAssumption == Mine \notin Host /\ Broadcast \notin Host \cup {Mine}
ASSUME PortAssumption ==
  /\ HostPort \subseteq Port /\ Nowhere \notin Port
  /\ IsFiniteSet(Port) /\ Cardinality(Port) > 2
ASSUME SizeAssumption ==
  Size \in Nat \ {0} /\ HhTimeout \in Nat \ {0} /\ Timeout \in Nat \ {0}

VARIABLES
  switch,   \* the program that runs
  macs,     \* its table
  dst,      \* destination of the last frame
  out,      \* the ports it left by
  heard,    \* history: the port each host's last frame came in by
  frames    \* number of frames received

swVars == <<switch, macs, dst, out, heard, frames>>

SwTypeOK ==
  /\ switch \in SwProgram
  /\ macs \in Seq([mac : Host, port : Port, n : Nat])
  /\ dst \in Host \cup {Mine, Broadcast}
  /\ out \subseteq Port
  /\ heard \in [Host -> Port \cup {Nowhere}]
  /\ frames \in 0 .. MaxFrames

SwInit ==
  /\ switch \in SwProgram
  /\ macs = << >>
  /\ dst = Broadcast
  /\ out = {}
  /\ heard = [h \in Host |-> Nowhere]
  /\ frames = 0

-----------------------------------------------------------------------------
(***************************************************************************)
(* Tables                                                                  *)
(***************************************************************************)

At(t, mac) == {i \in DOMAIN t : t[i].mac = mac}

Has(t, mac) == At(t, mac) # {}

Pos(t, mac) == CHOOSE i \in At(t, mac) : TRUE

PortOf(t, mac) == t[Pos(t, mac)].port

EntryFor(mac, port) == [mac |-> mac, port |-> port, n |-> 0]

\* the entry of mac with its port, in its place
SetPort(t, mac, port) ==
  [i \in DOMAIN t |-> IF t[i].mac = mac THEN [t[i] EXCEPT !.port = port] ELSE t[i]]

\* the entry of mac with n
SetN(t, mac, n) ==
  [i \in DOMAIN t |-> IF t[i].mac = mac THEN [t[i] EXCEPT !.n = n] ELSE t[i]]

\* the entry of mac, at the end
ToEnd(t, mac) ==
  IF Has(t, mac) THEN Append(RemoveAt(t, Pos(t, mac)), t[Pos(t, mac)]) ELSE t

\* the first entry with the greatest or the least n
Oldest(t) ==
  CHOOSE i \in DOMAIN t : \A j \in DOMAIN t : t[j].n < t[i].n \/ (t[j].n = t[i].n /\ i <= j)

Idlest(t) ==
  CHOOSE i \in DOMAIN t : \A j \in DOMAIN t : t[j].n > t[i].n \/ (t[j].n = t[i].n /\ i <= j)

\* Flood to every other port, or send by the port the table names, also if the
\* frame came in by it.
Outs(t, in, to) ==
  IF to = Mine THEN {}
  ELSE IF Has(t, to) THEN {PortOf(t, to)} ELSE Port \ {in}

\* A frame leaves the table t behind and goes out by the given ports.
Handled(src, in, to, t, ports) ==
  /\ frames' = frames + 1
  /\ macs' = t
  /\ dst' = to
  /\ out' = ports
  /\ heard' = [heard EXCEPT ![src] = in]
  /\ switch' = switch

\* switchyard-master's switches do not look at frames for themselves.
Unseen(to) ==
  /\ to = Mine
  /\ frames' = frames + 1
  /\ dst' = to
  /\ out' = {}
  /\ UNCHANGED <<switch, macs, heard>>

-----------------------------------------------------------------------------
(***************************************************************************)
(* Without limits                                                          *)
(***************************************************************************)

Learn(t, src, in) ==
  IF Has(t, src) THEN SetPort(t, src, in) ELSE Append(t, EntryFor(src, in))

HhSwitch(src, in, to) ==
  /\ switch = "hh"
  /\ Handled(src, in, to, Learn(macs, src, in), Outs(Learn(macs, src, in), in, to))

NjuSwitch(src, in, to) ==
  /\ switch = "nju"
  /\ Handled(src, in, to, Learn(macs, src, in), Outs(Learn(macs, src, in), in, to))

\* One address for each port, the first that is heard, and for good.
MLearn(t, src, in) ==
  IF \E i \in DOMAIN t : t[i].port = in THEN t ELSE Append(t, EntryFor(src, in))

MSwitch(src, in, to) ==
  /\ switch = "m"
  /\ \/ Unseen(to)
     \/ /\ to # Mine
        /\ Handled(src, in, to, MLearn(macs, src, in), Outs(MLearn(macs, src, in), in, to))

\* njuHub and mHub send frames for themselves nowhere, like the switches.
NjuHub(src, in, to) ==
  /\ switch = "njuHub"
  /\ Handled(src, in, to, macs, Outs(macs, in, to))

MHub(src, in, to) ==
  /\ switch = "mHub"
  /\ Handled(src, in, to, macs, Outs(macs, in, to))

-----------------------------------------------------------------------------
(***************************************************************************)
(* Least recently used                                                     *)
(***************************************************************************)

\* Mutation: the entry that was used last makes room.
HhLruLearnYoungest(t, src, in) ==
  IF Has(t, src) THEN SetPort(t, src, in)
  ELSE Append(IF Len(t) = Size THEN RemoveAt(t, Idlest(t)) ELSE t, EntryFor(src, in))

\* sorted with reverse=True: the first in the dict of those with the largest age
HhLruLearn(t, src, in) ==
  IF Has(t, src) THEN SetPort(t, src, in)
  ELSE Append(IF Len(t) = Size THEN RemoveAt(t, Oldest(t)) ELSE t, EntryFor(src, in))

\* every entry is a frame older
Aged(t) == [i \in DOMAIN t |-> [t[i] EXCEPT !.n = @ + 1]]

HhLru(src, in, to) ==
  LET t == Aged(HhLruLearn(macs, src, in))
  IN  /\ switch = "hhLru"
      /\ Handled(src, in, to, SetN(t, to, 0), Outs(t, in, to))

\* LRUCache, with its list from its tail to its head: remove_lru, put and get
RemoveLru(t) == Tail(t)

CachePut(t, key, value) ==
  IF Has(t, key) THEN SetPort(t, key, value)
  ELSE Append(IF Len(t) = Size THEN RemoveLru(t) ELSE t, EntryFor(key, value))

\* flush_mru
CacheGet(t, key) == ToEnd(t, key)

NjuLru(src, in, to) ==
  LET t == CachePut(macs, src, in)
  IN  /\ switch = "njuLru"
      /\ Handled(src, in, to, CacheGet(t, to), Outs(t, in, to))

MLruLearn(t, src, in) ==
  IF Has(t, src) THEN SetPort(t, src, in)
  ELSE Append(IF Len(t) >= Size THEN Tail(t) ELSE t, EntryFor(src, in))

\* the entry found is deleted and appended
MLruHit(t, to) == ToEnd(t, to)

MLru(src, in, to) ==
  LET t == MLruLearn(macs, src, in)
  IN  /\ switch = "mLru"
      /\ \/ Unseen(to)
         \/ to # Mine /\ Handled(src, in, to, MLruHit(t, to), Outs(t, in, to))

-----------------------------------------------------------------------------
(***************************************************************************)
(* Least traffic                                                           *)
(***************************************************************************)

Count(t, to) == [i \in DOMAIN t |-> IF t[i].mac = to THEN [t[i] EXCEPT !.n = @ + 1] ELSE t[i]]

TrafficLearn(t, src, in) ==
  IF Has(t, src) THEN SetPort(t, src, in)
  ELSE Append(IF Len(t) = Size THEN RemoveAt(t, Idlest(t)) ELSE t, EntryFor(src, in))

HhTraffic(src, in, to) ==
  LET t == TrafficLearn(macs, src, in)
  IN  /\ switch = "hhTraffic"
      /\ Handled(src, in, to, Count(t, to), Outs(t, in, to))

NjuTraffic(src, in, to) ==
  LET t == TrafficLearn(macs, src, in)
  IN  /\ switch = "njuTraffic"
      /\ Handled(src, in, to, Count(t, to), Outs(t, in, to))

\* entries with as much traffic as the search starts with are not found
MinPos(t) == IF t[Idlest(t)].n < MinData THEN Idlest(t) ELSE 1

MTrafficLearn(t, src, in) ==
  IF Has(t, src) THEN SetPort(t, src, in)
  ELSE Append(IF Len(t) >= Size THEN RemoveAt(t, MinPos(t)) ELSE t, EntryFor(src, in))

MTraffic(src, in, to) ==
  LET t == MTrafficLearn(macs, src, in)
  IN  /\ switch = "mTraffic"
      /\ \/ Unseen(to)
         \/ to # Mine /\ Handled(src, in, to, Count(t, to), Outs(t, in, to))

-----------------------------------------------------------------------------
(***************************************************************************)
(* Timeouts                                                                *)
(***************************************************************************)

\* Mutation: nothing is deleted.
UsableAll(t, limit) == t

\* No two entries are equal, and these programs never ask for their order.
Usable(t, limit) == SetToSeq({e \in Range(t) : e.n < limit})

\* The source is entered anew, then everything of five seconds is deleted.
HhToLearn(t, src, in) == Usable(SetN(Learn(t, src, in), src, 0), HhTimeout)

HhTo(src, in, to) ==
  LET t == HhToLearn(macs, src, in)
  IN  /\ switch = "hhTo"
      /\ Handled(src, in, to, t, Outs(t, in, to))

\* Old entries stay and are not used.
NjuToLearn(t, src, in) == SetN(Learn(t, src, in), src, 0)

NjuTo(src, in, to) ==
  LET t == NjuToLearn(macs, src, in)
  IN  /\ switch = "njuTo"
      /\ Handled(src, in, to, t, Outs(Usable(t, Timeout), in, to))

\* Old entries are deleted first.  A known host that stays at its port does not
\* become younger.
MToLearn(t, src, in) ==
  IF ~ Has(t, src) THEN Append(t, EntryFor(src, in))
  ELSE IF PortOf(t, src) = in THEN t ELSE SetN(SetPort(t, src, in), src, 0)

MToFrame(src, in, to, t) ==
  \/ /\ to = Mine
     /\ frames' = frames + 1 /\ dst' = to /\ out' = {} /\ macs' = t
     /\ UNCHANGED <<switch, heard>>
  \/ /\ to # Mine
     /\ Handled(src, in, to, MToLearn(t, src, in), Outs(MToLearn(t, src, in), in, to))

MTo(src, in, to) ==
  /\ switch = "mTo"
  /\ MToFrame(src, in, to, Usable(macs, Timeout))

Limit == IF switch = "hhTo" THEN HhTimeout ELSE Timeout

SwTick ==
  /\ switch \in {"hhTo", "njuTo", "mTo"}
  /\ \E i \in DOMAIN macs : macs[i].n < Limit
  /\ macs' = [i \in DOMAIN macs |-> [macs[i] EXCEPT !.n = IF @ < Limit THEN @ + 1 ELSE @]]
  /\ out' = {}
  /\ UNCHANGED <<switch, dst, heard, frames>>

Frame ==
  /\ frames < MaxFrames
  /\ \E src \in Host, in \in HostPort, to \in Host \cup {Mine, Broadcast} :
       \/ HhSwitch(src, in, to) \/ NjuSwitch(src, in, to) \/ MSwitch(src, in, to)
       \/ NjuHub(src, in, to) \/ MHub(src, in, to)
       \/ HhLru(src, in, to) \/ NjuLru(src, in, to) \/ MLru(src, in, to)
       \/ HhTraffic(src, in, to) \/ NjuTraffic(src, in, to) \/ MTraffic(src, in, to)
       \/ HhTo(src, in, to) \/ NjuTo(src, in, to) \/ MTo(src, in, to)

SwNext == Frame \/ SwTick

SwSpec == SwInit /\ [][SwNext]_swVars
-----------------------------------------------------------------------------
\* A frame that goes out by one port only goes where its destination was heard
\* last, whatever was evicted, has aged or has moved since, and with timeouts
\* only if that was within the timeout or the host was heard again.  The switch
\* m, which learns an address once and for all, is the exception.
SentWhereHeard ==
  (switch # "m" /\ Cardinality(out) = 1) =>
    /\ out = {heard[dst]}
    /\ switch \in {"hhTo", "njuTo", "mTo"} => \E i \in At(macs, dst) : macs[i].n < Limit

\* Whether the entry of a was used before that of b: ages in hhLru, and what is
\* equally old in the order of the dict; places in the linked list of njuLru and
\* the list of mLru.
Before(t, a, b) ==
  LET i == Pos(t, a) j == Pos(t, b)
  IN  IF switch = "hhLru" THEN t[j].n < t[i].n \/ (t[j].n = t[i].n /\ i < j) ELSE i < j

\* What a table says to who looks addresses up
LruTableOf(t) ==
  [port |-> [h \in Host |-> IF Has(t, h) THEN PortOf(t, h) ELSE Nowhere],
   older |-> {q \in Host \X Host : Has(t, q[1]) /\ Has(t, q[2]) /\ Before(t, q[1], q[2])}]

WithLru == switch \in {"hhLru", "njuLru", "mLru"}

Lru == INSTANCE LruTable WITH
  Mac <- Host, Other <- {Mine, Broadcast}, None <- Nowhere, Cap <- Size,
  table <- LruTableOf(IF WithLru THEN macs ELSE << >>),
  asked <- IF WithLru THEN dst ELSE Broadcast

\* The three programs with a least-recently-used table replace entries in the
\* same way: each step of theirs is one of the abstract table.
ImplementsLru == Lru!Spec
=============================================================================
