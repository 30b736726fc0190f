--------------------------- MODULE OpenFlowSwitch ---------------------------
(***************************************************************************)
(* switchyard/lib/openflow/ofswitch.py: a switch whose main thread takes   *)
(* frames from the network, buffers them and announces them to the         *)
(* controllers, while a thread for each controller answers its messages.   *)
(*                                                                         *)
(* Messages reach the threads as the tests deliver them: the connection    *)
(* itself is never made (connect names host and port, which do not exist,  *)
(* and swallows the exception).  The flow table stays empty, because the   *)
(* handler that would fill it names self._table, which does not exist      *)
(* either: so no frame matches and no entry expires.  An exception in a    *)
(* handler ends the controller's thread, one in the main thread ends it    *)
(* without shutdown().  A handler is one step, though it reads _oflib      *)
(* several times.                                                          *)
(***************************************************************************)
EXTENDS Integers, FiniteSets

CONSTANTS
  Controller,    \* the controllers, each with a thread
  Interface,          \* interface numbers of the switch
  BufferSize,    \* _buffsize (100)
  FirstVersion,  \* version the switch is made with: "of10" or "of13"
  None,          \* no packet, no message
  MaxPackets,    \* bounds of the model: packets received,
  MaxMessages    \* messages of the controllers

ASSUME SwitchAssumption ==
  /\ BufferSize \in Nat \ {0} /\ MaxPackets \in Nat /\ MaxMessages \in Nat
  /\ Interface \subseteq Nat
  /\ FirstVersion \in {"of10", "of13"}

VARIABLES
  lib,        \* _version and _oflib
  handlers,   \* the handler map each controller's thread has chosen
  thread,     \* where that thread is: "new", "loop", "ended", "dead"
  wire,       \* the message on its way from each controller, or None
  sends,      \* number of messages the controllers have sent
  reply,      \* the last answer of the thread to its controller
  told,       \* what each controller was told of each buffer id and has not used
  buffer,     \* _buffer: a function from the ids in use to packets
  dp,         \* main thread: "idle", "add", "tell", "join", "done", "dead"
  current,    \* the packet it works on, with the id it has taken
  packets,    \* number of packets received
  running,    \* _running
  missLen,    \* _miss_len
  sent,       \* history: packets that left
  taken,      \* history: packets taken out of the buffer
  lost,       \* history: packets overwritten in the buffer
  wrong,      \* history: packets taken for another one
  disorder    \* history: a packet was taken that was not the newest, or
              \* while another was on its way into the buffer

switchVars == <<lib, handlers, thread, wire, sends, reply, told, buffer, dp, current,
                packets, running, missLen, sent, taken, lost, wrong, disorder>>

Ids == 1 .. BufferSize
Frames == 1 .. MaxPackets

SwitchInit ==
  /\ lib = FirstVersion
  /\ handlers = [c \in Controller |-> FirstVersion]
  /\ thread = [c \in Controller |-> "new"]
  /\ wire = [c \in Controller |-> None]
  /\ sends = 0
  /\ reply = [c \in Controller |-> None]
  /\ told = [c \in Controller |-> [i \in Ids |-> None]]
  /\ buffer = [i \in {} |-> None]
  /\ dp = "idle"
  /\ current = [packet |-> None, id |-> 0]
  /\ packets = 0
  /\ running = TRUE
  /\ missLen = 1500
  /\ sent = {} /\ taken = {} /\ lost = {} /\ wrong = {}
  /\ disorder = FALSE

dpVars == <<dp, current, packets, running>>
historyVars == <<sent, taken, lost, wrong, disorder>>

-----------------------------------------------------------------------------
(***************************************************************************)
(* The controllers                                                         *)
(***************************************************************************)

\* lib is the library the message is parsed with, version what its header
\* says; code is the message's type as a number.
Message(l, v, code, id, meant, outs) ==
  [lib |-> l, version |-> v, code |-> code, id |-> id, meant |-> meant, outs |-> outs]

\* a port, or what ActionOutput has no implementation for
Flood == [to |-> "flood", port |-> 0]
Outputs == {Flood} \cup { [to |-> t, port |-> 0] : t \in {"in_port", "unimplemented"} }
             \cup { [to |-> "port", port |-> p] : p \in Interface }

Requests ==
  { Message(l, l, code, 0, None, Flood) :
      l \in {"of10", "of13"}, code \in {0, 2, 3, 5, 7, 9, 14, 16, 18, 20} }
    \cup { Message("of10", v, 0, 0, None, Flood) : v \in {"of13", "none"} }

\* A controller uses what it was told of once; id 0 stands for a packet that
\* the message itself carries.
PacketOuts(c) ==
  { Message(l, l, 13, i, told[c][i], outs) :
      l \in {"of10", "of13"}, outs \in Outputs, i \in {j \in Ids : told[c][j] # None} }
    \cup { Message(l, l, 13, 0, None, Flood) : l \in {"of10", "of13"} }

ControllerSends(c) ==
  /\ wire[c] = None /\ sends < MaxMessages
  /\ sends' = sends + 1
  /\ \E m \in Requests \cup PacketOuts(c) :
       /\ wire' = [wire EXCEPT ![c] = m]
       /\ told' = IF m.id = 0 THEN told ELSE [told EXCEPT ![c][m.id] = None]
  /\ UNCHANGED <<lib, handlers, thread, reply, buffer, missLen, dpVars, historyVars>>

-----------------------------------------------------------------------------
(***************************************************************************)
(* A controller's thread                                                   *)
(***************************************************************************)

\* _controller_thread looks at the version once, before its loop.
ThreadStarts(c) ==
  /\ thread[c] = "new"
  /\ thread' = [thread EXCEPT ![c] = "loop"]
  /\ handlers' = [handlers EXCEPT ![c] = lib]
  /\ UNCHANGED <<lib, wire, sends, reply, told, buffer, missLen, dpVars, historyVars>>

\* _handler_map_10 and _handler_map_13: the codes of the messages they have in
\* common are the same in both libraries.
HandlerFor(map, code) ==
  CASE code = 0 -> "hello"
    [] code = 2 -> "echo_request"
    [] code = 5 -> "features_request"
    [] code = 7 -> "get_config_request"
    [] code = 9 -> "set_config"
    [] code = 13 -> "packet_out"
    [] code = 14 -> "flow_mod"
    [] code = 16 /\ map = "of10" -> "stats_request"
    [] code = 18 /\ map = "of10" -> "barrier_request"
    [] code = 20 /\ map = "of13" -> "barrier_request"
    [] OTHER -> "unknown_type"

Handles(c, name) ==
  /\ thread[c] = "loop" /\ wire[c] # None
  /\ HandlerFor(handlers[c], wire[c].code) = name
  /\ wire' = [wire EXCEPT ![c] = None]
  /\ UNCHANGED <<handlers, sends, told, dpVars>>

\* Mutation: the thread looks at _running only after a message.
LeavesLoopWithMessage(message) == ~ running /\ message

\* the end of a round: with a message or without
LeavesLoop(message) == ~ running

EndRound(c, message) ==
  thread' = [thread EXCEPT ![c] = IF LeavesLoop(message) THEN "ended" ELSE "loop"]

Dies(c) == thread' = [thread EXCEPT ![c] = "dead"]

UNTOUCHED == <<lib, buffer, missLen, historyVars>>

\* "pkt[self._oflib.OpenflowHeader]" raises KeyError unless the message was
\* parsed with the library the switch uses now.
Answers(c, l, type) ==
  IF wire[c].lib = l
  THEN /\ EndRound(c, TRUE)
       /\ reply' = [reply EXCEPT ![c] = type]
  ELSE Dies(c) /\ reply' = reply

\* The switch changes to the version of the controller, for all controllers,
\* but the thread keeps its handler map.
HelloHandler(c) ==
  /\ Handles(c, "hello")
  /\ IF wire[c].version = "none"
     THEN lib' = lib /\ reply' = reply /\ EndRound(c, TRUE)
     ELSE lib' = wire[c].version /\ Answers(c, wire[c].version, "hello")
  /\ UNCHANGED <<buffer, missLen, historyVars>>

FeaturesRequestHandler(c) ==
  Handles(c, "features_request") /\ Answers(c, lib, "features_reply") /\ UNCHANGED UNTOUCHED

GetConfigRequestHandler(c) ==
  Handles(c, "get_config_request") /\ Answers(c, lib, "get_config_reply") /\ UNCHANGED UNTOUCHED

BarrierRequestHandler(c) ==
  Handles(c, "barrier_request") /\ Answers(c, lib, "barrier_reply") /\ UNCHANGED UNTOUCHED

UnknownTypeHandler(c) ==
  Handles(c, "unknown_type") /\ Answers(c, lib, "error") /\ UNCHANGED UNTOUCHED

SetConfigHandler(c) ==
  /\ Handles(c, "set_config")
  /\ missLen' \in {0, 1500}
  /\ EndRound(c, TRUE)
  /\ UNCHANGED <<lib, reply, buffer, historyVars>>

\* A name that ofswitch.py does not have, whatever the message says.
NameMissing(c) ==
  Dies(c) /\ UNCHANGED <<reply, lib, buffer, missLen, historyVars>>

\* self._table, or an unknown command
FlowModHandler(c) == Handles(c, "flow_mod") /\ NameMissing(c)

\* OpenflowType
StatsRequestHandler(c) == Handles(c, "stats_request") /\ NameMissing(c)

\* OpenflowEchoReply
EchoRequestHandler(c) == Handles(c, "echo_request") /\ NameMissing(c)

\* ActionOutput: the ports a packet goes out by.
OutPorts(outs, inport) ==
  CASE outs.to = "flood" -> Interface \ {inport}
    [] outs.to = "in_port" -> {inport}
    [] outs.to = "port" -> {outs.port}
    [] outs.to = "unimplemented" -> {}

Taken(id) == [i \in DOMAIN buffer \ {id} |-> buffer[i]]

\* A buffered packet is taken out and sent, by the port that the message names
\* as its in_port if need be.  An id that is not in use, an output that is not
\* implemented, and a packet the message carries, which arrives as bytes, are
\* exceptions, the second and the third after the packet has been taken.
PacketOutHandler(c) ==
  LET m == wire[c]
  IN  /\ Handles(c, "packet_out")
      /\ IF m.id \notin DOMAIN buffer
         THEN Dies(c) /\ UNCHANGED <<buffer, historyVars>>
         ELSE /\ buffer' = Taken(m.id)
              /\ taken' = taken \cup {buffer[m.id]}
              /\ wrong' = IF buffer[m.id] # m.meant /\ m.meant \notin taken
                          THEN wrong \cup {buffer[m.id]} ELSE wrong
              /\ disorder' = (disorder \/ dp \in {"add", "tell"} \/ m.id + 1 \in DOMAIN buffer)
              /\ IF m.outs.to = "unimplemented" THEN Dies(c) ELSE EndRound(c, TRUE)
              /\ \E inport \in Interface :
                   sent' = IF OutPorts(m.outs, inport) = {} THEN sent ELSE sent \cup {buffer[m.id]}
              /\ lost' = lost
      /\ UNCHANGED <<lib, reply, missLen>>

\* a second without a message, or no connection
ReceiveNothing(c) ==
  /\ thread[c] = "loop" /\ wire[c] = None
  /\ LeavesLoop(FALSE)
  /\ thread' = [thread EXCEPT ![c] = "ended"]
  /\ UNCHANGED <<handlers, wire, sends, reply, told, dpVars, lib, buffer, missLen, historyVars>>

ThreadRound(c) ==
  \/ HelloHandler(c) \/ FeaturesRequestHandler(c) \/ GetConfigRequestHandler(c)
  \/ BarrierRequestHandler(c) \/ UnknownTypeHandler(c) \/ SetConfigHandler(c)
  \/ FlowModHandler(c) \/ StatsRequestHandler(c) \/ EchoRequestHandler(c)
  \/ PacketOutHandler(c) \/ ReceiveNothing(c)

-----------------------------------------------------------------------------
(***************************************************************************)
(* The main thread                                                         *)
(***************************************************************************)

threadVars == <<lib, handlers, thread, wire, sends, reply, missLen>>

\* Mutation: one is added only for an empty buffer.
NextIdShort == IF DOMAIN buffer = {} THEN 1 ELSE Cardinality(DOMAIN buffer)

NextId == Cardinality(DOMAIN buffer) + 1

\* add takes an id; a full buffer raises FullBuffer, which nobody catches.
Datapath ==
  /\ dp = "idle" /\ packets < MaxPackets
  /\ packets' = packets + 1
  /\ IF NextId > BufferSize
     THEN dp' = "dead" /\ current' = current
     ELSE dp' = "add" /\ current' = [packet |-> packets + 1, id |-> NextId]
  /\ UNCHANGED <<threadVars, told, buffer, running, historyVars>>

\* Once the packet is copied it is stored under that id.
BufferAdd ==
  /\ dp = "add"
  /\ buffer' = [i \in DOMAIN buffer \cup {current.id} |->
                  IF i = current.id THEN current.packet ELSE buffer[i]]
  /\ lost' = IF current.id \in DOMAIN buffer THEN lost \cup {buffer[current.id]} ELSE lost
  /\ dp' = "tell"
  /\ UNCHANGED <<threadVars, told, current, packets, running, sent, taken, wrong, disorder>>

\* The PacketIn goes to every controller.  That of version 1.3 cannot be built:
\* openflow13 does not import _get_port.
SendPacketIn ==
  /\ dp = "tell"
  /\ IF lib = "of13"
     THEN dp' = "dead" /\ told' = told
     ELSE /\ dp' = "idle"
          /\ told' = [c \in Controller |-> [told[c] EXCEPT ![current.id] = current.packet]]
  /\ UNCHANGED <<threadVars, current, packets, running, buffer, historyVars>>

\* recv_packet raises Shutdown: datapath_loop ends and shutdown() begins.
NetworkShutsDown ==
  /\ dp = "idle"
  /\ dp' = "join"
  /\ running' = FALSE
  /\ UNCHANGED <<threadVars, told, current, packets, buffer, historyVars>>

Join ==
  /\ dp = "join"
  /\ \A c \in Controller : thread[c] \in {"ended", "dead"}
  /\ dp' = "done"
  /\ UNCHANGED <<threadVars, told, current, packets, running, buffer, historyVars>>

SwitchNext ==
  \/ Datapath \/ BufferAdd \/ SendPacketIn \/ NetworkShutsDown \/ Join
  \/ \E c \in Controller : ControllerSends(c) \/ ThreadStarts(c) \/ ThreadRound(c)

\* Threads that can run do; messages and frames may stay away.
SwitchFairness ==
  /\ WF_switchVars(BufferAdd) /\ WF_switchVars(SendPacketIn) /\ WF_switchVars(Join)
  /\ \A c \in Controller : WF_switchVars(ThreadStarts(c)) /\ WF_switchVars(ThreadRound(c))

SwitchSpec == SwitchInit /\ [][SwitchNext]_switchVars /\ SwitchFairness
-----------------------------------------------------------------------------
SwitchTypeOK ==
  /\ lib \in {"of10", "of13"}
  /\ handlers \in [Controller -> {"of10", "of13"}]
  /\ thread \in [Controller -> {"new", "loop", "ended", "dead"}]
  /\ sends \in 0 .. MaxMessages
  /\ told \in [Controller -> [Ids -> Frames \cup {None}]]
  /\ DOMAIN buffer \subseteq Ids /\ \A i \in DOMAIN buffer : buffer[i] \in Frames
  /\ dp \in {"idle", "add", "tell", "join", "done", "dead"}
  /\ packets \in 0 .. MaxPackets
  /\ sent \subseteq Frames
  /\ taken \subseteq Frames /\ lost \subseteq Frames /\ wrong \subseteq Frames

\* Ids are counted, not remembered (PacketBufferManager.add): a buffered packet
\* is overwritten, and one controller gets a packet that it did not ask for
\* while the one it asked for is still there, only if a packet was taken that
\* was not the newest, or while another was being added and announced.
BufferedPacketsKept == lost # {} \/ wrong # {} => disorder

\* shutdown() joins the threads of the controllers, and every one of them ends,
\* whatever its controller sends and although it may wait for a message.
ShutdownCompletes == (dp = "join") ~> (dp = "done")
=============================================================================
