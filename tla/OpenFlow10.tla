---------------------------- MODULE OpenFlow10 ----------------------------
(***************************************************************************)
(* lib/openflow/openflow10.py: the structures and messages of OpenFlow     *)
(* 1.0, each as the layout its to_bytes and from_bytes share.              *)
(***************************************************************************)
EXTENDS OpenFlowWire

PhysicalPort ==
  <<H("portnum"), S(6, "hwaddr"), Text(16, "name"), Flags(4, "config", "PortConfig"),
    Flags(4, "state", "PortState"), Flags(4, "curr", "PortFeatures"),
    Flags(4, "advertised", "PortFeatures"), Flags(4, "supported", "PortFeatures"),
    Flags(4, "peer", "PortFeatures")>>

MinRateProperty == <<Const(2, "type", "MinRate"), Const(2, "len", "16"), X(4), H("rate"), X(6)>>
PacketQueue == <<I("queue_id"), Count(2, "len"), X(2), Sliced("properties", "MinRateProperty")>>

Match ==
  <<Wild("wildcards", "all"), H("in_port"), S(6, "dl_src"), S(6, "dl_dst"), H("dl_vlan"),
    B("dl_vlan_pcp"), X(1), H("dl_type"), B("nw_tos"), B("nw_proto"), X(2), S(4, "nw_src"),
    S(4, "nw_dst"), H("tp_src"), H("tp_dst")>>

ActionHeader == <<H("type"), H("len")>>
ActionStripVlan == ActionHeader
ActionOutput == ActionHeader \o <<OutPort("port"), H("maxlen")>>
ActionEnqueue == ActionHeader \o <<OutPort("port"), X(6), I("queue_id")>>
ActionVlanVid == ActionHeader \o <<H("vlan_vid"), X(2)>>
ActionVlanPcp == ActionHeader \o <<B("vlan_pcp"), X(3)>>
ActionDlAddr == ActionHeader \o <<S(6, "dl_addr"), X(6)>>
ActionNwAddr == ActionHeader \o <<S(4, "nw_addr")>>
ActionNwTos == ActionHeader \o <<B("nw_tos"), X(3)>>
ActionTpPort == ActionHeader \o <<H("tp_port"), X(2)>>
ActionVendorHeader == ActionHeader \o <<I("vendor"), Data("data")>>

EchoRequest == <<Data("data")>>
EchoReply == EchoRequest
SetConfig == <<H("flags"), H("miss_send_len")>>
GetConfigReply == SetConfig
FlowMod ==
  <<Sub("match", "Match"), Q("cookie"), H("command"), H("idle_timeout"), H("hard_timeout"),
    H("priority"), I("buffer_id"), H("out_port"), Flags(2, "flags", "FlowModFlags"),
    Actions("actions")>>
SwitchFeaturesReply ==
  <<S(8, "dpid"), I("nbuffers"), B("ntables"), X(3), Flags(4, "capabilities", "Capabilities"),
    Flags(4, "actions", "ActionType"), Subs("ports", "PhysicalPort")>>
Error == <<Must(2, "errortype"), Must(2, "errorcode"), Data("data")>>
Vendor == <<I("vendor"), Data("data")>>
PortMod ==
  <<H("port_no"), S(6, "ethaddr"), Flags(4, "config", "PortConfig"),
    Flags(4, "mask", "PortConfig"), Flags(4, "advertise", "PortFeatures"), X(4), End>>
PortStatus == <<B("reason"), X(7), Sub("port", "PhysicalPort")>>

---------------------------------------------------------------------------
StatsHeader == <<H("type"), Const(2, "unread", "0")>>
SwitchDescriptionStatsRequest == StatsHeader
IndividualFlowStatsRequest ==
  StatsHeader \o <<Sub("match", "Match"), B("table_id"), X(1), Port("out_port", ""), End>>
AggregateFlowStatsRequest == IndividualFlowStatsRequest
TableStatsRequest == StatsHeader
PortStatsRequest == StatsHeader \o <<Port("port_no", "any"), X(6), End>>
QueueStatsRequest == StatsHeader \o <<Port("port_no", "any"), X(2), I("queue_id"), End>>
VendorStatsRequest == StatsHeader \o <<I("vendor_id"), Data("data")>>

SwitchDescriptionStatsReply ==
  StatsHeader \o <<Text(256, "mfr_desc"), Text(256, "hw_desc"), Text(256, "sw_desc"),
                   Text(32, "serial_num"), Text(256, "dp_desc"), End>>
IndividualFlowStatsReply ==
  StatsHeader \o
  <<Count(2, "xlen"), B("table_id"), X(1), Sub("match", "Match"), I("duration_sec"),
    I("duration_nsec"), H("priority"), H("idle_timeout"), H("hard_timeout"), X(6), Q("cookie"),
    Q("packet_count"), Q("byte_count"), Actions("actions")>>
AggregateFlowStatsReply ==
  StatsHeader \o <<Q("byte_count"), Q("packet_count"), I("flow_count"), End>>
TableStatsReply ==
  StatsHeader \o
  <<B("table_id"), X(3), Text(32, "name"), Wild("wildcards", "never"), I("max_entries"),
    I("active_count"), Q("lookup_count"), Q("matched_count"), End>>
PortStatsReply ==
  StatsHeader \o
  <<H("port_no"), X(6), Q("rx_packets"), Q("tx_packets"), Q("rx_bytes"), Q("tx_bytes"),
    Q("rx_dropped"), Q("tx_dropped"), Q("rx_errors"), Q("tx_errors"), Q("rx_frame_errors"),
    Q("rx_over_errors"), Q("rx_crc_errors"), Q("collisions"), End>>
QueueStatsReply ==
  StatsHeader \o
  <<H("port_no"), X(2), I("queue_id"), Q("tx_bytes"), Q("tx_packets"), Q("tx_errors"), End>>
VendorStatsReply == StatsHeader \o <<I("vendor_id"), Data("data")>>

QueueGetConfigRequest == <<Port("port", ""), X(2), End>>
QueueGetConfigReply == <<Port("port", ""), X(6), Sliced("queues", "PacketQueue")>>
PacketIn ==
  <<I("buffer_id"), Count(2, "totallen"), Port("in_port", "any"), B("reason"), X(1),
    Data("packet")>>
PacketOut ==
  <<I("buffer_id"), Port("in_port", "any"), Count(2, "alen"), ActionsUpTo("actions", "count"),
    MustData("packet")>>
FlowRemoved ==
  <<Sub("match", "Match"), Q("cookie"), H("priority"), B("reason"), X(1), I("duration_sec"),
    I("duration_nsec"), H("idle_timeout"), X(2), Q("packet_count"), Q("byte_count")>>

---------------------------------------------------------------------------
Bit(n) == {n}
(* StpListen is another name of NoState, StpMask of StpBlock.              *)
PortState ==
  [NoState |-> {}, LinkDown |-> Bit(0), StpLearn |-> Bit(8), StpForward |-> Bit(9),
   StpBlock |-> {8, 9}]
PortConfig ==
  [NoConfig |-> {}, Down |-> Bit(0), NoStp |-> Bit(1), NoRecv |-> Bit(2), NoRecvStp |-> Bit(3),
   NoFlood |-> Bit(4), NoFwd |-> Bit(5), NoPacketIn |-> Bit(6)]
PortFeatures ==
  [NoFeatures |-> {}, e10Mb_Half |-> Bit(0), e10Mb_Full |-> Bit(1), e100Mb_Half |-> Bit(2),
   e100Mb_Full |-> Bit(3), e1Gb_Half |-> Bit(4), e1Gb_Full |-> Bit(5), e10Gb_Full |-> Bit(6),
   Copper |-> Bit(7), Fiber |-> Bit(8), AutoNeg |-> Bit(9), Pause |-> Bit(10),
   PauseAsym |-> Bit(11)]
Capabilities ==
  [NoCapabilities |-> {}, FlowStats |-> Bit(0), TableStats |-> Bit(1), PortStats |-> Bit(2),
   Stp |-> Bit(3), Reserved |-> Bit(4), IpReasm |-> Bit(5), QueueStats |-> Bit(6),
   ArpMatchIp |-> Bit(7)]
Wildcard ==
  [InPort |-> Bit(0), DlVlan |-> Bit(1), DlSrc |-> Bit(2), DlDst |-> Bit(3), DlType |-> Bit(4),
   NwProto |-> Bit(5), TpSrc |-> Bit(6), TpDst |-> Bit(7), NwSrcMask |-> 8..13,
   NwDstMask |-> 14..19, DlVlanPcp |-> Bit(20), NwTos |-> Bit(21), NwSrcAll |-> Bit(13),
   NwDstAll |-> Bit(19), All |-> 0..21]
(* Numbers of actions, not bits: or-ing two of them gives a third.         *)
ActionType ==
  [Output |-> {}, SetVlanVid |-> {0}, SetVlanPcp |-> {1}, StripVlan |-> {0, 1},
   SetDlSrc |-> {2}, SetDlDst |-> {0, 2}, SetNwSrc |-> {1, 2}, SetNwDst |-> {0, 1, 2},
   SetNwTos |-> {3}, SetTpSrc |-> {0, 3}, SetTpDst |-> {1, 3}, Enqueue |-> {0, 1, 3},
   Vendor |-> 0..15]
FlowModFlags == [NoFlag |-> {}, SendFlowRemove |-> Bit(0), CheckOverlap |-> Bit(1),
                 Emergency |-> Bit(2)]
Enums == [PortState |-> PortState, PortConfig |-> PortConfig, PortFeatures |-> PortFeatures,
          Capabilities |-> Capabilities, Wildcard |-> Wildcard, ActionType |-> ActionType,
          FlowModFlags |-> FlowModFlags]

(* How many codes each type of error has, numbered from 0: the code of an  *)
(* error is read as one of its type's.                                     *)
ErrorCodes ==
  [HelloFailed |-> 2, BadRequest |-> 9, BadAction |-> 9, FlowModFailed |-> 6,
   PortModFailed |-> 2, QueueOpFailed |-> 3]

(* The class that parses an action of a type.                              *)
ActionClass ==
  [Output |-> "ActionOutput", SetVlanVid |-> "ActionVlanVid", SetVlanPcp |-> "ActionVlanPcp",
   StripVlan |-> "ActionStripVlan", SetDlSrc |-> "ActionDlAddr", SetDlDst |-> "ActionDlAddr",
   SetNwSrc |-> "ActionNwAddr", SetNwDst |-> "ActionNwAddr", SetNwTos |-> "ActionNwTos",
   SetTpSrc |-> "ActionTpPort", SetTpDst |-> "ActionTpPort", Enqueue |-> "ActionEnqueue",
   Vendor |-> "ActionVendorHeader"]

(* The type an object's constructor writes into it.                        *)
TypeOf ==
  [ActionOutput |-> "Output", ActionVlanVid |-> "SetVlanVid", ActionVlanPcp |-> "SetVlanPcp",
   ActionStripVlan |-> "StripVlan", ActionDlAddr |-> "SetDlSrc", ActionNwAddr |-> "SetNwSrc",
   ActionNwTos |-> "SetNwTos", ActionTpPort |-> "SetTpSrc", ActionEnqueue |-> "Enqueue",
   ActionVendorHeader |-> "Vendor",
   StatsHeader |-> "NoStatsType",
   SwitchDescriptionStatsRequest |-> "SwitchDescription",
   IndividualFlowStatsRequest |-> "IndividualFlow",
   AggregateFlowStatsRequest |-> "IndividualFlow", TableStatsRequest |-> "Table",
   PortStatsRequest |-> "Port", QueueStatsRequest |-> "Queue", VendorStatsRequest |-> "Vendor",
   SwitchDescriptionStatsReply |-> "SwitchDescription",
   IndividualFlowStatsReply |-> "IndividualFlow", AggregateFlowStatsReply |-> "AggregateFlow",
   TableStatsReply |-> "Table", PortStatsReply |-> "Port", QueueStatsReply |-> "Queue",
   VendorStatsReply |-> "Vendor"]

Layouts ==
  [PhysicalPort |-> PhysicalPort, MinRateProperty |-> MinRateProperty,
   PacketQueue |-> PacketQueue, Match |-> Match, ActionStripVlan |-> ActionStripVlan,
   ActionOutput |-> ActionOutput, ActionEnqueue |-> ActionEnqueue,
   ActionVlanVid |-> ActionVlanVid, ActionVlanPcp |-> ActionVlanPcp,
   ActionDlAddr |-> ActionDlAddr, ActionNwAddr |-> ActionNwAddr, ActionNwTos |-> ActionNwTos,
   ActionTpPort |-> ActionTpPort, ActionVendorHeader |-> ActionVendorHeader,
   EchoRequest |-> EchoRequest, EchoReply |-> EchoReply, SetConfig |-> SetConfig,
   GetConfigReply |-> GetConfigReply, FlowMod |-> FlowMod,
   SwitchFeaturesReply |-> SwitchFeaturesReply, Error |-> Error, Vendor |-> Vendor,
   PortMod |-> PortMod, PortStatus |-> PortStatus, StatsHeader |-> StatsHeader,
   SwitchDescriptionStatsRequest |-> SwitchDescriptionStatsRequest,
   IndividualFlowStatsRequest |-> IndividualFlowStatsRequest,
   AggregateFlowStatsRequest |-> AggregateFlowStatsRequest,
   TableStatsRequest |-> TableStatsRequest, PortStatsRequest |-> PortStatsRequest,
   QueueStatsRequest |-> QueueStatsRequest, VendorStatsRequest |-> VendorStatsRequest,
   SwitchDescriptionStatsReply |-> SwitchDescriptionStatsReply,
   IndividualFlowStatsReply |-> IndividualFlowStatsReply,
   AggregateFlowStatsReply |-> AggregateFlowStatsReply, TableStatsReply |-> TableStatsReply,
   PortStatsReply |-> PortStatsReply, QueueStatsReply |-> QueueStatsReply,
   VendorStatsReply |-> VendorStatsReply, QueueGetConfigRequest |-> QueueGetConfigRequest,
   QueueGetConfigReply |-> QueueGetConfigReply, PacketIn |-> PacketIn, PacketOut |-> PacketOut,
   FlowRemoved |-> FlowRemoved]

(* The class build gives the body of a message type, and from_bytes the    *)
(* body of one it parses; statistics are told apart by their own type.     *)
BodyClass ==
  [Hello |-> "none", Error |-> "Error", EchoRequest |-> "EchoRequest", EchoReply |-> "EchoReply",
   Vendor |-> "Vendor", FeaturesRequest |-> "none", FeaturesReply |-> "SwitchFeaturesReply",
   GetConfigRequest |-> "none", GetConfigReply |-> "GetConfigReply", SetConfig |-> "SetConfig",
   PacketIn |-> "PacketIn", FlowRemoved |-> "FlowRemoved", PortStatus |-> "PortStatus",
   PacketOut |-> "PacketOut", FlowMod |-> "FlowMod", PortMod |-> "PortMod",
   StatsRequest |-> "StatsHeader", StatsReply |-> "StatsHeader", BarrierRequest |-> "none",
   BarrierReply |-> "none", QueueGetConfigRequest |-> "QueueGetConfigRequest",
   QueueGetConfigReply |-> "QueueGetConfigReply"]
StatsRequestClass ==
  [SwitchDescription |-> "SwitchDescriptionStatsRequest",
   IndividualFlow |-> "IndividualFlowStatsRequest",
   AggregateFlow |-> "AggregateFlowStatsRequest", Table |-> "TableStatsRequest",
   Port |-> "PortStatsRequest", Queue |-> "QueueStatsRequest", Vendor |-> "VendorStatsRequest"]
StatsReplyClass ==
  [SwitchDescription |-> "SwitchDescriptionStatsReply",
   IndividualFlow |-> "IndividualFlowStatsReply", AggregateFlow |-> "AggregateFlowStatsReply",
   Table |-> "TableStatsReply", Port |-> "PortStatsReply", Queue |-> "QueueStatsReply",
   Vendor |-> "VendorStatsReply"]

Lib ==
  [version |-> "1.0", layout |-> Layouts, enums |-> Enums, errorCodes |-> ErrorCodes,
   actionClass |-> ActionClass,
   typeOf |-> TypeOf, bodyClass |-> BodyClass,
   statsClass |-> [StatsRequest |-> StatsRequestClass, StatsReply |-> StatsReplyClass],
   helpers |-> TRUE, anyPort |-> <<"NoPort">>, parses |-> TRUE]
===========================================================================
