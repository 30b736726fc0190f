------------------------------- MODULE MCHosts -------------------------------
(* Programs of end hosts: the registry of the emulated sockets, the calls on *)
(* them, the host swyard runs on, and the caching and the DNS server of      *)
(* lab 7; one of them at a time.                                             *)
EXTENDS SocketEmulation, SocketCalls, HostNetwork, CachingServer, DnsServer

CONSTANTS part, photo, missing, any

VARIABLE runs   \* "registry", "calls", "host", "cache" or "dns"

hostsVars == <<runs, vars, callVars, hostVars, cacheVars, dnsVars>>

\* A photo of two chunks, and a file that is not there.
MCLength == (photo :> 2) @@ (missing :> 0)

\* no device, one, a loopback device, one that is no interface, one that is not there
MCNamed == {{}, {"eth0"}, {"lo"}, {"usbmon0"}, {"eth7"}}

MCRuleLists == {<< >>, <<"none">>, <<"icmp">>, <<"icmp", "all">>, <<"all", "?">>}

Record(domain, type, value) == [domain |-> domain, type |-> type, value |-> value]

\* Aliases, records with several addresses, one of an address nobody knows, one
\* of a type that is not answered, and wildcards.
MCDnsTables ==
  { << Record(<<"homepage", "org">>, "CNAME", <<"home", "org">>),
       Record(<<"*", "org">>, "CNAME", <<"home", "nasa">>),
       Record(<<"*", "net">>, "CNAME", <<"gone", "net", "x">>),
       Record(<<"home", "nasa">>, "A", <<"10.0.0.1", "10.0.0.2", "10.0.0.3">>),
       Record(<<"lab", "nasa">>, "A", <<"10.0.0.4", "10.0.0.5">>),
       Record(<<"local", "*">>, "A", <<"127.0.0.1">>) >>,
    << Record(<<"a", "*">>, "CNAME", <<"b", "org">>),
       Record(<<"b", "org">>, "CNAME", <<"a", "org">>),
       Record(<<"home", "nasa">>, "AAAA", <<"10.0.0.1">>),
       Record(<<"lab", "nasa">>, "A", <<"10.0.0.9">>) >> }

MCLocation ==
  ("127.0.0.1" :> <<0, 0>>) @@ ("10.0.0.1" :> <<20, 0>>) @@ ("10.0.0.2" :> <<20, -10>>)
  @@ ("10.0.0.3" :> <<-30, 118>>) @@ ("10.0.0.4" :> <<28, 120>>) @@ ("10.0.0.5" :> <<28, 50>>)

MCAskedNames ==
  {<<"homepage", "org">>, <<"home", "org">>, <<"any", "net">>, <<"lab", "nasa">>,
   <<"home", "nasa">>, <<"local">>, <<"a">>, <<"x", "y", "z">>}

\* Of the command lines those are left out that differ only in what is not looked
\* at: --firewall beside an application, anything but -a without user code, whether
\* the table "raw" is among what iptables saved where there is none, and whether
\* user code heeds a shutdown that only an application would order.
MCCommandLine ==
  /\ given.app => given.rules = << >>
  /\ given.mode # "run" =>
       given.rules = << >> /\ given.devices = {} /\ given.saves /\ given.heeds
  /\ given.platform = "test" => given.devices = {} /\ given.saves
  /\ given.platform # "linux" \/ ~ given.saves => given.raw
  /\ given.platform # "test" /\ ~ given.app => given.heeds

\* Programs that do not run stay in one state.
HostsInit ==
  /\ runs \in part
  /\ Init /\ CallsInit /\ HostInit /\ CacheInit /\ DnsInit
  /\ sock[CHOOSE s \in Endpoint : TRUE].local = 1
  /\ MCCommandLine
  /\ runs # "host" =>
       given = [platform |-> "test", mode |-> "compile", app |-> FALSE, rules |-> << >>,
                devices |-> {}, saves |-> TRUE, raw |-> TRUE, heeds |-> TRUE]
  /\ runs # "dns" => client = "127.0.0.1" /\ Len(dnsTable) = 4

HostsNext ==
  \/ runs = "registry" /\ Next /\ UNCHANGED <<runs, callVars, hostVars, cacheVars, dnsVars>>
  \/ runs = "calls" /\ CallsNext /\ UNCHANGED <<runs, vars, hostVars, cacheVars, dnsVars>>
  \/ runs = "host" /\ HostNext /\ UNCHANGED <<runs, vars, callVars, cacheVars, dnsVars>>
  \/ runs = "cache" /\ CacheNext /\ UNCHANGED <<runs, vars, callVars, hostVars, dnsVars>>
  \/ runs = "dns" /\ DnsNext /\ UNCHANGED <<runs, vars, callVars, hostVars, cacheVars>>

HostsSpec == HostsInit /\ [][HostsNext]_hostsVars
             /\ (runs = "host" => HostFairness)
             /\ CacheFairness
=============================================================================
