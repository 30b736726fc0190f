------------------------------ MODULE DnsServer ------------------------------
(***************************************************************************)
(* NJU lab 7: dns_server.py with utils/dns_utils.py, and the client of     *)
(* utils/network.py: resolve_domain_name, and curl, which calls it.        *)
(*                                                                         *)
(* A name is the sequence of its labels, without the empty one after the   *)
(* last dot; an address is its location, a pair of numbers, if the table   *)
(* of ip_utils.py has one.  Datagrams may get lost or be late.             *)
(***************************************************************************)
EXTENDS Integers, Sequences

CONSTANTS
  DnsTables,   \* the tables looked at: sequences of records [domain, type, value]
  AskedNames,  \* names the client asks for
  DnsPorts,    \* ports its sockets get from the system
  MaxAsks,     \* bound of the model: requests it makes
  Clients,     \* addresses of the client
  Location,    \* test_cases of ip_utils.py: from addresses to locations, on a grid
  Wildcard     \* the label "*"

ASSUME DnsAssumption ==
  /\ AskedNames \subseteq Seq(STRING) /\ MaxAsks \in Nat
  /\ \A t \in DnsTables : t \in Seq([domain : Seq(STRING \cup {Wildcard}),
                                     type : STRING, value : Seq(STRING)])
  /\ \A a \in DOMAIN Location : Location[a] \in Int \X Int

VARIABLES
  dnsTable,    \* _dns_table
  client,      \* the client's address
  asked_name,  \* the name it asks for
  port,        \* the port of its socket
  questions,   \* on their way to the server: [port, ask, name]
  answers,     \* on their way to a port: [port, ask, name, type, value]
  reply,       \* what the client took for its answer: [type, value]
  chase,       \* the client: "idle", "waits", "resolved", "failed"
  asks,        \* requests it has made; they number the datagrams
  givenUp      \* history: ports of requests that were given up

dnsVars == <<dnsTable, client, asked_name, port, questions, answers, reply, chase, asks, givenUp>>

NoReply == [type |-> "none", value |-> << >>]
NXDomain == [type |-> "NXDomain", value |-> << >>]

DnsInit ==
  /\ dnsTable \in DnsTables
  /\ client \in Clients
  /\ asked_name = << >> /\ port = 0
  /\ questions = {} /\ answers = {}
  /\ reply = NoReply
  /\ chase = "idle"
  /\ asks = 0
  /\ givenUp = {}

-----------------------------------------------------------------------------
(***************************************************************************)
(* The server                                                              *)
(***************************************************************************)
\* zip_longest fills the shorter name up with None, which is as false as the
\* empty label.
LabelAt(name, i) == IF i \in DOMAIN name THEN name[i] ELSE ""

\* A "*" stands for any label, also for none at the end of a name.
NameMatches(name, domain) ==
  \A i \in DOMAIN name \cup DOMAIN domain :
    LabelAt(domain, i) = Wildcard \/ LabelAt(domain, i) = LabelAt(name, i)

Records(t, name) == {i \in DOMAIN t : NameMatches(name, t[i].domain)}

\* the record of the loop in get_response, which breaks at the first match
RecordOf(t, name) == t[CHOOSE i \in Records(t, name) : \A j \in Records(t, name) : i <= j]

\* calc_distance, squared
Distance(a, b) ==
  LET p == Location[a] q == Location[b] IN
  (p[1] - q[1]) * (p[1] - q[1]) + (p[2] - q[2]) * (p[2] - q[2])

\* Mutation: the first address.
FirstAddress(addrs) == addrs[1]

\* min(value, key): the first of the nearest
Nearest(addrs) ==
  addrs[CHOOSE i \in DOMAIN addrs :
          /\ \A j \in DOMAIN addrs : Distance(client, addrs[i]) <= Distance(client, addrs[j])
          /\ \A j \in 1 .. i - 1 : Distance(client, addrs[j]) > Distance(client, addrs[i])]

\* getIpLocation raises for an address it does not know, min for no address at
\* all; for a type that is neither A nor CNAME generate_response returns None.
RaisesOn(record) ==
  /\ record.type # "CNAME"
  /\ \/ record.type # "A"
     \/ record.value = << >>
     \/ client \notin DOMAIN Location
     \/ \E i \in DOMAIN record.value : record.value[i] \notin DOMAIN Location

Response(record) ==
  IF record.type = "CNAME" THEN [type |-> "CNAME", value |-> record.value]
  ELSE [type |-> "A", value |-> Nearest(record.value)]

\* handle: an answer to the address the question came from; an exception ends it
\* without one.
Handle(q) ==
  /\ questions' = questions \ {q}
  /\ LET send(r) == answers' = answers \cup {[port |-> q.port, ask |-> q.ask, name |-> q.name,
                                              type |-> r.type, value |-> r.value]}
     IN  IF Records(dnsTable, q.name) = {} THEN send(NXDomain)
         ELSE LET record == RecordOf(dnsTable, q.name) IN
              IF RaisesOn(record) THEN answers' = answers ELSE send(Response(record))
  /\ UNCHANGED <<dnsTable, client, asked_name, port, reply, chase, asks, givenUp>>

-----------------------------------------------------------------------------
(***************************************************************************)
(* The client                                                              *)
(***************************************************************************)
\* resolve_domain_name, on a socket of its own
Ask(name, p) ==
  /\ chase # "waits" /\ asks < MaxAsks
  /\ chase' = "waits"
  /\ asked_name' = name /\ port' = p /\ asks' = asks + 1
  /\ questions' = questions \cup {[port |-> p, ask |-> asks + 1, name |-> name]}
  /\ reply' = NoReply
  /\ UNCHANGED <<dnsTable, client, answers, givenUp>>

\* What arrives at the port is taken: neither its id nor the name in it is looked
\* at.  Only an address gets curl further.  No answer is a ValueError; an alias is
\* put into the next question as it is, an object of dnslib that is no name, which
\* is an AttributeError.
TakeAnswer(a) ==
  /\ chase = "waits" /\ a.port = port
  /\ answers' = answers \ {a}
  /\ reply' = [type |-> a.type, value |-> a.value]
  /\ chase' = IF a.type = "A" THEN "resolved" ELSE "failed"
  /\ UNCHANGED <<dnsTable, client, asked_name, port, questions, asks, givenUp>>

\* Nothing arrives within ten seconds.
NoAnswerCame ==
  /\ chase = "waits"
  /\ chase' = "failed"
  /\ givenUp' = givenUp \cup {port}
  /\ UNCHANGED <<dnsTable, client, asked_name, port, questions, answers, reply, asks>>

DnsNext ==
  \/ \E name \in AskedNames, p \in DnsPorts : Ask(name, p)
  \/ \E q \in questions : Handle(q)
  \/ \E a \in answers : TakeAnswer(a)
  \/ NoAnswerCame

-----------------------------------------------------------------------------
\* Names for which the first matching record gives another one.
IsAlias(name) == Records(dnsTable, name) # {} /\ RecordOf(dnsTable, name).type = "CNAME"

\* What the answer of the table is for a name
Answers(a, name) ==
  /\ a.type = "NXDomain" <=> Records(dnsTable, name) = {}
  /\ a.type = "CNAME" => IsAlias(name) /\ a.value = RecordOf(dnsTable, name).value
  /\ a.type = "A" =>
       /\ Records(dnsTable, name) # {} /\ RecordOf(dnsTable, name).type = "A"
       /\ LET addrs == RecordOf(dnsTable, name).value IN
          /\ \E i \in DOMAIN addrs : a.value = addrs[i]
          /\ \A i \in DOMAIN addrs : Distance(client, a.value) <= Distance(client, addrs[i])

\* A client that goes on has one of the addresses of the name it asked for, and
\* none of the others is nearer; one that was answered and fails asked for a name
\* without a record, or for an alias, and has got the other name.  This is so unless
\* the system gives its socket the port of a request that had been given up, whose
\* answer may still come (dns_server.py:74, network.py:44, 70).
ResolvesToNearest ==
  port \notin givenUp =>
    /\ chase = "resolved" => reply.type = "A" /\ Answers(reply, asked_name)
    /\ chase = "failed" => reply.type \in {"NXDomain", "CNAME"} /\ Answers(reply, asked_name)

DnsSpec == DnsInit /\ [][DnsNext]_dnsVars
=============================================================================
