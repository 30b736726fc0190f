---------------------------- MODULE CachingServer ----------------------------
(***************************************************************************)
(* NJU lab 7: cachingServer.py with cacheTable.py, and the templates with  *)
(* which testcases/baseTestcase.py judges the calls it traces.             *)
(*                                                                         *)
(* The server is a TCPServer: it serves one request at a time.  A body is  *)
(* its number of chunks (readinto of 64 KB), headers are the length they   *)
(* announce (Content-Length).  An exception ends the request, not the      *)
(* server.  The client may go away before any write, the main server may   *)
(* be down, or close or reset the connection in the middle of a body.      *)
(***************************************************************************)
EXTENDS Integers, Sequences

CONSTANTS
  Path,          \* paths that are asked for
  Length,        \* per path the chunks of the file; 0 if there is none
  CacheTimeout,  \* CACHE_TIMEOUT, in ticks
  Nothing        \* no entry

ASSUME LengthAssumption == Path # {} /\ Length \in [Path -> Nat]
ASSUME TimeoutAssumption == CacheTimeout \in Nat \ {0}
ASSUME NothingAssumption == Nothing \notin [headers : Nat, body : Nat, age : Nat]

VARIABLES
  cache,     \* cacheTable: [headers, body, age] of each path, or Nothing
  step,      \* of the request: "idle", "touch", "send", "body", "closed"
  req,       \* [method, path]
  source,    \* where its body comes from: "main", "cache", or "none"
  left,      \* chunks the main server has still to send
  answer,    \* what the client got: [status, headers, body], and whether it
             \* waited for it
  calls,     \* the calls that were traced during the request
  calm,      \* from now on nothing fails and nobody asks for headers only
  why        \* history: what shortened the body of each entry

cacheVars == <<cache, step, req, source, left, answer, calls, calm, why>>

NothingGiven == [status |-> 0, headers |-> 0, body |-> 0, waited |-> TRUE]
Unheard == [answer EXCEPT !.waited = FALSE]

CacheInit ==
  /\ cache = [p \in Path |-> Nothing]
  /\ step = "idle"
  /\ req \in [method : {"GET"}, path : {CHOOSE p \in Path : TRUE}]
  /\ source = "none"
  /\ left = 0
  /\ answer = NothingGiven
  /\ calls = << >>
  /\ calm = FALSE
  /\ why = [p \in Path |-> {}]

-----------------------------------------------------------------------------
(***************************************************************************)
(* CacheTable                                                              *)
(***************************************************************************)
\* setHeaders, for a path that is not in the table: touchItem calls it for no
\* other.
NewItem(h) == [headers |-> h, body |-> 0, age |-> 0]

\* Mutation: the chunk replaces the body.
StoreBody(p) == cache' = [cache EXCEPT ![p].body = 1]

AppendBody(p) == cache' = [cache EXCEPT ![p].body = @ + 1]

\* expired: the age is above the timeout; the item is deleted then.
Expired(p) == cache[p].age > CacheTimeout

\* time.time(), between the steps of the server
CacheTick ==
  /\ \E p \in Path : cache[p] # Nothing /\ ~ Expired(p)
  /\ cache' = [p \in Path |-> IF cache[p] = Nothing \/ Expired(p) THEN cache[p]
                              ELSE [cache[p] EXCEPT !.age = @ + 1]]
  /\ UNCHANGED <<step, req, source, left, answer, calls, calm, why>>

-----------------------------------------------------------------------------
(***************************************************************************)
(* A request                                                               *)
(***************************************************************************)
Request ==
  /\ step \in {"idle", "closed"}
  /\ req' \in [method : IF calm THEN {"GET"} ELSE {"GET", "HEAD"}, path : Path]
  /\ step' = "touch"
  /\ calls' = << IF req'.method = "GET" THEN "do_GET" ELSE "do_HEAD" >>
  /\ answer' = NothingGiven /\ source' = "none" /\ left' = 0
  /\ UNCHANGED <<cache, calm, why>>

\* "path not in self.cacheTable or self.cacheTable.expired(path)"
Missed == ~ (cache[req.path] # Nothing /\ ~ Expired(req.path))

\* the entry is gone before the main server is asked
Deleted == cache' = [cache EXCEPT ![req.path] = Nothing]

\* The main server is down or has no such file: touchItem returns None and the
\* client gets 404, if it is still there.
TouchNotFound ==
  /\ step = "touch" /\ Missed
  /\ calm => Length[req.path] = 0
  /\ Deleted
  /\ calls' = Append(calls, "requestMainServer")
  /\ step' = "closed"
  /\ \/ answer' = [answer EXCEPT !.status = 404]
     \/ ~ calm /\ answer' = Unheard
  /\ UNCHANGED <<req, source, left, calm, why>>

\* Any other exception of the connection ends the request without an answer.
TouchFails ==
  /\ step = "touch" /\ Missed /\ ~ calm
  /\ Deleted
  /\ calls' = Append(calls, "requestMainServer")
  /\ step' = "closed"
  /\ UNCHANGED <<req, source, left, answer, calm, why>>

TouchMain ==
  /\ step = "touch" /\ Missed /\ Length[req.path] > 0
  /\ cache' = [cache EXCEPT ![req.path] = NewItem(Length[req.path])]
  /\ why' = [why EXCEPT ![req.path] = {}]
  /\ calls' = calls \o << "requestMainServer", "setHeaders" >>
  /\ source' = "main"
  /\ left' = Length[req.path]
  /\ step' = "send"
  /\ UNCHANGED <<req, answer, calm>>

\* Mutation: a hit makes the entry young again.
TouchHitRefreshing ==
  /\ step = "touch" /\ ~ Missed
  /\ cache' = [cache EXCEPT ![req.path].age = 0]
  /\ calls' = Append(calls, "getHeaders")
  /\ source' = "cache"
  /\ step' = "send"
  /\ UNCHANGED <<req, left, answer, calm, why>>

TouchHit ==
  /\ step = "touch" /\ ~ Missed
  /\ calls' = Append(calls, "getHeaders")
  /\ source' = "cache"
  /\ step' = "send"
  /\ UNCHANGED <<cache, req, left, answer, calm, why>>

\* What the entry has not got when the request ends it will never get.
Shortened(reason) ==
  why' = IF source = "main" /\ left > 0 THEN [why EXCEPT ![req.path] = @ \cup {reason}]
         ELSE why

\* sendHeaders; do_HEAD ends here and never runs the generator that would
\* read the body.
SendHeaders ==
  /\ step = "send"
  /\ calls' = Append(calls, "sendHeaders")
  /\ answer' = [answer EXCEPT !.status = 200, !.headers = cache[req.path].headers]
  /\ IF req.method = "GET" THEN step' = "body" /\ UNCHANGED why
     ELSE step' = "closed" /\ Shortened("head")
  /\ UNCHANGED <<cache, req, source, left, calm>>

\* the flush of end_headers raises: the client is gone
SendHeadersFails ==
  /\ step = "send" /\ ~ calm
  /\ calls' = Append(calls, "sendHeaders")
  /\ step' = "closed"
  /\ answer' = Unheard
  /\ Shortened("client")
  /\ UNCHANGED <<cache, req, source, left, calm>>

\* A chunk is read from the main server, put into the cache, and written.
BodyChunk ==
  /\ step = "body" /\ source = "main" /\ left > 0
  /\ AppendBody(req.path)
  /\ answer' = [answer EXCEPT !.body = @ + 1]
  /\ left' = left - 1
  /\ UNCHANGED <<step, req, source, calls, calm, why>>

\* The write raises, after the chunk was put into the cache.
BodyChunkFails ==
  /\ step = "body" /\ source = "main" /\ left > 0 /\ ~ calm
  /\ AppendBody(req.path)
  /\ answer' = Unheard
  /\ left' = left - 1
  /\ step' = "closed"
  /\ why' = IF left > 1 THEN [why EXCEPT ![req.path] = @ \cup {"client"}] ELSE why
  /\ UNCHANGED <<req, source, calls, calm>>

\* readinto returns 0 at the end of the body, also when the main server
\* closes the connection before; a reset raises, with the same effect.
BodyEnds ==
  /\ step = "body" /\ source = "main"
  /\ calm => left = 0
  /\ step' = "closed"
  /\ Shortened("main")
  /\ UNCHANGED <<cache, req, source, left, answer, calls, calm>>

\* The body of a hit is written in one piece, or not at all.
BodyFromCache ==
  /\ step = "body" /\ source = "cache"
  /\ step' = "closed"
  /\ \/ answer' = [answer EXCEPT !.body = cache[req.path].body]
     \/ ~ calm /\ answer' = Unheard
  /\ UNCHANGED <<cache, req, source, left, calls, calm, why>>

\* The environment comes to rest.
CalmDown ==
  /\ ~ calm /\ calm' = TRUE
  /\ UNCHANGED <<cache, step, req, source, left, answer, calls, why>>

CacheNext ==
  \/ Request
  \/ TouchNotFound \/ TouchFails \/ TouchMain \/ TouchHit
  \/ SendHeaders \/ SendHeadersFails
  \/ BodyChunk \/ BodyChunkFails \/ BodyEnds \/ BodyFromCache
  \/ CacheTick \/ CalmDown

\* Time passes while there is an entry that is not too old.
CacheFairness == WF_cacheVars(CacheTick)

CacheSpec == CacheInit /\ [][CacheNext]_cacheVars /\ CacheFairness

-----------------------------------------------------------------------------
(***************************************************************************)
(* The tests                                                               *)
(***************************************************************************)
Must(method) == [method |-> method, optional |-> FALSE]
May(method) == [method |-> method, optional |-> TRUE]

cache_missed_template ==
  << Must("do_GET"), Must("requestMainServer"), May("sendHeaders"),
     Must("setHeaders"), May("sendHeaders"), May("getHeaders") >>
cache_hit_template ==
  << Must("do_GET"), May("getHeaders"), Must("sendHeaders"), May("getHeaders") >>
cache_missed_HEAD_template ==
  << Must("do_HEAD"), Must("requestMainServer"), Must("setHeaders"),
     Must("sendHeaders"), May("getHeaders") >>
cache_hit_HEAD_template ==
  << Must("do_HEAD"), May("getHeaders"), Must("sendHeaders"), May("getHeaders") >>
not_found_template == << Must("do_GET"), Must("requestMainServer") >>


\* The expectations that call c may be compared with, after the first j: optional
\* ones of another name are passed over.
Candidates(exp, j, c) ==
  {k \in j + 1 .. Len(exp) : ~ exp[k].optional \/ exp[k].method = c}

\* Call i was compared with expectation at[i].
Upto(at, i) == IF i = 0 THEN 0 ELSE at[i]

\* The first n calls were as expected.  When no expectation is left the iterator
\* raises.
Compared(exp, procedures, n, at) ==
  \A i \in 1 .. n :
    LET ks == Candidates(exp, Upto(at, i - 1), procedures[i]) IN
    /\ at[i] \in ks /\ \A k \in ks : at[i] <= k
    /\ exp[at[i]].method = procedures[i]

\* compareProcedures: calls behind the last expectation are not looked at, and
\* expectations behind the last call have to be optional.
Accepts(exp, procedures) ==
  \E n \in 0 .. Len(procedures) : \E at \in [1 .. n -> DOMAIN exp] :
    /\ Compared(exp, procedures, n, at)
    /\ IF n = Len(procedures)
       THEN \A k \in Upto(at, n) + 1 .. Len(exp) : exp[k].optional
       ELSE Upto(at, n) = Len(exp)

-----------------------------------------------------------------------------
Answered == step = "closed" /\ answer.waited
Whole == answer.status = 200 /\ answer.body = answer.headers

\* A client that waits for the answer to a GET gets the whole file, unless the
\* entry was made for a HEAD, for a client that went away, or while the main
\* server broke off (touchItem and its generator, cachingServer.py:95).
ShortBodiesExplained ==
  Answered /\ req.method = "GET" /\ answer.status = 200 /\ why[req.path] = {} => Whole

\* A short entry is not served for ever: once nothing fails any more, every GET
\* is answered with the whole file from some moment on, because hits do not make
\* an entry younger (CacheTable.expired).
DamageHeals ==
  <>calm => <>[][ step # "closed" /\ Answered' /\ req.method = "GET" /\ Length[req.path] > 0
                    => Whole' ]_cacheVars

\* The templates of the tests tell the calls of a hit from those of a miss and
\* accept each (baseTestcase.py:25).
CallsFitTemplates ==
  Answered =>
    LET fits(exp) == Accepts(exp, calls) IN
    CASE answer.status = 404 /\ req.method = "GET" -> fits(not_found_template)
      [] answer.status = 200 /\ req.method = "GET" ->
           /\ fits(cache_missed_template) <=> source = "main"
           /\ fits(cache_hit_template) <=> source = "cache"
      [] answer.status = 200 /\ req.method = "HEAD" ->
           /\ fits(cache_missed_HEAD_template) <=> source = "main"
           /\ fits(cache_hit_HEAD_template) <=> source = "cache"
      [] OTHER -> TRUE

\* What a client gets is the whole file or short for a known reason, and the tests
\* of the lab tell from the calls whether it came from the cache.
CacheAnswersExplained == ShortBodiesExplained /\ CallsFitTemplates

\* "fetch it from remote main server and store it in local cache for future
\* usage. Else the server shall just response with the cache content"
\* (cachingServer.py:12): without a failure a GET gets the file.
StoredForFutureUsage ==
  Answered /\ req.method = "GET" /\ answer.status = 200 /\ why[req.path] \subseteq {"head"}
    => Whole
=============================================================================
