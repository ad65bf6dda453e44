--------------------------- MODULE OutboundFetch ---------------------------
(***************************************************************************)
(* The requests firmauy makes for one verification (outbound.py): fetch,   *)
(* called in worker threads that share a FetchBudget, each request with    *)
(* its own watchdog thread.  A fetch resolves and vets a name, connects to *)
(* what it vetted, registers the socket with the watchdog, waits for an    *)
(* answer and follows redirects itself; when the time is up the watchdog   *)
(* shuts down whatever sockets it knows.  Time is the watchdog's choice of *)
(* when to fire; a body is counted in chunks.                              *)
(***************************************************************************)
EXTENDS Integers, FiniteSets

CONSTANTS
  Fetches,          \* calls of fetch in progress at once
  MaxRedirects,     \* the most any policy here follows
  MaxBytes,         \* OutboundPolicy.max_bytes, in chunks
  AllowPrivate,     \* OutboundPolicy.allow_private
  BudgetFetches,    \* FetchBudget.max_fetches
  BudgetBytes,      \* FetchBudget.max_bytes, in chunks
  ByProxy           \* whether the environment may name a proxy: subset of BOOLEAN

ASSUME LimitAssumption ==
  /\ MaxRedirects \in Nat /\ MaxBytes \in Nat /\ BudgetFetches \in Nat /\ BudgetBytes \in Nat
  /\ AllowPrivate \in BOOLEAN /\ ByProxy \subseteq BOOLEAN
  /\ IsFiniteSet(Fetches)

Hops == 0..MaxRedirects
Addresses == {"public", "private", "linklocal"}

\* _allowed
Allowed(a) == a # "linklocal" /\ (AllowPrivate \/ a = "public")

VARIABLES
  redirects,  \* fetch -> its policy's max_redirects
  auth,       \* fetch -> whether it carries credentials
  pc,         \* fetch -> where its thread is
  followed,   \* fetch -> redirects followed
  untried,    \* fetch -> the vetted addresses it has not tried to connect to
  dest,       \* fetch -> where its connection went
  sock,       \* fetch -> hop -> its connection
  known,      \* fetch -> the hops whose sockets the watchdog knows (_sockets)
  body,       \* fetch -> chunks read of the last response
  cut,        \* fetch -> whether what its thread saw last was the watchdog's shutdown (history)
  outcome,    \* fetch -> how it ended
  expired,    \* fetch -> the event its watchdog sets
  watchdog,   \* fetch -> where its watchdog is
  copied,     \* fetch -> the sockets _expire has yet to shut down
  fetches, bytes  \* the budget's counters

policy == <<redirects, auth>>
route == <<followed, untried, dest>>
sockets == <<sock, known>>
content == <<body, cut>>
clock == <<expired, watchdog, copied>>
budget == <<fetches, bytes>>
vars == <<policy, pc, route, sockets, content, outcome, clock, budget>>

Steps == {"start", "charge", "resolve", "connect", "watch", "late", "await", "answered",
          "read", "last", "cancel", "release", "done"}

\* "policy": RedirectRefused, ResponseTooLarge, UnexpectedContentType, a scheme or a call that
\* is not allowed.  "error": what requests raised.
Outcomes == {"none", "ok", "policy", "refused", "budget", "deadline", "error"}

TypeOK ==
  /\ redirects \in [Fetches -> Hops] /\ auth \in [Fetches -> BOOLEAN]
  /\ pc \in [Fetches -> Steps]
  /\ followed \in [Fetches -> Hops]
  /\ untried \in [Fetches -> SUBSET (Addresses \cup {"proxy"})]
  /\ dest \in [Fetches -> Addresses \cup {"proxy", "nowhere"}]
  /\ sock \in [Fetches -> [Hops -> {"none", "open", "shut"}]]
  /\ known \in [Fetches -> SUBSET Hops]
  /\ body \in [Fetches -> Nat]
  /\ cut \in [Fetches -> BOOLEAN]
  /\ outcome \in [Fetches -> Outcomes]
  /\ expired \in [Fetches -> BOOLEAN]
  /\ watchdog \in [Fetches -> {"idle", "armed", "fired", "shutting", "off"}]
  /\ copied \in [Fetches -> SUBSET Hops]
  /\ fetches \in 0..BudgetFetches
  /\ bytes \in Nat

NoSockets == [h \in Hops |-> "none"]

Init ==
  /\ redirects = [f \in Fetches |-> 0] /\ auth = [f \in Fetches |-> FALSE]
  /\ pc = [f \in Fetches |-> "start"]
  /\ followed = [f \in Fetches |-> 0]
  /\ untried = [f \in Fetches |-> {}]
  /\ dest = [f \in Fetches |-> "nowhere"]
  /\ sock = [f \in Fetches |-> NoSockets]
  /\ known = [f \in Fetches |-> {}]
  /\ body = [f \in Fetches |-> 0]
  /\ cut = [f \in Fetches |-> FALSE]
  /\ outcome = [f \in Fetches |-> "none"]
  /\ expired = [f \in Fetches |-> FALSE]
  /\ watchdog = [f \in Fetches |-> "idle"]
  /\ copied = [f \in Fetches |-> {}]
  /\ fetches = 0 /\ bytes = 0

-----------------------------------------------------------------------------
(* What a step of a fetch changes.                                           *)

Go(f, from, to) == pc[f] = from /\ pc' = [pc EXCEPT ![f] = to] /\ UNCHANGED outcome

\* An OutboundError, or fetch returning: finish is next.
End(f, from, how) == /\ pc[f] = from
                     /\ pc' = [pc EXCEPT ![f] = "cancel"]
                     /\ outcome' = [outcome EXCEPT ![f] = how]

\* What requests raises is named for what it was if the time is up.
Fail(f, from) == End(f, from, IF expired[f] THEN "deadline" ELSE "error")

Socket(f) == sock[f][followed[f]]
SetSocket(f, what) ==
  sock' = [sock EXCEPT ![f] = [h \in Hops |-> IF h = followed[f] THEN what ELSE sock[f][h]]]

-----------------------------------------------------------------------------
(* Connecting.                                                               *)

\* The watchdog is started; _hops looks at the scheme first.
Start(f) ==
  /\ Go(f, "start", "charge") \/ End(f, "start", "policy")
  /\ watchdog' = [watchdog EXCEPT ![f] = "armed"]

\* fetch: a call with credentials and a policy that follows redirects is a ValueError.
Begin(f) ==
  /\ \E r \in Hops, a \in BOOLEAN :
       /\ redirects' = [redirects EXCEPT ![f] = r]
       /\ auth' = [auth EXCEPT ![f] = a]
       /\ \/ /\ a /\ r > 0
             /\ pc[f] = "start" /\ pc' = [pc EXCEPT ![f] = "done"]
             /\ outcome' = [outcome EXCEPT ![f] = "policy"]
             /\ UNCHANGED watchdog
          \/ ~(a /\ r > 0) /\ Start(f)
  /\ UNCHANGED <<route, sockets, content, expired, copied, budget>>

\* FetchBudget.charge_fetch
ChargeFetch(f) ==
  /\ IF fetches >= BudgetFetches
     THEN End(f, "charge", "budget") /\ UNCHANGED fetches
     ELSE Go(f, "charge", "resolve") /\ fetches' = fetches + 1
  /\ UNCHANGED <<policy, route, sockets, content, clock, bytes>>

\* The name is resolved once and everything it resolves to must be allowed.
ResolveDirect(f) ==
  \E answer \in SUBSET Addresses :
    \/ answer = {} /\ Fail(f, "resolve") /\ UNCHANGED untried
    \/ /\ \E a \in answer : ~Allowed(a)
       /\ End(f, "resolve", "refused") /\ UNCHANGED untried
    \/ /\ answer # {} /\ \A a \in answer : Allowed(a)
       /\ Go(f, "resolve", "connect")
       /\ untried' = [untried EXCEPT ![f] = answer]

\* Through a proxy the target is vetted too, but one that does not resolve here goes on, and the
\* connection goes to the proxy.
ResolveByProxy(f) ==
  \E answer \in SUBSET Addresses :
    \/ /\ \E a \in answer : ~Allowed(a)
       /\ End(f, "resolve", "refused") /\ UNCHANGED untried
    \/ /\ \A a \in answer : Allowed(a)
       /\ Go(f, "resolve", "connect")
       /\ untried' = [untried EXCEPT ![f] = {"proxy"}]

Resolve(f) ==
  /\ \/ FALSE \in ByProxy /\ ResolveDirect(f)
     \/ TRUE \in ByProxy /\ ResolveByProxy(f)
  /\ UNCHANGED <<policy, sockets, content, clock, budget, followed, dest>>

\* Mutant: the name is resolved again to connect.
ConnectResolvingAgain(f) ==
  /\ Go(f, "connect", "watch")
  /\ \E a \in untried[f] \cup Addresses : dest' = [dest EXCEPT ![f] = a]
  /\ SetSocket(f, "open")
  /\ UNCHANGED <<policy, content, clock, budget, followed, untried, known>>

\* create_connection to one of the vetted addresses.
Connect(f) ==
  /\ Go(f, "connect", "watch")
  /\ \E a \in untried[f] : dest' = [dest EXCEPT ![f] = a]
  /\ SetSocket(f, "open")
  /\ UNCHANGED <<policy, content, clock, budget, followed, untried, known>>

\* It is refused or times out, and the next address is tried.
ConnectFails(f) ==
  /\ \E a \in untried[f] :
       /\ untried' = [untried EXCEPT ![f] = @ \ {a}]
       /\ IF untried[f] = {a} THEN Fail(f, "connect") ELSE Go(f, "connect", "connect")
  /\ UNCHANGED <<policy, sockets, content, clock, budget, followed, dest>>

\* Mutant: whether it is late is not looked at.
WatchNotLate(f) ==
  /\ Go(f, "watch", "await")
  /\ known' = [known EXCEPT ![f] = @ \cup {followed[f]}]
  /\ UNCHANGED <<policy, route, content, clock, budget, sock>>

\* _Fetch.watch: the socket is registered and the event read under the lock.  All routes
\* come here, a proxy's too, but for a SOCKS proxy: proxy_manager_for leaves it urllib3's
\* own classes, which register nothing.  It needs PySocks, no dependency of the package.
Watch(f) ==
  /\ Go(f, "watch", IF expired[f] THEN "late" ELSE "await")
  /\ known' = [known EXCEPT ![f] = @ \cup {followed[f]}]
  /\ UNCHANGED <<policy, route, content, clock, budget, sock>>

\* Registered too late for the watchdog: the thread shuts it down itself.
ShutLate(f) ==
  /\ Go(f, "late", "await")
  /\ SetSocket(f, "shut")
  /\ UNCHANGED <<policy, route, content, clock, budget, known>>

-----------------------------------------------------------------------------
(* The answer.  What had arrived before the shutdown can still be read.      *)

\* The handshake is done, the request is sent and the headers of a response are here.
Answer(f) ==
  /\ Go(f, "await", "answered")
  /\ UNCHANGED <<policy, route, sockets, content, clock, budget>>

\* The deadline, then the redirect, then the media type and the declared length.
Judge(f) ==
  /\ IF expired[f] THEN End(f, "answered", "deadline") /\ UNCHANGED followed
     ELSE \/ /\ followed[f] < redirects[f]
             /\ Go(f, "answered", "charge")
             /\ followed' = [followed EXCEPT ![f] = @ + 1]
          \/ /\ End(f, "answered", "policy") \/ Go(f, "answered", "read")
             /\ UNCHANGED followed
  /\ UNCHANGED <<policy, sockets, content, clock, budget, untried, dest>>

\* Mutant: the total is compared before the chunk is added.
ReadChunkThenCharge(f) ==
  /\ IF expired[f] THEN End(f, "read", "deadline") /\ UNCHANGED <<body, bytes>>
     ELSE /\ body' = [body EXCEPT ![f] = @ + 1]
          /\ IF body[f] + 1 > MaxBytes THEN End(f, "read", "policy") /\ UNCHANGED bytes
             ELSE IF bytes > BudgetBytes THEN End(f, "read", "budget") /\ UNCHANGED bytes
             ELSE Go(f, "read", "read") /\ bytes' = bytes + 1
  /\ UNCHANGED <<policy, route, sockets, clock, cut, fetches>>

\* _read_body, one chunk: the deadline, the request's limit, the budget's (charge_bytes).
ReadChunk(f) ==
  /\ IF expired[f] THEN End(f, "read", "deadline") /\ UNCHANGED <<body, bytes>>
     ELSE /\ body' = [body EXCEPT ![f] = @ + 1]
          /\ \/ /\ body[f] + 1 > MaxBytes
                /\ End(f, "read", "policy") /\ UNCHANGED bytes
             \/ /\ body[f] + 1 <= MaxBytes
                /\ bytes' = bytes + 1
                /\ IF bytes + 1 > BudgetBytes THEN End(f, "read", "budget")
                                              ELSE Go(f, "read", "read")
  /\ UNCHANGED <<policy, route, sockets, clock, cut, fetches>>

\* The body ends: the server has sent it all, or it has no length and the connection was shut.
EndOfBody(f) ==
  /\ Go(f, "read", "last")
  /\ cut' = [cut EXCEPT ![f] = Socket(f) = "shut"]
  /\ UNCHANGED <<policy, route, sockets, clock, budget, body>>

\* Mutant: the end of the body is believed.
CheckLastNever(f) ==
  /\ End(f, "last", "ok")
  /\ UNCHANGED <<policy, route, sockets, content, clock, budget>>

\* The deadline once more, and the result.
CheckLast(f) ==
  /\ End(f, "last", IF expired[f] THEN "deadline" ELSE "ok")
  /\ UNCHANGED <<policy, route, sockets, content, clock, budget>>

\* The handshake or a read fails: the socket was shut, or the server's doing, or a timeout.
ReadFails(f) ==
  /\ Fail(f, "await") \/ Fail(f, "read")
  /\ cut' = [cut EXCEPT ![f] = Socket(f) = "shut"]
  /\ UNCHANGED <<policy, route, sockets, clock, budget, body>>

\* finish: a watchdog that has not fired is cancelled,
Cancel(f) ==
  /\ Go(f, "cancel", "release")
  /\ watchdog' = [watchdog EXCEPT ![f] = IF @ = "armed" THEN "off" ELSE @]
  /\ UNCHANGED <<policy, route, sockets, content, expired, copied, budget>>

\* then the duplicates are closed and the call is over, with what it read if it succeeded.
Release(f) ==
  /\ Go(f, "release", "done")
  /\ sock' = [sock EXCEPT ![f] = NoSockets]
  /\ known' = [known EXCEPT ![f] = {}]
  /\ redirects' = [redirects EXCEPT ![f] = 0] /\ auth' = [auth EXCEPT ![f] = FALSE]
  /\ followed' = [followed EXCEPT ![f] = 0]
  /\ untried' = [untried EXCEPT ![f] = {}]
  /\ dest' = [dest EXCEPT ![f] = "nowhere"]
  /\ body' = [body EXCEPT ![f] = IF outcome[f] = "ok" THEN @ ELSE 0]
  /\ cut' = [cut EXCEPT ![f] = FALSE]
  /\ UNCHANGED <<clock, budget>>

-----------------------------------------------------------------------------
(* The watchdog.                                                             *)

\* Mutant: the event is set when the sockets are shut.
FireQuietly(f) ==
  /\ watchdog[f] = "armed" /\ watchdog' = [watchdog EXCEPT ![f] = "fired"]
  /\ UNCHANGED <<expired, copied, policy, pc, route, sockets, content, outcome, budget>>

\* _expire: the event first,
Fire(f) ==
  /\ watchdog[f] = "armed" /\ watchdog' = [watchdog EXCEPT ![f] = "fired"]
  /\ expired' = [expired EXCEPT ![f] = TRUE]
  /\ UNCHANGED <<copied, policy, pc, route, sockets, content, outcome, budget>>

\* then the list under the lock,
Copy(f) ==
  /\ watchdog[f] = "fired" /\ watchdog' = [watchdog EXCEPT ![f] = "shutting"]
  /\ copied' = [copied EXCEPT ![f] = known[f]]
  /\ UNCHANGED <<expired, policy, pc, route, sockets, content, outcome, budget>>

\* then one socket after another.  Shutting down a closed one does nothing.
Shut(f) ==
  /\ watchdog[f] = "shutting"
  /\ \/ /\ copied[f] = {} /\ watchdog' = [watchdog EXCEPT ![f] = "off"]
        /\ UNCHANGED <<sock, copied>>
     \/ /\ \E h \in copied[f] :
             /\ copied' = [copied EXCEPT ![f] = @ \ {h}]
             /\ sock' = [sock EXCEPT ![f] =
                  [g \in Hops |-> IF g = h /\ sock[f][g] = "open" THEN "shut" ELSE sock[f][g]]]
        /\ UNCHANGED watchdog
  /\ UNCHANGED <<expired, policy, pc, route, known, content, outcome, budget>>

Watchdog(f) == Fire(f) \/ Copy(f) \/ Shut(f)

\* What the thread does without waiting for the server.
Own(f) == \/ Begin(f) \/ ChargeFetch(f) \/ Resolve(f) \/ Connect(f) \/ ConnectFails(f)
          \/ Watch(f) \/ ShutLate(f) \/ Judge(f) \/ CheckLast(f) \/ Cancel(f) \/ Release(f)
Server(f) == Answer(f) \/ ReadChunk(f) \/ EndOfBody(f) \/ ReadFails(f)

Next == \E f \in Fetches : Own(f) \/ Server(f) \/ Watchdog(f)
Spec == Init /\ [][Next]_vars

\* A thread that waits on a socket that was shut down is woken.
Woken(f) == Socket(f) = "shut" /\ Server(f)

\* Threads run, timers fire, and connecting has its own timeout.  A server need never answer.
FairSpec == Spec /\ \A f \in Fetches :
              WF_vars(Own(f)) /\ WF_vars(Woken(f)) /\ WF_vars(Watchdog(f))

-----------------------------------------------------------------------------
(* What fetch promises.                                                      *)

Waiting == {"await", "answered", "read", "last"}

\* The watchdog misses no socket: once it is done, nothing the thread waits on is open,
\* however the connection and the expiry interleave (_Fetch.watch, _expire).
WatchdogMissesNothing ==
  \A f \in Fetches : expired[f] /\ watchdog[f] = "off" /\ pc[f] \in Waiting =>
    Socket(f) = "shut"

\* What the watchdog cut off is reported as the deadline: never as a result, though a body
\* with no length then looks complete, nor as some other failure (_read_body, fetch).
CutIsDeadline ==
  \A f \in Fetches : cut[f] /\ outcome[f] # "none" => outcome[f] = "deadline"

\* A connection goes to the proxy or to an address that was vetted, on every hop, whatever
\* the name resolves to by then (_connect_vetted, _vet_proxied_target).
Vetted == {a \in Addresses : Allowed(a)} \cup (IF TRUE \in ByProxy THEN {"proxy"} ELSE {})
GoesWhereVetted == \A f \in Fetches : dest[f] \in Vetted \cup {"nowhere"}

\* Credentials are sent to the host they were given for, and no further (fetch).
CredentialsStay == \A f \in Fetches : auth[f] => followed[f] = 0

\* The connections in use, one per hop, and the chunks of the results; a body may be read one
\* chunk past its limit before it is refused.
Connections == {c \in Fetches \X Hops : sock[c[1]][c[2]] # "none"}
Chunks == Fetches \X (1..(MaxBytes + 1))
Kept   == {c \in Chunks : outcome[c[1]] = "ok" /\ c[2] <= body[c[1]]}

\* Over all the fetches of a verification, whose threads share the budget: the connections in
\* use were all paid for, and the results together are no longer than the budget, though each
\* thread adds its chunk first and compares after (FetchBudget).  No result is longer than its
\* own limit (_read_body).
BudgetHolds ==
  /\ Cardinality(Connections) <= BudgetFetches
  /\ Cardinality(Kept) <= BudgetBytes
  /\ \A f \in Fetches : outcome[f] = "ok" => body[f] <= MaxBytes

\* Even if no server ever answers, every fetch ends (the watchdog, and the connect timeout).
Finishes == \A f \in Fetches : <>(pc[f] = "done")
=============================================================================
