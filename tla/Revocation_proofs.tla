------------------------- MODULE Revocation_proofs -------------------------
(***************************************************************************)
(* What is proved, for every number of fetches and every limit and proxy   *)
(* setting, of outbound.fetch and of the revocation check that uses it.    *)
(*                                                                         *)
(* Of a fetch (OutboundFetch): types, where connections go, that the       *)
(* watchdog misses no socket, that what it cut off is never a result, that *)
(* credentials stay with the origin they are for, and that the threads     *)
(* together stay within the budget they share.  Of the check (Revocation): *)
(* that it is a use of fetch, that the row tells of every refusal, and     *)
(* that nothing is trusted without whole answers.                          *)
(***************************************************************************)
EXTENDS Revocation, FiniteSetTheorems, TLAPS

-----------------------------------------------------------------------------
(* Types.                                                                    *)

\* Where the thread goes and how the call ended are the two things most steps share.
ThreadTyped == pc \in [Fetches -> Steps] /\ outcome \in [Fetches -> Outcomes]

\* Go keeps them typed.
LEMMA GoTyped ==
  ASSUME ThreadTyped, NEW f \in Fetches, NEW from, NEW to \in Steps, Go(f, from, to)
  PROVE ThreadTyped'
BY DEF ThreadTyped, Go

\* So does End.
LEMMA EndTyped ==
  ASSUME ThreadTyped, NEW f \in Fetches, NEW from, NEW how \in Outcomes, End(f, from, how)
  PROVE ThreadTyped'
BY DEF ThreadTyped, End, Steps

\* So does Fail.
LEMMA FailTyped ==
  ASSUME ThreadTyped, NEW f \in Fetches, NEW from, Fail(f, from)
  PROVE ThreadTyped'
BY EndTyped DEF Fail, Outcomes

\* What a resolution leaves behind, whichever way it goes.
LEMMA ResolveShape ==
  ASSUME NEW f \in Fetches, Resolve(f)
  PROVE /\ \E to \in {"connect", "cancel"} : pc' = [pc EXCEPT ![f] = to]
        /\ \/ UNCHANGED untried
           \/ \E new \in SUBSET (Addresses \cup {"proxy"}) : untried' = [untried EXCEPT ![f] = new]
        /\ UNCHANGED <<policy, sockets, content, clock, budget, followed, dest>>
<1>1. \E to \in {"connect", "cancel"} : pc' = [pc EXCEPT ![f] = to]
  BY DEF Resolve, ResolveDirect, ResolveByProxy, Go, End, Fail
<1>2. ASSUME ResolveDirect(f)
      PROVE \/ UNCHANGED untried
            \/ \E new \in SUBSET (Addresses \cup {"proxy"}) : untried' = [untried EXCEPT ![f] = new]
  BY <1>2 DEF ResolveDirect
<1>3. ASSUME ResolveByProxy(f)
      PROVE \/ UNCHANGED untried
            \/ \E new \in SUBSET (Addresses \cup {"proxy"}) : untried' = [untried EXCEPT ![f] = new]
  BY <1>3 DEF ResolveByProxy
<1>4. QED
  BY <1>1, <1>2, <1>3 DEF Resolve

\* A socket that is set keeps the map of sockets typed.
LEMMA SocketTyped ==
  ASSUME sock \in [Fetches -> [Hops -> {"none", "open", "shut"}]],
         NEW f \in Fetches, NEW what \in {"none", "open", "shut"}, SetSocket(f, what)
  PROVE sock' \in [Fetches -> [Hops -> {"none", "open", "shut"}]]
BY DEF SetSocket

\* The type invariant is kept, one action at a time.
LEMMA TypeStep == TypeOK /\ [Next]_vars => TypeOK'
<1> SUFFICES ASSUME TypeOK, [Next]_vars PROVE TypeOK'
  OBVIOUS
<1> USE LimitAssumption DEF vars, policy, route, sockets, content, clock, budget
<1>t. ThreadTyped /\ (ThreadTyped' => /\ pc' \in [Fetches -> Steps]
                                     /\ outcome' \in [Fetches -> Outcomes])
  BY DEF ThreadTyped, TypeOK
<1>1. CASE UNCHANGED vars
  BY <1>1 DEF TypeOK
<1>2. ASSUME NEW f \in Fetches, Begin(f) PROVE TypeOK'
  <2>1. ThreadTyped'
    BY <1>2, <1>t, GoTyped, EndTyped DEF Begin, Start, Steps, Outcomes, ThreadTyped
  <2>2. watchdog' \in [Fetches -> {"idle", "armed", "fired", "shutting", "off"}]
    BY <1>2 DEF Begin, Start, TypeOK
  <2>3. redirects' \in [Fetches -> Hops] /\ auth' \in [Fetches -> BOOLEAN]
    BY <1>2 DEF Begin, TypeOK
  <2>4. QED
    BY <2>1, <2>2, <2>3, <1>t, <1>2 DEF Begin, TypeOK
<1>3. ASSUME NEW f \in Fetches, ChargeFetch(f) PROVE TypeOK'
  <2>1. ThreadTyped'
    BY <1>3, <1>t, GoTyped, EndTyped DEF ChargeFetch, Steps, Outcomes
  <2>2. fetches' \in 0..BudgetFetches
    BY <1>3 DEF ChargeFetch, TypeOK
  <2>3. QED
    BY <2>1, <2>2, <1>t, <1>3 DEF ChargeFetch, TypeOK
<1>4. ASSUME NEW f \in Fetches, Resolve(f) PROVE TypeOK'
  <2>1. ThreadTyped'
    BY <1>4, <1>t, GoTyped, EndTyped, FailTyped DEF Resolve, ResolveDirect, ResolveByProxy, Steps, Outcomes
  <2>2. untried' \in [Fetches -> SUBSET (Addresses \cup {"proxy"})]
    BY SMTT(30), <1>4, ResolveShape DEF TypeOK
  <2>3. QED
    BY <2>1, <2>2, <1>t, <1>4 DEF Resolve, TypeOK
<1>5. ASSUME NEW f \in Fetches, Connect(f) PROVE TypeOK'
  <2>1. ThreadTyped'
    BY <1>5, <1>t, GoTyped DEF Connect, Steps
  <2>2. sock' \in [Fetches -> [Hops -> {"none", "open", "shut"}]]
    BY <1>5, SocketTyped DEF Connect, TypeOK
  <2>3. dest' \in [Fetches -> Addresses \cup {"proxy", "nowhere"}]
    BY <1>5 DEF Connect, TypeOK
  <2>4. QED
    BY <2>1, <2>2, <2>3, <1>t, <1>5 DEF Connect, TypeOK
<1>6. ASSUME NEW f \in Fetches, ConnectFails(f) PROVE TypeOK'
  <2>1. ThreadTyped'
    BY <1>6, <1>t, GoTyped, FailTyped DEF ConnectFails, Steps
  <2>2. untried' \in [Fetches -> SUBSET (Addresses \cup {"proxy"})]
    BY <1>6 DEF ConnectFails, TypeOK
  <2>3. QED
    BY <2>1, <2>2, <1>t, <1>6 DEF ConnectFails, TypeOK
<1>7. ASSUME NEW f \in Fetches, Watch(f) PROVE TypeOK'
  BY <1>7 DEF Watch, TypeOK, Steps, Outcomes, NoSockets, Go, End, Fail, SetSocket, Socket, Hops
<1>8. ASSUME NEW f \in Fetches, ShutLate(f) PROVE TypeOK'
  BY <1>8 DEF ShutLate, TypeOK, Steps, Outcomes, NoSockets, Go, End, Fail, SetSocket, Socket, Hops
<1>9. ASSUME NEW f \in Fetches, Answer(f) PROVE TypeOK'
  BY <1>9 DEF Answer, TypeOK, Steps, Outcomes, NoSockets, Go, End, Fail, SetSocket, Socket, Hops
<1>10. ASSUME NEW f \in Fetches, Judge(f) PROVE TypeOK'
  <2>1. ThreadTyped'
    BY <1>10, <1>t, GoTyped, EndTyped DEF Judge, Steps, Outcomes
  <2>2. ASSUME followed[f] < redirects[f] PROVE followed[f] + 1 \in Hops
    BY <2>2 DEF TypeOK, Hops
  <2>3. followed' \in [Fetches -> Hops]
    BY <1>10, <2>2 DEF Judge, TypeOK
  <2>4. QED
    BY <2>1, <2>3, <1>t, <1>10 DEF Judge, TypeOK
<1>11. ASSUME NEW f \in Fetches, ReadChunk(f) PROVE TypeOK'
  <2>1. pc[f] = "read"
    BY <1>11 DEF ReadChunk, Go, End
  <2>2. ThreadTyped'
    BY <1>11, <1>t, GoTyped, EndTyped DEF ReadChunk, Steps, Outcomes
  <2>3. bytes' \in Nat
    BY <1>11 DEF ReadChunk, TypeOK
  <2>4. body' \in [Fetches -> Nat]
    BY <1>11 DEF ReadChunk, TypeOK
  <2>5. QED
    BY <2>2, <2>3, <2>4, <1>t, <1>11 DEF ReadChunk, TypeOK
<1>12. ASSUME NEW f \in Fetches, EndOfBody(f) PROVE TypeOK'
  BY <1>12 DEF EndOfBody, TypeOK, Steps, Outcomes, NoSockets, Go, End, Fail, SetSocket, Socket, Hops
<1>13. ASSUME NEW f \in Fetches, CheckLast(f) PROVE TypeOK'
  BY <1>13 DEF CheckLast, TypeOK, Steps, Outcomes, NoSockets, Go, End, Fail, SetSocket, Socket, Hops
<1>14. ASSUME NEW f \in Fetches, ReadFails(f) PROVE TypeOK'
  BY <1>14 DEF ReadFails, TypeOK, Steps, Outcomes, NoSockets, Go, End, Fail, SetSocket, Socket, Hops
<1>15. ASSUME NEW f \in Fetches, Cancel(f) PROVE TypeOK'
  BY <1>15 DEF Cancel, TypeOK, Steps, Outcomes, NoSockets, Go, End, Fail, SetSocket, Socket, Hops
<1>16. ASSUME NEW f \in Fetches, Release(f) PROVE TypeOK'
  BY <1>16 DEF Release, TypeOK, Steps, Outcomes, NoSockets, Go, End, Fail, SetSocket, Socket, Hops
<1>17. ASSUME NEW f \in Fetches, Fire(f) PROVE TypeOK'
  BY <1>17 DEF Fire, TypeOK, Steps, Outcomes, NoSockets, Go, End, Fail, SetSocket, Socket, Hops
<1>18. ASSUME NEW f \in Fetches, Copy(f) PROVE TypeOK'
  BY <1>18 DEF Copy, TypeOK, Steps, Outcomes, NoSockets, Go, End, Fail, SetSocket, Socket, Hops
<1>19. ASSUME NEW f \in Fetches, Shut(f) PROVE TypeOK'
  <2>1. copied' \in [Fetches -> SUBSET Hops]
    BY SMTT(30), <1>19 DEF Shut, TypeOK
  <2>2. sock' \in [Fetches -> [Hops -> {"none", "open", "shut"}]]
    BY SMTT(30), <1>19 DEF Shut, TypeOK
  <2>3. watchdog' \in [Fetches -> {"idle", "armed", "fired", "shutting", "off"}]
    BY SMTT(30), <1>19 DEF Shut, TypeOK
  <2>4. QED
    BY <2>1, <2>2, <2>3, <1>19 DEF Shut, TypeOK
<1>20. QED
  BY <1>1, <1>2, <1>3, <1>4, <1>5, <1>6, <1>7, <1>8, <1>9, <1>10, <1>11, <1>12, <1>13, <1>14,
     <1>15, <1>16, <1>17, <1>18, <1>19 DEF Next, Own, Server, Watchdog

-----------------------------------------------------------------------------
(* Where connections go.                                                     *)

\* Strengthened with what is still to be tried.
Vetting == \A f \in Fetches : untried[f] \subseteq Vetted /\ dest[f] \in Vetted \cup {"nowhere"}

\* A name is vetted in the step that resolves it, and only what it gave is ever tried.
LEMMA VettingStep == TypeOK /\ Vetting /\ [Next]_vars => Vetting'
<1> SUFFICES ASSUME TypeOK, Vetting, [Next]_vars PROVE Vetting'
  OBVIOUS
<1> USE DEF vars, policy, route, sockets, content, clock, budget, TypeOK, Vetting
<1>1. CASE UNCHANGED vars
  BY <1>1
<1>2. ASSUME NEW f \in Fetches, Begin(f) PROVE Vetting'
  BY <1>2 DEF Begin, Go, End, Fail, Start
<1>3. ASSUME NEW f \in Fetches, ChargeFetch(f) PROVE Vetting'
  BY <1>3 DEF ChargeFetch, Go, End, Fail
<1>4. ASSUME NEW f \in Fetches, Resolve(f) PROVE Vetting'
  <2>1. ASSUME NEW answer \in SUBSET Addresses, \A a \in answer : Allowed(a)
        PROVE answer \subseteq Vetted
    BY <2>1 DEF Vetted
  <2>2. TRUE \in ByProxy => {"proxy"} \subseteq Vetted
    BY DEF Vetted
  <2>3. /\ UNCHANGED dest
        /\ \/ UNCHANGED untried
           \/ \E new \in SUBSET Vetted : untried' = [untried EXCEPT ![f] = new]
    BY <1>4, <2>1, <2>2 DEF Resolve, ResolveDirect, ResolveByProxy
  <2>4. QED
    BY <2>3
<1>5. ASSUME NEW f \in Fetches, Connect(f) PROVE Vetting'
  BY <1>5 DEF Connect, Go, End, Fail, SetSocket
<1>6. ASSUME NEW f \in Fetches, ConnectFails(f) PROVE Vetting'
  BY <1>6 DEF ConnectFails, Go, End, Fail
<1>7. ASSUME NEW f \in Fetches, Watch(f) PROVE Vetting'
  BY <1>7 DEF Watch, Go, End, Fail
<1>8. ASSUME NEW f \in Fetches, ShutLate(f) PROVE Vetting'
  BY <1>8 DEF ShutLate, Go, End, Fail
<1>9. ASSUME NEW f \in Fetches, Answer(f) PROVE Vetting'
  BY <1>9 DEF Answer, Go, End, Fail
<1>10. ASSUME NEW f \in Fetches, Judge(f) PROVE Vetting'
  BY <1>10 DEF Judge, Go, End, Fail
<1>11. ASSUME NEW f \in Fetches, ReadChunk(f) PROVE Vetting'
  BY <1>11 DEF ReadChunk, Go, End, Fail
<1>12. ASSUME NEW f \in Fetches, EndOfBody(f) PROVE Vetting'
  BY <1>12 DEF EndOfBody, Go, End, Fail
<1>13. ASSUME NEW f \in Fetches, CheckLast(f) PROVE Vetting'
  BY <1>13 DEF CheckLast, Go, End, Fail
<1>14. ASSUME NEW f \in Fetches, ReadFails(f) PROVE Vetting'
  BY <1>14 DEF ReadFails, Go, End, Fail
<1>15. ASSUME NEW f \in Fetches, Cancel(f) PROVE Vetting'
  BY <1>15 DEF Cancel, Go, End, Fail
<1>16. ASSUME NEW f \in Fetches, Release(f) PROVE Vetting'
  BY <1>16 DEF Release, Go, End, Fail
<1>17. ASSUME NEW f \in Fetches, Fire(f) PROVE Vetting'
  BY <1>17 DEF Fire, Go, End, Fail
<1>18. ASSUME NEW f \in Fetches, Copy(f) PROVE Vetting'
  BY <1>18 DEF Copy, Go, End, Fail
<1>19. ASSUME NEW f \in Fetches, Shut(f) PROVE Vetting'
  BY <1>19 DEF Shut, Go, End, Fail
<1>20. QED
  BY <1>1, <1>2, <1>3, <1>4, <1>5, <1>6, <1>7,
     <1>8, <1>9, <1>10, <1>11, <1>12, <1>13, <1>14, <1>15, <1>16, <1>17, <1>18, <1>19
  DEF Next, Own, Server, Watchdog


-----------------------------------------------------------------------------
(* The watchdog and the sockets.                                             *)

\* A socket the thread waits on is shut, or known to a watchdog that will still get to it.
Covered(f) ==
  \/ Socket(f) = "shut"
  \/ /\ followed[f] \in known[f]
     /\ \/ ~expired[f]
        \/ watchdog[f] = "fired"
        \/ watchdog[f] = "shutting" /\ followed[f] \in copied[f]

\* Between the connection and the registration the socket is nobody's but the thread's, which
\* is why Watch has to look at the event.
Guarded == \A f \in Fetches :
  /\ pc[f] \in {"watch", "late"} \cup Waiting => Socket(f) # "none"
  /\ pc[f] \in Waiting => Covered(f)

\* The event comes before everything the watchdog does, and nothing else shuts a socket.
EventFirst == \A f \in Fetches :
  /\ watchdog[f] \in {"fired", "shutting"} => expired[f]
  /\ pc[f] = "late" => expired[f]
  /\ \A h \in Hops : sock[f][h] = "shut" => expired[f]

\* A cut is seen at the end of the call, and never before the event.
CutSeen == \A f \in Fetches :
  /\ outcome[f] # "none" => pc[f] \in {"cancel", "release", "done"}
  /\ cut[f] => expired[f] /\ pc[f] \in {"last", "cancel", "release"}
  /\ cut[f] /\ outcome[f] # "none" => outcome[f] = "deadline"

\* The event is set by Fire, which everything else waits for.
LEMMA EventFirstStep == TypeOK /\ EventFirst /\ [Next]_vars => EventFirst'
<1> SUFFICES ASSUME TypeOK, EventFirst, [Next]_vars PROVE EventFirst'
  OBVIOUS
<1> USE DEF vars, policy, route, sockets, content, clock, budget, TypeOK, EventFirst
<1>1. CASE UNCHANGED vars
  BY <1>1
<1>2. ASSUME NEW f \in Fetches, Begin(f) PROVE EventFirst'
  BY <1>2 DEF Begin, Go, End, Fail, Start
<1>3. ASSUME NEW f \in Fetches, ChargeFetch(f) PROVE EventFirst'
  BY <1>3 DEF ChargeFetch, Go, End, Fail
<1>4. ASSUME NEW f \in Fetches, Resolve(f) PROVE EventFirst'
  BY <1>4, ResolveShape
<1>5. ASSUME NEW f \in Fetches, Connect(f) PROVE EventFirst'
  BY <1>5 DEF Connect, Go, End, Fail, SetSocket, NoSockets, Hops
<1>6. ASSUME NEW f \in Fetches, ConnectFails(f) PROVE EventFirst'
  BY <1>6 DEF ConnectFails, Go, End, Fail
<1>7. ASSUME NEW f \in Fetches, Watch(f) PROVE EventFirst'
  BY <1>7 DEF Watch, Go, End, Fail
<1>8. ASSUME NEW f \in Fetches, ShutLate(f) PROVE EventFirst'
  BY <1>8 DEF ShutLate, Go, End, Fail, SetSocket, NoSockets, Hops
<1>9. ASSUME NEW f \in Fetches, Answer(f) PROVE EventFirst'
  BY <1>9 DEF Answer, Go, End, Fail
<1>10. ASSUME NEW f \in Fetches, Judge(f) PROVE EventFirst'
  BY <1>10 DEF Judge, Go, End, Fail
<1>11. ASSUME NEW f \in Fetches, ReadChunk(f) PROVE EventFirst'
  BY <1>11 DEF ReadChunk, Go, End, Fail
<1>12. ASSUME NEW f \in Fetches, EndOfBody(f) PROVE EventFirst'
  BY <1>12 DEF EndOfBody, Go, End, Fail
<1>13. ASSUME NEW f \in Fetches, CheckLast(f) PROVE EventFirst'
  BY <1>13 DEF CheckLast, Go, End, Fail
<1>14. ASSUME NEW f \in Fetches, ReadFails(f) PROVE EventFirst'
  BY <1>14 DEF ReadFails, Go, End, Fail
<1>15. ASSUME NEW f \in Fetches, Cancel(f) PROVE EventFirst'
  BY <1>15 DEF Cancel, Go, End, Fail
<1>16. ASSUME NEW f \in Fetches, Release(f) PROVE EventFirst'
  BY <1>16 DEF Release, Go, End, Fail, SetSocket, NoSockets, Hops
<1>17. ASSUME NEW f \in Fetches, Fire(f) PROVE EventFirst'
  BY <1>17 DEF Fire, Go, End, Fail
<1>18. ASSUME NEW f \in Fetches, Copy(f) PROVE EventFirst'
  BY <1>18 DEF Copy, Go, End, Fail
<1>19. ASSUME NEW f \in Fetches, Shut(f) PROVE EventFirst'
  BY <1>19 DEF Shut, Go, End, Fail, SetSocket, NoSockets, Hops
<1>20. QED
  BY <1>1, <1>2, <1>3, <1>4, <1>5, <1>6, <1>7,
     <1>8, <1>9, <1>10, <1>11, <1>12, <1>13, <1>14, <1>15, <1>16, <1>17, <1>18, <1>19
  DEF Next, Own, Server, Watchdog

\* Watch registers before it reads the event, and Copy reads the list after the event is set:
\* one of the two sees the other.
LEMMA GuardedStep == TypeOK /\ Guarded /\ EventFirst /\ [Next]_vars => Guarded'
<1> SUFFICES ASSUME TypeOK, Guarded, EventFirst, [Next]_vars PROVE Guarded'
  OBVIOUS
<1> USE DEF vars, policy, route, sockets, content, clock, budget, TypeOK,
           Guarded, EventFirst, Covered, Waiting, Socket
<1>1. CASE UNCHANGED vars
  BY <1>1
<1>2. ASSUME NEW f \in Fetches, Begin(f) PROVE Guarded'
  BY <1>2 DEF Begin, Go, End, Fail, Start
<1>3. ASSUME NEW f \in Fetches, ChargeFetch(f) PROVE Guarded'
  BY <1>3 DEF ChargeFetch, Go, End, Fail
<1>4. ASSUME NEW f \in Fetches, Resolve(f) PROVE Guarded'
  BY <1>4, ResolveShape
<1>5. ASSUME NEW f \in Fetches, Connect(f) PROVE Guarded'
  BY <1>5 DEF Connect, Go, End, Fail, SetSocket, NoSockets
<1>6. ASSUME NEW f \in Fetches, ConnectFails(f) PROVE Guarded'
  BY <1>6 DEF ConnectFails, Go, End, Fail
<1>7. ASSUME NEW f \in Fetches, Watch(f) PROVE Guarded'
  BY <1>7 DEF Watch, Go, End, Fail
<1>8. ASSUME NEW f \in Fetches, ShutLate(f) PROVE Guarded'
  BY <1>8 DEF ShutLate, Go, End, Fail, SetSocket, NoSockets
<1>9. ASSUME NEW f \in Fetches, Answer(f) PROVE Guarded'
  BY <1>9 DEF Answer, Go, End, Fail
<1>10. ASSUME NEW f \in Fetches, Judge(f) PROVE Guarded'
  BY <1>10 DEF Judge, Go, End, Fail
<1>11. ASSUME NEW f \in Fetches, ReadChunk(f) PROVE Guarded'
  BY <1>11 DEF ReadChunk, Go, End, Fail
<1>12. ASSUME NEW f \in Fetches, EndOfBody(f) PROVE Guarded'
  BY <1>12 DEF EndOfBody, Go, End, Fail
<1>13. ASSUME NEW f \in Fetches, CheckLast(f) PROVE Guarded'
  BY <1>13 DEF CheckLast, Go, End, Fail
<1>14. ASSUME NEW f \in Fetches, ReadFails(f) PROVE Guarded'
  BY <1>14 DEF ReadFails, Go, End, Fail
<1>15. ASSUME NEW f \in Fetches, Cancel(f) PROVE Guarded'
  BY <1>15 DEF Cancel, Go, End, Fail
<1>16. ASSUME NEW f \in Fetches, Release(f) PROVE Guarded'
  BY <1>16 DEF Release, Go, End, Fail, SetSocket, NoSockets
<1>17. ASSUME NEW f \in Fetches, Fire(f) PROVE Guarded'
  BY <1>17 DEF Fire, Go, End, Fail
<1>18. ASSUME NEW f \in Fetches, Copy(f) PROVE Guarded'
  BY <1>18 DEF Copy, Go, End, Fail
<1>19. ASSUME NEW f \in Fetches, Shut(f) PROVE Guarded'
  BY <1>19 DEF Shut, Go, End, Fail
<1>20. QED
  BY <1>1, <1>2, <1>3, <1>4, <1>5, <1>6, <1>7,
     <1>8, <1>9, <1>10, <1>11, <1>12, <1>13, <1>14, <1>15, <1>16, <1>17, <1>18, <1>19
  DEF Next, Own, Server, Watchdog

\* Every way out of a call looks at the event after what the thread saw last.
LEMMA CutSeenStep == TypeOK /\ CutSeen /\ EventFirst /\ [Next]_vars => CutSeen'
<1> SUFFICES ASSUME TypeOK, CutSeen, EventFirst, [Next]_vars PROVE CutSeen'
  OBVIOUS
<1> USE DEF vars, policy, route, sockets, content, clock, budget, TypeOK,
           CutSeen, EventFirst, Socket
<1>1. CASE UNCHANGED vars
  BY <1>1
<1>2. ASSUME NEW f \in Fetches, Begin(f) PROVE CutSeen'
  BY ZenonT(60), <1>2 DEF Begin, Go, End, Fail, Start
<1>3. ASSUME NEW f \in Fetches, ChargeFetch(f) PROVE CutSeen'
  BY <1>3 DEF ChargeFetch, Go, End, Fail
<1>4. ASSUME NEW f \in Fetches, Resolve(f) PROVE CutSeen'
  BY ZenonT(60), <1>4 DEF Resolve, ResolveDirect, ResolveByProxy, Go, End, Fail
<1>5. ASSUME NEW f \in Fetches, Connect(f) PROVE CutSeen'
  BY <1>5 DEF Connect, Go, End, Fail
<1>6. ASSUME NEW f \in Fetches, ConnectFails(f) PROVE CutSeen'
  BY ZenonT(60), <1>6 DEF ConnectFails, Go, End, Fail
<1>7. ASSUME NEW f \in Fetches, Watch(f) PROVE CutSeen'
  BY <1>7 DEF Watch, Go, End, Fail
<1>8. ASSUME NEW f \in Fetches, ShutLate(f) PROVE CutSeen'
  BY <1>8 DEF ShutLate, Go, End, Fail
<1>9. ASSUME NEW f \in Fetches, Answer(f) PROVE CutSeen'
  BY <1>9 DEF Answer, Go, End, Fail
<1>10. ASSUME NEW f \in Fetches, Judge(f) PROVE CutSeen'
  BY ZenonT(60), <1>10 DEF Judge, Go, End, Fail
<1>11. ASSUME NEW f \in Fetches, ReadChunk(f) PROVE CutSeen'
  BY <1>11 DEF ReadChunk, Go, End, Fail
<1>12. ASSUME NEW f \in Fetches, EndOfBody(f) PROVE CutSeen'
  BY <1>12 DEF EndOfBody, Go, End, Fail
<1>13. ASSUME NEW f \in Fetches, CheckLast(f) PROVE CutSeen'
  BY <1>13 DEF CheckLast, Go, End, Fail
<1>14. ASSUME NEW f \in Fetches, ReadFails(f) PROVE CutSeen'
  BY <1>14 DEF ReadFails, Go, End, Fail
<1>15. ASSUME NEW f \in Fetches, Cancel(f) PROVE CutSeen'
  BY <1>15 DEF Cancel, Go, End, Fail
<1>16. ASSUME NEW f \in Fetches, Release(f) PROVE CutSeen'
  BY <1>16 DEF Release, Go, End, Fail
<1>17. ASSUME NEW f \in Fetches, Fire(f) PROVE CutSeen'
  BY <1>17 DEF Fire, Go, End, Fail
<1>18. ASSUME NEW f \in Fetches, Copy(f) PROVE CutSeen'
  BY <1>18 DEF Copy, Go, End, Fail
<1>19. ASSUME NEW f \in Fetches, Shut(f) PROVE CutSeen'
  BY <1>19 DEF Shut, Go, End, Fail
<1>20. QED
  BY <1>1, <1>2, <1>3, <1>4, <1>5, <1>6, <1>7,
     <1>8, <1>9, <1>10, <1>11, <1>12, <1>13, <1>14, <1>15, <1>16, <1>17, <1>18, <1>19
  DEF Next, Own, Server, Watchdog


-----------------------------------------------------------------------------
(* Theorems about fetches.                                                   *)

IInv == TypeOK /\ Vetting /\ EventFirst /\ Guarded /\ CutSeen

\* All five parts hold when no call has begun.
LEMMA InitIInv == Init => IInv
<1> SUFFICES ASSUME Init PROVE IInv
  OBVIOUS
<1> USE LimitAssumption DEF Init
<1>1. TypeOK
  BY DEF TypeOK, Steps, Outcomes, Hops, NoSockets
<1>2. Vetting
  BY DEF Vetting
<1>3. EventFirst
  BY DEF EventFirst, NoSockets
<1>4. Guarded
  BY DEF Guarded, Waiting
<1>5. CutSeen
  BY DEF CutSeen
<1>6. QED
  BY <1>1, <1>2, <1>3, <1>4, <1>5 DEF IInv

\* The inductive invariant.
LEMMA Invariance == Spec => []IInv
<1>1. IInv /\ [Next]_vars => IInv'
  BY TypeStep, VettingStep, EventFirstStep, GuardedStep, CutSeenStep DEF IInv
<1>2. QED
  BY InitIInv, <1>1, PTL DEF Spec

\* The variables keep their types for every number of fetches and every limit, and the number of
\* requests charged never passes the budget's limit (FetchBudget.charge_fetch).
THEOREM FetchTypes == Spec => []TypeOK
<1>1. IInv => TypeOK
  BY DEF IInv
<1>2. QED
  BY Invariance, <1>1, PTL

\* No fetch ever connects to an address it did not vet, on any hop (_connect_vetted).
THEOREM ConnectionsVetted == Spec => []GoesWhereVetted
<1>1. IInv => GoesWhereVetted
  BY DEF IInv, Vetting, GoesWhereVetted
<1>2. QED
  BY Invariance, <1>1, PTL

\* Once a watchdog has finished, no thread waits on an open socket, for every interleaving of
\* the registration with the expiry and every number of hops (_Fetch.watch, _expire).
THEOREM NoSocketMissed == Spec => []WatchdogMissesNothing
<1>1. IInv => WatchdogMissesNothing
  BY DEF IInv, Guarded, Covered, WatchdogMissesNothing
<1>2. QED
  BY Invariance, <1>1, PTL

\* What the watchdog cut off ends as DeadlineExceeded, whatever the thread saw (fetch).
THEOREM CutReported == Spec => []CutIsDeadline
<1>1. IInv => CutIsDeadline
  BY DEF IInv, CutSeen, CutIsDeadline
<1>2. QED
  BY Invariance, <1>1, PTL
-----------------------------------------------------------------------------
(* Credentials.                                                              *)

\* No redirect has been followed before a call or after it, and a call that got past its first
\* check with credentials may follow none.
CredentialsInv == \A f \in Fetches :
  /\ pc[f] \in {"start", "done"} => followed[f] = 0
  /\ auth[f] /\ pc[f] # "done" => redirects[f] = 0
  /\ auth[f] => followed[f] = 0

\* Only Begin sets the policy, and only Judge follows.
LEMMA CredentialsStep == TypeOK /\ CredentialsInv /\ [Next]_vars => CredentialsInv'
<1> SUFFICES ASSUME TypeOK, CredentialsInv, [Next]_vars PROVE CredentialsInv'
  OBVIOUS
<1> USE DEF vars, policy, route, sockets, content, clock, budget, TypeOK, CredentialsInv
<1>1. CASE UNCHANGED vars
  BY <1>1
<1>2. ASSUME NEW f \in Fetches, Begin(f) PROVE CredentialsInv'
  BY <1>2 DEF Begin, Go, End, Start, Hops
<1>3. ASSUME NEW f \in Fetches, Judge(f) PROVE CredentialsInv'
  <2>1. followed[f] < redirects[f] => ~auth[f] \/ pc[f] = "done"
    BY DEF Hops
  <2>2. QED
    BY <1>3, <2>1 DEF Judge, Go, End
<1>4. ASSUME NEW f \in Fetches, Release(f) PROVE CredentialsInv'
  BY <1>4 DEF Release, Go
<1>5. ASSUME NEW f \in Fetches, ChargeFetch(f) PROVE CredentialsInv'
  BY <1>5 DEF ChargeFetch, Go, End, Fail
<1>6. ASSUME NEW f \in Fetches, Resolve(f) PROVE CredentialsInv'
  BY <1>6, ResolveShape DEF Resolve, ResolveDirect, ResolveByProxy, Go, End, Fail
<1>7. ASSUME NEW f \in Fetches, Connect(f) PROVE CredentialsInv'
  BY <1>7 DEF Connect, Go, End, Fail
<1>8. ASSUME NEW f \in Fetches, ConnectFails(f) PROVE CredentialsInv'
  BY <1>8 DEF ConnectFails, Go, End, Fail
<1>9. ASSUME NEW f \in Fetches, Watch(f) PROVE CredentialsInv'
  BY <1>9 DEF Watch, Go, End, Fail
<1>10. ASSUME NEW f \in Fetches, ShutLate(f) PROVE CredentialsInv'
  BY <1>10 DEF ShutLate, Go, End, Fail
<1>11. ASSUME NEW f \in Fetches, Answer(f) PROVE CredentialsInv'
  BY <1>11 DEF Answer, Go, End, Fail
<1>12. ASSUME NEW f \in Fetches, ReadChunk(f) PROVE CredentialsInv'
  BY <1>12 DEF ReadChunk, Go, End, Fail
<1>13. ASSUME NEW f \in Fetches, EndOfBody(f) PROVE CredentialsInv'
  BY <1>13 DEF EndOfBody, Go, End, Fail
<1>14. ASSUME NEW f \in Fetches, CheckLast(f) PROVE CredentialsInv'
  BY <1>14 DEF CheckLast, Go, End, Fail
<1>15. ASSUME NEW f \in Fetches, ReadFails(f) PROVE CredentialsInv'
  BY <1>15 DEF ReadFails, Go, End, Fail
<1>16. ASSUME NEW f \in Fetches, Cancel(f) PROVE CredentialsInv'
  BY <1>16 DEF Cancel, Go, End, Fail
<1>17. ASSUME NEW f \in Fetches, Fire(f) PROVE CredentialsInv'
  BY <1>17 DEF Fire, Go, End, Fail
<1>18. ASSUME NEW f \in Fetches, Copy(f) PROVE CredentialsInv'
  BY <1>18 DEF Copy, Go, End, Fail
<1>19. ASSUME NEW f \in Fetches, Shut(f) PROVE CredentialsInv'
  BY <1>19 DEF Shut, Go, End, Fail
<1>20. QED
  BY <1>1, <1>2, <1>3, <1>4, <1>5, <1>6, <1>7, <1>8, <1>9, <1>10,
     <1>11, <1>12, <1>13, <1>14, <1>15, <1>16, <1>17, <1>18, <1>19
  DEF Next, Own, Server, Watchdog

\* A call that carries credentials never follows a redirect: they reach the host they were given
\* for and no other (CredentialsStay, fetch).
THEOREM CredentialsKept == Spec => []CredentialsStay
<1>1. Init => CredentialsInv
  BY DEF Init, CredentialsInv
<1>2. CredentialsInv => CredentialsStay
  BY DEF CredentialsInv, CredentialsStay
<1>3. QED
  BY FetchTypes, CredentialsStep, <1>1, <1>2, PTL DEF Spec

-----------------------------------------------------------------------------
(* The budget.                                                               *)

\* What has been paid for: the connections in use, and the one charged but not made yet.
PaidHops(f) == {h \in Hops : \/ sock[f][h] # "none"
                             \/ pc[f] \in {"resolve", "connect"} /\ h = followed[f]}
Paid == {c \in Fetches \X Hops : c[2] \in PaidHops(c[1])}

\* What has been read for calls that may still succeed.
ReadBy(f) == {k \in 1..(MaxBytes + 1) : outcome[f] \in {"none", "ok"} /\ k <= body[f]}
Read == {c \in Chunks : c[2] \in ReadBy(c[1])}

\* A call that is not over has no outcome, one about to register its socket has it, and one that
\* may still succeed has not read past its limit.
CallInv == \A f \in Fetches :
  /\ pc[f] \notin {"cancel", "release", "done"} => outcome[f] = "none"
  /\ pc[f] \in {"watch", "late"} => sock[f][followed[f]] # "none"
  /\ outcome[f] \in {"none", "ok"} => body[f] <= MaxBytes

\* The budget has counted at least that much; the chunk that passed its limit is not in Read.
CountInv == /\ Cardinality(Paid) <= fetches
            /\ Cardinality(Read) <= bytes /\ Cardinality(Read) <= BudgetBytes

\* Everything counted is finite.
LEMMA BudgetFinite ==
  ASSUME NEW S, S \subseteq Fetches \X Hops \/ S \subseteq Chunks
  PROVE  IsFiniteSet(S)
<1>1. IsFiniteSet(Fetches) /\ IsFiniteSet(Hops) /\ IsFiniteSet(1..(MaxBytes + 1))
  BY LimitAssumption, FS_Interval DEF Hops
<1>2. IsFiniteSet(Fetches \X Hops) /\ IsFiniteSet(Chunks)
  BY <1>1, FS_Product DEF Chunks
<1>3. QED
  BY <1>2, FS_Subset

\* A set that gained one element at most has grown by one at most.
LEMMA GrownByOne ==
  ASSUME NEW S, NEW T, NEW x, IsFiniteSet(S), T \subseteq S \cup {x}
  PROVE  Cardinality(T) \in Nat /\ Cardinality(S) \in Nat /\ Cardinality(T) <= Cardinality(S) + 1
<1>1. IsFiniteSet(S \cup {x}) /\ Cardinality(S \cup {x}) <= Cardinality(S) + 1
  <2>1. Cardinality(S) \in Nat
    BY FS_CardinalityType
  <2>2. QED
    BY <2>1, FS_AddElement
<1>2. Cardinality(T) <= Cardinality(S \cup {x}) /\ IsFiniteSet(T)
  BY <1>1, FS_Subset
<1>3. Cardinality(T) \in Nat /\ Cardinality(S) \in Nat /\ Cardinality(S \cup {x}) \in Nat
  BY <1>1, <1>2, FS_CardinalityType
<1>4. QED
  BY <1>1, <1>2, <1>3

\* One that gained none has not grown.
LEMMA NotGrown ==
  ASSUME NEW S, NEW T, IsFiniteSet(S), T \subseteq S
  PROVE  Cardinality(T) \in Nat /\ Cardinality(S) \in Nat /\ Cardinality(T) <= Cardinality(S)
BY FS_Subset, FS_CardinalityType

\* What a step of one call leaves of the other calls.
Elsewhere(f) == \A g \in Fetches \ {f} :
  /\ pc'[g] = pc[g] /\ outcome'[g] = outcome[g] /\ sock'[g] = sock[g]
  /\ followed'[g] = followed[g] /\ body'[g] = body[g]

LEMMA PaidElsewhere ==
  ASSUME NEW f \in Fetches, Elsewhere(f)
  PROVE  /\ PaidHops(f)' \subseteq PaidHops(f) => Paid' \subseteq Paid
         /\ \A h : PaidHops(f)' \subseteq PaidHops(f) \cup {h} =>
                    Paid' \subseteq Paid \cup {<<f, h>>}
<1>1. \A g \in Fetches \ {f} : PaidHops(g)' = PaidHops(g)
  BY DEF PaidHops, Elsewhere
<1> QED BY <1>1 DEF Paid

LEMMA ReadElsewhere ==
  ASSUME NEW f \in Fetches, Elsewhere(f)
  PROVE  /\ ReadBy(f)' \subseteq ReadBy(f) => Read' \subseteq Read
         /\ \A k : ReadBy(f)' \subseteq ReadBy(f) \cup {k} =>
                    Read' \subseteq Read \cup {<<f, k>>}
<1>1. \A g \in Fetches \ {f} : ReadBy(g)' = ReadBy(g)
  BY DEF ReadBy, Elsewhere
<1> QED BY <1>1 DEF Read, Chunks

\* A step that neither charges nor reads.
LEMMA ChargesNothing ==
  ASSUME TypeOK, CountInv, NEW f \in Fetches, Elsewhere(f), UNCHANGED budget,
         PaidHops(f)' \subseteq PaidHops(f), ReadBy(f)' \subseteq ReadBy(f)
  PROVE  CountInv'
<1>1. Paid' \subseteq Paid /\ Read' \subseteq Read
  BY PaidElsewhere, ReadElsewhere
<1>2. IsFiniteSet(Paid) /\ IsFiniteSet(Read)
  BY BudgetFinite DEF Paid, Read
<1>3. /\ Cardinality(Paid') \in Nat /\ Cardinality(Paid) \in Nat
      /\ Cardinality(Paid') <= Cardinality(Paid)
      /\ Cardinality(Read') \in Nat /\ Cardinality(Read) \in Nat
      /\ Cardinality(Read') <= Cardinality(Read)
  BY <1>1, <1>2, NotGrown
<1>4. bytes \in Nat /\ fetches \in Nat /\ BudgetBytes \in Nat
  BY LimitAssumption DEF TypeOK
<1> QED BY <1>3, <1>4 DEF CountInv, budget

\* A connection that is charged is counted before it is made.
LEMMA ChargesFetch ==
  ASSUME TypeOK, CountInv, NEW f \in Fetches, Elsewhere(f), UNCHANGED bytes, NEW h,
         fetches' = fetches + 1,
         PaidHops(f)' \subseteq PaidHops(f) \cup {h}, ReadBy(f)' \subseteq ReadBy(f)
  PROVE  CountInv'
<1>1. Paid' \subseteq Paid \cup {<<f, h>>} /\ Read' \subseteq Read
  BY PaidElsewhere, ReadElsewhere
<1>2. IsFiniteSet(Paid) /\ IsFiniteSet(Read)
  BY BudgetFinite DEF Paid, Read
<1>3. /\ Cardinality(Read') \in Nat /\ Cardinality(Read) \in Nat
      /\ Cardinality(Read') <= Cardinality(Read)
  BY <1>1, <1>2, NotGrown
<1>4. /\ Cardinality(Paid') \in Nat /\ Cardinality(Paid) \in Nat
      /\ Cardinality(Paid') <= Cardinality(Paid) + 1
  BY <1>1, <1>2, GrownByOne
<1>5. bytes \in Nat /\ fetches \in Nat /\ BudgetBytes \in Nat
  BY LimitAssumption DEF TypeOK
<1> QED BY <1>3, <1>4, <1>5 DEF CountInv

\* A chunk is counted, and it is kept only if the count is within the limit.
LEMMA ChargesChunk ==
  ASSUME TypeOK, CountInv, NEW f \in Fetches, Elsewhere(f), UNCHANGED fetches, NEW k,
         bytes' = bytes + 1, PaidHops(f)' \subseteq PaidHops(f),
         ReadBy(f)' \subseteq IF bytes + 1 <= BudgetBytes THEN ReadBy(f) \cup {k} ELSE ReadBy(f)
  PROVE  CountInv'
<1>1. Paid' \subseteq Paid
  BY PaidElsewhere
<1>2. IsFiniteSet(Paid) /\ IsFiniteSet(Read)
  BY BudgetFinite DEF Paid, Read
<1>3. /\ Cardinality(Paid') \in Nat /\ Cardinality(Paid) \in Nat
      /\ Cardinality(Paid') <= Cardinality(Paid)
  BY <1>1, <1>2, NotGrown
<1>4. bytes \in Nat /\ fetches \in Nat /\ BudgetBytes \in Nat
  BY LimitAssumption DEF TypeOK
<1>5. CASE bytes + 1 <= BudgetBytes
  <2>1. Read' \subseteq Read \cup {<<f, k>>}
    BY <1>5, ReadElsewhere
  <2>2. /\ Cardinality(Read') \in Nat /\ Cardinality(Read) \in Nat
        /\ Cardinality(Read') <= Cardinality(Read) + 1
    BY <1>2, <2>1, GrownByOne
  <2> QED BY <1>3, <1>4, <1>5, <2>2 DEF CountInv
<1>6. CASE ~(bytes + 1 <= BudgetBytes)
  <2>1. Read' \subseteq Read
    BY <1>6, ReadElsewhere
  <2>2. /\ Cardinality(Read') \in Nat /\ Cardinality(Read) \in Nat
        /\ Cardinality(Read') <= Cardinality(Read)
    BY <1>2, <2>1, NotGrown
  <2> QED BY <1>3, <1>4, <2>2 DEF CountInv
<1> QED BY <1>5, <1>6

\* CallInv is kept.
LEMMA CallStep == TypeOK /\ CallInv /\ [Next]_vars => CallInv'
<1> SUFFICES ASSUME TypeOK, CallInv, [Next]_vars PROVE CallInv'
  OBVIOUS
<1> USE LimitAssumption DEF vars, policy, route, sockets, content, clock, budget, TypeOK, CallInv
<1>1. CASE UNCHANGED vars
  BY <1>1
<1>2. ASSUME NEW f \in Fetches, Begin(f) PROVE CallInv'
  BY <1>2 DEF Begin, Go, End, Start
<1>3. ASSUME NEW f \in Fetches, Judge(f) PROVE CallInv'
  BY <1>3 DEF Judge, Go, End
<1>4. ASSUME NEW f \in Fetches, Release(f) PROVE CallInv'
  BY <1>4 DEF Release, Go
<1>5. ASSUME NEW f \in Fetches, ChargeFetch(f) PROVE CallInv'
  BY <1>5 DEF ChargeFetch, Go, End, Fail
<1>6. ASSUME NEW f \in Fetches, Resolve(f) PROVE CallInv'
  <2>1. UNCHANGED <<sock, followed, body>>
    BY <1>6 DEF Resolve
  <2>2. \/ pc' = [pc EXCEPT ![f] = "connect"] /\ pc[f] = "resolve" /\ UNCHANGED outcome
        \/ /\ pc' = [pc EXCEPT ![f] = "cancel"]
           /\ \E how \in {"error", "deadline", "refused"} : outcome' = [outcome EXCEPT ![f] = how]
    BY <1>6 DEF Resolve, ResolveDirect, ResolveByProxy, Go, End, Fail
  <2>3. QED
    BY <2>1, <2>2
<1>7. ASSUME NEW f \in Fetches, Connect(f) PROVE CallInv'
  BY <1>7 DEF Connect, Go, SetSocket
<1>8. ASSUME NEW f \in Fetches, ConnectFails(f) PROVE CallInv'
  BY <1>8 DEF ConnectFails, Go, End, Fail
<1>9. ASSUME NEW f \in Fetches, Watch(f) PROVE CallInv'
  BY <1>9 DEF Watch, Go
<1>10. ASSUME NEW f \in Fetches, ShutLate(f) PROVE CallInv'
  BY <1>10 DEF ShutLate, Go, SetSocket
<1>11. ASSUME NEW f \in Fetches, Answer(f) PROVE CallInv'
  BY <1>11 DEF Answer, Go
<1>12. ASSUME NEW f \in Fetches, ReadChunk(f) PROVE CallInv'
  BY <1>12 DEF ReadChunk, Go, End, Fail
<1>13. ASSUME NEW f \in Fetches, EndOfBody(f) PROVE CallInv'
  BY <1>13 DEF EndOfBody, Go
<1>14. ASSUME NEW f \in Fetches, CheckLast(f) PROVE CallInv'
  BY <1>14 DEF CheckLast, End
<1>15. ASSUME NEW f \in Fetches, ReadFails(f) PROVE CallInv'
  BY <1>15 DEF ReadFails, End, Fail
<1>16. ASSUME NEW f \in Fetches, Cancel(f) PROVE CallInv'
  BY <1>16 DEF Cancel, Go
<1>17. ASSUME NEW f \in Fetches, Fire(f) PROVE CallInv'
  BY <1>17 DEF Fire
<1>18. ASSUME NEW f \in Fetches, Copy(f) PROVE CallInv'
  BY <1>18 DEF Copy
<1>19. ASSUME NEW f \in Fetches, Shut(f) PROVE CallInv'
  BY <1>19 DEF Shut
<1>20. QED
  BY <1>1, <1>2, <1>3, <1>4, <1>5, <1>6, <1>7, <1>8, <1>9, <1>10,
     <1>11, <1>12, <1>13, <1>14, <1>15, <1>16, <1>17, <1>18, <1>19
  DEF Next, Own, Server, Watchdog

\* A step that leaves a call's connections and its body alone, and starts no connection.
LEMMA SameOrLess ==
  ASSUME TypeOK, CallInv, CountInv, NEW f \in Fetches, Elsewhere(f),
         UNCHANGED <<budget, sock, body, followed>>,
         pc'[f] \in {"resolve", "connect"} => pc[f] \in {"resolve", "connect"},
         outcome'[f] \in {"none", "ok"} => outcome[f] \in {"none", "ok"}
  PROVE  CountInv'
<1>1. PaidHops(f)' \subseteq PaidHops(f) /\ ReadBy(f)' \subseteq ReadBy(f)
  BY DEF PaidHops, ReadBy
<1> QED BY <1>1, ChargesNothing

\* So is CountInv.
LEMMA CountStep == TypeOK /\ CallInv /\ CountInv /\ [Next]_vars => CountInv'
<1> SUFFICES ASSUME TypeOK, CallInv, CountInv, [Next]_vars PROVE CountInv'
  OBVIOUS
<1> USE DEF vars, policy, route, sockets, content, clock, budget, TypeOK, Elsewhere
<1>1. CASE UNCHANGED vars
  BY <1>1 DEF CountInv, Paid, PaidHops, Read, ReadBy
<1>2. ASSUME NEW f \in Fetches, Begin(f) \/ Answer(f) \/ Watch(f) \/ Cancel(f) PROVE CountInv'
  <2>1. /\ Elsewhere(f) /\ UNCHANGED <<budget, sock, body, followed>>
        /\ pc'[f] \notin {"resolve", "connect"}
    BY <1>2 DEF Begin, Start, Answer, Watch, Cancel, Go, End
  <2>2. outcome'[f] \in {"none", "ok"} => outcome[f] \in {"none", "ok"}
    BY <1>2 DEF Begin, Start, Answer, Watch, Cancel, Go, End
  <2>3. QED
    BY <2>1, <2>2, SameOrLess
<1>3. ASSUME NEW f \in Fetches, ReadFails(f) \/ EndOfBody(f) \/ CheckLast(f) PROVE CountInv'
  <2>1. /\ Elsewhere(f) /\ UNCHANGED <<budget, sock, body, followed>>
        /\ pc'[f] \notin {"resolve", "connect"}
    BY <1>3 DEF ReadFails, EndOfBody, CheckLast, Go, End, Fail
  <2>2. outcome'[f] \in {"none", "ok"} => outcome[f] \in {"none", "ok"}
    BY <1>3 DEF ReadFails, EndOfBody, CheckLast, Go, End, Fail, CallInv
  <2>3. QED
    BY <2>1, <2>2, SameOrLess
<1>4. ASSUME NEW f \in Fetches, Fire(f) \/ Copy(f) PROVE CountInv'
  <2>1. Elsewhere(f) /\ UNCHANGED <<budget, sock, body, followed, pc, outcome>>
    BY <1>4 DEF Fire, Copy
  <2>2. QED
    BY <2>1, SameOrLess
<1>5. ASSUME NEW f \in Fetches, Resolve(f) PROVE CountInv'
  <2>1. UNCHANGED <<budget, sock, followed, body>>
    BY <1>5 DEF Resolve
  <2>2. /\ pc[f] = "resolve" /\ \E to : pc' = [pc EXCEPT ![f] = to]
        /\ \/ UNCHANGED outcome
           \/ \E how \in {"error", "deadline", "refused"} : outcome' = [outcome EXCEPT ![f] = how]
    BY <1>5 DEF Resolve, ResolveDirect, ResolveByProxy, Go, End, Fail
  <2>3. QED
    BY <2>1, <2>2, SameOrLess
<1>6. ASSUME NEW f \in Fetches, ConnectFails(f) PROVE CountInv'
  <2>1. /\ Elsewhere(f) /\ UNCHANGED <<budget, sock, body, followed>> /\ pc[f] = "connect"
        /\ outcome'[f] \in {"none", "ok"} => outcome[f] \in {"none", "ok"}
    BY <1>6 DEF ConnectFails, Go, End, Fail
  <2>2. QED
    BY <2>1, SameOrLess
<1>7. ASSUME NEW f \in Fetches, Judge(f) PROVE CountInv'
  <2>1. /\ Elsewhere(f) /\ UNCHANGED <<budget, sock, body>> /\ pc'[f] \notin {"resolve", "connect"}
        /\ outcome'[f] \in {"none", "ok"} => outcome[f] \in {"none", "ok"}
    BY <1>7 DEF Judge, Go, End
  <2>2. PaidHops(f)' \subseteq PaidHops(f) /\ ReadBy(f)' \subseteq ReadBy(f)
    BY <2>1 DEF PaidHops, ReadBy
  <2>3. QED
    BY <2>1, <2>2, ChargesNothing
<1>8. ASSUME NEW f \in Fetches, Connect(f) PROVE CountInv'
  <2>1. /\ Elsewhere(f) /\ UNCHANGED <<budget, body, followed, outcome>>
        /\ pc[f] = "connect" /\ pc'[f] = "watch"
        /\ sock'[f] = [h \in Hops |-> IF h = followed[f] THEN "open" ELSE sock[f][h]]
    BY <1>8 DEF Connect, Go, SetSocket
  <2>2. PaidHops(f)' \subseteq PaidHops(f) /\ ReadBy(f)' \subseteq ReadBy(f)
    BY <2>1 DEF PaidHops, ReadBy
  <2>3. QED
    BY <2>1, <2>2, ChargesNothing
<1>9. ASSUME NEW f \in Fetches, ShutLate(f) PROVE CountInv'
  <2>1. /\ Elsewhere(f) /\ UNCHANGED <<budget, body, followed, outcome>>
        /\ pc'[f] = "await" /\ sock[f][followed[f]] # "none"
        /\ sock'[f] = [h \in Hops |-> IF h = followed[f] THEN "shut" ELSE sock[f][h]]
    BY <1>9 DEF ShutLate, Go, SetSocket, CallInv
  <2>2. PaidHops(f)' \subseteq PaidHops(f) /\ ReadBy(f)' \subseteq ReadBy(f)
    BY <2>1 DEF PaidHops, ReadBy
  <2>3. QED
    BY <2>1, <2>2, ChargesNothing
<1>10. ASSUME NEW f \in Fetches, Shut(f) PROVE CountInv'
  <2>1. Elsewhere(f) /\ UNCHANGED <<budget, body, followed, outcome, pc>>
    BY <1>10 DEF Shut
  <2>2. \A h \in Hops : sock'[f][h] # "none" => sock[f][h] # "none"
    BY <1>10 DEF Shut
  <2>3. PaidHops(f)' \subseteq PaidHops(f) /\ ReadBy(f)' \subseteq ReadBy(f)
    BY <2>1, <2>2 DEF PaidHops, ReadBy
  <2>4. QED
    BY <2>1, <2>3, ChargesNothing
<1>11. ASSUME NEW f \in Fetches, Release(f) PROVE CountInv'
  <2>1. /\ Elsewhere(f) /\ UNCHANGED <<budget, outcome>>
        /\ pc'[f] = "done" /\ sock'[f] = NoSockets /\ body'[f] \in {0, body[f]}
    BY <1>11 DEF Release, Go
  <2>2. PaidHops(f)' \subseteq PaidHops(f) /\ ReadBy(f)' \subseteq ReadBy(f)
    BY <2>1, LimitAssumption DEF PaidHops, ReadBy, NoSockets
  <2>3. QED
    BY <2>1, <2>2, ChargesNothing
<1>12. ASSUME NEW f \in Fetches, ChargeFetch(f) PROVE CountInv'
  <2>1. /\ Elsewhere(f) /\ UNCHANGED <<bytes, sock, body, followed>>
        /\ pc[f] = "charge"
        /\ outcome'[f] \in {"none", "ok"} => outcome[f] \in {"none", "ok"}
    BY <1>12 DEF ChargeFetch, Go, End
  <2>2. ReadBy(f)' \subseteq ReadBy(f)
    BY <2>1 DEF ReadBy
  <2>3. CASE fetches >= BudgetFetches
    <3>1. UNCHANGED fetches /\ pc'[f] = "cancel"
      BY <1>12, <2>3 DEF ChargeFetch, End
    <3>2. QED
      BY <2>1, <3>1, SameOrLess
  <2>4. CASE ~(fetches >= BudgetFetches)
    <3>1. fetches' = fetches + 1
      BY <1>12, <2>4 DEF ChargeFetch
    <3>2. PaidHops(f)' \subseteq PaidHops(f) \cup {followed[f]}
      BY <2>1 DEF PaidHops
    <3>3. QED
      BY <2>1, <2>2, <3>1, <3>2, ChargesFetch
  <2>5. QED
    BY <2>3, <2>4
<1>13. ASSUME NEW f \in Fetches, ReadChunk(f) PROVE CountInv'
  <2>1. /\ Elsewhere(f) /\ UNCHANGED <<fetches, sock, followed>>
        /\ pc[f] = "read" /\ pc'[f] \in {"read", "cancel"}
        /\ outcome'[f] \in {"none", "ok"} => outcome[f] \in {"none", "ok"}
    BY <1>13 DEF ReadChunk, Go, End
  <2>2. PaidHops(f)' \subseteq PaidHops(f)
    BY <2>1 DEF PaidHops
  <2>3. CASE UNCHANGED bytes
    <3>1. outcome'[f] \in {"deadline", "policy"}
      BY <1>13, <2>3 DEF ReadChunk, End
    <3>2. ReadBy(f)' \subseteq ReadBy(f)
      BY <3>1 DEF ReadBy
    <3>3. QED
      BY <2>1, <2>2, <2>3, <3>2, ChargesNothing
  <2>4. CASE ~UNCHANGED bytes
    <3>1. /\ bytes' = bytes + 1 /\ body'[f] = body[f] + 1
          /\ bytes + 1 > BudgetBytes => outcome'[f] = "budget"
      BY <1>13, <2>4 DEF ReadChunk, End
    <3>2. ReadBy(f)' \subseteq IF bytes + 1 <= BudgetBytes THEN ReadBy(f) \cup {body[f] + 1}
                                                          ELSE ReadBy(f)
      <4>1. /\ body'[f] = body[f] + 1 /\ body[f] \in Nat /\ MaxBytes \in Nat
            /\ outcome'[f] \in {"none", "ok"} => outcome[f] \in {"none", "ok"}
        BY <2>1, <3>1, LimitAssumption
      <4>2. CASE bytes + 1 <= BudgetBytes
        <5>1. ASSUME NEW k \in ReadBy(f)' PROVE k \in ReadBy(f) \cup {body[f] + 1}
          <6>1. k \in 1..(MaxBytes + 1) /\ outcome[f] \in {"none", "ok"} /\ k <= body'[f]
            BY <4>1, <5>1 DEF ReadBy
          <6>2. \A n \in Nat : k <= n + 1 => k <= n \/ k = n + 1
            BY <4>1, <6>1
          <6>3. QED
            BY <4>1, <6>1, <6>2 DEF ReadBy
        <5>2. QED
          BY <4>2, <5>1
      <4>3. CASE ~(bytes + 1 <= BudgetBytes)
        <5>1. outcome'[f] = "budget"
          BY <3>1, <4>3, LimitAssumption
        <5>2. QED
          BY <4>3, <5>1 DEF ReadBy
      <4>4. QED
        BY <4>2, <4>3
    <3>3. QED
      BY <2>1, <2>2, <3>1, <3>2, ChargesChunk
  <2>5. QED
    BY <2>3, <2>4
<1>14. QED
  BY <1>1, <1>2, <1>3, <1>4, <1>5, <1>6, <1>7, <1>8, <1>9, <1>10, <1>11, <1>12, <1>13
  DEF Next, Own, Server, Watchdog

\* However many threads share a budget, and though each counts its chunk before it compares, the
\* connections in use never pass the number it allows nor the results together its bytes, and no
\* result passes its own limit (FetchBudget, _read_body).
THEOREM BudgetIsKept == Spec => []BudgetHolds
<1>1. Init => CallInv /\ CountInv
  <2> SUFFICES ASSUME Init PROVE CallInv /\ CountInv
    OBVIOUS
  <2>1. CallInv
    BY LimitAssumption DEF Init, CallInv
  <2>2. Paid = {} /\ Read = {}
    BY LimitAssumption DEF Init, Paid, PaidHops, NoSockets, Read, ReadBy, Chunks
  <2>3. QED
    BY <2>1, <2>2, FS_EmptySet, LimitAssumption DEF Init, CountInv
<1>2. TypeOK /\ CallInv /\ CountInv => BudgetHolds
  <2> SUFFICES ASSUME TypeOK, CallInv, CountInv PROVE BudgetHolds
    OBVIOUS
  <2>1. Connections \subseteq Paid /\ Kept \subseteq Read
    BY DEF Connections, Paid, PaidHops, Kept, Read, ReadBy, Chunks
  <2>2. IsFiniteSet(Paid) /\ IsFiniteSet(Read)
    BY BudgetFinite DEF Paid, Read
  <2>3. /\ Cardinality(Connections) \in Nat /\ Cardinality(Paid) \in Nat
        /\ Cardinality(Connections) <= Cardinality(Paid)
        /\ Cardinality(Kept) \in Nat /\ Cardinality(Read) \in Nat
        /\ Cardinality(Kept) <= Cardinality(Read)
    BY <2>1, <2>2, NotGrown
  <2>4. fetches \in Nat /\ fetches <= BudgetFetches /\ BudgetFetches \in Nat /\ BudgetBytes \in Nat
    BY LimitAssumption DEF TypeOK
  <2>5. QED
    BY <2>3, <2>4 DEF CountInv, CallInv, BudgetHolds
<1>3. QED
  BY FetchTypes, CallStep, CountStep, <1>1, <1>2, PTL DEF Spec

-----------------------------------------------------------------------------
(* What a step of a fetch leaves alone.                                      *)

\* A fetch that a step does not belong to stays where it is, and so does one that is over; one
\* that has begun never begins again.
Others(f) == \A g \in Fetches \ {f} : pc'[g] = pc[g] /\ outcome'[g] = outcome[g]
Onward(f) ==
  /\ pc'[f] = "start" => pc[f] = "start" /\ outcome'[f] = outcome[f]
  /\ pc[f] = "done" => pc'[f] = "done" /\ outcome'[f] = outcome[f]

\* Going, ending and failing are the three ways a thread moves.
LEMMA GoOnward ==
  ASSUME ThreadTyped, NEW f \in Fetches, NEW from \in Steps \ {"done"}, NEW to \in Steps \ {"start"},
         Go(f, from, to)
  PROVE Others(f) /\ Onward(f)
BY DEF ThreadTyped, Go, Others, Onward

\* Ending,
LEMMA EndOnward ==
  ASSUME ThreadTyped, NEW f \in Fetches, NEW from \in Steps \ {"done"}, NEW how, End(f, from, how)
  PROVE Others(f) /\ Onward(f)
BY DEF ThreadTyped, End, Others, Onward

\* and failing.
LEMMA FailOnward ==
  ASSUME ThreadTyped, NEW f \in Fetches, NEW from \in Steps \ {"done"}, Fail(f, from)
  PROVE Others(f) /\ Onward(f)
BY EndOnward DEF Fail

\* One action of a thread or of its watchdog at a time.
LEMMA FetchOnward ==
  ASSUME TypeOK, NEW f \in Fetches, Own(f) \/ Server(f) \/ Watchdog(f)
  PROVE Others(f) /\ Onward(f)
<1>t. ThreadTyped
  BY DEF ThreadTyped, TypeOK
<1> USE <1>t, GoOnward, EndOnward, FailOnward DEF Steps
<1>1. CASE Begin(f)
  <2>1. CASE Start(f)
    BY <2>1 DEF Start
  <2>2. CASE /\ pc[f] = "start" /\ pc' = [pc EXCEPT ![f] = "done"]
             /\ outcome' = [outcome EXCEPT ![f] = "policy"]
    BY <2>2 DEF ThreadTyped, Others, Onward
  <2>3. QED
    BY <1>1, <2>1, <2>2 DEF Begin
<1>2. CASE ChargeFetch(f)
  BY <1>2 DEF ChargeFetch
<1>3. CASE Resolve(f)
  BY <1>3 DEF Resolve, ResolveDirect, ResolveByProxy
<1>4. CASE Connect(f)
  BY <1>4 DEF Connect
<1>5. CASE ConnectFails(f)
  BY <1>5 DEF ConnectFails
<1>6. CASE Watch(f) \/ ShutLate(f)
  BY <1>6 DEF Watch, ShutLate
<1>7. CASE Judge(f)
  BY <1>7 DEF Judge
<1>8. CASE CheckLast(f)
  BY <1>8 DEF CheckLast
<1>9. CASE Cancel(f) \/ Release(f)
  BY <1>9 DEF Cancel, Release
<1>10. CASE Answer(f) \/ EndOfBody(f)
  BY <1>10 DEF Answer, EndOfBody
<1>11. CASE ReadChunk(f)
  BY <1>11 DEF ReadChunk
<1>12. CASE ReadFails(f)
  BY <1>12 DEF ReadFails
<1>13. CASE Watchdog(f)
  BY <1>13 DEF Watchdog, Fire, Copy, Shut, Others, Onward
<1>14. QED
  BY <1>1, <1>2, <1>3, <1>4, <1>5, <1>6, <1>7, <1>8, <1>9, <1>10, <1>11, <1>12, <1>13
  DEF Own, Server

-----------------------------------------------------------------------------
(* Checking a chain is a use of fetch.                                       *)

\* A step of the check is a step of its fetches or leaves them alone.
LEMMA CheckingIsFetching == CheckingNext => [Next]_vars
BY DEF CheckingNext, Fetching, Deliver, JudgeChain, WriteRow, Next

\* Whatever is proved of fetch holds of the fetches of a chain (PolicyFetcherBackend.fetch calls
\* outbound.fetch and changes nothing of it).
THEOREM ChecksByFetching == CheckingSpec => Spec
<1>1. CheckingInit => Init
  BY DEF CheckingInit
<1>2. [CheckingNext]_allVars => [Next]_vars
  BY CheckingIsFetching DEF allVars, vars
<1>3. QED
  BY <1>1, <1>2, PTL DEF CheckingSpec, Spec

-----------------------------------------------------------------------------
(* The invariant.                                                            *)

ListTyped == seen \in [Fetches -> {"nothing", "evidence", "failure"}] /\ refusals \in Seq(Fetches)

\* Only what is over has been delivered, evidence only of what came whole; what has not begun
\* has no outcome.
Delivered ==
  \A f \in Fetches :
    /\ seen[f] # "nothing" => pc[f] = "done"
    /\ seen[f] = "evidence" => outcome[f] = "ok"
    /\ pc[f] = "start" => outcome[f] = "none"

\* The list holds the refusals that were delivered, each once.
Listed ==
  /\ \A f \in Fetches :
       seen[f] # "nothing" /\ Refused(f) <=> \E n \in DOMAIN refusals : refusals[n] = f
  /\ \A m, n \in DOMAIN refusals : refusals[m] = refusals[n] => m = n

\* A row is the whole list: what had not ended by then never began.
Told ==
  row # Unwritten =>
    /\ row = refusals /\ chain # "open"
    /\ \A f \in Fetches : pc[f] = "start" \/ seen[f] # "nothing"

\* Trust rests on what was delivered.
Rested == chain = "trusted" => Evidence

CheckingInv == TypeOK /\ ListTyped /\ Delivered /\ Listed /\ Told /\ Rested

\* It holds when nothing has been asked.
LEMMA CheckingInvInit == CheckingInit => CheckingInv
<1> SUFFICES ASSUME CheckingInit PROVE CheckingInv
  OBVIOUS
<1>1. TypeOK
  BY InitIInv DEF CheckingInit, IInv
<1>2. ListTyped /\ Delivered
  BY DEF CheckingInit, Init, ListTyped, Delivered
<1>3. Listed
  BY DEF CheckingInit, Listed
<1>4. Told /\ Rested
  BY DEF CheckingInit, Told, Rested
<1>5. QED
  BY <1>1, <1>2, <1>3, <1>4 DEF CheckingInv

\* A fetch that runs in its thread keeps it.
LEMMA FetchingKeeps ==
  ASSUME CheckingInv, TypeOK', NEW f \in Fetches, Fetching(f)
  PROVE CheckingInv'
<1> USE DEF CheckingInv
<1>1. Others(f) /\ Onward(f)
  BY FetchOnward DEF Fetching
<1>2. UNCHANGED checking
  BY DEF Fetching
<1>3. pc[f] = "start" => chain = "open"
  BY DEF Fetching
<1>4. \A g \in Fetches : pc[g] = "done" => pc'[g] = "done" /\ outcome'[g] = outcome[g]
  BY <1>1 DEF Others, Onward
<1>5. Delivered'
  BY <1>1, <1>2, <1>4 DEF Delivered, checking, Others, Onward
<1>6. \A g \in Fetches : seen[g] # "nothing" => outcome'[g] = outcome[g]
  BY <1>4 DEF Delivered
<1>7. Listed'
  BY <1>2, <1>6 DEF Listed, checking, Refused
<1>8. Told'
  BY <1>1, <1>2, <1>3 DEF Told, checking, Others
<1>9. QED
  BY <1>2, <1>5, <1>7, <1>8 DEF ListTyped, Rested, Evidence, checking

\* So does the delivery of what came of it: a row is only written when none is due.
LEMMA DeliverKeeps ==
  ASSUME CheckingInv, NEW f \in Fetches, Deliver(f)
  PROVE CheckingInv'
<1> USE DEF CheckingInv
<1>1. UNCHANGED <<vars, need, chain, row>> /\ pc[f] = "done" /\ seen[f] = "nothing"
  BY DEF Deliver
<1>2. PICK what \in {"failure", "evidence"} :
        (what = "evidence" => outcome[f] = "ok") /\ seen' = [seen EXCEPT ![f] = what]
  BY DEF Deliver
<1>3. refusals' = IF Refused(f) THEN Append(refusals, f) ELSE refusals
  BY DEF Deliver
<1>4. TypeOK'
  BY <1>1 DEF TypeOK, vars, policy, route, sockets, content, clock, budget
<1>5. ListTyped'
  BY <1>2, <1>3 DEF ListTyped
<1>6. Delivered'
  BY <1>1, <1>2 DEF Delivered, ListTyped, vars
<1>7. Listed'
  <2>1. \A g \in Fetches : Refused(g)' <=> Refused(g)
    BY <1>1 DEF Refused, vars
  <2>2. CASE ~Refused(f)
    BY <1>2, <1>3, <2>1, <2>2 DEF Listed, ListTyped
  <2>3. CASE Refused(f)
    <3>1. refusals' = Append(refusals, f) /\ refusals \in Seq(Fetches)
      BY <1>3, <2>3 DEF ListTyped
    <3>2. /\ DOMAIN refusals = 1..Len(refusals)
          /\ DOMAIN refusals' = 1..(Len(refusals) + 1)
          /\ \A n \in DOMAIN refusals : refusals'[n] = refusals[n]
          /\ refusals'[Len(refusals) + 1] = f
          /\ Len(refusals) \in Nat
      BY <3>1
    <3>3. ~\E n \in DOMAIN refusals : refusals[n] = f
      BY <1>1 DEF Listed
    <3>4. \A g \in Fetches :
            (\E n \in DOMAIN refusals' : refusals'[n] = g)
            <=> (g = f \/ \E n \in DOMAIN refusals : refusals[n] = g)
      BY <3>2
    <3>5. \A g \in Fetches : seen'[g] # "nothing" <=> (g = f \/ seen[g] # "nothing")
      BY <1>2 DEF ListTyped
    <3>6. \A m, n \in DOMAIN refusals' : refusals'[m] = refusals'[n] => m = n
      BY <3>2, <3>3 DEF Listed
    <3>7. QED
      BY <2>1, <2>3, <3>4, <3>5, <3>6 DEF Listed
  <2>4. QED
    BY <2>2, <2>3
<1>8. Told'
  BY <1>1 DEF Told, vars
<1>9. Rested'
  <2>1. \A g \in Fetches : seen[g] = "evidence" => seen'[g] = "evidence"
    BY <1>1, <1>2 DEF ListTyped
  <2>2. QED
    BY <1>1, <2>1 DEF Rested, Evidence
<1>10. QED
  BY <1>4, <1>5, <1>6, <1>7, <1>8, <1>9

\* So do the verdict and the row.
LEMMA VerdictKeeps ==
  ASSUME CheckingInv,
         (\E verdict \in {"trusted", "untrusted"} : JudgeChain(verdict)) \/ WriteRow
  PROVE CheckingInv'
<1> USE DEF CheckingInv
<1>1. UNCHANGED <<vars, need, seen, refusals>>
  BY DEF JudgeChain, WriteRow
<1>2. TypeOK'
  BY <1>1 DEF TypeOK, vars, policy, route, sockets, content, clock, budget
<1>3. ListTyped' /\ Delivered' /\ Listed'
  BY <1>1 DEF ListTyped, Delivered, Listed, Refused, vars
<1>4. Rested' /\ Told'
  <2>1. ASSUME NEW verdict \in {"trusted", "untrusted"}, JudgeChain(verdict)
        PROVE Rested' /\ Told'
    BY <2>1 DEF JudgeChain, Rested, Told, Evidence
  <2>2. ASSUME WriteRow PROVE Rested' /\ Told'
    BY <2>2, <1>1 DEF WriteRow, Rested, Told, Evidence, vars
  <2>3. QED
    BY <2>1, <2>2
<1>5. QED
  BY <1>2, <1>3, <1>4

\* The inductive invariant.
LEMMA CheckingInvariance == CheckingSpec => []CheckingInv
<1>1. CheckingInv /\ [CheckingNext]_allVars => CheckingInv'
  <2> SUFFICES ASSUME CheckingInv, [CheckingNext]_allVars PROVE CheckingInv'
    OBVIOUS
  <2>1. ASSUME NEW f \in Fetches, Fetching(f) PROVE CheckingInv'
    <3>1. TypeOK'
      BY <2>1, TypeStep DEF CheckingInv, Fetching, Next
    <3>2. QED
      BY <2>1, <3>1, FetchingKeeps
  <2>2. CASE UNCHANGED allVars
    BY <2>2 DEF CheckingInv, TypeOK, ListTyped, Delivered, Listed, Refused, Told, Rested, Evidence,
                allVars, checking, vars, policy, route, sockets, content, clock, budget
  <2>3. QED
    BY <2>1, <2>2, DeliverKeeps, VerdictKeeps DEF CheckingNext
<1>2. QED
  BY CheckingInvInit, <1>1, PTL DEF CheckingSpec

-----------------------------------------------------------------------------
(* Theorems about the check.                                                 *)

\* The chain row tells of every refusal, each once, and of nothing else, whatever the number of
\* threads and the order they end in (PolicyFetcherBackend, refused_fetches_note).
THEOREM RefusalsSaid == CheckingSpec => []RefusalIsSaid
<1>1. CheckingInv => RefusalIsSaid
  <2> SUFFICES ASSUME CheckingInv, row # Unwritten
               PROVE /\ \A f \in Fetches : Refused(f) <=> \E n \in DOMAIN row : row[n] = f
                     /\ \A m, n \in DOMAIN row : row[m] = row[n] => m = n
    BY DEF RefusalIsSaid
  <2>1. row = refusals
    BY DEF CheckingInv, Told
  <2>2. \A f \in Fetches : Refused(f) => seen[f] # "nothing"
    BY DEF CheckingInv, Told, Delivered, Refused
  <2>3. QED
    BY <2>1, <2>2 DEF CheckingInv, Listed
<1>2. QED
  BY CheckingInvariance, <1>1, PTL

\* With revocation checked, a chain is trusted only on answers that came whole and within every
\* limit (revocation_mode, PolicyFetcherBackend.fetch).
THEOREM TrustRestsOnEvidence == CheckingSpec => []TrustNeedsEvidence
<1>1. CheckingInv => TrustNeedsEvidence
  BY SourceAssumption DEF CheckingInv, Delivered, Rested, Evidence, TrustNeedsEvidence
<1>2. QED
  BY CheckingInvariance, <1>1, PTL
=============================================================================
