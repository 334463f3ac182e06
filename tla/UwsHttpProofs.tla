--------------------------- MODULE UwsHttpProofs ---------------------------
(***************************************************************************)
(* Proofs about UwsHttp for all hosts, URLs and target ports and every     *)
(* number of applications: type correctness, that each request has one     *)
(* answer, of the first application that takes it, and where redirects go. *)
(***************************************************************************)
EXTENDS UwsHttp, LeastElement, TLAPS

(* The inductive invariant *)

\* The applications asked so far have declined, and nothing is written; a
\* dispatcher at work has a request of its group.
AskedInv == /\ phase # "hub" => declined = 1 .. next - 1 /\ writes = <<>> /\ ends = 0
            /\ phase # "hub" => request \in Requests
            /\ phase = "redirect" => request.group = "plain"
            /\ phase = "asking" => request.group = "tls"

IInv == TypeOK /\ AskedInv /\ OneAnswerInOrder

\* The hub starts with no request.
LEMMA InitIInv == Init => IInv
<1> SUFFICES ASSUME Init PROVE IInv
  OBVIOUS
<1> USE UwsHttpAssumption DEF Init
<1>1. TypeOK
  <2>1. 1 \in 1 .. NumberOfApps + 1 /\ DOMAIN writes = {}  OBVIOUS
  <2>. QED  BY <2>1 DEF TypeOK
<1>. QED  BY <1>1 DEF IInv, AskedInv, OneAnswerInOrder

\* A response of one write.
LEMMA OneWrite == ASSUME NEW reply, writes = <<>>, ends = 0, Respond(reply)
                  PROVE /\ Len(writes') = 1 /\ ends' = 1
                        /\ writes'[1] = reply
                        /\ DOMAIN writes' = {1}
<1>1. writes' = <<reply>>  BY DEF Respond
<1>. QED  BY <1>1 DEF Respond

\* A new request finds everything reset.
LEMMA OnHttpRequestStep == ASSUME IInv, OnHttpRequest PROVE IInv'
<1> USE UwsHttpAssumption DEF IInv, OnHttpRequest
<1>1. TypeOK'  BY DEF TypeOK, Apps
<1>2. (AskedInv /\ OneAnswerInOrder)'  BY DEF AskedInv, OneAnswerInOrder, Apps, Requests
<1>. QED  BY <1>1, <1>2

\* The redirect writes its answer, or throws.
LEMMA RedirectStep == ASSUME IInv, Redirect \/ RedirectThrows PROVE IInv'
<1> USE UwsHttpAssumption DEF IInv, Apps
<1>1. CASE Redirect
  <2> DEFINE reply == Reply("redirect", WithTargetPort(ErasePort(request.host)), request.url)
  <2>1. Len(writes') = 1 /\ ends' = 1 /\ writes'[1] = reply /\ DOMAIN writes' = {1}
    BY <1>1, OneWrite DEF Redirect, AskedInv
  <2>2. reply.by = "redirect"  BY DEF Reply
  <2> HIDE DEF reply
  <2>3. UNCHANGED <<mTargetPort, request, next, declined>> /\ phase' = "hub"
    BY <1>1 DEF Redirect
  <2>. QED  BY <2>1, <2>2, <2>3 DEF TypeOK, AskedInv, OneAnswerInOrder
<1>2. CASE RedirectThrows
  BY <1>2 DEF RedirectThrows, TypeOK, AskedInv, OneAnswerInOrder
<1>. QED  BY <1>1, <1>2

\* An application answers, or the 404 does when all have declined.
LEMMA AnswerStep == ASSUME IInv, AppHandles \/ Reply404 PROVE IInv'
<1> USE UwsHttpAssumption DEF IInv, Apps, Asking
<1>1. PICK by \in {"app", "404"} : Respond(Reply(by, <<>>, request.url)) /\ (by = "404" => next \notin Apps)
  BY DEF AppHandles, Reply404
<1>2. phase = "asking" /\ phase' = "hub" /\ UNCHANGED <<mTargetPort, request, next, declined>>
  BY DEF AppHandles, Reply404
<1> DEFINE reply == Reply(by, <<>>, request.url)
<1>3. Len(writes') = 1 /\ ends' = 1 /\ writes'[1] = reply /\ DOMAIN writes' = {1}
  BY <1>1, <1>2, OneWrite DEF AskedInv
<1>4. reply.by = by  BY DEF Reply
<1> HIDE DEF reply
<1>5. by = "404" => declined = Apps
  <2>1. by = "404" => next = NumberOfApps + 1  BY <1>1 DEF TypeOK
  <2>. QED  BY <1>2, <2>1 DEF AskedInv
<1>6. TypeOK'  BY <1>2, <1>3, <1>4 DEF TypeOK
<1>. QED  BY <1>2, <1>3, <1>4, <1>5, <1>6 DEF AskedInv, OneAnswerInOrder

\* An application that declines is one more that has.
LEMMA AppStep == ASSUME IInv, AppDeclines \/ AppThrows PROVE IInv'
<1> USE UwsHttpAssumption DEF IInv, Apps, Asking
<1>1. CASE AppDeclines
  <2>1. TypeOK'  BY <1>1 DEF AppDeclines, TypeOK
  <2>2. declined' = 1 .. next' - 1
    <3>1. next \in Nat /\ next >= 1  BY DEF TypeOK
    <3>2. declined = 1 .. next - 1 /\ declined' = declined \cup {next} /\ next' = next + 1
      BY <1>1 DEF AppDeclines, AskedInv
    <3>. QED  BY <3>1, <3>2
  <2>. QED  BY <1>1, <2>1, <2>2 DEF AppDeclines, AskedInv, OneAnswerInOrder
<1>2. CASE AppThrows
  BY <1>2 DEF AppThrows, TypeOK, AskedInv, OneAnswerInOrder
<1>. QED  BY <1>1, <1>2

\* Every step keeps the invariant.
LEMMA NextIInv == IInv /\ [Next]_vars => IInv'
<1> SUFFICES ASSUME IInv, [Next]_vars PROVE IInv'
  OBVIOUS
<1>1. CASE OnHttpRequest  BY <1>1, OnHttpRequestStep
<1>2. CASE Dispatcher  BY <1>2, RedirectStep, AnswerStep, AppStep DEF Dispatcher
<1>3. CASE UNCHANGED vars
  BY <1>3 DEF vars, IInv, TypeOK, AskedInv, OneAnswerInOrder, Apps
<1>. QED  BY <1>1, <1>2, <1>3 DEF Next, Ended

\* The inductive invariant holds in every reachable state.
THEOREM Invariance == Spec => []IInv
  BY InitIInv, NextIInv, PTL DEF Spec

\* Every variable keeps its type.
THEOREM TypeCorrect == Spec => []TypeOK
<1>1. IInv => TypeOK  BY DEF IInv
<1>. QED  BY <1>1, Invariance, PTL

\* A request has one response, of the first application that takes it.
THEOREM OneAnswer == Spec => []OneAnswerInOrder
<1>1. IInv => OneAnswerInOrder  BY DEF IInv
<1>. QED  BY <1>1, Invariance, PTL

-----------------------------------------------------------------------------
(* Where a redirect leads *)

\* find(':') answers with the first of the colons.
LEMMA FirstColonIsFirst ==
    ASSUME NEW host \in Seq(STRING), Colons(host) # {}
    PROVE  FirstColon(host) \in Colons(host) /\ \A j \in Colons(host) : FirstColon(host) <= j
<1>1. Colons(host) \in SUBSET Nat  BY DEF Colons
<1>2. \E i \in Colons(host) : \A j \in Colons(host) : i <= j  BY <1>1, LeastExists
<1>. QED  BY <1>2 DEF FirstColon

\* The name in a host is the part before the port, and its colons are the
\* first of those of the host.
LEMMA NameOfHost ==
    ASSUME NEW host \in Seq(STRING)
    PROVE  \E n \in 0 .. Len(host) :
              /\ HostName(host) = SubSeq(host, 1, n)
              /\ Colons(HostName(host)) = {i \in Colons(host) : i <= n}
              /\ Colons(host) # {} /\ Colons(HostName(host)) = {} => FirstColon(host) = n + 1
<1>1. Colons(host) \in SUBSET (1 .. Len(host))  BY DEF Colons
<1>2. ASSUME NEW n \in 0 .. Len(host)
      PROVE  Colons(SubSeq(host, 1, n)) = {i \in Colons(host) : i <= n}
  <2>1. Len(SubSeq(host, 1, n)) = n /\ \A i \in 1 .. n : SubSeq(host, 1, n)[i] = host[i]
    OBVIOUS
  <2>2. DOMAIN SubSeq(host, 1, n) = 1 .. n  BY <2>1
  <2>3. \A i \in 1 .. Len(host) : i \in 1 .. n <=> i <= n  OBVIOUS
  <2>4. 1 .. n \subseteq 1 .. Len(host)  OBVIOUS
  <2>. QED  BY <1>1, <2>1, <2>2, <2>3, <2>4 DEF Colons
<1>3. CASE PortColons(host) = {}
  <2>1. HostName(host) = host  BY <1>3 DEF HostName
  <2>2. host = SubSeq(host, 1, Len(host)) /\ Len(host) \in 0 .. Len(host)  OBVIOUS
  <2>3. Colons(host) = {i \in Colons(host) : i <= Len(host)}  BY <1>1
  <2>. QED  BY <2>1, <2>2, <2>3
<1>4. CASE PortColons(host) # {}
  <2>. DEFINE port == CHOOSE i \in PortColons(host) : \A j \in PortColons(host) : i <= j
  <2>1. PortColons(host) \in SUBSET Nat  BY <1>1 DEF PortColons
  <2>2. port \in PortColons(host)  BY <1>4, <2>1, LeastExists
  <2>3. port \in Colons(host) /\ port \in 1 .. Len(host)  BY <1>1, <2>2 DEF PortColons
  <2>4. HostName(host) = SubSeq(host, 1, port - 1)  BY <1>4 DEF HostName
  <2>. HIDE DEF port
  <2>5. port - 1 \in 0 .. Len(host) /\ (port - 1) + 1 = port  BY <2>3
  <2>6. Colons(HostName(host)) = {i \in Colons(host) : i <= port - 1}  BY <1>2, <2>4, <2>5
  <2>7. ASSUME Colons(HostName(host)) = {} PROVE FirstColon(host) = port
    <3>1. FirstColon(host) \in Colons(host) /\ FirstColon(host) <= port
      BY <2>3, FirstColonIsFirst
    <3>2. FirstColon(host) \in 1 .. Len(host)  BY <1>1, <3>1
    <3>3. ~(FirstColon(host) <= port - 1)  BY <2>6, <2>7, <3>1
    <3>. QED  BY <2>3, <3>1, <3>2, <3>3
  <2>. QED  BY <2>4, <2>5, <2>6, <2>7
<1>. QED  BY <1>3, <1>4

\* What ErasePort leaves is the name exactly when the name has no colon.
LEMMA ErasedHost ==
    ASSUME NEW host \in Seq(STRING), Colons(host) # {}
    PROVE  /\ ErasePort(host) \in Seq(STRING) /\ HostName(host) \in Seq(STRING)
           /\ Colons(HostName(host)) = {} <=> ErasePort(host) = HostName(host)
<1>1. PICK n \in 0 .. Len(host) :
         /\ HostName(host) = SubSeq(host, 1, n)
         /\ Colons(HostName(host)) = {i \in Colons(host) : i <= n}
         /\ Colons(HostName(host)) = {} => FirstColon(host) = n + 1
  BY NameOfHost
<1>. DEFINE first == FirstColon(host)
<1>2. first \in Colons(host) /\ first \in 1 .. Len(host)  BY FirstColonIsFirst DEF Colons
<1>3. ErasePort(host) = SubSeq(host, 1, first - 1)  BY DEF ErasePort
<1>. HIDE DEF first
<1>4. first - 1 \in 0 .. Len(host)  BY <1>2
<1>5. /\ SubSeq(host, 1, n) \in Seq(STRING) /\ Len(SubSeq(host, 1, n)) = n
      /\ SubSeq(host, 1, first - 1) \in Seq(STRING) /\ Len(SubSeq(host, 1, first - 1)) = first - 1
  BY <1>4
<1>6. ASSUME Colons(HostName(host)) = {} PROVE ErasePort(host) = HostName(host)
  <2>1. first = n + 1  BY <1>1, <1>6 DEF first
  <2>2. first - 1 = n  BY <2>1
  <2>. QED  BY <1>1, <1>3, <2>2
<1>7. ASSUME ErasePort(host) = HostName(host) PROVE Colons(HostName(host)) = {}
  <2>1. first - 1 = n  BY <1>1, <1>3, <1>5, <1>7
  <2>2. \A i \in Colons(host) : i \in 1 .. Len(host) /\ first <= i
    BY FirstColonIsFirst DEF Colons, first
  <2>3. \A i \in Colons(host) : ~(i <= n)  BY <1>2, <2>1, <2>2
  <2>. QED  BY <1>1, <2>3
<1>. QED  BY <1>1, <1>3, <1>5, <1>6, <1>7

\* Two hosts with the same ending differ in what precedes it.
LEMMA EndingsCancel ==
    \A s, t \in Seq(STRING) : \A a, b : s \o <<a, b>> = t \o <<a, b>> => s = t
<1>. SUFFICES ASSUME NEW s \in Seq(STRING), NEW t \in Seq(STRING), NEW a, NEW b,
                     s \o <<a, b>> = t \o <<a, b>>
              PROVE  s = t
  OBVIOUS
<1>. DEFINE T == STRING \cup {a, b}
<1>1. s \in Seq(T) /\ t \in Seq(T) /\ <<a, b>> \in Seq(T)  OBVIOUS
<1>. HIDE DEF T
<1>2. Len(s) = Len(t)
  <2>1. Len(s \o <<a, b>>) = Len(s) + 2 /\ Len(t \o <<a, b>>) = Len(t) + 2  BY <1>1
  <2>2. Len(s) + 2 = Len(t) + 2 /\ Len(s) \in Nat /\ Len(t) \in Nat  BY <2>1
  <2>. QED  BY <2>2
<1>3. \A i \in 1 .. Len(s) : (s \o <<a, b>>)[i] = s[i]  BY <1>1
<1>4. \A i \in 1 .. Len(t) : (t \o <<a, b>>)[i] = t[i]  BY <1>1
<1>. QED  BY <1>2, <1>3, <1>4

\* A redirect leads to the name and the target port, when it can.
LEMMA RedirectLeads == ASSUME IInv, Redirect PROVE RedirectsToTarget'
<1>. DEFINE erased == ErasePort(request.host)
            name == HostName(request.host)
            reply == Reply("redirect", WithTargetPort(erased), request.url)
<1>1. phase = "redirect" /\ phase' = "hub" /\ Colons(request.host) # {} /\ Respond(reply)
      /\ UNCHANGED <<mTargetPort, request>>
  BY DEF Redirect
<1>2. request.host \in Seq(STRING)
  BY <1>1, UwsHttpAssumption DEF IInv, AskedInv, Requests
<1>3. erased \in Seq(STRING) /\ name \in Seq(STRING) /\ (Colons(name) = {} <=> erased = name)
  BY <1>1, <1>2, ErasedHost
<1>4. writes'[1] = reply /\ DOMAIN writes' = {1}  BY <1>1, OneWrite DEF IInv, AskedInv
<1>5. reply.url = request.url
      /\ reply.host = IF mTargetPort = NoPort THEN erased ELSE erased \o <<Colon, mTargetPort>>
  BY DEF Reply, WithTargetPort
<1>6. HostName(request.host)' = name /\ Colons(name)' = Colons(name)
      /\ Colons(request.host)' = Colons(request.host)
  BY <1>1 DEF HostName, PortColons, Colons
<1>. HIDE DEF erased, name, reply
<1>7. erased \o <<Colon, mTargetPort>> = name \o <<Colon, mTargetPort>> => erased = name
  BY <1>3, EndingsCancel
<1>8. Colons(name) = {} <=>
         reply.host = IF mTargetPort = NoPort THEN name ELSE name \o <<Colon, mTargetPort>>
  BY <1>3, <1>5, <1>7
<1>. QED  BY <1>1, <1>4, <1>5, <1>6, <1>8 DEF RedirectsToTarget, name

\* Every other step writes nothing, or answers a request of the TLS group.
LEMMA OthersDoNotRedirect ==
    ASSUME IInv, RedirectsToTarget, [Next]_vars, ~Redirect PROVE RedirectsToTarget'
<1>1. CASE UNCHANGED vars
  <2>1. UNCHANGED <<mTargetPort, phase, request, writes>>  BY <1>1 DEF vars
  <2>2. HostName(request.host)' = HostName(request.host)
        /\ Colons(HostName(request.host))' = Colons(HostName(request.host))
        /\ Colons(request.host)' = Colons(request.host)
    BY <2>1 DEF HostName, PortColons, Colons
  <2>. QED  BY <2>1, <2>2 DEF RedirectsToTarget
<1>2. CASE OnHttpRequest
  BY <1>2 DEF OnHttpRequest, RedirectsToTarget, Requests
<1>3. CASE RedirectThrows
  BY <1>3 DEF RedirectThrows, RedirectsToTarget, IInv, AskedInv, Colons
<1>4. CASE AppDeclines \/ AppHandles \/ AppThrows \/ Reply404
  <2>1. request.group = "tls" /\ UNCHANGED request
    BY <1>4 DEF AppDeclines, AppHandles, AppThrows, Reply404, Asking, IInv, AskedInv
  <2>. QED  BY <2>1 DEF RedirectsToTarget
<1>. QED  BY <1>1, <1>2, <1>3, <1>4 DEF Next, Dispatcher, Ended

\* "remove original port": which requests are redirected to their host and
\* the target port, which elsewhere and which end the hub, for every Host
\* header, those with an address in brackets included.
THEOREM RedirectsLeadToTarget == Spec => []RedirectsToTarget
<1>1. Init => RedirectsToTarget
  <2>1. Init => request.group = "none"  BY DEF Init, NoRequest
  <2>. QED  BY <2>1 DEF RedirectsToTarget
<1>2. IInv /\ RedirectsToTarget /\ [Next]_vars => RedirectsToTarget'
  BY RedirectLeads, OthersDoNotRedirect
<1>. QED  BY <1>1, <1>2, Invariance, PTL DEF Spec
=============================================================================
