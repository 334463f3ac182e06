------------------------------ MODULE UwsHttp ------------------------------
(***************************************************************************)
(* HTTP on the older, uWebSockets front end.  A hub has two groups: on the *)
(* plain one HttpRequestRedirectToHttps answers every request with a       *)
(* redirect to the other, on the TLS one HttpRequestDispatcher asks its    *)
(* applications in turn.  Both are called by the hub's thread, and an      *)
(* exception of theirs leaves hub.run().                                   *)
(*                                                                         *)
(* The value of a Host header is a sequence of parts, colons and brackets  *)
(* being parts of their own.                                               *)
(***************************************************************************)
EXTENDS Naturals, Sequences

CONSTANTS
    Hosts,          \* values of the Host header
    Urls,           \* URLs clients ask for
    TargetPorts,    \* values of the constructor's aTargetPort
    NoPort,         \* the value 0 of them: no port in the redirect
    NumberOfApps    \* size of mApps

Apps == 1 .. NumberOfApps
Colon == ":"

ASSUME UwsHttpAssumption ==
    /\ \A host \in Hosts : host \in Seq(STRING)
    /\ TargetPorts \subseteq STRING \ {Colon}
    /\ NumberOfApps \in Nat

VARIABLES
    mTargetPort,\* of the redirect
    phase,      \* where the hub's thread is
    request,    \* the request being answered, or answered last
    next,       \* the application to ask next
    declined,   \* the applications whose handle() returned false
    writes,     \* what was written of the response
    ends        \* how often the response was ended

vars == <<mTargetPort, phase, request, next, declined, writes, ends>>

NoRequest == [group |-> "none", host |-> <<>>, url |-> "none"]
Requests == [group : {"plain", "tls"}, host : Hosts, url : Urls]

Init == /\ mTargetPort \in TargetPorts
        /\ phase = "hub"
        /\ request = NoRequest
        /\ next = 1
        /\ declined = {}
        /\ writes = <<>>
        /\ ends = 0

-----------------------------------------------------------------------------
Reply(by, host, url) == [by |-> by, host |-> host, url |-> url]

\* response.write, response.end
Respond(reply) == /\ writes' = Append(writes, reply)
                  /\ ends' = ends + 1

\* uWS calls the dispatcher of the group
OnHttpRequest == /\ phase = "hub"
                 /\ request' \in Requests
                 /\ phase' = IF request'.group = "plain" THEN "redirect" ELSE "asking"
                 /\ next' = 1
                 /\ declined' = {}
                 /\ writes' = <<>>
                 /\ ends' = 0
                 /\ UNCHANGED mTargetPort

-----------------------------------------------------------------------------
(* HttpRequestRedirectToHttps *)

Colons(host) == {i \in DOMAIN host : host[i] = Colon}
FirstColon(host) == CHOOSE i \in Colons(host) : \A j \in Colons(host) : i <= j

\* variant: the original port stays
KeepPort(host) == host

\* host.erase(host.find(':')): everything from the first colon on
ErasePort(host) == SubSeq(host, 1, FirstColon(host) - 1)

WithTargetPort(host) == IF mTargetPort = NoPort THEN host ELSE host \o <<Colon, mTargetPort>>

Redirect == /\ phase = "redirect"
            /\ Colons(request.host) # {}
            /\ Respond(Reply("redirect", WithTargetPort(ErasePort(request.host)), request.url))
            /\ phase' = "hub"
            /\ UNCHANGED <<mTargetPort, request, next, declined>>

\* find() gives npos, and erase(npos) throws std::out_of_range.
RedirectThrows == /\ phase = "redirect"
                  /\ Colons(request.host) = {}
                  /\ phase' = "ended"
                  /\ UNCHANGED <<mTargetPort, request, next, declined, writes, ends>>

-----------------------------------------------------------------------------
(* HttpRequestDispatcher *)

\* variant: the loop has no end
AskingAlways == phase = "asking"

Asking == phase = "asking" /\ next \in Apps

AppDeclines == /\ Asking
               /\ declined' = declined \cup {next}
               /\ next' = next + 1
               /\ UNCHANGED <<mTargetPort, phase, request, writes, ends>>

\* variant: no break after the application that handled the request
AppHandlesAndGoesOn == /\ Asking
                       /\ Respond(Reply("app", <<>>, request.url))
                       /\ next' = next + 1
                       /\ UNCHANGED <<mTargetPort, phase, request, declined>>

\* it writes and ends the response, and handle() returns true
AppHandles == /\ Asking
              /\ Respond(Reply("app", <<>>, request.url))
              /\ phase' = "hub"
              /\ UNCHANGED <<mTargetPort, request, next, declined>>

AppThrows == /\ Asking
             /\ phase' = "ended"
             /\ UNCHANGED <<mTargetPort, request, next, declined, writes, ends>>

Reply404 == /\ phase = "asking"
            /\ next \notin Apps
            /\ Respond(Reply("404", <<>>, request.url))
            /\ phase' = "hub"
            /\ UNCHANGED <<mTargetPort, request, next, declined>>

-----------------------------------------------------------------------------
Dispatcher == \/ Redirect \/ RedirectThrows
              \/ AppDeclines \/ AppHandles \/ AppThrows \/ Reply404

\* main catches the exception and returns 1.
Ended == phase = "ended" /\ UNCHANGED vars

Next == OnHttpRequest \/ Dispatcher \/ Ended

Spec == Init /\ [][Next]_vars

-----------------------------------------------------------------------------
(* Properties *)

\* Every variable keeps its type.
TypeOK == /\ mTargetPort \in TargetPorts
          /\ phase \in {"hub", "redirect", "asking", "ended"}
          /\ request \in Requests \cup {NoRequest}
          /\ next \in 1 .. NumberOfApps + 1
          /\ declined \subseteq Apps
          /\ \A i \in DOMAIN writes : writes[i].by \in {"redirect", "app", "404"}
          /\ ends \in 0 .. 1

\* Each request that a dispatcher returns from is written one response, of
\* the application that was asked first of those that take it, and 404 only
\* when all have declined; before that nothing of the response has gone out.
OneAnswerInOrder ==
    /\ phase # "hub" => writes = <<>> /\ ends = 0
    /\ phase = "hub" /\ request # NoRequest =>
          /\ Len(writes) = 1 /\ ends = 1
          /\ writes[1].by = "app" => declined = 1 .. next - 1
          /\ writes[1].by = "404" => declined = Apps

\* The name in a Host header is what precedes the port, which follows the
\* first colon outside the brackets of an address.
PortColons(host) == {i \in Colons(host) : \A j \in i .. Len(host) : host[j] # "]"}
HostName(host) ==
    IF PortColons(host) = {} THEN host
    ELSE SubSeq(host, 1, (CHOOSE i \in PortColons(host) : \A j \in PortColons(host) : i <= j) - 1)

\* "remove original port": a redirect goes to the name and URL of the
\* request, with no port but the target port, and none when that is 0, for
\* every name without a colon and for no other (find(':') cuts an address in
\* brackets).  A Host header with no colon at all, a name without a port, is
\* never redirected: that request, and none but such, ends the hub.
RedirectsToTarget == request.group = "plain" /\ phase # "redirect" =>
    LET name == HostName(request.host)
    IN  /\ phase = "ended" <=> Colons(request.host) = {}
        /\ \A i \in DOMAIN writes :
              /\ writes[i].url = request.url
              /\ Colons(name) = {} <=>
                    writes[i].host = IF mTargetPort = NoPort THEN name
                                     ELSE name \o <<Colon, mTargetPort>>
=============================================================================
