--------------------------- MODULE HpdConnections ---------------------------
(***************************************************************************)
(* The request handlers of the two web servers of the HomePort daemon      *)
(* (hpd_http_web_server.c, hpd_https_web_server.c).  libmicrohttpd runs a  *)
(* thread for each connection and calls the handler once with the headers  *)
(* of a request, once with each piece of its body, and once at the end;    *)
(* con_cls is what the handler keeps between the calls.  An answer that is *)
(* queued while the body comes in is refused.  Threads meet at the mutex   *)
(* and at the buffer of a service.  The servers share no service, so a     *)
(* behaviour follows the connections of one of them.                       *)
(***************************************************************************)
EXTENDS Naturals, Sequences

CONSTANTS
  Conn,         \* connections, each with its thread
  Service,      \* registered services
  service_head, \* the list of the server: a sequence of services
  ReadOnly,     \* services without a put_function
  Late,         \* services whose registration has not reached the description
  Pages,        \* requested URLs that are not those of a service
  MaxRequests,  \* bound on the requests of a behaviour
  MaxChunks,    \* bound on the pieces of a body
  Free,         \* a mutex that nobody holds
  None          \* no value

ASSUME ConnAssumption ==
  /\ service_head \in Seq(Service)
  /\ ReadOnly \subseteq Service /\ Late \subseteq Service
  /\ MaxRequests \in Nat /\ MaxChunks \in Nat
  /\ Free \notin Conn
  /\ "/none" \notin Service
  /\ None \notin Nat
  /\ None \notin [op : {"GET", "PUT"}, svc : Service, new : Nat]

VARIABLES
  secure,       \* which of the two servers
  conn,         \* connections
  mutex,        \* the mutex of a service
  value,        \* what the application holds for a service
  buffer,       \* get_function_buffer
  events,       \* the value events in the order of the global queue
  writes,       \* history: the values that PUT requests gave a service
  requests,     \* requests so far; a PUT writes the number of its request
  crashed       \* the undefined operation that ended the daemon, if any
webVars == <<secure, conn, mutex, value, buffer, events, writes,
             requests, crashed>>

Values == 0 .. MaxRequests

Torn == MaxRequests + 1     \* a buffer that a function is writing, or gave up

\* A client without a trusted certificate, and a PUT without a body, get no
\* further than the first call: what else they ask for is left open.
Request(method, url, arg, chunks, good, trusted, new) ==
  [method |-> method, url |-> url, arg |-> arg, chunks |-> chunks,
   good |-> good, trusted |-> trusted, new |-> new]

Gets ==
  {Request("GET", u, a, 0, TRUE, TRUE, 0) : u \in Service,
                                            a \in {"none", "x", "p"}}
  \cup {Request("GET", u, "none", 0, TRUE, TRUE, 0) : u \in Pages}

Puts(n) ==
  {Request("PUT", u, "none", k, g, TRUE, n) :
     u \in Service \cup {"/none"}, k \in 1 .. MaxChunks, g \in BOOLEAN}

Others(n) ==
  {Request("GET", "/none", "none", 0, TRUE, FALSE, 0),
   Request("PUT", "/none", "none", 0, TRUE, TRUE, n),
   Request("POST", "/none", "none", 0, TRUE, TRUE, 0)}

Requests(n) == Gets \cup Puts(n) \cup Others(n)

Places == {"idle", "call", "walk", "found", "describe", "get", "put", "event",
           "queue", "reply", "done",
           "hung"}

NoRequest ==
  [at |-> "idle", req |-> None, call |-> "first", left |-> 0, cls |-> "NULL",
   walk |-> 0, xmlbuff |-> None, copy |-> None, heard |-> None]

WebInit ==
  /\ secure \in BOOLEAN
  /\ conn = [c \in Conn |-> NoRequest]
  /\ mutex = [s \in Service |-> Free]
  /\ value = [s \in Service |-> 0]
  /\ buffer = [s \in Service |-> Torn]
  /\ events = <<>>
  /\ writes = [s \in Service |-> <<>>]
  /\ requests = 0
  /\ crashed = "no"

Up(c, place) == crashed = "no" /\ conn[c].at = place

Req(c) == conn[c].req

IsGet(c) == Req(c).method = "GET"

Set(c, r) == conn' = [conn EXCEPT ![c] = r]

UnchangedService == UNCHANGED <<mutex, value, buffer, writes>>

UnchangedRest == UNCHANGED <<secure, events, requests, crashed>>

(***************************************************************************)
(* libmicrohttpd.                                                          *)
(***************************************************************************)
MHDReceives(c) ==
  /\ Up(c, "idle")
  /\ requests < MaxRequests
  /\ requests' = requests + 1
  /\ \E r \in Requests(requests + 1) :
       /\ r.trusted \/ secure
       /\ Set(c, [conn[c] EXCEPT !.at = "call", !.req = r, !.left = r.chunks])
  /\ UnchangedService
  /\ UNCHANGED <<secure, events, crashed>>

\* MHD_YES without an answer: the next call, and after the last one a
\* connection that waits for an answer nobody will queue.
NextCall(r) ==
  IF r.left > 0 THEN [r EXCEPT !.at = "call", !.call = "data", !.left = @ - 1]
  ELSE IF r.call = "last" THEN [r EXCEPT !.at = "hung"]
  ELSE [r EXCEPT !.at = "call", !.call = "last"]

\* MHD_NO closes the connection; the next request is one of a new connection.
Closed == NoRequest

Answered(x) == [NoRequest EXCEPT !.at = "done", !.heard = x]

\* The answer is on its way, or a client gives up waiting for it.
MHDCompletes(c) ==
  /\ Up(c, "hung") \/ Up(c, "done")
  /\ Set(c, Closed)
  /\ UnchangedService /\ UnchangedRest

(***************************************************************************)
(* Answers.  Every path of the handlers returns what the queueing returned:*)
(* MHD_NO for an answer that comes too early.                              *)
(***************************************************************************)
Refused(c) == conn[c].call = "data"

\* Mutant: the handler goes on after an answer that was refused.
send_errorGoesOn(c, r) == IF Refused(c) THEN NextCall(r) ELSE Answered(None)

send_error(c, r) == IF Refused(c) THEN Closed ELSE Answered(None)

\* Mutant: the text of the answer is made when it is sent.
send_xmlLate(c) ==
  /\ Up(c, "reply")
  /\ LET s == Req(c).url
         x == IF s \in Service THEN buffer[s] ELSE None
     IN  Set(c, IF Refused(c) THEN Closed ELSE Answered(x))
  /\ UnchangedService /\ UnchangedRest

send_xml(c) ==
  /\ Up(c, "reply")
  /\ Set(c, IF Refused(c) THEN Closed
            ELSE Answered(conn[c].xmlbuff))
  /\ UnchangedService /\ UnchangedRest

(***************************************************************************)
(* Looking for the service: the walk takes the mutex of each service that  *)
(* it passes, and waits for a request that holds it.                       *)
(***************************************************************************)
matching_service(c) ==
  /\ Up(c, "walk")
  /\ LET i == conn[c].walk
     IN  IF i > Len(service_head)
         THEN Set(c, send_error(c, conn[c]))
         ELSE /\ mutex[service_head[i]] = Free
              /\ Set(c, IF service_head[i] = Req(c).url
                        THEN [conn[c] EXCEPT !.at = "found"]
                        ELSE [conn[c] EXCEPT !.walk = i + 1])
  /\ UnchangedService /\ UnchangedRest

Walk(r) == [r EXCEPT !.at = "walk", !.walk = 1]

(***************************************************************************)
(* GET.                                                                    *)
(***************************************************************************)
\* Never an answer on the first call.
GetFirstCall(c) ==
  /\ Up(c, "call") /\ IsGet(c) /\ conn[c].cls # "aptr"
  /\ Set(c, NextCall([conn[c] EXCEPT !.cls = "aptr"]))
  /\ UnchangedService /\ UnchangedRest

\* The list of devices, the log and the event stream; the latter two may be
\* refused.  Any other URL is looked for among the services.
GetDispatch(c) ==
  /\ Up(c, "call") /\ IsGet(c)
  /\ IF Req(c).url \in {"/log", "/events", "/devices"}
     THEN Set(c, Answered(None)) \/ Set(c, Closed)
     ELSE Set(c, Walk([conn[c] EXCEPT !.cls = "NULL"]))
  /\ UnchangedService /\ UnchangedRest

\* A service is put into the list before it is put into the description, so
\* there may be nothing to send: one server closes the connection, the other
\* takes the length of NULL.
GetDescription(c) ==
  /\ Up(c, "found") /\ IsGet(c) /\ Req(c).arg = "x"
  /\ mutex[Req(c).url] = Free
  /\ \/ Set(c, [conn[c] EXCEPT !.at = "reply"]) /\ UNCHANGED crashed
     \/ /\ Req(c).url \in Late
        /\ IF secure THEN crashed' = "NULL xml" /\ UNCHANGED conn
           ELSE Set(c, Closed) /\ UNCHANGED crashed
  /\ UnchangedService
  /\ UNCHANGED <<secure, events, requests>>

\* subscribe_to_service takes the mutex of the service, and gives it back in
\* the same step: nothing in between waits.
GetSubscription(c) ==
  /\ Up(c, "found") /\ IsGet(c) /\ Req(c).arg = "p"
  /\ mutex[Req(c).url] = Free
  /\ Set(c, Answered(None)) \/ Set(c, Closed)
  /\ UnchangedService /\ UnchangedRest

\* The buffer is being written from here to the return of get_function.
GetLocks(c) ==
  /\ Up(c, "found") /\ IsGet(c) /\ Req(c).arg = "none"
  /\ mutex[Req(c).url] = Free
  /\ mutex' = [mutex EXCEPT ![Req(c).url] = c]
  /\ buffer' = [buffer EXCEPT ![Req(c).url] = Torn]
  /\ Set(c, [conn[c] EXCEPT !.at = "get"])
  /\ UNCHANGED <<value, writes>> /\ UnchangedRest

\* Mutant: the mutex stays locked when get_function fails.
GetEndsLocked(c) ==
  /\ Up(c, "get")
  /\ LET s == Req(c).url
     IN  \/ /\ buffer' = [buffer EXCEPT ![s] = value[s]]
            /\ Set(c, [conn[c] EXCEPT !.at = "reply", !.xmlbuff = value[s]])
            /\ mutex' = [mutex EXCEPT ![s] = Free]
         \/ /\ Set(c, send_error(c, conn[c]))
            /\ UNCHANGED <<buffer, mutex>>
  /\ UNCHANGED <<value, writes>> /\ UnchangedRest

\* get_function returns the length of what it wrote, 0 if it failed.
GetEnds(c) ==
  /\ Up(c, "get")
  /\ LET s == Req(c).url
     IN  /\ mutex' = [mutex EXCEPT ![s] = Free]
         /\ \/ /\ buffer' = [buffer EXCEPT ![s] = value[s]]
               /\ Set(c, [conn[c] EXCEPT !.at = "reply", !.xmlbuff = value[s]])
            \/ /\ Set(c, send_error(c, conn[c]))
               /\ UNCHANGED buffer
  /\ UNCHANGED <<value, writes>> /\ UnchangedRest

(***************************************************************************)
(* PUT.  The first piece of the body is kept, the next call uses it.       *)
(***************************************************************************)
PutKeepsBody(c, before) ==
  /\ Up(c, "call") /\ Req(c).method = "PUT" /\ conn[c].cls = before
  /\ Set(c, NextCall(IF conn[c].call = "data"
                     THEN [conn[c] EXCEPT !.cls = "upload"] ELSE conn[c]))
  /\ UnchangedService /\ UnchangedRest

PutBegins(c) ==
  /\ Up(c, "call") /\ Req(c).method = "PUT"
  /\ conn[c].cls \in {"upload", "freed"}
  /\ Set(c, Walk(conn[c]))
  /\ UnchangedService /\ UnchangedRest

\* A body that does not parse is an error, and so is a service without a
\* put_function; only the secure server has freed the body by then.
PutRejected(c) ==
  /\ Up(c, "found") /\ Req(c).method = "PUT"
  /\ Req(c).url \in ReadOnly \/ ~Req(c).good
  /\ mutex[Req(c).url] = Free
  /\ IF Req(c).url \notin ReadOnly /\ conn[c].cls = "freed"
     THEN crashed' = "upload" /\ UNCHANGED conn
     ELSE /\ Set(c, send_error(c, [conn[c] EXCEPT !.cls =
                    IF secure /\ Req(c).url \notin ReadOnly
                    THEN "freed" ELSE @]))
          /\ UNCHANGED crashed
  /\ UnchangedService
  /\ UNCHANGED <<secure, events, requests>>

PutLocks(c) ==
  /\ Up(c, "found") /\ Req(c).method = "PUT"
  /\ Req(c).url \notin ReadOnly /\ Req(c).good
  /\ mutex[Req(c).url] = Free
  /\ IF conn[c].cls = "freed"
     THEN crashed' = "upload" /\ UNCHANGED <<mutex, buffer, conn>>
     ELSE /\ mutex' = [mutex EXCEPT ![Req(c).url] = c]
          /\ buffer' = [buffer EXCEPT ![Req(c).url] = Torn]
          /\ Set(c, [conn[c] EXCEPT !.at = "put", !.cls = "freed"])
          /\ UNCHANGED crashed
  /\ UNCHANGED <<secure, value, writes, events, requests>>

\* Mutant: the event is sent before the result of put_function is looked at.
PutEndsTells(c) ==
  /\ Up(c, "put")
  /\ LET s == Req(c).url
     IN  /\ mutex' = [mutex EXCEPT ![s] = Free]
         /\ Set(c, [conn[c] EXCEPT !.at = "event", !.xmlbuff = Req(c).new])
         /\ \/ /\ value' = [value EXCEPT ![s] = Req(c).new]
               /\ buffer' = [buffer EXCEPT ![s] = Req(c).new]
               /\ writes' = [writes EXCEPT ![s] = Append(@, Req(c).new)]
            \/ UNCHANGED <<value, buffer, writes>>
  /\ UnchangedRest

PutEnds(c) ==
  /\ Up(c, "put")
  /\ LET s == Req(c).url
     IN  /\ mutex' = [mutex EXCEPT ![s] = Free]
         /\ \/ /\ value' = [value EXCEPT ![s] = Req(c).new]
               /\ buffer' = [buffer EXCEPT ![s] = Req(c).new]
               /\ writes' = [writes EXCEPT ![s] = Append(@, Req(c).new)]
               /\ Set(c, [conn[c] EXCEPT !.at = "event",
                                         !.xmlbuff = Req(c).new])
            \/ /\ Set(c, send_error(c, conn[c]))
               /\ UNCHANGED <<value, buffer, writes>>
  /\ UnchangedRest

\* send_event_of_value_change copies the buffer, which has been unlocked, and
\* then locks the global queue: two steps, and others may come in between.
create_event(c) ==
  /\ Up(c, "event")
  /\ Set(c, [conn[c] EXCEPT !.at = "queue", !.copy = buffer[Req(c).url]])
  /\ UnchangedService /\ UnchangedRest

queue_event(c) ==
  /\ Up(c, "queue")
  /\ events' = Append(events, [svc |-> Req(c).url, val |-> conn[c].copy,
                               put |-> Req(c).new])
  /\ Set(c, [conn[c] EXCEPT !.at = "reply"])
  /\ UnchangedService
  /\ UNCHANGED <<secure, requests, crashed>>

send_event_of_value_change(c) == create_event(c) \/ queue_event(c)

(***************************************************************************)
(* The handlers.                                                           *)
(***************************************************************************)
OtherMethod(c) ==
  /\ Up(c, "call") /\ Req(c).method = "POST"
  /\ Set(c, Closed)
  /\ UnchangedService /\ UnchangedRest

HandlesGet(c) ==
  GetDescription(c) \/ GetSubscription(c) \/ GetLocks(c) \/ GetEnds(c)

HandlesPut(c) ==
  PutBegins(c) \/ PutRejected(c) \/ PutLocks(c) \/ PutEnds(c)
    \/ send_event_of_value_change(c)

answer_to_connection(c) ==
  /\ ~secure
  /\ \/ GetFirstCall(c)
     \/ conn[c].cls = "aptr" /\ GetDispatch(c)
     \/ HandlesGet(c)
     \/ PutKeepsBody(c, "NULL")
     \/ HandlesPut(c)
     \/ OtherMethod(c)
     \/ matching_service(c)
     \/ send_xml(c)

\* The first call looks at the certificate of the client.
verify_certificate(c) ==
  /\ Up(c, "call") /\ conn[c].cls = "NULL"
  /\ Set(c, IF Req(c).trusted
            THEN NextCall([conn[c] EXCEPT !.cls = "continue"])
            ELSE send_error(c, conn[c]))
  /\ UnchangedService /\ UnchangedRest

secure_answer_to_connection(c) ==
  /\ secure
  /\ \/ verify_certificate(c)
     \/ conn[c].cls = "continue" /\ GetDispatch(c)
     \/ HandlesGet(c)
     \/ PutKeepsBody(c, "continue")
     \/ HandlesPut(c)
     \/ conn[c].cls # "NULL" /\ OtherMethod(c)
     \/ matching_service(c)
     \/ send_xml(c)

Handler(c) == answer_to_connection(c) \/ secure_answer_to_connection(c)

WebNext ==
  \E c \in Conn : MHDReceives(c) \/ Handler(c) \/ MHDCompletes(c)

WebSpec == WebInit /\ [][WebNext]_webVars

\* The thread of a connection runs, and gets a mutex that is freed again and
\* again; get_function and put_function return.
WebFairSpec == WebSpec /\ \A c \in Conn : SF_webVars(Handler(c))

TypeOK ==
  /\ secure \in BOOLEAN
  /\ conn \in [Conn ->
       [at : Places, req : (UNION {Requests(n) : n \in Values}) \cup {None},
        call : {"first", "data", "last"}, left : 0 .. MaxChunks,
        cls : {"NULL", "aptr", "continue", "upload", "freed"},
        walk : Nat, xmlbuff : Values \cup {None},
        copy : Values \cup {Torn, None}, heard : Values \cup {None}]]
  /\ mutex \in [Service -> Conn \cup {Free}]
  /\ value \in [Service -> Values]
  /\ buffer \in [Service -> Values \cup {Torn}]
  /\ events \in Seq([svc : Service, val : Values \cup {Torn}, put : Values])
  /\ writes \in [Service -> Seq(Values)]
  /\ requests \in Values
  /\ crashed \in {"no", "NULL xml", "upload"}

(***************************************************************************)
(* What must hold.                                                         *)
(***************************************************************************)
\* What a connection asks of the value of a service, and what it got of it.
OnValue(r) ==
  r.at \notin {"idle", "done"} /\ r.req.url \in Service /\ r.req.arg = "none"

Asking(r) ==
  IF OnValue(r) THEN [op |-> r.req.method, svc |-> r.req.url, new |-> r.req.new]
  ELSE None

Got(r) == IF r.at \in {"event", "queue", "reply"} THEN r.xmlbuff ELSE None

asked == [c \in Conn |-> Asking(conn[c])]

result == [c \in Conn |-> Got(conn[c])]

heard == [c \in Conn |-> conn[c].heard]

\* Requests of different connections on one value behave as if each had run
\* alone: an answer never carries what another request wrote into the shared
\* buffer meanwhile.
Register ==
  INSTANCE ServiceValue WITH value <- value, asked <- asked,
                             result <- result, heard <- heard

ImplementsValue == Register!ServiceValueSpec

\* Each value event is that of a successful PUT request, in any order. Although
\* the buffer is read after the unlock, an event carries no value that is older
\* than its own PUT (the buffer may be half written).
EventsAreWrites ==
  \A i \in 1 .. Len(events) :
    LET e == events[i]
    IN  \E m, n \in 1 .. Len(writes[e.svc]) :
          /\ m <= n /\ writes[e.svc][m] = e.put
          /\ e.val \in {Torn, writes[e.svc][n]}

Told(w) == {i \in 1 .. Len(events) : events[i].put = w}

\* Each successful PUT has one event, or none yet and is about to send it.
WritesAreTold ==
  \A s \in Service : \A m \in 1 .. Len(writes[s]) :
    LET w == writes[s][m]
    IN  \/ \E i \in Told(w) : Told(w) = {i}
        \/ /\ Told(w) = {}
           /\ \E c \in Conn : /\ conn[c].at \in {"event", "queue"}
                             /\ Req(c).new = w

\* The value events are the successful PUT requests, one each.
PutsAreTold == EventsAreWrites /\ WritesAreTold

\* The body of a PUT is freed by the call of the handler that uses it, and no
\* later call for the same request finds it: neither when the answer is refused
\* because the body is still coming in, nor after an error.
BodyUsedOnce == crashed # "upload"

\* Between two calls of the handler a request keeps memory that is its own.
RequestsAreSound == TypeOK /\ BodyUsedOnce

\* A request that a handler was called for is answered or its connection is
\* closed, whatever the functions of the application return: no path keeps the
\* mutex of a service. A PUT without a body is the exception in the code.
EveryRequestEnds ==
  \A c \in Conn :
    conn[c].at = "call" /\ (Req(c).method = "PUT" => Req(c).chunks > 0)
      ~> conn[c].at \in {"idle", "done"} \/ crashed # "no"
=============================================================================
