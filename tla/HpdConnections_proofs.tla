----------------------- MODULE HpdConnections_proofs ------------------------
(***************************************************************************)
(* Theorems about the request handlers of the web servers, for every       *)
(* number of connections, every list of services and every bound.          *)
(***************************************************************************)
EXTENDS HpdConnections, TLAPS

-----------------------------------------------------------------------------
(* Requests and connections.                                               *)

AllRequests == UNION {Requests(n) : n \in Values}

ConnRecords ==
  [at : Places, req : AllRequests \cup {None},
   call : {"first", "data", "last"}, left : 0 .. MaxChunks,
   cls : {"NULL", "aptr", "continue", "upload", "freed"},
   walk : Nat, xmlbuff : Values \cup {None},
   copy : Values \cup {Torn, None}, heard : Values \cup {None}]

(* A PUT writes the number of its request; only GET and PUT name services. *)
LEMMA RequestShape ==
  ASSUME NEW n \in Nat, NEW r \in Requests(n)
  PROVE  /\ r.method \in {"GET", "PUT", "POST"}
         /\ r.chunks \in 0 .. MaxChunks
         /\ r.new \in {0, n}
         /\ r.method = "PUT" => r.new = n /\ r.arg = "none"
         /\ r.method = "POST" => r.url \notin Service
  <1>1. CASE r \in Gets
    BY <1>1, ConnAssumption DEF Gets, Request
  <1>2. CASE r \in Puts(n)
    BY <1>2, ConnAssumption DEF Puts, Request
  <1>3. CASE r \in Others(n)
    BY <1>3, ConnAssumption DEF Others, Request
  <1> QED
    BY <1>1, <1>2, <1>3 DEF Requests

(* What a place in the handlers says of the rest of a connection, after n  *)
(* requests: in the walk and behind it there is a service, a body that was *)
(* freed is not met again, and a text is there only for an answer.         *)
Shape(r, n) ==
  /\ r \in ConnRecords
  /\ r.at \notin {"idle", "done"} =>
       /\ r.req \in AllRequests
       /\ r.req.new <= n
       /\ r.req.method = "PUT" => r.req.new \in 1 .. n /\ r.req.arg = "none"
       /\ r.req.method = "POST" => r.req.url \notin Service
  /\ r.at = "walk" => r.walk # 0
  /\ r.at \in {"found", "get", "put", "event", "queue", "reply"} =>
       r.req.url \in Service
  /\ r.at \in {"put", "event", "queue"} => r.req.method = "PUT"
  /\ r.at = "queue" => r.copy \in Values \cup {Torn}
  /\ r.at = "get" => r.req.method = "GET" /\ r.req.arg = "none"
  /\ r.cls = "freed" => r.at \in {"put", "event", "queue", "reply"}
  /\ r.at \notin {"event", "queue", "reply"} => r.xmlbuff = None
  /\ r.at = "reply" /\ r.req.arg # "none" => r.xmlbuff = None
  /\ r.at # "done" => r.heard = None

Shapes == \A c \in Conn : Shape(conn[c], requests)

\* The rest of the type invariant.
RestTypeOK ==
  /\ secure \in BOOLEAN
  /\ mutex \in [Service -> Conn \cup {Free}]
  /\ value \in [Service -> Values]
  /\ buffer \in [Service -> Values \cup {Torn}]
  /\ events \in Seq([svc : Service, val : Values \cup {Torn}, put : Values])
  /\ writes \in [Service -> Seq(Values)]
  /\ requests \in Values
  /\ crashed \in {"no", "NULL xml"}
  /\ conn \in [Conn -> ConnRecords]

ConnInv == RestTypeOK /\ Shapes

LEMMA ConnInvIsSound == ConnInv => RequestsAreSound
  <1> SUFFICES ASSUME ConnInv PROVE RequestsAreSound
    OBVIOUS
  <1>1. conn \in [Conn ->
          [at : Places, req : (UNION {Requests(n) : n \in Values}) \cup {None},
           call : {"first", "data", "last"}, left : 0 .. MaxChunks,
           cls : {"NULL", "aptr", "continue", "upload", "freed"},
           walk : Nat, xmlbuff : Values \cup {None},
           copy : Values \cup {Torn, None}, heard : Values \cup {None}]]
    BY Zenon DEF ConnInv, RestTypeOK, ConnRecords, AllRequests
  <1>2. crashed \in {"no", "NULL xml"}
    BY DEF ConnInv, RestTypeOK
  <1>3. TypeOK
    BY <1>1, <1>2, Zenon DEF ConnInv, RestTypeOK, TypeOK
  <1> QED
    BY <1>2, <1>3 DEF RequestsAreSound, BodyUsedOnce

(* Answers and closed connections have a shape of their own.               *)
LEMMA EndShapes ==
  ASSUME NEW n \in Values
  PROVE  /\ Shape(NoRequest, n)
         /\ \A x \in Values \cup {None} : Shape(Answered(x), n)
  <1>1. NoRequest \in ConnRecords
    BY ConnAssumption DEF NoRequest, ConnRecords, Places
  <1>2. ASSUME NEW x \in Values \cup {None} PROVE Shape(Answered(x), n)
    <2> DEFINE r == Answered(x)
    <2>0. r = [NoRequest EXCEPT !.at = "done", !.heard = x]
      BY DEF Answered
    <2> HIDE DEF r
    <2>1. /\ r \in ConnRecords
          /\ r.at = "done" /\ r.cls = NoRequest.cls
          /\ r.xmlbuff = NoRequest.xmlbuff
      BY <1>1, <1>2, <2>0 DEF ConnRecords, Places
    <2>2. NoRequest.cls = "NULL" /\ NoRequest.xmlbuff = None
      BY DEF NoRequest
    <2>3. r.cls # "freed" /\ r.xmlbuff = None
      BY <2>1, <2>2
    <2>4. Shape(r, n)
      BY <2>1, <2>3 DEF Shape
    <2> QED
      BY <2>4 DEF r
  <1>3. Shape(NoRequest, n)
    BY <1>1 DEF Shape, NoRequest
  <1> QED
    BY <1>2, <1>3

(* The next call of the handler finds the same request.                    *)
LEMMA NextCallShape ==
  ASSUME NEW n \in Values, NEW r, Shape(r, n), r.at = "call"
  PROVE  Shape(NextCall(r), n)
  <1> DEFINE d == [r EXCEPT !.at = "call", !.call = "data", !.left = @ - 1]
             h == [r EXCEPT !.at = "hung"]
             l == [r EXCEPT !.at = "call", !.call = "last"]
  <1>0. r \in ConnRecords
    BY DEF Shape
  <1>1. ASSUME r.left > 0 PROVE Shape(d, n)
    <2>0. r.left - 1 \in 0 .. MaxChunks
      BY <1>0, <1>1, ConnAssumption DEF ConnRecords
    <2>1. /\ d \in ConnRecords
          /\ d.at = "call" /\ d.cls = r.cls /\ d.xmlbuff = r.xmlbuff
          /\ d.heard = r.heard /\ d.req = r.req
      BY <1>0, <2>0 DEF ConnRecords
    <2> HIDE DEF d
    <2> QED
      BY <2>1 DEF Shape
  <1>2. Shape(h, n)
    <2>1. /\ h \in ConnRecords
          /\ h.at = "hung" /\ h.cls = r.cls /\ h.xmlbuff = r.xmlbuff
          /\ h.heard = r.heard /\ h.req = r.req
      BY <1>0 DEF ConnRecords, Places
    <2> HIDE DEF h
    <2> QED
      BY <2>1 DEF Shape
  <1>3. Shape(l, n)
    <2>1. /\ l \in ConnRecords
          /\ l.at = "call" /\ l.cls = r.cls /\ l.xmlbuff = r.xmlbuff
          /\ l.heard = r.heard /\ l.req = r.req
      BY <1>0 DEF ConnRecords
    <2> HIDE DEF l
    <2> QED
      BY <2>1 DEF Shape
  <1> QED
    BY <1>1, <1>2, <1>3 DEF NextCall

(* A step of one connection.                                               *)
LEMMA SetShape ==
  ASSUME ConnInv, NEW c \in Conn, NEW r, Set(c, r), Shape(r, requests'),
         requests' \in Values, requests <= requests'
  PROVE  Shapes' /\ conn' \in [Conn -> ConnRecords]
  <1>1. r \in ConnRecords
    BY DEF Shape
  <1>2. conn' \in [Conn -> ConnRecords] /\ conn'[c] = r
        /\ \A d \in Conn : d # c => conn'[d] = conn[d]
    BY <1>1 DEF Set, ConnInv, RestTypeOK
  <1>3. ASSUME NEW d \in Conn PROVE Shape(conn[d], requests')
    <2>0. requests \in Values
      BY DEF ConnInv, RestTypeOK
    <2>1. Shape(conn[d], requests) /\ requests \in Nat /\ requests' \in Nat
      BY <2>0, ConnAssumption DEF ConnInv, Shapes, Values
    <2>2. conn[d].at \notin {"idle", "done"} => conn[d].req.new \in Nat
      <3>1. ASSUME NEW n \in Values, NEW q \in Requests(n)
            PROVE  q.new \in Nat
        BY RequestShape DEF Values
      <3> QED
        BY <2>1, <3>1 DEF Shape, AllRequests
    <2>3. ASSUME conn[d].at \notin {"idle", "done"}
          PROVE  /\ conn[d].req.new <= requests'
                 /\ conn[d].req.method = "PUT" => conn[d].req.new \in 1 .. requests'
      BY <2>1, <2>2, <2>3 DEF Shape
    <2> QED
      BY <2>1, <2>3 DEF Shape
  <1> QED
    BY <1>2, <1>3 DEF Shapes

LEMMA SetKeepsInv ==
  ASSUME ConnInv, NEW c \in Conn, NEW r, Set(c, r), Shape(r, requests),
         UnchangedService, UNCHANGED <<secure, events, requests>>,
         crashed' \in {"no", "NULL xml"}
  PROVE  ConnInv'
  <1>0. requests \in Values /\ MaxRequests \in Nat
    BY ConnAssumption DEF ConnInv, RestTypeOK
  <1>1. requests' = requests
    OBVIOUS
  <1>2. requests' \in Values /\ requests <= requests'
    BY ONLY <1>0, <1>1 DEF Values
  <1>3. Shapes' /\ conn' \in [Conn -> ConnRecords]
    BY <1>1, <1>2, SetShape
  <1> QED
    BY <1>2, <1>3 DEF ConnInv, RestTypeOK, UnchangedService

(* libmicrohttpd brings a request and takes away an answer.                *)
LEMMA MHDKeepsInv ==
  ASSUME ConnInv, NEW c \in Conn, MHDReceives(c) \/ MHDCompletes(c)
  PROVE  ConnInv'
  <1>0. requests \in Values /\ MaxRequests \in Nat
    BY ConnAssumption DEF ConnInv, RestTypeOK
  <1>1. CASE MHDReceives(c)
    <2> USE <1>1 DEF MHDReceives
    <2>0. requests' = requests + 1 /\ requests < MaxRequests
      OBVIOUS
    <2>1. /\ requests' = requests + 1 /\ requests' \in Values
          /\ requests <= requests' /\ requests' \in Nat /\ requests' >= 1
      BY ONLY <1>0, <2>0 DEF Values
    <2>2. PICK q \in Requests(requests') :
            Set(c, [conn[c] EXCEPT !.at = "call", !.req = q,
                                   !.left = q.chunks])
      BY <2>1
    <2>3. /\ q.method \in {"GET", "PUT", "POST"}
          /\ q.chunks \in 0 .. MaxChunks
          /\ q.new \in {0, requests'}
          /\ q.method = "PUT" => q.new = requests' /\ q.arg = "none"
          /\ q.method = "POST" => q.url \notin Service
      BY <2>1, <2>2, RequestShape
    <2>4. q \in AllRequests
      BY <2>1, <2>2 DEF AllRequests
    <2> DEFINE old == conn[c]
               r == [old EXCEPT !.at = "call", !.req = q, !.left = q.chunks]
    <2>5. Shape(old, requests) /\ old.at = "idle" /\ old \in ConnRecords
      BY DEF ConnInv, Shapes, Up, Shape
    <2>6. Set(c, r)
      BY <2>2
    <2> HIDE DEF old
    <2>7. /\ r \in ConnRecords /\ r.at = "call" /\ r.req = q
          /\ r.cls = old.cls /\ r.xmlbuff = old.xmlbuff /\ r.heard = old.heard
      BY <2>3, <2>4, <2>5 DEF ConnRecords, Places
    <2> HIDE DEF r
    <2>8. q.new <= requests' /\ (q.method = "PUT" => q.new \in 1 .. requests')
      BY ONLY <2>1, <2>3
    <2>9. Shape(r, requests')
      BY <2>3, <2>4, <2>5, <2>7, <2>8 DEF Shape
    <2>10. Shapes' /\ conn' \in [Conn -> ConnRecords]
      BY <2>1, <2>6, <2>9, SetShape
    <2> QED
      BY <2>1, <2>10 DEF ConnInv, RestTypeOK, UnchangedService
  <1>2. CASE MHDCompletes(c)
    <2>1. Shape(Closed, requests)
      BY <1>0, EndShapes DEF Closed
    <2> QED
      BY <1>2, <2>1, SetKeepsInv
         DEF MHDCompletes, UnchangedRest, ConnInv, RestTypeOK
  <1> QED
    BY <1>1, <1>2

\* The steps that look at the request and choose what to do with it.
Chooses(c) ==
  \/ GetFirstCall(c)
  \/ GetDispatch(c)
  \/ matching_service(c)
  \/ GetSubscription(c)
  \/ PutKeepsBody(c, "NULL") \/ PutKeepsBody(c, "continue")
  \/ PutBegins(c)
  \/ OtherMethod(c)
  \/ verify_certificate(c)
  \/ send_xml(c)
  \/ create_event(c)

\* The steps that touch the value, the buffer, the events or the fault.
Works(c) ==
  \/ GetDescription(c) \/ GetLocks(c) \/ GetEnds(c)
  \/ PutRejected(c) \/ PutLocks(c) \/ PutEnds(c)
  \/ queue_event(c)

LEMMA HandlerIsEither ==
  ASSUME NEW c \in Conn, Handler(c)
  PROVE  Chooses(c) \/ Works(c)
  BY DEF Handler, answer_to_connection, secure_answer_to_connection,
         HandlesGet, HandlesPut, send_event_of_value_change, Chooses, Works

LEMMA ChoosesUnchanged ==
  ASSUME NEW c \in Conn, Chooses(c)
  PROVE  UnchangedService /\ UnchangedRest /\ crashed = "no"
  BY DEF Chooses, GetFirstCall, GetDispatch, matching_service, GetSubscription,
         PutKeepsBody, PutBegins, OtherMethod, verify_certificate, send_xml,
         create_event, Up

(* Where such a step leaves the connection.                                *)
LEMMA ChoosesShape ==
  ASSUME ConnInv, NEW c \in Conn, Chooses(c)
  PROVE  \E r : Set(c, r) /\ Shape(r, requests)
  <1> DEFINE q == conn[c]
  <1>0. requests \in Values
    BY DEF ConnInv, RestTypeOK
  <1>1. Shape(q, requests) /\ q \in ConnRecords
    BY DEF ConnInv, Shapes, Shape
  <1>2. Shape(Closed, requests) /\ Shape(Answered(None), requests)
    BY <1>0, EndShapes DEF Closed
  <1> HIDE DEF q
  <1>3. \A e : Shape(send_error(c, e), requests)
    BY <1>2 DEF send_error
  <1>4. ASSUME q.at = "call",
               NEW k \in {"aptr", "continue", "upload", "NULL"}
        PROVE  Shape(NextCall([q EXCEPT !.cls = k]), requests)
    <2> DEFINE r == [q EXCEPT !.cls = k]
    <2>1. /\ r \in ConnRecords /\ r.at = "call" /\ r.cls = k
          /\ r.req = q.req /\ r.xmlbuff = q.xmlbuff /\ r.heard = q.heard
      BY <1>1, <1>4 DEF ConnRecords
    <2> HIDE DEF r
    <2>2. Shape(r, requests)
      BY <1>1, <1>4, <2>1 DEF Shape
    <2>3. Shape(NextCall(r), requests)
      BY <1>0, <2>1, <2>2, NextCallShape
    <2> QED
      BY <2>3 DEF r
  <1>5. ASSUME NEW e, Shape(e, requests), e.at = "call"
        PROVE  Shape(Walk(e), requests)
    <2> DEFINE r == [e EXCEPT !.at = "walk", !.walk = 1]
    <2>1. /\ r \in ConnRecords /\ r.at = "walk" /\ r.walk = 1 /\ r.cls = e.cls
          /\ r.req = e.req /\ r.xmlbuff = e.xmlbuff /\ r.heard = e.heard
      BY <1>5 DEF ConnRecords, Places, Shape
    <2> HIDE DEF r
    <2>2. Shape(r, requests)
      BY <1>5, <2>1 DEF Shape
    <2> QED
      BY <2>2 DEF r, Walk
  <1>6. CASE GetFirstCall(c)
    BY <1>4, <1>6 DEF GetFirstCall, Up, q
  <1>7. CASE GetDispatch(c)
    <2> DEFINE e == [q EXCEPT !.cls = "NULL"]
    <2>1. q.at = "call"
      BY <1>7 DEF GetDispatch, Up, q
    <2>2. /\ e \in ConnRecords /\ e.at = "call" /\ e.cls = "NULL"
          /\ e.req = q.req /\ e.xmlbuff = q.xmlbuff /\ e.heard = q.heard
      BY <1>1, <2>1 DEF ConnRecords
    <2> HIDE DEF e
    <2>3. Shape(e, requests)
      BY <1>1, <2>1, <2>2 DEF Shape
    <2>4. Shape(Walk(e), requests)
      BY <1>5, <2>2, <2>3
    <2>5. \/ Set(c, Answered(None)) \/ Set(c, Closed) \/ Set(c, Walk(e))
      BY <1>7 DEF GetDispatch, e, q
    <2> QED
      BY <1>2, <2>4, <2>5
  <1>8. CASE matching_service(c)
    <2> DEFINE f == [q EXCEPT !.at = "found"]
               g == [q EXCEPT !.walk = q.walk + 1]
    <2>1. q.at = "walk" /\ q.walk \in Nat /\ q.walk # 0
      BY <1>1, <1>8 DEF matching_service, Up, q, Shape, ConnRecords
    <2>2. \/ Set(c, send_error(c, q))
          \/ /\ q.walk <= Len(service_head)
             /\ \/ Set(c, f) /\ service_head[q.walk] = q.req.url
                \/ Set(c, g)
      BY <1>8, <2>1, ConnAssumption DEF matching_service, q, Req
    <2>3. q.walk <= Len(service_head) => service_head[q.walk] \in Service
      BY <2>1, ConnAssumption
    <2>4. ASSUME q.req.url \in Service PROVE Shape(f, requests)
      <3>1. /\ f \in ConnRecords /\ f.at = "found" /\ f.cls = q.cls
            /\ f.req = q.req /\ f.xmlbuff = q.xmlbuff /\ f.heard = q.heard
        BY <1>1 DEF ConnRecords, Places
      <3> HIDE DEF f
      <3> QED
        BY <1>1, <2>1, <2>4, <3>1 DEF Shape
    <2>5. Shape(g, requests)
      <3>1. q.walk + 1 \in Nat /\ q.walk + 1 # 0
        BY <2>1
      <3>2. /\ g \in ConnRecords /\ g.at = "walk" /\ g.cls = q.cls
            /\ g.req = q.req /\ g.xmlbuff = q.xmlbuff /\ g.heard = q.heard
            /\ g.walk = q.walk + 1
        BY <1>1, <2>1, <3>1 DEF ConnRecords
      <3> HIDE DEF g
      <3> QED
        BY <1>1, <2>1, <3>1, <3>2 DEF Shape
    <2> HIDE DEF f, g
    <2> QED
      BY <1>3, <2>2, <2>3, <2>4, <2>5
  <1>9. CASE GetSubscription(c)
    BY <1>2, <1>9 DEF GetSubscription
  <1>10. ASSUME NEW before \in {"NULL", "continue"}, PutKeepsBody(c, before)
         PROVE  \E r : Set(c, r) /\ Shape(r, requests)
    <2>1. q.at = "call"
      BY <1>10 DEF PutKeepsBody, Up, q
    <2>2. \/ Set(c, NextCall([q EXCEPT !.cls = "upload"]))
          \/ Set(c, NextCall(q))
      BY <1>10 DEF PutKeepsBody, q
    <2>3. Shape(NextCall(q), requests)
      BY <1>0, <1>1, <2>1, NextCallShape
    <2> QED
      BY <1>4, <2>1, <2>2, <2>3
  <1>11. CASE PutBegins(c)
    BY <1>1, <1>5, <1>11 DEF PutBegins, Up, q
  <1>12. CASE OtherMethod(c)
    BY <1>2, <1>12 DEF OtherMethod
  <1>13. CASE verify_certificate(c)
    <2>1. q.at = "call"
      BY <1>13 DEF verify_certificate, Up, q
    <2>2. \/ Set(c, NextCall([q EXCEPT !.cls = "continue"]))
          \/ Set(c, send_error(c, q))
      BY <1>13 DEF verify_certificate, q
    <2> QED
      BY <1>3, <1>4, <2>1, <2>2
  <1>14. CASE send_xml(c)
    <2>1. Set(c, Closed) \/ Set(c, Answered(q.xmlbuff))
      BY <1>14 DEF send_xml, q
    <2>2. q.xmlbuff \in Values \cup {None}
      BY <1>1 DEF ConnRecords
    <2> QED
      BY <1>0, <1>2, <2>1, <2>2, EndShapes
  <1>15. CASE create_event(c)
    <2> DEFINE x == buffer[q.req.url]
               r == [q EXCEPT !.at = "queue", !.copy = x]
    <2>1. q.at = "event" /\ Set(c, r)
      BY <1>15 DEF create_event, Up, q, Req
    <2>2. x \in Values \cup {Torn}
      BY <1>1, <2>1 DEF Shape, ConnInv, RestTypeOK
    <2> HIDE DEF x
    <2>3. /\ r \in ConnRecords /\ r.at = "queue" /\ r.cls = q.cls
          /\ r.req = q.req /\ r.xmlbuff = q.xmlbuff /\ r.heard = q.heard
          /\ r.copy = x
      BY <1>1, <2>2 DEF ConnRecords, Places
    <2> HIDE DEF r
    <2>4. Shape(r, requests)
      BY <1>1, <2>1, <2>2, <2>3 DEF Shape
    <2> QED
      BY <2>1, <2>4
  <1> QED
    BY <1>6, <1>7, <1>8, <1>9, <1>10, <1>11, <1>12, <1>13, <1>14, <1>15
       DEF Chooses

(* What the work on a service writes has its type.                         *)
LEMMA WorksKeepsInv ==
  ASSUME ConnInv, NEW c \in Conn, Works(c)
  PROVE  ConnInv'
  <1> DEFINE q == conn[c]
             s == q.req.url
  <1>r. requests \in Values
    BY DEF ConnInv, RestTypeOK
  <1>0. /\ requests \in Values /\ RestTypeOK
        /\ secure \in BOOLEAN
        /\ mutex \in [Service -> Conn \cup {Free}]
        /\ value \in [Service -> Values]
        /\ buffer \in [Service -> Values \cup {Torn}]
        /\ events \in Seq([svc : Service, val : Values \cup {Torn},
                           put : Values])
        /\ writes \in [Service -> Seq(Values)]
        /\ crashed \in {"no", "NULL xml"}
    BY DEF ConnInv, RestTypeOK
  <1>1. Shape(q, requests) /\ q \in ConnRecords
    BY DEF ConnInv, Shapes, Shape
  <1>2. Shape(Closed, requests) /\ Shape(Answered(None), requests)
    BY <1>0, EndShapes DEF Closed
  <1> HIDE DEF q
  <1>3. \A e : Shape(send_error(c, e), requests)
    BY <1>2 DEF send_error
  <1>4. q.at \in {"found", "get", "put", "queue"} => s \in Service
    BY <1>1 DEF Shape
  <1>5. ASSUME NEW r, Set(c, r), Shape(r, requests), requests' = requests
        PROVE  Shapes' /\ conn' \in [Conn -> ConnRecords]
    <2>1. requests' \in Values /\ requests <= requests'
      <3>1. MaxRequests \in Nat
        BY ConnAssumption
      <3>2. requests' = requests
        BY <1>5
      <3> QED
        BY ONLY <1>r, <3>1, <3>2 DEF Values
    <2> QED
      BY <1>5, <2>1, SetShape
  <1> HIDE DEF s
  <1>6. CASE GetDescription(c)
    <2> DEFINE r == [q EXCEPT !.at = "reply"]
    <2>1. q.at = "found" /\ q.req.arg = "x"
      BY <1>6 DEF GetDescription, Up, Req, q
    <2>2. /\ r \in ConnRecords /\ r.at = "reply" /\ r.cls = q.cls
          /\ r.req = q.req /\ r.xmlbuff = q.xmlbuff /\ r.heard = q.heard
      BY <1>1 DEF ConnRecords, Places
    <2> HIDE DEF r
    <2>3. Shape(r, requests)
      BY <1>1, <2>1, <2>2 DEF Shape
    <2>4. /\ UnchangedService /\ UNCHANGED <<secure, events, requests>>
          /\ crashed' \in {"no", "NULL xml"}
      BY <1>0, <1>6 DEF GetDescription
    <2>5. Set(c, r) \/ Set(c, Closed) \/ UNCHANGED conn
      BY <1>6 DEF GetDescription, q, r
    <2>6. CASE UNCHANGED conn
      BY <1>0, <2>4, <2>6 DEF ConnInv, Shapes, RestTypeOK, UnchangedService
    <2> QED
      BY <1>2, <2>3, <2>4, <2>5, <2>6, SetKeepsInv
  <1>7. CASE GetLocks(c)
    <2> DEFINE r == [q EXCEPT !.at = "get"]
    <2>1. q.at = "found" /\ q.req.arg = "none" /\ q.req.method = "GET"
      BY <1>7 DEF GetLocks, Up, Req, IsGet, q
    <2>2. /\ r \in ConnRecords /\ r.at = "get" /\ r.cls = q.cls
          /\ r.req = q.req /\ r.xmlbuff = q.xmlbuff /\ r.heard = q.heard
      BY <1>1 DEF ConnRecords, Places
    <2>3. Set(c, r)
      BY <1>7 DEF GetLocks, q
    <2> HIDE DEF r
    <2>4. Shape(r, requests)
      BY <1>1, <2>1, <2>2 DEF Shape
    <2>5. mutex' \in [Service -> Conn \cup {Free}]
          /\ buffer' \in [Service -> Values \cup {Torn}]
          /\ requests' = requests
      BY <1>0, <1>7 DEF GetLocks, UnchangedRest
    <2>6. Shapes' /\ conn' \in [Conn -> ConnRecords]
      BY <1>5, <2>3, <2>4, <2>5
    <2> QED
      BY <1>0, <1>7, <2>5, <2>6 DEF GetLocks, UnchangedRest, ConnInv, RestTypeOK
  <1>8. CASE GetEnds(c)
    <2> DEFINE r == [q EXCEPT !.at = "reply", !.xmlbuff = value[s]]
    <2>1. q.at = "get" /\ s \in Service
      BY <1>4, <1>8 DEF GetEnds, Up, q
    <2>2. value[s] \in Values
      BY <1>0, <2>1
    <2>3. /\ r \in ConnRecords /\ r.at = "reply" /\ r.cls = q.cls
          /\ r.req = q.req /\ r.heard = q.heard
      BY <1>1, <2>2 DEF ConnRecords, Places
    <2>4. Set(c, r) \/ Set(c, send_error(c, q))
      BY <1>8 DEF GetEnds, Req, q, s
    <2> HIDE DEF r
    <2>5. Shape(r, requests)
      BY <1>1, <2>1, <2>3 DEF Shape
    <2>6. /\ mutex' = [mutex EXCEPT ![s] = Free]
          /\ buffer' = [buffer EXCEPT ![s] = value[s]] \/ buffer' = buffer
          /\ UNCHANGED <<secure, value, events, writes, requests, crashed>>
      BY <1>8 DEF GetEnds, Req, q, s, UnchangedRest
    <2>7. mutex' \in [Service -> Conn \cup {Free}]
          /\ buffer' \in [Service -> Values \cup {Torn}]
      BY <1>0, <2>2, <2>6
    <2>8. Shapes' /\ conn' \in [Conn -> ConnRecords]
      BY <1>3, <1>5, <2>4, <2>5, <2>6
    <2> QED
      BY <1>0, <2>6, <2>7, <2>8 DEF ConnInv, RestTypeOK
  <1>9. CASE PutRejected(c)
    <2>1. q.at = "found" /\ q.cls # "freed"
      BY <1>1, <1>9 DEF PutRejected, Up, q, Shape
    <2>2. /\ UnchangedService /\ UNCHANGED <<secure, events, requests, crashed>>
          /\ \E e : Set(c, send_error(c, e))
      BY <1>9, <2>1 DEF PutRejected, q
    <2> QED
      BY <1>0, <1>3, <2>2, SetKeepsInv
  <1>10. CASE PutLocks(c)
    <2> DEFINE r == [q EXCEPT !.at = "put", !.cls = "freed"]
    <2>1. q.at = "found" /\ q.cls # "freed" /\ q.req.method = "PUT"
      BY <1>1, <1>10 DEF PutLocks, Up, Req, q, Shape
    <2>2. /\ r \in ConnRecords /\ r.at = "put" /\ r.cls = "freed"
          /\ r.req = q.req /\ r.xmlbuff = q.xmlbuff /\ r.heard = q.heard
      BY <1>1 DEF ConnRecords, Places
    <2>3. Set(c, r) /\ crashed' = crashed
          /\ mutex' = [mutex EXCEPT ![s] = c]
          /\ buffer' = [buffer EXCEPT ![s] = Torn]
          /\ UNCHANGED <<secure, value, writes, events, requests>>
      BY <1>10, <2>1 DEF PutLocks, Req, q, s
    <2> HIDE DEF r
    <2>4. Shape(r, requests)
      BY <1>1, <2>1, <2>2 DEF Shape
    <2>5. mutex' \in [Service -> Conn \cup {Free}]
          /\ buffer' \in [Service -> Values \cup {Torn}]
      BY <1>0, <2>3
    <2>6. Shapes' /\ conn' \in [Conn -> ConnRecords]
      BY <1>5, <2>3, <2>4
    <2> QED
      BY <1>0, <2>3, <2>5, <2>6 DEF ConnInv, RestTypeOK
  <1>11. CASE PutEnds(c)
    <2> DEFINE n == q.req.new
               r == [q EXCEPT !.at = "event", !.xmlbuff = n]
    <2>1. q.at = "put" /\ s \in Service /\ q.req.method = "PUT"
      BY <1>1, <1>4, <1>11 DEF PutEnds, Up, q, Shape
    <2>2. n \in Values
      <3>1. n \in 1 .. requests
        BY <1>1, <2>1 DEF Shape
      <3>2. MaxRequests \in Nat
        BY ConnAssumption
      <3> QED
        BY ONLY <1>r, <3>1, <3>2 DEF Values
    <2>3. Set(c, r) \/ Set(c, send_error(c, q))
      BY <1>11 DEF PutEnds, Req, q
    <2>4. /\ mutex' = [mutex EXCEPT ![s] = Free]
          /\ value' = [value EXCEPT ![s] = n] \/ value' = value
          /\ buffer' = [buffer EXCEPT ![s] = n] \/ buffer' = buffer
          /\ writes' = [writes EXCEPT ![s] = Append(@, n)] \/ writes' = writes
          /\ UNCHANGED <<secure, events, requests, crashed>>
      BY <1>11 DEF PutEnds, Req, q, s, UnchangedRest
    <2> HIDE DEF n
    <2>5. /\ r \in ConnRecords /\ r.at = "event" /\ r.cls = q.cls
          /\ r.req = q.req /\ r.heard = q.heard
      BY <1>1, <2>2 DEF ConnRecords, Places
    <2> HIDE DEF r
    <2>6. Shape(r, requests)
      BY <1>1, <2>1, <2>5 DEF Shape
    <2>7. writes' \in [Service -> Seq(Values)]
      <3> DEFINE w == Append(writes[s], n)
      <3>1. writes \in [Service -> Seq(Values)] /\ writes[s] \in Seq(Values)
        BY <1>0, <2>1
      <3>2. w \in Seq(Values)
        BY ONLY <2>2, <3>1
      <3>3. writes' = [writes EXCEPT ![s] = w] \/ writes' = writes
        BY <2>4
      <3> HIDE DEF w
      <3> QED
        BY ONLY <3>1, <3>2, <3>3
    <2>8. /\ mutex' \in [Service -> Conn \cup {Free}]
          /\ buffer' \in [Service -> Values \cup {Torn}]
          /\ value' \in [Service -> Values]
      BY <1>0, <2>2, <2>4
    <2>9. Shapes' /\ conn' \in [Conn -> ConnRecords]
      BY <1>3, <1>5, <2>3, <2>4, <2>6
    <2> QED
      BY <1>0, <2>4, <2>7, <2>8, <2>9 DEF ConnInv, RestTypeOK
  <1>12. CASE queue_event(c)
    <2> DEFINE r == [q EXCEPT !.at = "reply"]
               e == [svc |-> s, val |-> q.copy, put |-> q.req.new]
    <2>1. q.at = "queue" /\ s \in Service /\ q.req.method = "PUT"
          /\ q.req.arg = "none"
      BY <1>1, <1>4, <1>12 DEF queue_event, Up, q, Shape
    <2>2. q.req.new \in Values
      <3>1. q.req.new \in 1 .. requests
        BY <1>1, <2>1 DEF Shape
      <3>2. MaxRequests \in Nat
        BY ConnAssumption
      <3> QED
        BY ONLY <1>r, <3>1, <3>2 DEF Values
    <2>3. e \in [svc : Service, val : Values \cup {Torn}, put : Values]
      BY <1>1, <2>1, <2>2 DEF Shape
    <2>4. /\ Set(c, r) /\ events' = Append(events, e)
          /\ UnchangedService /\ UNCHANGED <<secure, requests, crashed>>
      BY <1>12 DEF queue_event, Req, q, s
    <2> HIDE DEF e
    <2>5. events' \in Seq([svc : Service, val : Values \cup {Torn},
                           put : Values])
      <3> DEFINE R == [svc : Service, val : Values \cup {Torn}, put : Values]
      <3>1. events \in Seq(R) /\ e \in R /\ events' = Append(events, e)
        BY <1>0, <2>3, <2>4
      <3> HIDE DEF R
      <3>2. events' \in Seq(R)
        BY ONLY <3>1
      <3> QED
        BY <3>2 DEF R
    <2>6. /\ r \in ConnRecords /\ r.at = "reply" /\ r.cls = q.cls
          /\ r.req = q.req /\ r.xmlbuff = q.xmlbuff /\ r.heard = q.heard
      BY <1>1 DEF ConnRecords, Places
    <2> HIDE DEF r
    <2>7. Shape(r, requests)
      BY <1>1, <2>1, <2>6 DEF Shape
    <2>8. Shapes' /\ conn' \in [Conn -> ConnRecords]
      BY <1>5, <2>4, <2>7
    <2> QED
      BY <1>0, <2>4, <2>5, <2>8 DEF ConnInv, RestTypeOK, UnchangedService
  <1> QED
    BY <1>6, <1>7, <1>8, <1>9, <1>10, <1>11, <1>12 DEF Works

LEMMA ConnInit == WebInit => ConnInv
  <1> SUFFICES ASSUME WebInit PROVE ConnInv
    OBVIOUS
  <1>1. MaxRequests \in Nat /\ 0 \in Values
    BY ConnAssumption DEF Values
  <1>2. Shape(NoRequest, 0) /\ NoRequest \in ConnRecords
    BY <1>1, EndShapes DEF Shape
  <1>3. conn \in [Conn -> ConnRecords] /\ Shapes
    BY <1>2 DEF WebInit, Shapes
  <1> QED
    BY <1>1, <1>3 DEF WebInit, ConnInv, RestTypeOK

LEMMA ConnStep == ConnInv /\ [WebNext]_webVars => ConnInv'
  <1> SUFFICES ASSUME ConnInv, [WebNext]_webVars PROVE ConnInv'
    OBVIOUS
  <1>1. ASSUME NEW c \in Conn, Chooses(c) PROVE ConnInv'
    <2>1. PICK r : Set(c, r) /\ Shape(r, requests)
      BY <1>1, ChoosesShape
    <2>2. UnchangedService /\ UNCHANGED <<secure, events, requests, crashed>>
          /\ crashed = "no"
      BY <1>1, ChoosesUnchanged DEF UnchangedRest
    <2> QED
      BY <2>1, <2>2, SetKeepsInv
  <1>2. CASE UNCHANGED webVars
    BY <1>2 DEF webVars, ConnInv, RestTypeOK, Shapes
  <1> QED
    BY <1>1, <1>2, MHDKeepsInv, WorksKeepsInv, HandlerIsEither DEF WebNext

LEMMA ConnAlways == WebSpec => []ConnInv
  BY ConnInit, ConnStep, PTL DEF WebSpec

(* Whatever the clients send and the application's functions return, a     *)
(* body that was freed is never met again (hpd_http_web_server.c,          *)
(* hpd_https_web_server.c).                                                *)
THEOREM RequestsCorrect == WebSpec => []RequestsAreSound
  BY ConnAlways, ConnInvIsSound, PTL

-----------------------------------------------------------------------------
(* Every step is a step of the abstract register, or none (ServiceValue).  *)

\* The handler goes on with the request, and has got nothing new.
Moves(q, r) ==
  /\ q.at \notin {"idle", "done"} /\ r.at \notin {"idle", "done"}
  /\ r.req = q.req /\ r.heard = q.heard /\ Got(r) = Got(q)
  /\ q.at \in {"event", "queue", "reply"} => r.at \in {"event", "queue", "reply"}
  /\ q.at = "queue" \/ (q.at = "event" <=> r.at \in {"event", "queue"})

\* The request ends, with an answer or without.
Ends(q, r) ==
  /\ q.at \notin {"idle", "done", "event", "queue"}
  /\ \/ r \in {Closed, Answered(None)}
     \/ q.at = "reply" /\ r = Answered(q.xmlbuff)

LEMMA SetMaps ==
  ASSUME ConnInv, NEW c \in Conn, NEW r, Set(c, r)
  PROVE  /\ asked' = [asked EXCEPT ![c] = Asking(r)]
         /\ result' = [result EXCEPT ![c] = Got(r)]
         /\ heard' = [heard EXCEPT ![c] = r.heard]
         /\ asked[c] = Asking(conn[c]) /\ result[c] = Got(conn[c])
         /\ heard[c] = conn[c].heard
  <1>1. conn' = [conn EXCEPT ![c] = r] /\ conn \in [Conn -> ConnRecords]
    BY DEF ConnInv, RestTypeOK, Set
  <1>2. \A d \in Conn : conn'[d] = IF d = c THEN r ELSE conn[d]
    BY <1>1
  <1>3. asked' = [d \in Conn |-> Asking(conn'[d])]
    BY Zenon DEF asked, Asking, OnValue
  <1>4. result' = [d \in Conn |-> Got(conn'[d])]
    BY Zenon DEF result, Got
  <1>5. heard' = [d \in Conn |-> conn'[d].heard]
    BY Zenon DEF heard
  <1>6. asked' = [asked EXCEPT ![c] = Asking(r)] /\ asked[c] = Asking(conn[c])
    BY <1>2, <1>3 DEF asked
  <1>7. result' = [result EXCEPT ![c] = Got(r)] /\ result[c] = Got(conn[c])
    BY <1>2, <1>4 DEF result
  <1>8. heard' = [heard EXCEPT ![c] = r.heard] /\ heard[c] = conn[c].heard
    BY <1>2, <1>5 DEF heard
  <1> QED
    BY <1>6, <1>7, <1>8

LEMMA AskingRecord ==
  ASSUME NEW r, NEW n \in Values, Shape(r, n), OnValue(r)
  PROVE  /\ Asking(r) \in [op : {"GET", "PUT"}, svc : Service, new : Values]
         /\ Asking(r) # None
  <1> DEFINE q == r.req
  <1>2. q \in AllRequests /\ q.new <= n /\ q.url \in Service
        /\ q.method # "POST"
    BY DEF Shape, OnValue
  <1>3. PICK m \in Values : q \in Requests(m)
    BY <1>2 DEF AllRequests
  <1>4. MaxRequests \in Nat /\ m \in Nat
    BY ConnAssumption DEF Values
  <1>5. q.method \in {"GET", "PUT"} /\ q.new \in {0, m}
    BY <1>2, <1>3, <1>4, RequestShape
  <1>6. q.new \in Values /\ q.new \in Nat
    BY ONLY <1>3, <1>4, <1>5 DEF Values
  <1> HIDE DEF q
  <1>7. Asking(r) = [op |-> q.method, svc |-> q.url, new |-> q.new]
    BY DEF Asking, q
  <1> QED
    BY <1>2, <1>5, <1>6, <1>7, ConnAssumption

LEMMA AskingShape ==
  ASSUME ConnInv, NEW c \in Conn, OnValue(conn[c])
  PROVE  Asking(conn[c]) # None
  BY AskingRecord DEF ConnInv, Shapes, RestTypeOK

LEMMA MovesStutters ==
  ASSUME ConnInv, NEW c \in Conn, NEW r, Set(c, r), Moves(conn[c], r),
         value' = value
  PROVE  UNCHANGED Register!valueVars
  <1>1. Asking(r) = Asking(conn[c])
    BY DEF Moves, Asking, OnValue
  <1>2. /\ asked' = [asked EXCEPT ![c] = asked[c]]
        /\ result' = [result EXCEPT ![c] = result[c]]
        /\ heard' = [heard EXCEPT ![c] = heard[c]]
    BY <1>1, SetMaps DEF Moves
  <1>3. asked' = asked /\ result' = result /\ heard' = heard
    BY <1>2 DEF asked, result, heard
  <1> QED
    BY <1>3 DEF Register!valueVars

LEMMA EndsAnswers ==
  ASSUME ConnInv, NEW c \in Conn, NEW r, Set(c, r), Ends(conn[c], r),
         value' = value
  PROVE  Register!ValueNext \/ UNCHANGED Register!valueVars
  <1> DEFINE q == conn[c]
  <1>0. q.at # "done" /\ Shape(q, requests)
    BY DEF Ends, ConnInv, Shapes
  <1>a. NoRequest.at = "idle" /\ NoRequest.heard = None
    BY DEF NoRequest
  <1>b. \A x : Answered(x).at = "done" /\ Answered(x).heard = x
    BY DEF Answered, NoRequest
  <1>c. /\ r.at \in {"idle", "done"}
        /\ r.heard = None \/ (q.at = "reply" /\ r.heard = q.xmlbuff)
    BY <1>a, <1>b DEF Ends, Closed
  <1>1. Asking(r) = None /\ Got(r) = None
    BY <1>c DEF Asking, OnValue, Got
  <1>2. q.heard = None /\ (q.at = "reply" => Got(q) = q.xmlbuff)
    BY <1>0 DEF Shape, Got
  <1>3. /\ asked' = [asked EXCEPT ![c] = None]
        /\ result' = [result EXCEPT ![c] = None]
        /\ heard' = [heard EXCEPT ![c] = r.heard]
        /\ asked[c] = Asking(q) /\ result[c] = Got(q) /\ heard[c] = None
    BY <1>1, <1>2, SetMaps
  <1>4. r.heard \in {None, Got(q)}
    BY <1>c, <1>2
  <1>5. [heard EXCEPT ![c] = None] = heard
    BY <1>3 DEF heard
  <1>6. heard' \in {heard, [heard EXCEPT ![c] = result[c]]}
    BY <1>3, <1>4, <1>5
  <1>7. CASE Asking(q) # None
    <2>1. Register!Answer(c)
      BY <1>3, <1>6, <1>7 DEF Register!Answer
    <2> QED
      BY <2>1 DEF Register!ValueNext
  <1>8. CASE Asking(q) = None
    <2>1. ~OnValue(q)
      BY <1>8, AskingShape
    <2>2. q.at = "reply" => q.xmlbuff = None
      BY <1>0, <2>1 DEF OnValue, Shape
    <2>3. r.heard = None
      BY <1>c, <2>2
    <2>4. q.at \notin {"event", "queue"}
      <3> SUFFICES ASSUME q.at \in {"event", "queue"} PROVE FALSE
        OBVIOUS
      <3>1. q.req.method = "PUT" /\ q.req.arg = "none" /\ q.req.url \in Service
        BY <1>0 DEF Shape
      <3> QED
        BY <2>1, <3>1 DEF OnValue
    <2>5. Got(q) = None
      BY <2>2, <2>4 DEF Got
    <2>6. [asked EXCEPT ![c] = None] = asked /\ [result EXCEPT ![c] = None] = result
      BY <1>3, <1>8, <2>5 DEF asked, result
    <2> QED
      BY <1>3, <1>5, <2>3, <2>6 DEF Register!valueVars
  <1> QED
    BY <1>7, <1>8

(* The steps of the handlers, seen from their connection.                  *)
LEMMA NextCallMoves ==
  ASSUME NEW q \in ConnRecords, NEW e \in ConnRecords,
         q.at = "call", e.at = "call", e.req = q.req, e.heard = q.heard
  PROVE  Moves(q, NextCall(e)) /\ Moves(q, Walk(e))
  <1> DEFINE r == NextCall(e)
             w == Walk(e)
  <1>1. r.at \in {"call", "hung"} /\ r.req = e.req /\ r.heard = e.heard
    BY DEF NextCall, ConnRecords
  <1>2. w.at = "walk" /\ w.req = e.req /\ w.heard = e.heard
    BY DEF Walk, ConnRecords
  <1> HIDE DEF r, w
  <1>3. Moves(q, r) /\ Moves(q, w)
    BY <1>1, <1>2 DEF Moves, Got
  <1> QED
    BY <1>3 DEF r, w

LEMMA ChoosesMaps ==
  ASSUME ConnInv, NEW c \in Conn, Chooses(c)
  PROVE  \E r : Set(c, r) /\ (Moves(conn[c], r) \/ Ends(conn[c], r))
  <1> DEFINE q == conn[c]
             Maps == \E r : Set(c, r) /\ (Moves(q, r) \/ Ends(q, r))
  <1>1. q \in ConnRecords
    BY DEF ConnInv, RestTypeOK
  <1>2. q.at \notin {"idle", "done", "event", "queue"} =>
          Ends(q, Closed) /\ Ends(q, Answered(None))
          /\ \A e : Ends(q, send_error(c, e))
    BY DEF Ends, send_error
  <1> HIDE DEF q
  <1>3. ASSUME q.at = "call",
               NEW k \in {"aptr", "continue", "upload", "NULL"}
        PROVE  LET e == [q EXCEPT !.cls = k]
               IN  Moves(q, NextCall(e)) /\ Moves(q, Walk(e))
    <2> DEFINE e == [q EXCEPT !.cls = k]
    <2>1. e \in ConnRecords /\ e.at = "call" /\ e.req = q.req /\ e.heard = q.heard
      BY <1>1, <1>3 DEF ConnRecords
    <2> HIDE DEF e
    <2>2. Moves(q, NextCall(e)) /\ Moves(q, Walk(e))
      BY <1>1, <1>3, <2>1, NextCallMoves
    <2> QED
      BY <2>2 DEF e
  <1>4. q.at = "call" => Moves(q, NextCall(q)) /\ Moves(q, Walk(q))
    BY <1>1, NextCallMoves
  <1>5. CASE GetFirstCall(c)
    <2>1. q.at = "call" /\ Set(c, NextCall([q EXCEPT !.cls = "aptr"]))
      BY <1>5 DEF GetFirstCall, Up, q
    <2> QED
      BY <1>3, <2>1 DEF q
  <1>6. CASE GetDispatch(c)
    <2>1. /\ q.at = "call"
          /\ \/ Set(c, Answered(None)) \/ Set(c, Closed)
             \/ Set(c, Walk([q EXCEPT !.cls = "NULL"]))
      BY <1>6 DEF GetDispatch, Up, q
    <2> QED
      BY <1>2, <1>3, <2>1 DEF q
  <1>7. CASE matching_service(c)
    <2> DEFINE f == [q EXCEPT !.at = "found"]
               g == [q EXCEPT !.walk = q.walk + 1]
    <2>1. /\ q.at = "walk"
          /\ Set(c, send_error(c, q)) \/ Set(c, f) \/ Set(c, g)
      BY <1>7 DEF matching_service, Up, q
    <2>2. /\ f.at = "found" /\ f.req = q.req /\ f.heard = q.heard
          /\ g.at = q.at /\ g.req = q.req /\ g.heard = q.heard
      BY <1>1 DEF ConnRecords
    <2> HIDE DEF f, g
    <2>3. Moves(q, f) /\ Moves(q, g)
      BY <2>1, <2>2 DEF Moves, Got
    <2> QED
      BY <1>2, <2>1, <2>3 DEF q
  <1>8. CASE GetSubscription(c)
    <2>1. q.at = "found" /\ (Set(c, Answered(None)) \/ Set(c, Closed))
      BY <1>8 DEF GetSubscription, Up, q
    <2> QED
      BY <1>2, <2>1 DEF q
  <1>9. ASSUME NEW before \in {"NULL", "continue"}, PutKeepsBody(c, before)
        PROVE  Maps
    <2>1. /\ q.at = "call"
          /\ \/ Set(c, NextCall([q EXCEPT !.cls = "upload"]))
             \/ Set(c, NextCall(q))
      BY <1>9 DEF PutKeepsBody, Up, q
    <2> QED
      BY <1>3, <1>4, <2>1
  <1>10. CASE PutBegins(c)
    <2>1. q.at = "call" /\ Set(c, Walk(q))
      BY <1>10 DEF PutBegins, Up, q
    <2> QED
      BY <1>4, <2>1 DEF q
  <1>11. CASE OtherMethod(c)
    <2>1. q.at = "call" /\ Set(c, Closed)
      BY <1>11 DEF OtherMethod, Up, q
    <2> QED
      BY <1>2, <2>1 DEF q
  <1>12. CASE verify_certificate(c)
    <2>1. /\ q.at = "call"
          /\ \/ Set(c, NextCall([q EXCEPT !.cls = "continue"]))
             \/ Set(c, send_error(c, q))
      BY <1>12 DEF verify_certificate, Up, q
    <2> QED
      BY <1>2, <1>3, <2>1 DEF q
  <1>13. CASE send_xml(c)
    <2>1. q.at = "reply" /\ (Set(c, Closed) \/ Set(c, Answered(q.xmlbuff)))
      BY <1>13 DEF send_xml, Up, q
    <2>2. Ends(q, Answered(q.xmlbuff))
      BY <2>1 DEF Ends
    <2> QED
      BY <1>2, <2>1, <2>2 DEF q
  <1>14. CASE create_event(c)
    <2> DEFINE x == buffer[q.req.url]
               r == [q EXCEPT !.at = "queue", !.copy = x]
    <2>1. q.at = "event" /\ Set(c, r)
      BY <1>14 DEF create_event, Up, q, Req
    <2> HIDE DEF x
    <2>2. r.at = "queue" /\ r.req = q.req /\ r.heard = q.heard
          /\ r.xmlbuff = q.xmlbuff
      BY <1>1 DEF ConnRecords
    <2> HIDE DEF r
    <2>3. Moves(q, r)
      BY <2>1, <2>2 DEF Moves, Got
    <2> QED
      BY <2>1, <2>3 DEF q
  <1>15. Maps
    BY <1>5, <1>6, <1>7, <1>8, <1>9, <1>10, <1>11, <1>12, <1>13, <1>14
       DEF Chooses, q
  <1> QED
    BY <1>15 DEF q

LEMMA GetEndsReads ==
  ASSUME ConnInv, NEW c \in Conn, GetEnds(c)
  PROVE  Register!ValueNext \/ UNCHANGED Register!valueVars
  <1> DEFINE q == conn[c]
             x == value[q.req.url]
             r == [q EXCEPT !.at = "reply", !.xmlbuff = x]
  <1>1. q.at = "get" /\ value' = value
        /\ (Set(c, r) \/ Set(c, send_error(c, q)))
    BY DEF GetEnds, Up, Req
  <1>2. Shape(q, requests) /\ q \in ConnRecords /\ OnValue(q)
    BY <1>1 DEF ConnInv, Shapes, Shape, OnValue
  <1>3. CASE Set(c, send_error(c, q))
    <2>1. Ends(q, send_error(c, q))
      BY <1>1 DEF Ends, send_error
    <2> QED
      BY <1>1, <1>3, <2>1, EndsAnswers
  <1>4. CASE Set(c, r)
    <2>1. /\ asked' = [asked EXCEPT ![c] = Asking(r)]
          /\ result' = [result EXCEPT ![c] = Got(r)]
          /\ heard' = [heard EXCEPT ![c] = r.heard]
          /\ asked[c] = Asking(q) /\ result[c] = Got(q) /\ heard[c] = q.heard
      BY <1>4, SetMaps
    <2>2. /\ asked[c] # None /\ asked[c].op = "GET"
          /\ asked[c].svc = q.req.url
      BY <1>1, <1>2, <2>1, AskingShape DEF Asking, Shape
    <2> HIDE DEF x
    <2>3. r.at = "reply" /\ r.req = q.req /\ r.heard = q.heard /\ r.xmlbuff = x
      BY <1>2 DEF ConnRecords
    <2> HIDE DEF r
    <2>4. Asking(r) = Asking(q) /\ Got(r) = x /\ Got(q) = None
      BY <1>1, <2>3 DEF Asking, OnValue, Got
    <2>5. asked' = [asked EXCEPT ![c] = asked[c]]
          /\ heard' = [heard EXCEPT ![c] = heard[c]]
      BY <2>1, <2>3, <2>4
    <2>6. asked' = asked /\ heard' = heard
      BY <2>5 DEF asked, heard
    <2>7. result' = [result EXCEPT ![c] = value[asked[c].svc]]
      BY <2>1, <2>2, <2>4 DEF x
    <2>8. Register!Read(c)
      BY <1>1, <2>1, <2>2, <2>4, <2>6, <2>7 DEF Register!Read
    <2> QED
      BY <2>8 DEF Register!ValueNext
  <1> QED
    BY <1>1, <1>3, <1>4

LEMMA PutEndsWrites ==
  ASSUME ConnInv, NEW c \in Conn, PutEnds(c)
  PROVE  Register!ValueNext \/ UNCHANGED Register!valueVars
  <1> DEFINE q == conn[c]
             n == q.req.new
             r == [q EXCEPT !.at = "event", !.xmlbuff = n]
  <1>1. /\ q.at = "put"
        /\ \/ Set(c, r) /\ value' = [value EXCEPT ![q.req.url] = n]
           \/ Set(c, send_error(c, q)) /\ value' = value
    BY DEF PutEnds, Up, Req
  <1>2. Shape(q, requests) /\ q \in ConnRecords /\ OnValue(q)
    BY <1>1 DEF ConnInv, Shapes, Shape, OnValue
  <1>3. CASE Set(c, send_error(c, q)) /\ value' = value
    <2>1. Ends(q, send_error(c, q))
      BY <1>1 DEF Ends, send_error
    <2> QED
      BY <1>3, <2>1, EndsAnswers
  <1>4. CASE Set(c, r) /\ value' = [value EXCEPT ![q.req.url] = n]
    <2>1. /\ asked' = [asked EXCEPT ![c] = Asking(r)]
          /\ result' = [result EXCEPT ![c] = Got(r)]
          /\ heard' = [heard EXCEPT ![c] = r.heard]
          /\ asked[c] = Asking(q) /\ result[c] = Got(q) /\ heard[c] = q.heard
      BY <1>4, SetMaps
    <2>2. /\ asked[c] # None /\ asked[c].op = "PUT"
          /\ asked[c].svc = q.req.url /\ asked[c].new = n
      BY <1>1, <1>2, <2>1, AskingShape DEF Asking, Shape
    <2>3. /\ r.at = "event" /\ r.req = q.req /\ r.heard = q.heard
          /\ r.xmlbuff = n
      BY <1>2 DEF ConnRecords
    <2> HIDE DEF r
    <2>4. Asking(r) = Asking(q) /\ Got(r) = n /\ Got(q) = None
      BY <1>1, <2>3 DEF Asking, OnValue, Got
    <2>5. asked' = [asked EXCEPT ![c] = asked[c]]
          /\ heard' = [heard EXCEPT ![c] = heard[c]]
      BY <2>1, <2>3, <2>4
    <2>6. asked' = asked /\ heard' = heard
      BY <2>5 DEF asked, heard
    <2>7. /\ result' = [result EXCEPT ![c] = asked[c].new]
          /\ value' = [value EXCEPT ![asked[c].svc] = asked[c].new]
      BY <1>4, <2>1, <2>2, <2>4
    <2>8. Register!Write(c)
      BY <2>1, <2>2, <2>4, <2>6, <2>7 DEF Register!Write
    <2> QED
      BY <2>8 DEF Register!ValueNext
  <1> QED
    BY <1>1, <1>3, <1>4

LEMMA WorksMaps ==
  ASSUME ConnInv, NEW c \in Conn, Works(c)
  PROVE  Register!ValueNext \/ UNCHANGED Register!valueVars
  <1> DEFINE q == conn[c]
  <1>1. Shape(q, requests) /\ q \in ConnRecords
    BY DEF ConnInv, Shapes, Shape
  <1>2. q.at \notin {"idle", "done", "event", "queue"} =>
          Ends(q, Closed) /\ \A e : Ends(q, send_error(c, e))
    BY DEF Ends, send_error
  <1> HIDE DEF q
  <1>3. CASE GetDescription(c)
    <2> DEFINE r == [q EXCEPT !.at = "reply"]
    <2>1. /\ q.at = "found" /\ value' = value
          /\ Set(c, r) \/ Set(c, Closed) \/ UNCHANGED conn
      BY <1>3 DEF GetDescription, Up, UnchangedService, q
    <2>2. CASE UNCHANGED conn
      <3>1. asked' = asked /\ result' = result /\ heard' = heard
        BY <2>2, Zenon DEF asked, result, heard, Asking, OnValue, Got
      <3> QED
        BY <2>1, <3>1 DEF Register!valueVars
    <2>3. r.at = "reply" /\ r.req = q.req /\ r.heard = q.heard
          /\ r.xmlbuff = q.xmlbuff
      BY <1>1 DEF ConnRecords
    <2> HIDE DEF r
    <2>4. Moves(q, r)
      BY <1>1, <2>1, <2>3 DEF Moves, Got, Shape
    <2> QED
      BY <1>2, <2>1, <2>2, <2>4, MovesStutters, EndsAnswers DEF q
  <1>4. CASE GetLocks(c)
    <2> DEFINE r == [q EXCEPT !.at = "get"]
    <2>1. q.at = "found" /\ value' = value /\ Set(c, r)
      BY <1>4 DEF GetLocks, Up, q
    <2>2. r.at = "get" /\ r.req = q.req /\ r.heard = q.heard
      BY <1>1 DEF ConnRecords
    <2> HIDE DEF r
    <2>3. Moves(q, r)
      BY <2>1, <2>2 DEF Moves, Got
    <2> QED
      BY <2>1, <2>3, MovesStutters DEF q
  <1>5. CASE PutRejected(c)
    <2>1. q.at = "found" /\ q.cls # "freed" /\ value' = value
      BY <1>1, <1>5 DEF PutRejected, Up, UnchangedService, q, Shape
    <2>2. \E e : Set(c, send_error(c, e))
      BY <1>5, <2>1 DEF PutRejected, q
    <2> QED
      BY <1>2, <2>1, <2>2, EndsAnswers DEF q
  <1>6. CASE PutLocks(c)
    <2> DEFINE r == [q EXCEPT !.at = "put", !.cls = "freed"]
    <2>1. q.at = "found" /\ q.cls # "freed" /\ value' = value
      BY <1>1, <1>6 DEF PutLocks, Up, q, Shape
    <2>2. Set(c, r)
      BY <1>6, <2>1 DEF PutLocks, q
    <2>3. r.at = "put" /\ r.req = q.req /\ r.heard = q.heard
      BY <1>1 DEF ConnRecords
    <2> HIDE DEF r
    <2>4. Moves(q, r)
      BY <2>1, <2>3 DEF Moves, Got
    <2> QED
      BY <2>1, <2>2, <2>4, MovesStutters DEF q
  <1>7. CASE queue_event(c)
    <2> DEFINE r == [q EXCEPT !.at = "reply"]
    <2>1. q.at = "queue" /\ value' = value /\ Set(c, r)
      BY <1>7 DEF queue_event, Up, UnchangedService, q
    <2>2. r.at = "reply" /\ r.req = q.req /\ r.heard = q.heard
          /\ r.xmlbuff = q.xmlbuff
      BY <1>1 DEF ConnRecords
    <2> HIDE DEF r
    <2>3. Moves(q, r)
      BY <2>1, <2>2 DEF Moves, Got
    <2> QED
      BY <2>1, <2>3, MovesStutters DEF q
  <1> QED
    BY <1>3, <1>4, <1>5, <1>6, <1>7, GetEndsReads, PutEndsWrites DEF Works

LEMMA ReceivesAsks ==
  ASSUME ConnInv, ConnInv', NEW c \in Conn, MHDReceives(c)
  PROVE  Register!ValueNext \/ UNCHANGED Register!valueVars
  <1> DEFINE q == conn[c]
  <1>1. PICK s : /\ q.at = "idle" /\ value' = value
                 /\ Set(c, [q EXCEPT !.at = "call", !.req = s,
                                     !.left = s.chunks])
    BY DEF MHDReceives, Up, UnchangedService
  <1> DEFINE r == [q EXCEPT !.at = "call", !.req = s, !.left = s.chunks]
  <1>2. q \in ConnRecords /\ conn \in [Conn -> ConnRecords]
    BY DEF ConnInv, RestTypeOK
  <1>3. r.at = "call" /\ r.heard = q.heard /\ conn'[c] = r
    BY <1>1, <1>2 DEF ConnRecords, Set
  <1>4. /\ asked' = [asked EXCEPT ![c] = Asking(r)]
        /\ result' = [result EXCEPT ![c] = Got(r)]
        /\ heard' = [heard EXCEPT ![c] = r.heard]
        /\ asked[c] = Asking(q) /\ result[c] = Got(q) /\ heard[c] = q.heard
    BY <1>1, SetMaps
  <1> HIDE DEF r
  <1>5. Asking(q) = None /\ Got(q) = None /\ Got(r) = None
    BY <1>1, <1>3 DEF Asking, OnValue, Got
  <1>6. /\ result' = [result EXCEPT ![c] = result[c]]
        /\ heard' = [heard EXCEPT ![c] = heard[c]]
    BY <1>3, <1>4, <1>5
  <1>7. result' = result /\ heard' = heard
    BY <1>6 DEF result, heard
  <1>8. CASE Asking(r) = None
    <2>1. asked' = [asked EXCEPT ![c] = asked[c]]
      BY <1>4, <1>5, <1>8
    <2>2. asked' = asked
      BY <2>1 DEF asked
    <2> QED
      BY <1>1, <1>7, <2>2 DEF Register!valueVars
  <1>9. CASE Asking(r) # None
    <2>1. OnValue(r)
      BY <1>9 DEF Asking
    <2>2. Asking(r) \in [op : {"GET", "PUT"}, svc : Service, new : Values]
      <3>1. Shape(r, requests') /\ requests' \in Values
        BY <1>3 DEF ConnInv, Shapes, RestTypeOK
      <3> QED
        BY <2>1, <3>1, AskingRecord
    <2>3. Register!Ask(c)
      BY <1>1, <1>4, <1>5, <1>7, <2>2 DEF Register!Ask
    <2> QED
      BY <2>3 DEF Register!ValueNext
  <1> QED
    BY <1>8, <1>9

LEMMA CompletesIsDone ==
  ASSUME ConnInv, NEW c \in Conn, MHDCompletes(c)
  PROVE  Register!ValueNext \/ UNCHANGED Register!valueVars
  <1> DEFINE q == conn[c]
  <1>1. q.at \in {"hung", "done"} /\ Set(c, Closed) /\ value' = value
    BY DEF MHDCompletes, Up, UnchangedService
  <1>2. CASE q.at = "hung"
    <2>1. Ends(q, Closed)
      BY <1>2 DEF Ends
    <2> QED
      BY <1>1, <2>1, EndsAnswers
  <1>3. CASE q.at = "done"
    <2>1. Closed.at = "idle" /\ Closed.heard = None
      BY DEF Closed, NoRequest
    <2>2. Asking(q) = None /\ Got(q) = None /\ Asking(Closed) = None
          /\ Got(Closed) = None
      BY <1>3, <2>1 DEF Asking, OnValue, Got
    <2>3. /\ asked' = [asked EXCEPT ![c] = asked[c]]
          /\ result' = [result EXCEPT ![c] = result[c]]
          /\ heard' = [heard EXCEPT ![c] = None]
      BY <1>1, <2>1, <2>2, SetMaps
    <2>4. asked' = asked /\ result' = result
      BY <2>3 DEF asked, result
    <2>5. Register!Done(c)
      BY <1>1, <2>3, <2>4 DEF Register!Done
    <2> QED
      BY <2>5 DEF Register!ValueNext
  <1> QED
    BY <1>1, <1>2, <1>3

LEMMA ValueStep ==
  ConnInv /\ ConnInv' /\ [WebNext]_webVars
    => [Register!ValueNext]_Register!valueVars
  <1> SUFFICES ASSUME ConnInv, ConnInv', [WebNext]_webVars
               PROVE  Register!ValueNext \/ UNCHANGED Register!valueVars
    OBVIOUS
  <1>1. ASSUME NEW c \in Conn, Chooses(c)
        PROVE  Register!ValueNext \/ UNCHANGED Register!valueVars
    <2>1. PICK r : Set(c, r) /\ (Moves(conn[c], r) \/ Ends(conn[c], r))
      BY <1>1, ChoosesMaps
    <2>2. value' = value
      BY <1>1, ChoosesUnchanged DEF UnchangedService
    <2> QED
      BY <2>1, <2>2, MovesStutters, EndsAnswers
  <1>2. CASE UNCHANGED webVars
    <2>1. conn' = conn /\ value' = value
      BY <1>2 DEF webVars
    <2>2. asked' = asked /\ result' = result /\ heard' = heard
      BY <2>1, Zenon DEF asked, result, heard, Asking, OnValue, Got
    <2> QED
      BY <2>1, <2>2 DEF Register!valueVars
  <1> QED
    BY <1>1, <1>2, WorksMaps, ReceivesAsks, CompletesIsDone, HandlerIsEither
       DEF WebNext

(* Requests on the value of a service behave as if each ran alone: what a  *)
(* client reads is what the application held in one step between the       *)
(* arrival of the request and its answer (hpd_http_web_server.c:205-386).  *)
THEOREM ValueImplemented == WebSpec => ImplementsValue
  <1>1. WebInit => Register!ValueInit
    <2> SUFFICES ASSUME WebInit PROVE Register!ValueInit
      OBVIOUS
    <2>1. NoRequest.at = "idle" /\ NoRequest.heard = None
      BY DEF NoRequest
    <2>2. Asking(NoRequest) = None /\ Got(NoRequest) = None
      BY <2>1 DEF Asking, OnValue, Got
    <2> QED
      BY <2>1, <2>2 DEF WebInit, Register!ValueInit, asked, result, heard
  <1> QED
    BY <1>1, ValueStep, ConnAlways, PTL
       DEF WebSpec, ImplementsValue, Register!ServiceValueSpec

-----------------------------------------------------------------------------
(* Every successful PUT is told once, with nothing older than itself.      *)

IsPut(r) == r.at \notin {"idle", "done"} /\ r.req.method = "PUT"

Pending(r) == IsPut(r) /\ r.at \notin {"event", "queue", "reply"}

Telling(r) == r.at \in {"event", "queue"}

\* A PUT writes its own number: no two write the same, and what is written
\* has been asked for.
WritesArePast ==
  \A s \in Service : \A m \in 1 .. Len(writes[s]) : writes[s][m] \in 1 .. requests

PutsDiffer ==
  \A c, d \in Conn :
    IsPut(conn[c]) /\ IsPut(conn[d]) /\ c # d
      => conn[c].req.new # conn[d].req.new

PendingIsNew ==
  \A c \in Conn : Pending(conn[c]) =>
    \A s \in Service : \A m \in 1 .. Len(writes[s]) :
      writes[s][m] # conn[c].req.new

\* Before its event a PUT has written and is not told.
TellingIsWritten ==
  \A c \in Conn : Telling(conn[c]) =>
    LET q == conn[c].req
    IN  /\ \E m \in 1 .. Len(writes[q.url]) : writes[q.url][m] = q.new
        /\ \A i \in 1 .. Len(events) : events[i].put # q.new

\* The value is what was written last, and so is the buffer unless a function
\* is writing it; the copy for an event was taken after its PUT.
LastIsValue ==
  \A s \in Service :
    writes[s] # <<>> => value[s] = writes[s][Len(writes[s])]

BufferIsValue == \A s \in Service : buffer[s] \in {Torn, value[s]}

CopyIsWritten ==
  \A c \in Conn : conn[c].at = "queue" =>
    LET q == conn[c].req
    IN  \E m, n \in 1 .. Len(writes[q.url]) :
          /\ m <= n /\ writes[q.url][m] = q.new
          /\ conn[c].copy \in {Torn, writes[q.url][n]}

ToldInv ==
  /\ WritesArePast /\ PutsDiffer /\ PendingIsNew /\ TellingIsWritten
  /\ LastIsValue /\ BufferIsValue /\ CopyIsWritten
  /\ PutsAreTold

\* The copy of a connection was taken after its PUT.
CopyIsLate(r) ==
  \E m, n \in 1 .. Len(writes[r.req.url]) :
    /\ m <= n /\ writes[r.req.url][m] = r.req.new
    /\ r.copy \in {Torn, writes[r.req.url][n]}

\* Nothing that the invariant says of a PUT is changed.
Quiet(q, r) ==
  /\ IsPut(r) => IsPut(q) /\ r.req = q.req
  /\ Pending(r) => Pending(q)
  /\ Telling(r) <=> Telling(q)
  /\ Telling(r) => r.req = q.req

LEMMA MovesAreQuiet ==
  ASSUME NEW q, NEW r, q.at # "queue", Moves(q, r) \/ Ends(q, r)
  PROVE  Quiet(q, r)
  <1>1. CASE Moves(q, r)
    BY <1>1 DEF Moves, Quiet, IsPut, Pending, Telling
  <1>2. CASE Ends(q, r)
    <2>1. NoRequest.at = "idle" /\ \A x : Answered(x).at = "done"
      BY DEF NoRequest, Answered
    <2>2. r.at \in {"idle", "done"} /\ q.at \notin {"event", "queue"}
      BY <1>2, <2>1 DEF Ends, Closed
    <2> QED
      BY <2>2 DEF Quiet, IsPut, Pending, Telling
  <1> QED
    BY <1>1, <1>2

LEMMA QuietKeepsTold ==
  ASSUME ConnInv, ToldInv, NEW c \in Conn, NEW r, Set(c, r),
         Quiet(conn[c], r), r.at = "queue" => CopyIsLate(r),
         UNCHANGED <<writes, events, requests>>,
         BufferIsValue', LastIsValue'
  PROVE  ToldInv'
  <1>1. \A d \in Conn : conn'[d] = IF d = c THEN r ELSE conn[d]
    BY DEF Set, ConnInv, RestTypeOK
  <1>2. \A d \in Conn : Quiet(conn[d], conn'[d])
    BY <1>1 DEF Quiet
  <1>3. writes' = writes /\ events' = events /\ requests' = requests
    OBVIOUS
  <1>4. WritesArePast'
    BY <1>3 DEF ToldInv, WritesArePast
  <1>5. PutsDiffer'
    BY <1>2 DEF ToldInv, PutsDiffer, Quiet
  <1>6. PendingIsNew'
    <2> SUFFICES ASSUME NEW d \in Conn, Pending(conn'[d]), NEW s \in Service,
                        NEW m \in 1 .. Len(writes[s])
                 PROVE  writes[s][m] # conn'[d].req.new
      BY <1>3 DEF PendingIsNew
    <2>1. Pending(conn[d]) /\ conn'[d].req = conn[d].req
      BY <1>2 DEF Quiet, Pending
    <2> QED
      BY <2>1 DEF ToldInv, PendingIsNew
  <1>7. TellingIsWritten'
    <2> SUFFICES ASSUME NEW d \in Conn, Telling(conn'[d])
                 PROVE  LET q == conn'[d].req
                        IN /\ \E m \in 1 .. Len(writes[q.url]) :
                                writes[q.url][m] = q.new
                           /\ \A i \in 1 .. Len(events) : events[i].put # q.new
      BY <1>3 DEF TellingIsWritten
    <2>1. Telling(conn[d]) /\ conn'[d].req = conn[d].req
      BY <1>2 DEF Quiet
    <2> QED
      BY <2>1 DEF ToldInv, TellingIsWritten
  <1>8. CopyIsWritten'
    <2> SUFFICES ASSUME NEW d \in Conn, conn'[d].at = "queue"
                 PROVE  CopyIsLate(conn'[d])
      BY <1>3 DEF CopyIsWritten, CopyIsLate
    <2> QED
      BY <1>1 DEF ToldInv, CopyIsWritten, CopyIsLate
  <1>9. EventsAreWrites'
    BY <1>3 DEF ToldInv, PutsAreTold, EventsAreWrites
  <1>10. WritesAreTold'
    <2> SUFFICES ASSUME NEW s \in Service, NEW m \in 1 .. Len(writes[s])
                 PROVE  LET w == writes[s][m]
                        IN  \/ \E i \in Told(w) : Told(w) = {i}
                            \/ /\ Told(w) = {}
                               /\ \E d \in Conn : /\ Telling(conn'[d])
                                                  /\ conn'[d].req.new = w
      BY <1>3 DEF WritesAreTold, Told, Telling, Req
    <2> DEFINE w == writes[s][m]
    <2>1. CASE \E i \in Told(w) : Told(w) = {i}
      BY <2>1
    <2>2. ASSUME Told(w) = {}, NEW d \in Conn, Telling(conn[d]),
                 conn[d].req.new = w
          PROVE  Telling(conn'[d]) /\ conn'[d].req.new = w
      BY <1>2, <2>2 DEF Quiet
    <2> QED
      BY <2>1, <2>2 DEF ToldInv, PutsAreTold, WritesAreTold, Telling, Req
  <1> QED
    BY <1>4, <1>5, <1>6, <1>7, <1>8, <1>9, <1>10 DEF ToldInv, PutsAreTold

LEMMA ChoosesKeepsTold ==
  ASSUME ConnInv, ToldInv, NEW c \in Conn, Chooses(c)
  PROVE  ToldInv'
  <1> DEFINE q == conn[c]
  <1>1. PICK r : Set(c, r) /\ (Moves(q, r) \/ Ends(q, r))
    BY ChoosesMaps
  <1>2. /\ q.at # "queue"
        /\ q.at = "event" => create_event(c)
    BY DEF Chooses, GetFirstCall, GetDispatch, matching_service,
       GetSubscription, PutKeepsBody, PutBegins, OtherMethod,
       verify_certificate, send_xml, create_event, Up
  <1>3. /\ UNCHANGED <<writes, events, requests, value, buffer>>
    BY ChoosesUnchanged DEF UnchangedService, UnchangedRest
  <1>4. BufferIsValue' /\ LastIsValue'
    BY <1>3 DEF ToldInv, BufferIsValue, LastIsValue
  <1>5. ASSUME r.at = "queue" PROVE CopyIsLate(r)
    <2> DEFINE s == q.req.url
               e == [q EXCEPT !.at = "queue", !.copy = buffer[s]]
    <2>0. NoRequest.at = "idle" /\ \A x : Answered(x).at = "done"
      BY DEF NoRequest, Answered
    <2>1. q.at = "event"
      BY <1>1, <1>2, <1>5, <2>0 DEF Moves, Ends, Closed
    <2>2. Set(c, e) /\ q \in ConnRecords /\ Shape(q, requests)
      BY <1>2, <2>1
         DEF create_event, Req, ConnInv, RestTypeOK, Shapes
    <2>3. conn'[c] = r /\ conn'[c] = e
      BY <1>1, <2>2 DEF Set, ConnInv, RestTypeOK
    <2>4. r.req = q.req /\ r.copy = buffer[s]
      BY <2>2, <2>3 DEF ConnRecords
    <2>5. s \in Service
      BY <2>1, <2>2 DEF Shape
    <2>6. buffer[s] \in {Torn, value[s]}
      BY <2>5 DEF ToldInv, BufferIsValue
    <2>7. PICK m \in 1 .. Len(writes[s]) : writes[s][m] = q.req.new
      BY <2>1 DEF ToldInv, TellingIsWritten, Telling
    <2> DEFINE n == Len(writes[s])
    <2>8. writes[s] \in Seq(Values)
      BY <2>5 DEF ConnInv, RestTypeOK
    <2>9. n \in 1 .. n /\ m <= n /\ writes[s] # <<>>
      BY <2>7, <2>8
    <2>10. value[s] = writes[s][n]
      BY <2>5, <2>9 DEF ToldInv, LastIsValue
    <2>11. r.copy \in {Torn, writes[s][n]}
      BY <2>4, <2>6, <2>10
    <2> QED
      BY <2>4, <2>7, <2>9, <2>11 DEF CopyIsLate
  <1>6. Quiet(q, r)
    BY <1>1, <1>2, MovesAreQuiet
  <1> QED
    BY <1>1, <1>3, <1>4, <1>5, <1>6, QuietKeepsTold

LEMMA ToldStutters ==
  ASSUME ToldInv,
         UNCHANGED <<conn, value, buffer, writes, events, requests>>
  PROVE  ToldInv'
  <1>1. WritesArePast' /\ PutsDiffer' /\ PendingIsNew'
    BY Zenon DEF ToldInv, WritesArePast, PutsDiffer, PendingIsNew, Pending, IsPut
  <1>2. TellingIsWritten' /\ CopyIsWritten'
    BY Zenon DEF ToldInv, TellingIsWritten, CopyIsWritten, Telling, Torn
  <1>3. LastIsValue' /\ BufferIsValue'
    BY Zenon DEF ToldInv, LastIsValue, BufferIsValue, Torn
  <1>4. EventsAreWrites' /\ WritesAreTold'
    <2>1. EventsAreWrites'
      BY DEF ToldInv, PutsAreTold, EventsAreWrites, Torn
    <2>2. WritesAreTold'
      BY DEF ToldInv, PutsAreTold, WritesAreTold, Told, Req
    <2> QED
      BY <2>1, <2>2
  <1> QED
    BY <1>1, <1>2, <1>3, <1>4 DEF ToldInv, PutsAreTold

(* A step that looks a service up, reads it, or fails at it.               *)
LEMMA TryKeepsTold ==
  ASSUME ConnInv, ToldInv, NEW c \in Conn, NEW r, Set(c, r),
         conn[c].at \in {"found", "get", "put"},
         \/ r.at \in {"get", "put", "reply"} /\ r.req = conn[c].req
         \/ r.at \in {"idle", "done"},
         UNCHANGED <<value, writes, events, requests>>,
         \/ buffer' = buffer
         \/ \E s \in Service : \/ buffer' = [buffer EXCEPT ![s] = Torn]
                               \/ buffer' = [buffer EXCEPT ![s] = value[s]]
  PROVE  ToldInv'
  <1>1. Quiet(conn[c], r)
    BY DEF Quiet, IsPut, Pending, Telling
  <1>2. LastIsValue'
    BY DEF ToldInv, LastIsValue
  <1>3. BufferIsValue'
    <2>1. buffer \in [Service -> Values \cup {Torn}] /\ Torn' = Torn
      BY DEF ConnInv, RestTypeOK, Torn
    <2>2. \A s \in Service : buffer'[s] \in {Torn, value[s]}
      BY <2>1 DEF ToldInv, BufferIsValue
    <2> QED
      BY <2>1, <2>2 DEF BufferIsValue
  <1> QED
    BY <1>1, <1>2, <1>3, QuietKeepsTold

LEMMA TriesKeepTold ==
  ASSUME ConnInv, ToldInv, NEW c \in Conn,
         \/ GetDescription(c) \/ GetLocks(c) \/ GetEnds(c)
         \/ PutRejected(c) \/ PutLocks(c)
         \/ PutEnds(c) /\ UNCHANGED writes
  PROVE  ToldInv'
  <1> DEFINE q == conn[c]
             s == q.req.url
  <1>1. Shape(q, requests) /\ q \in ConnRecords
    BY DEF ConnInv, Shapes, Shape
  <1>2. /\ Closed.at \in {"idle", "done"}
        /\ \A e : send_error(c, e).at \in {"idle", "done"}
    <2>1. NoRequest.at = "idle" /\ \A x : Answered(x).at = "done"
      BY DEF NoRequest, Answered
    <2> QED
      BY <2>1 DEF Closed, send_error
  <1>3. q.at \in {"found", "get"} \/ q.at = "put" => s \in Service
    BY <1>1 DEF Shape
  <1> HIDE DEF q
  <1>4. \A at \in {"get", "put", "reply"} : \A k, x :
          LET r == [q EXCEPT !.at = at, !.cls = k, !.xmlbuff = x]
          IN  r.at = at /\ r.req = q.req
    BY <1>1 DEF ConnRecords
  <1>5. CASE GetDescription(c)
    <2> DEFINE r == [q EXCEPT !.at = "reply"]
    <2>1. /\ q.at = "found"
          /\ UNCHANGED <<value, buffer, writes, events, requests>>
          /\ Set(c, r) \/ Set(c, Closed) \/ UNCHANGED conn
      BY <1>5 DEF GetDescription, Up, UnchangedService, q
    <2>2. r.at = "reply" /\ r.req = q.req
      BY <1>1 DEF ConnRecords
    <2> HIDE DEF r
    <2> QED
      BY <1>2, <2>1, <2>2, TryKeepsTold, ToldStutters DEF q
  <1>6. CASE GetLocks(c)
    <2> DEFINE r == [q EXCEPT !.at = "get"]
    <2>1. /\ q.at = "found" /\ Set(c, r)
          /\ UNCHANGED <<value, writes, events, requests>>
          /\ buffer' = [buffer EXCEPT ![s] = Torn]
      BY <1>6 DEF GetLocks, Up, Req, UnchangedRest, q
    <2>2. r.at = "get" /\ r.req = q.req
      BY <1>1 DEF ConnRecords
    <2> HIDE DEF r, s
    <2> QED
      BY <1>3, <2>1, <2>2, TryKeepsTold DEF q
  <1>7. CASE GetEnds(c)
    <2> DEFINE r == [q EXCEPT !.at = "reply", !.xmlbuff = value[s]]
    <2>1. /\ q.at = "get"
          /\ UNCHANGED <<value, writes, events, requests>>
          /\ \/ buffer' = [buffer EXCEPT ![s] = value[s]] /\ Set(c, r)
             \/ buffer' = buffer /\ Set(c, send_error(c, q))
      BY <1>7 DEF GetEnds, Up, Req, UnchangedRest, q
    <2>2. r.at = "reply" /\ r.req = q.req
      BY <1>1 DEF ConnRecords
    <2> HIDE DEF r, s
    <2> QED
      BY <1>2, <1>3, <2>1, <2>2, TryKeepsTold DEF q
  <1>8. CASE PutRejected(c)
    <2>1. /\ q.at = "found" /\ q.cls # "freed"
          /\ UNCHANGED <<value, buffer, writes, events, requests>>
      BY <1>1, <1>8 DEF PutRejected, Up, UnchangedService, q, Shape
    <2>2. \E e : Set(c, send_error(c, e))
      BY <1>8, <2>1 DEF PutRejected, q
    <2> QED
      BY <1>2, <2>1, <2>2, TryKeepsTold DEF q
  <1>9. CASE PutLocks(c)
    <2> DEFINE r == [q EXCEPT !.at = "put", !.cls = "freed"]
    <2>1. q.at = "found" /\ q.cls # "freed"
      BY <1>1, <1>9 DEF PutLocks, Up, q, Shape
    <2>2. /\ Set(c, r)
          /\ UNCHANGED <<value, writes, events, requests>>
          /\ buffer' = [buffer EXCEPT ![s] = Torn]
      BY <1>9, <2>1 DEF PutLocks, Req, q
    <2>3. r.at = "put" /\ r.req = q.req
      BY <1>1 DEF ConnRecords
    <2> HIDE DEF r, s
    <2> QED
      BY <1>3, <2>1, <2>2, <2>3, TryKeepsTold DEF q
  <1>10. CASE PutEnds(c) /\ UNCHANGED writes
    <2>1. s \in Service /\ q.at = "put" /\ writes[s] \in Seq(Values)
      BY <1>3, <1>10 DEF PutEnds, Up, q, ConnInv, RestTypeOK
    <2>2. writes' # [writes EXCEPT ![s] = Append(@, q.req.new)]
      <3> DEFINE w == writes[s]
      <3>1. Len(Append(w, q.req.new)) = Len(w) + 1 /\ Len(w) \in Nat
        BY <2>1
      <3>2. Append(w, q.req.new) # w
        BY <3>1
      <3> QED
        BY <1>10, <2>1, <3>2 DEF ConnInv, RestTypeOK
    <2>3. /\ UNCHANGED <<value, writes, events, requests, buffer>>
          /\ Set(c, send_error(c, q))
      BY <1>10, <2>2 DEF PutEnds, Req, UnchangedRest, q
    <2> QED
      BY <1>2, <2>1, <2>3, TryKeepsTold DEF q
  <1> QED
    BY <1>5, <1>6, <1>7, <1>8, <1>9, <1>10

LEMMA AppendFacts ==
  ASSUME NEW S, NEW w \in Seq(S), NEW x \in S
  PROVE  /\ Len(w) \in Nat /\ Len(Append(w, x)) = Len(w) + 1
         /\ \A i \in 1 .. Len(w) : Append(w, x)[i] = w[i]
         /\ Append(w, x)[Len(w) + 1] = x
         /\ Append(w, x) # <<>>
  OBVIOUS

LEMMA EventsTyped ==
  ASSUME ConnInv
  PROVE  \A i \in 1 .. Len(events) : events[i].svc \in Service
  <1> DEFINE R == [svc : Service, val : Values \cup {Torn}, put : Values]
  <1>1. events \in Seq(R)
    BY DEF ConnInv, RestTypeOK
  <1>2. \A e \in R : e.svc \in Service
    OBVIOUS
  <1> HIDE DEF R
  <1>3. \A i \in 1 .. Len(events) : events[i] \in R
    BY ONLY <1>1
  <1> QED
    BY <1>2, <1>3

(* put_function succeeds: the new value is written, and not told.          *)
LEMMA WriteKeepsTold ==
  ASSUME ConnInv, ToldInv, NEW c \in Conn, PutEnds(c), ~ UNCHANGED writes
  PROVE  ToldInv'
  <1> DEFINE q == conn[c]
             s == q.req.url
             n == q.req.new
             w == writes[s]
             r == [q EXCEPT !.at = "event", !.xmlbuff = n]
  <1>1. /\ q.at = "put" /\ Set(c, r)
        /\ value' = [value EXCEPT ![s] = n]
        /\ buffer' = [buffer EXCEPT ![s] = n]
        /\ writes' = [writes EXCEPT ![s] = Append(w, n)]
        /\ events' = events /\ requests' = requests
    BY DEF PutEnds, Up, Req, UnchangedRest
  <1>2. Shape(q, requests) /\ q \in ConnRecords
    BY DEF ConnInv, Shapes, Shape
  <1>3. s \in Service /\ n \in 1 .. requests /\ Pending(q) /\ IsPut(q)
    BY <1>1, <1>2 DEF Shape, Pending, IsPut
  <1>4. n \in Values
    <2>1. requests \in Values /\ MaxRequests \in Nat
      BY ConnAssumption DEF ConnInv, RestTypeOK
    <2>2. n \in 1 .. requests
      BY <1>3
    <2> HIDE DEF n
    <2> QED
      BY ONLY <2>1, <2>2 DEF Values
  <1>5. r.at = "event" /\ r.req = q.req
    BY <1>2 DEF ConnRecords
  <1> HIDE DEF r
  <1>6. \A d \in Conn : conn'[d] = IF d = c THEN r ELSE conn[d]
    BY <1>1 DEF Set, ConnInv, RestTypeOK
  <1>7. \A d \in Conn :
          /\ conn'[d].req = conn[d].req
          /\ IsPut(conn'[d]) => IsPut(conn[d])
          /\ Pending(conn'[d]) => Pending(conn[d]) /\ d # c
          /\ Telling(conn'[d]) => d = c \/ Telling(conn[d])
          /\ Telling(conn[d]) => Telling(conn'[d]) /\ conn'[d] = conn[d]
          /\ conn'[d].at = "queue" => conn'[d] = conn[d]
    BY <1>1, <1>3, <1>5, <1>6 DEF IsPut, Pending, Telling
  <1>8. /\ writes \in [Service -> Seq(Values)] /\ w \in Seq(Values)
        /\ \A t \in Service : writes[t] \in Seq(Values)
    BY <1>3 DEF ConnInv, RestTypeOK
  <1>9. \A t \in Service : writes'[t] = IF t = s THEN Append(w, n) ELSE writes[t]
    BY <1>1, <1>8
  <1> HIDE DEF q, n, w, s
  <1>10. /\ Len(w) \in Nat /\ Len(Append(w, n)) = Len(w) + 1
         /\ \A i \in 1 .. Len(w) : Append(w, n)[i] = w[i]
         /\ Append(w, n)[Len(w) + 1] = n
    BY ONLY <1>4, <1>8, AppendFacts
  <1>a. /\ \A i \in 1 .. Len(w) : i \in 1 .. Len(w) + 1
        /\ Len(w) + 1 \in 1 .. Len(w) + 1
    BY ONLY <1>10
  \* What was written stays where it is, and one entry comes behind it.
  <1>11. \A t \in Service : \A i \in 1 .. Len(writes[t]) :
           i \in 1 .. Len(writes'[t]) /\ writes'[t][i] = writes[t][i]
    <2> TAKE t \in Service
    <2>1. CASE t = s
      BY <1>9, <1>10, <1>a, <2>1 DEF w
    <2>2. CASE t # s
      BY <1>9, <2>2
    <2> QED
      BY <2>1, <2>2
  <1>12. \A t \in Service : \A i \in 1 .. Len(writes'[t]) :
           \/ i \in 1 .. Len(writes[t]) /\ writes'[t][i] = writes[t][i]
           \/ t = s /\ i = Len(w) + 1 /\ writes'[t][i] = n
    <2> TAKE t \in Service
    <2>1. CASE t = s
      <3>1. \A i \in 1 .. Len(w) + 1 : i \in 1 .. Len(w) \/ i = Len(w) + 1
        BY <1>10
      <3> QED
        BY <1>9, <1>10, <2>1, <3>1 DEF w
    <2>2. CASE t # s
      BY <1>9, <2>2
    <2> QED
      BY <2>1, <2>2
  <1>13. Len(w) + 1 \in 1 .. Len(writes'[s]) /\ writes'[s][Len(w) + 1] = n
    BY <1>3, <1>9, <1>10, <1>a
  \* Nothing was written by this request before, and nothing told.
  <1>14. \A t \in Service : \A i \in 1 .. Len(writes[t]) : writes[t][i] # n
    BY <1>3 DEF ToldInv, PendingIsNew, n, q
  <1>15. \A i \in 1 .. Len(events) : events[i].svc \in Service
    BY EventsTyped
  <1>16. \A i \in 1 .. Len(events) : events[i].put # n
    BY <1>14, <1>15 DEF ToldInv, PutsAreTold, EventsAreWrites
  <1>17. WritesArePast'
    BY <1>1, <1>3, <1>12 DEF ToldInv, WritesArePast
  <1>18. PutsDiffer'
    BY <1>7 DEF ToldInv, PutsDiffer
  <1>19. PendingIsNew'
    <2> SUFFICES ASSUME NEW d \in Conn, Pending(conn'[d]), NEW t \in Service,
                        NEW i \in 1 .. Len(writes'[t])
                 PROVE  writes'[t][i] # conn'[d].req.new
      BY DEF PendingIsNew
    <2>1. Pending(conn[d]) /\ d # c /\ conn'[d].req = conn[d].req
          /\ IsPut(conn[d])
      BY <1>7 DEF Pending
    <2>2. n # conn[d].req.new
      BY <1>3, <2>1 DEF ToldInv, PutsDiffer, n, q
    <2>3. \A k \in 1 .. Len(writes[t]) : writes[t][k] # conn[d].req.new
      BY <2>1 DEF ToldInv, PendingIsNew
    <2> QED
      BY <1>12, <2>1, <2>2, <2>3
  <1>20. TellingIsWritten'
    <2> SUFFICES ASSUME NEW d \in Conn, Telling(conn'[d])
                 PROVE  LET p == conn'[d].req
                        IN /\ \E m \in 1 .. Len(writes'[p.url]) :
                                writes'[p.url][m] = p.new
                           /\ \A i \in 1 .. Len(events) : events[i].put # p.new
      BY <1>1 DEF TellingIsWritten
    <2>1. CASE d = c
      <3>1. conn'[d].req.url = s /\ conn'[d].req.new = n
        BY <1>7, <2>1 DEF n, q, s
      <3> QED
        BY <1>13, <1>16, <3>1
    <2>2. CASE d # c
      <3>1. Telling(conn[d]) /\ conn'[d].req = conn[d].req
        BY <1>7, <2>2
      <3>2. conn[d].req.url \in Service
        BY <3>1 DEF Telling, ConnInv, Shapes, Shape
      <3> QED
        BY <1>11, <3>1, <3>2 DEF ToldInv, TellingIsWritten
    <2> QED
      BY <2>1, <2>2
  <1>21. LastIsValue'
    <2> SUFFICES ASSUME NEW t \in Service, writes'[t] # <<>>
                 PROVE  value'[t] = writes'[t][Len(writes'[t])]
      BY DEF LastIsValue
    <2>1. value \in [Service -> Values]
      BY DEF ConnInv, RestTypeOK
    <2>2. CASE t = s
      <3>1. value'[t] = n
        BY <1>1, <1>3, <2>1, <2>2
      <3> QED
        BY <1>9, <1>10, <2>2, <3>1
    <2>3. CASE t # s
      BY <1>1, <1>9, <2>1, <2>3 DEF ToldInv, LastIsValue
    <2> QED
      BY <2>2, <2>3
  <1>22. BufferIsValue'
    <2>1. /\ value \in [Service -> Values]
          /\ buffer \in [Service -> Values \cup {Torn}] /\ Torn' = Torn
      BY DEF ConnInv, RestTypeOK, Torn
    <2> QED
      BY <1>1, <2>1 DEF ToldInv, BufferIsValue
  <1>23. CopyIsWritten'
    <2> SUFFICES ASSUME NEW d \in Conn, conn'[d].at = "queue"
                 PROVE  \E m, k \in 1 .. Len(writes'[conn[d].req.url]) :
                          /\ m <= k
                          /\ writes'[conn[d].req.url][m] = conn[d].req.new
                          /\ conn[d].copy \in {Torn, writes'[conn[d].req.url][k]}
      BY <1>7 DEF CopyIsWritten, Torn
    <2>1. conn[d].at = "queue"
      BY <1>7
    <2>2. conn[d].req.url \in Service
      BY <2>1 DEF ConnInv, Shapes, Shape
    <2> QED
      BY <1>11, <2>1, <2>2 DEF ToldInv, CopyIsWritten
  <1>24. EventsAreWrites'
    <2>0. events' = events /\ Torn' = Torn
      BY <1>1 DEF Torn
    <2>1. ASSUME NEW i \in 1 .. Len(events)
          PROVE  \E m, k \in 1 .. Len(writes'[events[i].svc]) :
                   /\ m <= k /\ writes'[events[i].svc][m] = events[i].put
                   /\ events[i].val \in {Torn, writes'[events[i].svc][k]}
      <3>1. events[i].svc \in Service
        BY <1>15
      <3>2. PICK m, k \in 1 .. Len(writes[events[i].svc]) :
              /\ m <= k /\ writes[events[i].svc][m] = events[i].put
              /\ events[i].val \in {Torn, writes[events[i].svc][k]}
        BY DEF ToldInv, PutsAreTold, EventsAreWrites
      <3> QED
        BY <1>11, <3>1, <3>2
    <2> QED
      BY <2>0, <2>1 DEF EventsAreWrites
  <1>25. WritesAreTold'
    <2> SUFFICES ASSUME NEW t \in Service, NEW m \in 1 .. Len(writes'[t])
                 PROVE  LET x == writes'[t][m]
                        IN  \/ \E i \in Told(x) : Told(x) = {i}
                            \/ /\ Told(x) = {}
                               /\ \E d \in Conn : /\ Telling(conn'[d])
                                                  /\ conn'[d].req.new = x
      BY <1>1 DEF WritesAreTold, Told, Telling, Req
    <2>1. CASE m \in 1 .. Len(writes[t]) /\ writes'[t][m] = writes[t][m]
      <3> DEFINE x == writes[t][m]
      <3>1. CASE \E i \in Told(x) : Told(x) = {i}
        BY <2>1, <3>1
      <3>2. ASSUME Told(x) = {}, NEW d \in Conn, Telling(conn[d]),
                   conn[d].req.new = x
            PROVE  Telling(conn'[d]) /\ conn'[d].req.new = x
        BY <1>7, <3>2
      <3>3. \/ \E i \in Told(x) : Told(x) = {i}
            \/ Told(x) = {} /\ \E d \in Conn : Telling(conn[d])
                                              /\ conn[d].req.new = x
        BY <2>1 DEF ToldInv, PutsAreTold, WritesAreTold, Telling, Req
      <3> QED
        BY <2>1, <3>1, <3>2, <3>3
    <2>2. CASE writes'[t][m] = n
      <3>1. Told(n) = {}
        BY <1>16 DEF Told
      <3>2. Telling(conn'[c]) /\ conn'[c].req.new = n
        BY <1>5, <1>6 DEF Telling, n, q
      <3> QED
        BY <2>2, <3>1, <3>2
    <2> QED
      BY <1>12, <2>1, <2>2
  <1> QED
    BY <1>17, <1>18, <1>19, <1>20, <1>21, <1>22, <1>23, <1>24, <1>25
       DEF ToldInv, PutsAreTold

(* The event of a PUT goes into the queue: now it is told.                 *)
LEMMA QueueKeepsTold ==
  ASSUME ConnInv, ToldInv, NEW c \in Conn, queue_event(c)
  PROVE  ToldInv'
  <1> DEFINE q == conn[c]
             s == q.req.url
             n == q.req.new
             e == [svc |-> s, val |-> q.copy, put |-> n]
             l == Len(events) + 1
             r == [q EXCEPT !.at = "reply"]
             R == [svc : Service, val : Values \cup {Torn}, put : Values]
  <1>1. /\ q.at = "queue" /\ Set(c, r) /\ events' = Append(events, e)
        /\ UNCHANGED <<value, buffer, writes, requests>>
    BY DEF queue_event, Up, Req, UnchangedService
  <1>2. Shape(q, requests) /\ q \in ConnRecords
    BY DEF ConnInv, Shapes, Shape
  <1>3. /\ s \in Service /\ n \in 1 .. requests /\ IsPut(q) /\ Telling(q)
        /\ q.copy \in Values \cup {Torn}
    BY <1>1, <1>2 DEF Shape, IsPut, Telling
  <1>4. n \in Values
    <2>1. requests \in Values /\ MaxRequests \in Nat
      BY ConnAssumption DEF ConnInv, RestTypeOK
    <2>2. n \in 1 .. requests
      BY <1>3
    <2> HIDE DEF n
    <2> QED
      BY ONLY <2>1, <2>2 DEF Values
  <1>5. r.at = "reply" /\ r.req = q.req
    BY <1>2 DEF ConnRecords
  <1> HIDE DEF r
  <1>6. \A d \in Conn : conn'[d] = IF d = c THEN r ELSE conn[d]
    BY <1>1 DEF Set, ConnInv, RestTypeOK
  <1>7. \A d \in Conn :
          /\ conn'[d].req = conn[d].req
          /\ IsPut(conn'[d]) => IsPut(conn[d])
          /\ Pending(conn'[d]) => Pending(conn[d])
          /\ Telling(conn'[d]) => d # c /\ Telling(conn[d])
          /\ Telling(conn[d]) => d = c \/ Telling(conn'[d])
          /\ conn'[d].at = "queue" => conn'[d] = conn[d]
    BY <1>1, <1>3, <1>5, <1>6 DEF IsPut, Pending, Telling
  <1>8. events \in Seq(R) /\ e \in R /\ e.svc = s /\ e.put = n /\ e.val = q.copy
    BY <1>3, <1>4 DEF ConnInv, RestTypeOK
  <1> HIDE DEF q, n, s, e, R
  <1>9. /\ Len(events) \in Nat /\ Len(events') = l
        /\ \A i \in 1 .. Len(events) : events'[i] = events[i] /\ i # l
        /\ events'[l] = e
    BY ONLY <1>1, <1>8
  <1>10. \A i : i \in 1 .. Len(events') <=> i \in 1 .. Len(events) \/ i = l
    BY ONLY <1>9
  \* It is the first event of this request.
  <1>11. \A i \in 1 .. Len(events) : events[i].put # n
    BY <1>3 DEF ToldInv, TellingIsWritten, n, q
  <1> DEFINE Now(x) == {i \in 1 .. Len(events') : events'[i].put = x}
  <1>12. \A x : Now(x) = IF x = n THEN {l} ELSE Told(x)
    <2> TAKE x
    <2>1. /\ l \in 1 .. Len(events') /\ events'[l].put = n
          /\ \A i \in 1 .. Len(events) :
               /\ i \in 1 .. Len(events') /\ i # l
               /\ events'[i].put = events[i].put
          /\ \A i \in 1 .. Len(events') : i \in 1 .. Len(events) \/ i = l
      BY <1>8, <1>9, <1>10
    <2> HIDE DEF l
    <2>2. CASE x = n
      BY <1>11, <2>1, <2>2
    <2>3. CASE x # n
      <3>1. \A i \in Now(x) : i \in Told(x)
        BY <2>1, <2>3 DEF Told
      <3>2. \A i \in Told(x) : i \in Now(x)
        BY <2>1 DEF Told
      <3> QED
        BY <2>3, <3>1, <3>2
    <2> QED
      BY <2>2, <2>3
  <1>13. WritesArePast' /\ LastIsValue' /\ BufferIsValue'
    BY <1>1 DEF ToldInv, WritesArePast, LastIsValue, BufferIsValue, Torn
  <1>14. PutsDiffer'
    BY <1>7 DEF ToldInv, PutsDiffer
  <1>15. PendingIsNew'
    BY <1>1, <1>7 DEF ToldInv, PendingIsNew
  <1>16. TellingIsWritten'
    <2> SUFFICES ASSUME NEW d \in Conn, Telling(conn'[d])
                 PROVE  LET p == conn'[d].req
                        IN /\ \E m \in 1 .. Len(writes[p.url]) :
                                writes[p.url][m] = p.new
                           /\ \A i \in 1 .. Len(events') : events'[i].put # p.new
      BY <1>1 DEF TellingIsWritten
    <2>1. Telling(conn[d]) /\ d # c /\ conn'[d].req = conn[d].req
      BY <1>7
    <2>2. IsPut(conn[d])
      BY <2>1 DEF IsPut, Telling, ConnInv, Shapes, Shape
    <2>3. n # conn[d].req.new
      BY <1>3, <2>1, <2>2 DEF ToldInv, PutsDiffer, n, q
    <2>4. \A i \in 1 .. Len(events') : events'[i].put # conn[d].req.new
      BY <1>8, <1>9, <1>10, <2>1, <2>3 DEF ToldInv, TellingIsWritten
    <2> QED
      BY <2>1, <2>4 DEF ToldInv, TellingIsWritten
  <1>17. CopyIsWritten'
    <2> SUFFICES ASSUME NEW d \in Conn, conn'[d].at = "queue"
                 PROVE  CopyIsLate(conn[d])
      BY <1>1, <1>7 DEF CopyIsWritten, CopyIsLate, Torn
    <2> QED
      BY <1>7 DEF ToldInv, CopyIsWritten, CopyIsLate
  <1>18. EventsAreWrites'
    <2>0. writes' = writes /\ Torn' = Torn
      BY <1>1 DEF Torn
    <2>1. ASSUME NEW i \in 1 .. Len(events')
          PROVE  \E m, k \in 1 .. Len(writes[events'[i].svc]) :
                   /\ m <= k /\ writes[events'[i].svc][m] = events'[i].put
                   /\ events'[i].val \in {Torn, writes[events'[i].svc][k]}
      <3>1. CASE i \in 1 .. Len(events)
        BY <1>9, <3>1 DEF ToldInv, PutsAreTold, EventsAreWrites
      <3>2. CASE i = l
        <4>1. events'[i] = e
          BY <1>9, <3>2
        <4>2. CopyIsLate(q)
          BY <1>1 DEF ToldInv, CopyIsWritten, CopyIsLate, q
        <4> QED
          BY <1>8, <4>1, <4>2 DEF CopyIsLate, s, n
      <3> QED
        BY <1>10, <3>1, <3>2
    <2> QED
      BY <2>0, <2>1 DEF EventsAreWrites
  <1>19. WritesAreTold'
    <2> SUFFICES ASSUME NEW t \in Service, NEW m \in 1 .. Len(writes[t])
                 PROVE  LET x == writes[t][m]
                        IN  \/ \E i \in Now(x) : Now(x) = {i}
                            \/ /\ Now(x) = {}
                               /\ \E d \in Conn : /\ Telling(conn'[d])
                                                  /\ conn'[d].req.new = x
      BY <1>1 DEF WritesAreTold, Told, Telling, Req
    <2> DEFINE x == writes[t][m]
    <2> HIDE DEF Now
    <2>1. CASE x = n
      <3>1. Now(x) = {l}
        BY <1>12, <2>1
      <3> QED
        BY <3>1
    <2>2. CASE x # n
      <3>1. Now(x) = Told(x)
        BY <1>12, <2>2
      <3>2. \/ \E i \in Told(x) : Told(x) = {i}
            \/ Told(x) = {} /\ \E d \in Conn : Telling(conn[d])
                                              /\ conn[d].req.new = x
        BY DEF ToldInv, PutsAreTold, WritesAreTold, Telling, Req
      <3>3. ASSUME NEW d \in Conn, Telling(conn[d]), conn[d].req.new = x
            PROVE  Telling(conn'[d]) /\ conn'[d].req.new = x
        BY <1>7, <2>2, <3>3 DEF n, q
      <3> QED
        BY <3>1, <3>2, <3>3
    <2> QED
      BY <2>1, <2>2
  <1> QED
    BY <1>13, <1>14, <1>15, <1>16, <1>17, <1>18, <1>19 DEF ToldInv, PutsAreTold

(* A new request has a number that no other has.                           *)
LEMMA ReceiveKeepsTold ==
  ASSUME ConnInv, ConnInv', ToldInv, NEW c \in Conn, MHDReceives(c)
  PROVE  ToldInv'
  <1> DEFINE q == conn[c]
             r == conn'[c]
             v == requests + 1
  <1>1. /\ q.at = "idle" /\ requests' = v
        /\ UNCHANGED <<value, buffer, writes, events>>
        /\ \E p : Set(c, [conn[c] EXCEPT !.at = "call", !.req = p,
                                         !.left = p.chunks])
    BY DEF MHDReceives, Up, UnchangedService
  <1>2. requests \in Nat /\ v \in Nat
    <2>1. requests \in Values /\ MaxRequests \in Nat
      BY ConnAssumption DEF ConnInv, RestTypeOK
    <2> QED
      BY ONLY <2>1 DEF Values
  <1>3. r.at = "call" /\ \A d \in Conn : d # c => conn'[d] = conn[d]
    BY <1>1 DEF Set, ConnInv, RestTypeOK, ConnRecords
  <1>4. IsPut(r) => r.req.new = v
    <2> SUFFICES ASSUME IsPut(r) PROVE r.req.new = v
      OBVIOUS
    <2>1. PICK p \in Requests(v) :
            Set(c, [conn[c] EXCEPT !.at = "call", !.req = p,
                                   !.left = p.chunks])
      BY DEF MHDReceives
    <2>2. r.req = p
      BY <2>1 DEF Set, ConnInv, RestTypeOK, ConnRecords
    <2> HIDE DEF r
    <2>3. p.method = "PUT"
      BY <2>2 DEF IsPut
    <2> HIDE DEF v
    <2> QED
      BY <1>2, <2>1, <2>2, <2>3, RequestShape
  <1>5. \A d \in Conn : IsPut(conn[d]) => conn[d].req.new \in 1 .. requests
    BY DEF ConnInv, Shapes, Shape, IsPut
  <1> HIDE DEF q, r
  <1>6. \A i \in 1 .. requests : i # v /\ i \in 1 .. v
    BY ONLY <1>2
  <1> HIDE DEF v
  <1>7. ~Telling(q) /\ ~Telling(r)
    BY <1>1, <1>3 DEF Telling
  <1>8. WritesArePast'
    BY <1>1, <1>6 DEF ToldInv, WritesArePast
  <1>9. PutsDiffer'
    <2> SUFFICES ASSUME NEW d \in Conn, NEW e \in Conn, IsPut(conn'[d]),
                        IsPut(conn'[e]), d # e
                 PROVE  conn'[d].req.new # conn'[e].req.new
      BY DEF PutsDiffer
    <2>1. CASE d = c
      BY <1>3, <1>4, <1>5, <1>6, <2>1 DEF r
    <2>2. CASE e = c
      BY <1>3, <1>4, <1>5, <1>6, <2>2 DEF r
    <2>3. CASE d # c /\ e # c
      BY <1>3, <2>3 DEF ToldInv, PutsDiffer
    <2> QED
      BY <2>1, <2>2, <2>3
  <1>10. PendingIsNew'
    <2> SUFFICES ASSUME NEW d \in Conn, Pending(conn'[d]), NEW s \in Service,
                        NEW m \in 1 .. Len(writes[s])
                 PROVE  writes[s][m] # conn'[d].req.new
      BY <1>1 DEF PendingIsNew
    <2>1. CASE d = c
      <3>1. conn'[d].req.new = v
        BY <1>4, <2>1 DEF r, Pending
      <3>2. writes[s][m] \in 1 .. requests
        BY DEF ToldInv, WritesArePast
      <3> QED
        BY <1>6, <3>1, <3>2
    <2>2. CASE d # c
      BY <1>3, <2>2 DEF ToldInv, PendingIsNew
    <2> QED
      BY <2>1, <2>2
  <1>11. \A d \in Conn : Telling(conn'[d]) \/ Telling(conn[d])
                           => conn'[d] = conn[d]
    BY <1>3, <1>7 DEF q, r
  <1>12. \A d \in Conn : Telling(conn'[d]) <=> Telling(conn[d])
    BY <1>3, <1>7 DEF q, r
  <1>13. TellingIsWritten'
    BY <1>1, <1>11, <1>12 DEF ToldInv, TellingIsWritten
  <1>14. LastIsValue' /\ BufferIsValue'
    BY <1>1 DEF ToldInv, LastIsValue, BufferIsValue, Torn
  <1>15. CopyIsWritten'
    <2> SUFFICES ASSUME NEW d \in Conn, conn'[d].at = "queue"
                 PROVE  CopyIsLate(conn'[d])
      BY <1>1 DEF CopyIsWritten, CopyIsLate, Torn
    <2>1. conn'[d] = conn[d]
      BY <1>11 DEF Telling
    <2> QED
      BY <2>1 DEF ToldInv, CopyIsWritten, CopyIsLate
  <1>16. EventsAreWrites'
    BY <1>1 DEF ToldInv, PutsAreTold, EventsAreWrites, Torn
  <1>17. WritesAreTold'
    <2> SUFFICES ASSUME NEW s \in Service, NEW m \in 1 .. Len(writes[s])
                 PROVE  LET w == writes[s][m]
                        IN  \/ \E i \in Told(w) : Told(w) = {i}
                            \/ /\ Told(w) = {}
                               /\ \E d \in Conn : /\ Telling(conn'[d])
                                                  /\ conn'[d].req.new = w
      BY <1>1 DEF WritesAreTold, Told, Telling, Req
    <2> DEFINE w == writes[s][m]
    <2>1. \/ \E i \in Told(w) : Told(w) = {i}
          \/ Told(w) = {} /\ \E d \in Conn : Telling(conn[d])
                                            /\ conn[d].req.new = w
      BY DEF ToldInv, PutsAreTold, WritesAreTold, Telling, Req
    <2>2. ASSUME NEW d \in Conn, Telling(conn[d]), conn[d].req.new = w
          PROVE  Telling(conn'[d]) /\ conn'[d].req.new = w
      BY <1>11, <1>12, <2>2
    <2> QED
      BY <2>1, <2>2
  <1> QED
    BY <1>8, <1>9, <1>10, <1>13, <1>14, <1>15, <1>16, <1>17
       DEF ToldInv, PutsAreTold

LEMMA ToldInit == WebInit => ToldInv
  <1> SUFFICES ASSUME WebInit PROVE ToldInv
    OBVIOUS
  <1>1. \A c \in Conn : conn[c].at = "idle"
    BY DEF WebInit, NoRequest
  <1>2. \A c \in Conn : ~IsPut(conn[c]) /\ ~Telling(conn[c])
                        /\ ~Pending(conn[c]) /\ conn[c].at # "queue"
    BY <1>1 DEF IsPut, Telling, Pending
  <1>3. events = <<>> /\ \A s \in Service : writes[s] = <<>> /\ buffer[s] = Torn
    BY DEF WebInit
  <1> QED
    BY <1>2, <1>3
       DEF ToldInv, WritesArePast, PutsDiffer, PendingIsNew, TellingIsWritten,
           LastIsValue, BufferIsValue, CopyIsWritten, PutsAreTold,
           EventsAreWrites, WritesAreTold

LEMMA ToldStep ==
  ConnInv /\ ConnInv' /\ ToldInv /\ [WebNext]_webVars => ToldInv'
  <1> SUFFICES ASSUME ConnInv, ConnInv', ToldInv, [WebNext]_webVars
               PROVE  ToldInv'
    OBVIOUS
  <1>1. ASSUME NEW c \in Conn, Works(c) PROVE ToldInv'
    BY <1>1, TriesKeepTold, WriteKeepsTold, QueueKeepsTold DEF Works
  <1>2. ASSUME NEW c \in Conn, MHDCompletes(c) PROVE ToldInv'
    <2>1. NoRequest.at = "idle"
      BY DEF NoRequest
    <2>2. Quiet(conn[c], Closed) /\ Set(c, Closed) /\ Closed.at # "queue"
      BY <1>2, <2>1
         DEF MHDCompletes, Up, Closed, Quiet, IsPut, Pending, Telling
    <2>3. UNCHANGED <<value, buffer, writes, events, requests>>
      BY <1>2 DEF MHDCompletes, UnchangedService, UnchangedRest
    <2>4. BufferIsValue' /\ LastIsValue'
      BY <2>3 DEF ToldInv, BufferIsValue, LastIsValue, Torn
    <2> QED
      BY <2>2, <2>3, <2>4, QuietKeepsTold
  <1>3. CASE UNCHANGED webVars
    BY <1>3, ToldStutters DEF webVars
  <1> QED
    BY <1>1, <1>2, <1>3, ChoosesKeepsTold, ReceiveKeepsTold, HandlerIsEither
       DEF WebNext

(* The value events are the successful PUT requests, one each, and none is *)
(* older than its own, although the buffer is read after the unlock        *)
(* (hpd_http_web_server.c:297-322).                                        *)
THEOREM EventsTellPuts == WebSpec => []PutsAreTold
  <1>1. ToldInv => PutsAreTold
    BY DEF ToldInv
  <1> QED
    BY <1>1, ToldInit, ToldStep, ConnAlways, PTL DEF WebSpec
-----------------------------------------------------------------------------
(* What a handler has left to do, and what it holds.                        *)

Busy == {"call", "walk", "found", "get", "put", "event", "queue", "reply"}

\* The calls that libmicrohttpd still has to make for a request, or more.
Calls(r) == 2 * r.left + (IF r.call = "last" THEN 1 ELSE 2)

\* More than the steps that the handler still has to take: calls, then a walk
\* past the services of the list, then the work on one of them.
Work(r) ==
  CASE r.at = "call" -> Len(service_head) + 6 + Calls(r)
    [] r.at = "walk" -> Len(service_head) + 7 - r.walk
    [] r.at = "found" -> 5
    [] r.at \in {"get", "put"} -> 4
    [] r.at = "event" -> 3
    [] r.at = "queue" -> 2
    [] r.at = "reply" -> 1
    [] OTHER -> 0

\* The walk does not leave the list by more than one step.
Bounded(r) ==
  /\ r \in ConnRecords
  /\ r.at = "walk" => r.walk \in 1 .. Len(service_head) + 1

\* The thread of a connection comes nearer to the end of its request.
Nearer(q, r) ==
  Bounded(r) /\ q.at \in Busy /\ Work(r) < Work(q)

InFunction(r) == r.at \in {"get", "put"}

Outside(q, r) == Nearer(q, r) /\ ~InFunction(r)

WalksAreBounded == \A c \in Conn : Bounded(conn[c])

LEMMA WorkOf ==
  ASSUME NEW r, Bounded(r)
  PROVE  /\ Work(r) \in Nat
         /\ r.at = "call" => /\ Work(r) = Len(service_head) + 6 + Calls(r)
                             /\ Work(r) > Len(service_head) + 6
         /\ r.at = "walk" => /\ Work(r) = Len(service_head) + 7 - r.walk
                             /\ Work(r) > 5
         /\ r.at = "found" => Work(r) = 5
         /\ r.at \in {"get", "put"} => Work(r) = 4
         /\ r.at = "event" => Work(r) = 3
         /\ r.at = "queue" => Work(r) = 2
         /\ r.at = "reply" => Work(r) = 1
         /\ r.at \notin Busy => Work(r) = 0
         /\ r.at \in Busy => Work(r) > 0
  <1>1. Len(service_head) \in Nat
    BY ConnAssumption
  <1>2. r.left \in Nat /\ r.at \in Places
    BY ConnAssumption DEF Bounded, ConnRecords
  <1>3. Calls(r) \in Nat /\ Calls(r) > 0
    BY <1>2 DEF Calls
  <1>4. r.at = "walk" => r.walk \in 1 .. Len(service_head) + 1
    BY DEF Bounded
  <1> DEFINE n == Len(service_head)
             k == Calls(r)
             w == Len(service_head) + 7 - r.walk
  <1>5. r.at = "walk" => w \in Nat /\ w > 5
    BY <1>1, <1>4
  <1>6. n + 6 + k \in Nat /\ n + 6 + k > n + 6
    BY <1>1, <1>3
  <1>. QED BY <1>2, <1>5, <1>6 DEF Work, Places, Busy

LEMMA EndIsNearer ==
  ASSUME NEW q, Bounded(q), q.at \in Busy
  PROVE  /\ Outside(q, Closed)
         /\ \A x \in Values \cup {None} : Outside(q, Answered(x))
         /\ \A c, e : Outside(q, send_error(c, e))
  <1>0. 0 \in Values
    BY ConnAssumption DEF Values
  <1>1. ASSUME NEW r \in ConnRecords, r.at \in {"idle", "done"}
        PROVE  Outside(q, r)
    <2>1. Bounded(r) /\ r.at \notin Busy
      BY <1>1 DEF Bounded, Busy
    <2>. QED BY <1>1, <2>1, WorkOf DEF Outside, Nearer, InFunction
  <1>2. Closed \in ConnRecords /\ Closed.at = "idle"
    BY <1>0, EndShapes DEF Shape, Closed, NoRequest
  <1>3. ASSUME NEW x \in Values \cup {None}
        PROVE  Answered(x) \in ConnRecords /\ Answered(x).at = "done"
    <2>1. Answered(x) \in ConnRecords
      BY <1>0, EndShapes DEF Shape
    <2>2. NoRequest \in ConnRecords
      BY <1>0, EndShapes DEF Shape
    <2>. QED BY <2>1, <2>2 DEF Answered, ConnRecords
  <1>4. Outside(q, Closed) /\ \A x \in Values \cup {None} : Outside(q, Answered(x))
    BY <1>1, <1>2, <1>3
  <1>. QED BY <1>4 DEF send_error

LEMMA NextCallIsNearer ==
  ASSUME NEW q \in ConnRecords, NEW r \in ConnRecords, q.at = "call",
         r.at = "call", r.left = q.left, r.call = q.call
  PROVE  Outside(q, NextCall(r))
  <1>1. q.left \in Nat /\ r.left \in 0 .. MaxChunks /\ MaxChunks \in Nat
    BY ConnAssumption DEF ConnRecords
  <1>2. Bounded(q) /\ q.at \in Busy
    BY DEF Bounded, Busy
  <1>3. CASE r.left > 0
    <2> DEFINE d == [r EXCEPT !.at = "call", !.call = "data", !.left = @ - 1]
    <2>1. r.left - 1 \in 0 .. MaxChunks
      BY <1>1, <1>3
    <2>2. d \in ConnRecords /\ d.at = "call" /\ d.call = "data"
          /\ d.left = r.left - 1
      BY <2>1 DEF ConnRecords
    <2>3. NextCall(r) = d
      BY <1>3 DEF NextCall
    <2> HIDE DEF d
    <2>4. Calls(d) < Calls(q) /\ Calls(d) \in Nat /\ Calls(q) \in Nat
      BY <1>1, <1>3, <2>2 DEF Calls
    <2>5. Bounded(d)
      BY <2>2 DEF Bounded
    <2>6. /\ Work(d) = Len(service_head) + 6 + Calls(d)
          /\ Work(q) = Len(service_head) + 6 + Calls(q)
      BY <1>2, <2>2, <2>5, WorkOf
    <2>7. Len(service_head) \in Nat
      BY ConnAssumption
    <2>8. Work(d) < Work(q)
      BY ONLY <2>4, <2>6, <2>7
    <2>. QED BY <1>2, <2>2, <2>3, <2>5, <2>8 DEF Outside, Nearer, InFunction
  <1>4. CASE ~(r.left > 0) /\ r.call = "last"
    <2> DEFINE h == [r EXCEPT !.at = "hung"]
    <2>1. h \in ConnRecords /\ h.at = "hung" /\ NextCall(r) = h
      BY <1>4 DEF ConnRecords, Places, NextCall
    <2> HIDE DEF h
    <2>2. Bounded(h) /\ h.at \notin Busy
      BY <2>1 DEF Bounded, Busy
    <2>. QED BY <1>2, <2>1, <2>2, WorkOf DEF Outside, Nearer, InFunction
  <1>5. CASE ~(r.left > 0) /\ r.call # "last"
    <2> DEFINE l == [r EXCEPT !.at = "call", !.call = "last"]
    <2>1. l \in ConnRecords /\ l.at = "call" /\ l.call = "last" /\ l.left = r.left
          /\ NextCall(r) = l
      BY <1>5 DEF ConnRecords, NextCall
    <2> HIDE DEF l
    <2>2. Calls(l) < Calls(q) /\ Calls(l) \in Nat /\ Calls(q) \in Nat
      BY <1>1, <1>5, <2>1 DEF Calls
    <2>3. Bounded(l)
      BY <2>1 DEF Bounded
    <2>4. /\ Work(l) = Len(service_head) + 6 + Calls(l)
          /\ Work(q) = Len(service_head) + 6 + Calls(q)
      BY <1>2, <2>1, <2>3, WorkOf
    <2>5. Len(service_head) \in Nat
      BY ConnAssumption
    <2>6. Work(l) < Work(q)
      BY ONLY <2>2, <2>4, <2>5
    <2>. QED BY <1>2, <2>1, <2>3, <2>6 DEF Outside, Nearer, InFunction
  <1>. QED BY <1>3, <1>4, <1>5

LEMMA WalkIsNearer ==
  ASSUME NEW q \in ConnRecords, NEW e \in ConnRecords, q.at = "call"
  PROVE  Outside(q, Walk(e))
  <1> DEFINE r == [e EXCEPT !.at = "walk", !.walk = 1]
  <1>1. r \in ConnRecords /\ r.at = "walk" /\ r.walk = 1 /\ Walk(e) = r
    BY DEF ConnRecords, Places, Walk
  <1> HIDE DEF r
  <1>2. Len(service_head) \in Nat
    BY ConnAssumption
  <1>3. Bounded(r) /\ Bounded(q) /\ q.at \in Busy
    BY <1>1, <1>2 DEF Bounded, Busy
  <1>4. /\ Work(r) = Len(service_head) + 7 - r.walk
        /\ Work(q) > Len(service_head) + 6 /\ Work(q) \in Nat
    BY <1>1, <1>3, WorkOf
  <1>5. Work(r) < Work(q)
    BY ONLY <1>1, <1>2, <1>4
  <1>. QED BY <1>1, <1>3, <1>5 DEF Outside, Nearer, InFunction

\* The places of a service's work are passed in their order.
LEMMA PlaceIsNearer ==
  ASSUME NEW q \in ConnRecords, Bounded(q), NEW r \in ConnRecords,
         \/ q.at = "walk" /\ r.at = "found"
         \/ q.at = "found" /\ r.at \in {"get", "put", "reply"}
         \/ q.at \in {"get", "put"} /\ r.at \in {"event", "reply"}
         \/ q.at = "event" /\ r.at = "queue"
         \/ q.at = "queue" /\ r.at = "reply"
  PROVE  Nearer(q, r)
  <1>1. Bounded(r) /\ q.at \in Busy
    BY DEF Bounded, Busy
  <1>2. Work(r) < Work(q)
    <2>1. Work(q) \in Nat /\ Work(r) \in Nat
      BY <1>1, WorkOf
    <2>2. CASE q.at = "walk" /\ r.at = "found"
      <3>1. Work(q) > 5 /\ Work(r) = 5
        BY <1>1, <2>2, WorkOf
      <3>. QED BY <2>1, <3>1
    <2>3. CASE q.at = "found" /\ r.at \in {"get", "put", "reply"}
      <3>1. Work(q) = 5 /\ (Work(r) = 4 \/ Work(r) = 1)
        BY <1>1, <2>3, WorkOf
      <3>. QED BY <3>1
    <2>4. CASE q.at \in {"get", "put"} /\ r.at \in {"event", "reply"}
      <3>1. Work(q) = 4 /\ (Work(r) = 3 \/ Work(r) = 1)
        BY <1>1, <2>4, WorkOf
      <3>. QED BY <3>1
    <2>5. CASE q.at = "event" /\ r.at = "queue"
      <3>1. Work(q) = 3 /\ Work(r) = 2
        BY <1>1, <2>5, WorkOf
      <3>. QED BY <3>1
    <2>6. CASE q.at = "queue" /\ r.at = "reply"
      <3>1. Work(q) = 2 /\ Work(r) = 1
        BY <1>1, <2>6, WorkOf
      <3>. QED BY <3>1
    <2>. QED BY <2>2, <2>3, <2>4, <2>5, <2>6
  <1>. QED BY <1>1, <1>2 DEF Nearer

\* Steps of a thread that leave the mutexes alone, lock the one of the service
\* of the request, and unlock it.
KeepsMutexes(c, r) ==
  Outside(conn[c], r) /\ ~InFunction(conn[c]) /\ mutex' = mutex

Locks(c, r) ==
  LET s == conn[c].req.url IN
  /\ Nearer(conn[c], r) /\ InFunction(r) /\ r.req = conn[c].req
  /\ s \in Service /\ mutex[s] = Free /\ mutex' = [mutex EXCEPT ![s] = c]

Unlocks(c, r) ==
  LET s == conn[c].req.url IN
  /\ Outside(conn[c], r) /\ InFunction(conn[c])
  /\ s \in Service /\ mutex' = [mutex EXCEPT ![s] = Free]

Advances(c) ==
  \/ conn' = conn /\ mutex' = mutex
  \/ \E r : Set(c, r) /\ (KeepsMutexes(c, r) \/ Locks(c, r) \/ Unlocks(c, r))

LEMMA ChoosesAdvances ==
  ASSUME ConnInv, WalksAreBounded, NEW c \in Conn, Chooses(c)
  PROVE  Advances(c)
  <1> DEFINE q == conn[c]
  <1>1. q \in ConnRecords /\ Bounded(q) /\ mutex' = mutex
    BY ChoosesUnchanged
       DEF ConnInv, Shapes, Shape, WalksAreBounded, UnchangedService
  <1>2. ASSUME NEW r, Set(c, r), Outside(q, r), ~InFunction(q)
        PROVE  Advances(c)
    BY <1>1, <1>2 DEF Advances, KeepsMutexes
  <1>3. q.xmlbuff \in Values \cup {None}
    BY <1>1 DEF ConnRecords
  <1> HIDE DEF q
  <1>4. ASSUME q.at = "call", NEW k \in {"aptr", "continue", "upload", "NULL"}
        PROVE  /\ Outside(q, NextCall([q EXCEPT !.cls = k]))
               /\ Outside(q, Walk([q EXCEPT !.cls = k]))
               /\ Outside(q, NextCall(q)) /\ Outside(q, Walk(q))
    <2> DEFINE r == [q EXCEPT !.cls = k]
    <2>1. r \in ConnRecords /\ r.at = "call" /\ r.left = q.left /\ r.call = q.call
      BY <1>1, <1>4 DEF ConnRecords
    <2> HIDE DEF r
    <2>2. Outside(q, NextCall(r)) /\ Outside(q, Walk(r))
      BY <1>1, <1>4, <2>1, NextCallIsNearer, WalkIsNearer
    <2>3. Outside(q, NextCall(q)) /\ Outside(q, Walk(q))
      BY <1>1, <1>4, NextCallIsNearer, WalkIsNearer
    <2>. QED BY <2>2, <2>3 DEF r
  <1>5. ASSUME q.at \in {"call", "walk", "found", "reply"}
        PROVE  /\ Outside(q, Closed) /\ Outside(q, Answered(None))
               /\ Outside(q, Answered(q.xmlbuff)) /\ \A e : Outside(q, send_error(c, e))
               /\ ~InFunction(q)
    <2>1. q.at \in Busy
      BY <1>5 DEF Busy
    <2>. QED BY <1>1, <1>3, <1>5, <2>1, EndIsNearer DEF InFunction
  <1>6. CASE \/ GetFirstCall(c) \/ GetDispatch(c) \/ PutBegins(c) \/ OtherMethod(c)
             \/ PutKeepsBody(c, "NULL") \/ PutKeepsBody(c, "continue")
             \/ verify_certificate(c)
    <2>1. q.at = "call"
      BY <1>6 DEF GetFirstCall, GetDispatch, PutBegins, OtherMethod, PutKeepsBody,
                  verify_certificate, Up, q
    <2>2. \/ \E k \in {"aptr", "continue", "upload", "NULL"} :
               \/ Set(c, NextCall([q EXCEPT !.cls = k]))
               \/ Set(c, Walk([q EXCEPT !.cls = k]))
          \/ Set(c, NextCall(q)) \/ Set(c, Walk(q))
          \/ Set(c, Closed) \/ Set(c, Answered(None)) \/ \E e : Set(c, send_error(c, e))
      BY <1>6 DEF GetFirstCall, GetDispatch, PutBegins, OtherMethod, PutKeepsBody,
                  verify_certificate, q
    <2>. QED BY <1>2, <1>4, <1>5, <2>1, <2>2
  <1>7. CASE matching_service(c)
    <2> DEFINE f == [q EXCEPT !.at = "found"]
               g == [q EXCEPT !.walk = q.walk + 1]
    <2>1. q.at = "walk" /\ q.walk \in 1 .. Len(service_head) + 1
      BY <1>1, <1>7 DEF matching_service, Up, q, Bounded
    <2>2. \/ Set(c, send_error(c, q))
          \/ ~(q.walk > Len(service_head)) /\ (Set(c, f) \/ Set(c, g))
      BY <1>7 DEF matching_service, q, Req
    <2>3. Outside(q, f)
      <3>1. f \in ConnRecords /\ f.at = "found"
        BY <1>1 DEF ConnRecords, Places
      <3> HIDE DEF f
      <3>. QED BY <1>1, <2>1, <3>1, PlaceIsNearer DEF Outside, InFunction
    <2>4. ~(q.walk > Len(service_head)) => Outside(q, g)
      <3> SUFFICES ASSUME ~(q.walk > Len(service_head)) PROVE Outside(q, g)
        OBVIOUS
      <3>1. Len(service_head) \in Nat
        BY ConnAssumption
      <3>2. q.walk + 1 \in 1 .. Len(service_head) + 1 /\ q.walk + 1 \in Nat
        BY <2>1, <3>1
      <3>3. g \in ConnRecords /\ g.at = "walk" /\ g.walk = q.walk + 1
        BY <1>1, <2>1, <3>2 DEF ConnRecords
      <3> HIDE DEF g
      <3>4. Bounded(g) /\ q.at \in Busy
        BY <2>1, <3>2, <3>3 DEF Bounded, Busy
      <3>5. /\ Work(g) = Len(service_head) + 7 - g.walk
            /\ Work(q) = Len(service_head) + 7 - q.walk
        BY <1>1, <2>1, <3>3, <3>4, WorkOf
      <3>6. Work(g) < Work(q)
        BY ONLY <2>1, <3>1, <3>3, <3>5
      <3>. QED BY <3>3, <3>4, <3>6 DEF Outside, Nearer, InFunction
    <2> HIDE DEF f, g
    <2>. QED BY <1>2, <1>5, <2>1, <2>2, <2>3, <2>4
  <1>8. CASE GetSubscription(c) \/ send_xml(c)
    <2>1. /\ q.at \in {"found", "reply"}
          /\ Set(c, Closed) \/ Set(c, Answered(None)) \/ Set(c, Answered(q.xmlbuff))
      BY <1>8 DEF GetSubscription, send_xml, Up, q
    <2>. QED BY <1>2, <1>5, <2>1
  <1>9. CASE create_event(c)
    <2> DEFINE x == buffer[q.req.url]
               r == [q EXCEPT !.at = "queue", !.copy = x]
    <2>1. q.at = "event" /\ Set(c, r)
      BY <1>9 DEF create_event, Up, q, Req
    <2>2. x \in Values \cup {Torn}
      BY <1>1, <2>1 DEF Shapes, Shape, ConnInv, RestTypeOK, q
    <2> HIDE DEF x
    <2>3. r \in ConnRecords /\ r.at = "queue"
      BY <1>1, <2>2 DEF ConnRecords, Places
    <2> HIDE DEF r
    <2>4. Outside(q, r) /\ ~InFunction(q)
      BY <1>1, <2>1, <2>3, PlaceIsNearer DEF Outside, InFunction
    <2>. QED BY <1>2, <2>1, <2>4
  <1>. QED BY <1>6, <1>7, <1>8, <1>9 DEF Chooses

LEMMA WorksAdvances ==
  ASSUME ConnInv, WalksAreBounded, NEW c \in Conn, Works(c)
  PROVE  Advances(c)
  <1> DEFINE q == conn[c]
             s == q.req.url
  <1>1. q \in ConnRecords /\ Bounded(q) /\ Shape(q, requests)
    BY DEF ConnInv, Shapes, Shape, WalksAreBounded
  <1>2. ASSUME q.at \in {"found", "get", "put"}
        PROVE  Outside(q, Closed) /\ \A e : Outside(q, send_error(c, e))
    <2>1. q.at \in Busy
      BY <1>2 DEF Busy
    <2>. QED BY <1>1, <2>1, EndIsNearer
  <1>3. ASSUME q.at \in {"found", "get", "put", "queue"}
        PROVE  s \in Service
    BY <1>1, <1>3 DEF Shape
  <1>4. ASSUME NEW r, Set(c, r), Outside(q, r), q.at \in {"found", "queue"},
               mutex' = mutex
        PROVE  Advances(c)
    BY <1>4 DEF Advances, KeepsMutexes, InFunction
  <1>5. CASE GetDescription(c) \/ queue_event(c)
    <2> DEFINE r == [q EXCEPT !.at = "reply"]
    <2>1. /\ \/ q.at = "queue"
             \/ q.at = "found"
          /\ mutex' = mutex
          /\ \/ Set(c, r) \/ conn' = conn
             \/ q.at = "found" /\ Set(c, Closed)
      BY <1>5 DEF GetDescription, queue_event, Up, UnchangedService
    <2>2. r \in ConnRecords /\ r.at = "reply"
      BY <1>1 DEF ConnRecords, Places
    <2> HIDE DEF r, q
    <2>3. Outside(q, r)
      BY <1>1, <2>1, <2>2, PlaceIsNearer DEF Outside, InFunction
    <2>4. CASE conn' = conn
      BY <2>1, <2>4 DEF Advances
    <2>. QED BY <1>2, <1>4, <2>1, <2>3, <2>4
  <1>6. CASE PutRejected(c)
    <2>1. /\ q.at = "found" /\ mutex' = mutex
          /\ conn' = conn \/ \E e : Set(c, send_error(c, e))
      BY <1>6 DEF PutRejected, Up, UnchangedService
    <2>2. CASE conn' = conn
      BY <2>1, <2>2 DEF Advances
    <2>. QED BY <1>2, <1>4, <2>1, <2>2
  <1>7. CASE GetLocks(c) \/ PutLocks(c)
    <2> DEFINE g == [q EXCEPT !.at = "get"]
               p == [q EXCEPT !.at = "put", !.cls = "freed"]
    <2>1. /\ q.at = "found" /\ mutex[s] = Free
          /\ \/ conn' = conn /\ mutex' = mutex
             \/ mutex' = [mutex EXCEPT ![s] = c] /\ (Set(c, g) \/ Set(c, p))
      BY <1>7 DEF GetLocks, PutLocks, Up, Req
    <2>2. /\ g \in ConnRecords /\ g.at = "get" /\ g.req = q.req
          /\ p \in ConnRecords /\ p.at = "put" /\ p.req = q.req
      BY <1>1 DEF ConnRecords, Places
    <2> HIDE DEF g, p
    <2>3. Nearer(q, g) /\ Nearer(q, p)
      BY <1>1, <2>1, <2>2, PlaceIsNearer
    <2>4. CASE conn' = conn /\ mutex' = mutex
      BY <2>4 DEF Advances
    <2>5. ASSUME NEW r \in {g, p}, Set(c, r), mutex' = [mutex EXCEPT ![s] = c]
          PROVE  Advances(c)
      <3>1. Locks(c, r)
        BY <1>3, <2>1, <2>2, <2>3, <2>5 DEF Locks, InFunction
      <3>. QED BY <2>5, <3>1 DEF Advances
    <2>. QED BY <2>1, <2>4, <2>5
  <1>8. CASE GetEnds(c) \/ PutEnds(c)
    <2> DEFINE n == q.req.new
               v == value[s]
               g == [q EXCEPT !.at = "reply", !.xmlbuff = v]
               p == [q EXCEPT !.at = "event", !.xmlbuff = n]
    <2>1. /\ q.at \in {"get", "put"}
          /\ mutex' = [mutex EXCEPT ![s] = Free]
          /\ \/ Set(c, g) \/ Set(c, send_error(c, q))
             \/ q.at = "put" /\ Set(c, p)
      BY <1>8 DEF GetEnds, PutEnds, Up, Req
    <2>2. s \in Service
      BY <1>3, <2>1
    <2>3. v \in Values
      BY <2>2 DEF ConnInv, RestTypeOK
    <2>4. q.at = "put" => n \in Values
      <3>1. q.at = "put" => n \in 1 .. requests
        BY <1>1 DEF Shape
      <3>2. requests \in Values /\ MaxRequests \in Nat
        BY ConnAssumption DEF ConnInv, RestTypeOK
      <3>. QED BY ONLY <3>1, <3>2 DEF Values
    <2> HIDE DEF n, v
    <2>5. /\ g \in ConnRecords /\ g.at = "reply"
          /\ q.at = "put" => p \in ConnRecords /\ p.at = "event"
      BY <1>1, <2>3, <2>4 DEF ConnRecords, Places
    <2> HIDE DEF g, p
    <2>6. Outside(q, g) /\ (q.at = "put" => Outside(q, p)) /\ Outside(q, send_error(c, q))
      BY <1>1, <1>2, <2>1, <2>5, PlaceIsNearer DEF Outside, InFunction
    <2>7. ASSUME NEW r, Set(c, r), Outside(q, r)
          PROVE  Advances(c)
      <3>1. Unlocks(c, r)
        BY <2>1, <2>2, <2>7 DEF Unlocks, InFunction
      <3>. QED BY <2>7, <3>1 DEF Advances
    <2>. QED BY <2>1, <2>6, <2>7
  <1>. QED BY <1>5, <1>6, <1>7, <1>8 DEF Works

\* libmicrohttpd begins a request and ends one.
Serves(c, r) ==
  /\ conn[c].at \notin Busy /\ Bounded(r) /\ r.at \in {"call", "idle"}
  /\ mutex' = mutex

LEMMA ServesRequests ==
  ASSUME ConnInv, NEW c \in Conn, MHDReceives(c) \/ MHDCompletes(c)
  PROVE  \E r : Set(c, r) /\ Serves(c, r)
  <1>1. ConnInv'
    BY MHDKeepsInv
  <1>2. conn \in [Conn -> ConnRecords] /\ conn' \in [Conn -> ConnRecords]
    BY <1>1 DEF ConnInv, RestTypeOK
  <1>3. CASE MHDReceives(c)
    <2> DEFINE q == conn[c]
    <2>1. /\ q.at = "idle" /\ mutex' = mutex
          /\ \E p : Set(c, [q EXCEPT !.at = "call", !.req = p, !.left = p.chunks])
      BY <1>3 DEF MHDReceives, Up, UnchangedService
    <2>2. PICK p :
            Set(c, [q EXCEPT !.at = "call", !.req = p, !.left = p.chunks])
      BY <2>1
    <2> DEFINE r == [q EXCEPT !.at = "call", !.req = p, !.left = p.chunks]
    <2>3. q \in ConnRecords
      BY <1>2
    <2>4. r.at = "call"
      BY <2>3 DEF ConnRecords
    <2>5. conn' = [conn EXCEPT ![c] = r]
      BY <2>2 DEF Set
    <2> HIDE DEF r
    <2>6. r \in ConnRecords
      BY <1>2, <2>5
    <2>. QED BY <2>1, <2>4, <2>5, <2>6 DEF Serves, Bounded, Busy, Set
  <1>4. CASE MHDCompletes(c)
    <2>1. /\ conn[c].at \in {"hung", "done"} /\ mutex' = mutex /\ Set(c, Closed)
      BY <1>4 DEF MHDCompletes, Up, UnchangedService
    <2>2. Closed \in ConnRecords /\ Closed.at = "idle"
      <3>1. conn'[c] = Closed
        BY <1>2, <2>1 DEF Set
      <3>. QED BY <1>2, <3>1 DEF Closed, NoRequest
    <2>. QED BY <2>1, <2>2 DEF Serves, Bounded, Busy
  <1>. QED BY <1>3, <1>4

\* Every step is one of a connection, and of no other.
LEMMA OneServed ==
  ASSUME ConnInv, ConnInv', WalksAreBounded, [WebNext]_webVars
  PROVE  \/ conn' = conn /\ mutex' = mutex
         \/ \E c \in Conn : \E r :
              /\ KeepsMutexes(c, r) \/ Locks(c, r) \/ Unlocks(c, r) \/ Serves(c, r)
              /\ conn'[c] = r /\ \A d \in Conn : d # c => conn'[d] = conn[d]
  <1>1. CASE UNCHANGED webVars
    BY <1>1 DEF webVars
  <1>2. ASSUME NEW c \in Conn,
               MHDReceives(c) \/ Handler(c) \/ MHDCompletes(c)
        PROVE  \/ conn' = conn /\ mutex' = mutex
               \/ \E r :
                    /\ KeepsMutexes(c, r) \/ Locks(c, r) \/ Unlocks(c, r)
                         \/ Serves(c, r)
                    /\ conn'[c] = r /\ \A d \in Conn : d # c => conn'[d] = conn[d]
    <2>1. Advances(c) \/ \E r : Set(c, r) /\ Serves(c, r)
      BY <1>2, HandlerIsEither, ChoosesAdvances, WorksAdvances, ServesRequests
    <2>2. ASSUME NEW r, Set(c, r)
          PROVE  conn'[c] = r /\ \A d \in Conn : d # c => conn'[d] = conn[d]
      BY <2>2 DEF Set, ConnInv, RestTypeOK
    <2>. QED BY <2>1, <2>2 DEF Advances
  <1>. QED BY <1>1, <1>2 DEF WebNext

LEMMA WalksStep ==
  ASSUME ConnInv, ConnInv', WalksAreBounded, [WebNext]_webVars
  PROVE  WalksAreBounded'
  <1>1. ASSUME NEW c \in Conn, NEW r,
               KeepsMutexes(c, r) \/ Locks(c, r) \/ Unlocks(c, r) \/ Serves(c, r)
        PROVE  Bounded(r)
    BY <1>1 DEF KeepsMutexes, Locks, Unlocks, Serves, Outside, Nearer
  <1>2. \A c \in Conn : Bounded(conn[c]) /\ Bounded(conn'[c])
    BY <1>1, OneServed DEF WalksAreBounded
  <1>. QED BY <1>2 DEF WalksAreBounded

LEMMA WalksInit == WebInit => WalksAreBounded
  <1> SUFFICES ASSUME WebInit PROVE WalksAreBounded
    OBVIOUS
  <1>1. \A c \in Conn : conn[c] = NoRequest /\ conn[c] \in ConnRecords
    BY ConnInit DEF WebInit, ConnInv, RestTypeOK
  <1>2. \A c \in Conn : conn[c].at = "idle"
    <2>1. NoRequest.at = "idle"
      BY DEF NoRequest
    <2>. QED BY <1>1, <2>1
  <1>3. ASSUME NEW c \in Conn
        PROVE  Bounded(conn[c])
    <2>1. conn[c] \in ConnRecords /\ conn[c].at # "walk"
      BY <1>1, <1>2
    <2>. QED BY ONLY <2>1 DEF Bounded
  <1>. QED BY <1>3 DEF WalksAreBounded

\* The mutex of a service is that of the thread in the service's get_function or
\* put_function, and nobody holds it otherwise.
HeldInFunctions ==
  /\ \A c \in Conn : InFunction(conn[c]) => mutex[Req(c).url] = c
  /\ \A s \in Service : mutex[s] # Free =>
       InFunction(conn[mutex[s]]) /\ Req(mutex[s]).url = s

LEMMA HeldStep ==
  ASSUME ConnInv, ConnInv', WalksAreBounded, HeldInFunctions, [WebNext]_webVars
  PROVE  HeldInFunctions'
  <1>0. /\ mutex \in [Service -> Conn \cup {Free}] /\ Free \notin Conn
        /\ \A c \in Conn : InFunction(conn[c]) => conn[c].req.url \in Service
    BY ConnAssumption DEF ConnInv, RestTypeOK, Shapes, Shape, InFunction
  <1>1. ASSUME NEW c \in Conn, NEW r, conn'[c] = r,
               \A d \in Conn : d # c => conn'[d] = conn[d],
               KeepsMutexes(c, r) \/ Serves(c, r)
        PROVE  HeldInFunctions'
    <2>1. mutex' = mutex /\ ~InFunction(conn[c]) /\ ~InFunction(conn'[c])
      BY <1>1 DEF KeepsMutexes, Serves, Outside, InFunction, Busy
    <2>. QED BY <1>0, <1>1, <2>1 DEF HeldInFunctions, Req
  <1>2. ASSUME NEW c \in Conn, NEW r, conn'[c] = r,
               \A d \in Conn : d # c => conn'[d] = conn[d], Locks(c, r)
        PROVE  HeldInFunctions'
    <2> DEFINE s == conn[c].req.url
    <2>1. /\ mutex[s] = Free /\ s \in Service /\ mutex' = [mutex EXCEPT ![s] = c]
          /\ InFunction(conn'[c]) /\ conn'[c].req.url = s
      BY <1>2 DEF Locks
    <2> HIDE DEF s
    <2>2. mutex'[s] = c /\ \A t \in Service : t # s => mutex'[t] = mutex[t]
      BY <1>0, <2>1
    <2>3. ~InFunction(conn[c])
      BY <1>0, <2>1 DEF HeldInFunctions, Req, s
    <2>. QED BY <1>0, <1>2, <2>1, <2>2, <2>3 DEF HeldInFunctions, Req
  <1>3. ASSUME NEW c \in Conn, NEW r, conn'[c] = r,
               \A d \in Conn : d # c => conn'[d] = conn[d], Unlocks(c, r)
        PROVE  HeldInFunctions'
    <2> DEFINE s == conn[c].req.url
    <2>1. /\ InFunction(conn[c]) /\ ~InFunction(conn'[c])
          /\ s \in Service /\ mutex' = [mutex EXCEPT ![s] = Free]
      BY <1>3 DEF Unlocks, Outside
    <2>2. mutex[s] = c
      BY <2>1 DEF HeldInFunctions, Req
    <2> HIDE DEF s
    <2>3. mutex'[s] = Free /\ \A t \in Service : t # s => mutex'[t] = mutex[t]
      BY <1>0, <2>1
    <2>. QED BY <1>0, <1>3, <2>1, <2>2, <2>3 DEF HeldInFunctions, Req
  <1>4. CASE conn' = conn /\ mutex' = mutex
    BY <1>4 DEF HeldInFunctions, Req
  <1>. QED BY <1>1, <1>2, <1>3, <1>4, OneServed

(* Of one service no two functions of the application run at a time, and    *)
(* whatever a function returns its thread gives the mutex back: nobody      *)
(* holds one who is not in a function (hpd_http_web_server.c,               *)
(* hpd_https_web_server.c).                                                 *)
THEOREM FunctionsRunAlone == WebSpec => []HeldInFunctions
  <1>1. WebInit => WalksAreBounded /\ HeldInFunctions
    BY WalksInit, ConnAssumption
       DEF WebInit, HeldInFunctions, InFunction, NoRequest
  <1>2. ConnInv /\ ConnInv' /\ WalksAreBounded /\ HeldInFunctions /\ [WebNext]_webVars
          => (WalksAreBounded /\ HeldInFunctions)'
    BY WalksStep, HeldStep
  <1>. QED BY <1>1, <1>2, ConnAlways, PTL DEF WebSpec

(* Neither the clients nor the other threads can keep a handler going for   *)
(* ever: each step that changes a connection with a request in its handler  *)
(* lowers the number of steps it has left, which is why EveryRequestEnds    *)
(* needs no more than that the thread runs and its functions return.        *)
THEOREM RequestsAreFinite ==
  WebSpec =>
    /\ [](\A c \in Conn : Work(conn[c]) \in Nat)
    /\ [][\A c \in Conn :
            conn[c].at \in Busy /\ conn'[c] # conn[c]
              => Work(conn'[c]) < Work(conn[c])]_webVars
  <1> DEFINE Shrinks ==
        \A c \in Conn : conn[c].at \in Busy /\ conn'[c] # conn[c]
                          => Work(conn'[c]) < Work(conn[c])
  <1>1. WalksAreBounded => \A c \in Conn : Work(conn[c]) \in Nat
    BY WorkOf DEF WalksAreBounded
  <1>2. ConnInv /\ ConnInv' /\ WalksAreBounded /\ [WebNext]_webVars => Shrinks
    <2> SUFFICES ASSUME ConnInv, ConnInv', WalksAreBounded, [WebNext]_webVars,
                        NEW c \in Conn, conn[c].at \in Busy, conn'[c] # conn[c]
                 PROVE  Work(conn'[c]) < Work(conn[c])
      OBVIOUS
    <2>1. \E r : /\ KeepsMutexes(c, r) \/ Locks(c, r) \/ Unlocks(c, r)
                 /\ conn'[c] = r
      BY OneServed DEF Serves
    <2>. QED BY <2>1 DEF KeepsMutexes, Locks, Unlocks, Outside, Nearer
  <1>3. ConnInv /\ ConnInv' /\ WalksAreBounded /\ [WebNext]_webVars
          => WalksAreBounded'
    BY WalksStep
  <1>4. ConnInv /\ ConnInv' /\ WalksAreBounded /\ [WebNext]_webVars
          => [Shrinks]_webVars
    BY <1>2
  <1> HIDE DEF Shrinks
  <1>5. WebSpec => [](\A c \in Conn : Work(conn[c]) \in Nat) /\ [][Shrinks]_webVars
    BY <1>1, <1>3, <1>4, WalksInit, ConnAlways, PTL DEF WebSpec
  <1>. QED BY <1>5 DEF Shrinks
=============================================================================
