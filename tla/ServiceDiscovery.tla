-------------------------- MODULE ServiceDiscovery --------------------------
(***************************************************************************)
(* hpclientSD: it browses for HomePort services until the first one of the *)
(* wanted type and location is found, prints its URL and writes it to a    *)
(* file.  The main thread gives up after two seconds; callbacks run in the *)
(* thread of the Avahi poll, with the poll's lock held, and Avahi's own    *)
(* functions to stop the poll must not be called from them.                *)
(***************************************************************************)
EXTENDS BridgeServices, RequestService

CONSTANTS
  Description,                  \* the attributes of each service
  Long,                         \* those described in more than 2048 bytes
  WantedType, WantedLocation,   \* arguments of hpclientSD
  Empty                         \* what the file is while it is written

ASSUME ServiceDiscoveryAssumption ==
  /\ \A s \in Svc : DOMAIN Description[s] = Field
  /\ Long \subseteq Svc

VARIABLES
  main,         \* "none", "sleeping", "stopping", "ended"
  poll,         \* "none", "idle", "getting", "opening", "writing",
                \* "leaving", "freed", "ended"
  requests,     \* the list of what is looked for
  curl,         \* init_curl: "none", "ready", or "failed"
  resolving,    \* services a resolver was made for
  known,        \* services Avahi has announced to this program
  matched,      \* the service being looked at
  line,         \* what the pipe of the program's output will hold
  file          \* mainSD-OUTPUT.url: a service, None, or Empty
seekVars == <<requests, curl>>
sdVars == <<main, poll, seekVars, resolving, known, matched, line, file>>

SDTypeOK ==
  /\ main \in {"none", "sleeping", "stopping", "ended"}
  /\ poll \in {"none", "idle", "getting", "opening", "writing", "leaving",
               "freed", "ended"}
  /\ requests \subseteq creaters(WantedType, WantedLocation)
  /\ curl \in {"none", "ready", "failed"}
  /\ resolving \subseteq Svc /\ known \subseteq Svc
  /\ matched \in Svc \cup {None}
  /\ line \in Svc \cup {None}
  /\ file \in Svc \cup {None, Empty}

(* The file may be left from an earlier search.                            *)
SDInit ==
  /\ main = "none" /\ poll = "none"
  /\ requests = {} /\ curl = "none"
  /\ resolving = {} /\ known = {}
  /\ matched = None /\ line = None
  /\ file \in Svc \cup {None}

(* Without a handle the buffers are not made either; nobody looks.         *)
init_curl == curl' \in {"ready", "failed"}

(* avahi_browse_start succeeds whether the poll and browser were made or   *)
(* not.                                                                    *)
HP_client_init ==
  /\ main = "none" /\ main' = "sleeping"
  /\ requests' = creaters(WantedType, WantedLocation)
  /\ init_curl
  /\ poll' \in {"idle", "freed"}
  /\ UNCHANGED <<resolving, known, matched, line, file, serviceVars>>

browse_callback(s) ==
  /\ poll = "idle" /\ s <= listed /\ s \notin known
  /\ known' = known \cup {s}
  /\ resolving' = resolving \cup {s}
  /\ UNCHANGED <<main, poll, seekVars, matched, line, file, serviceVars>>

(* Mutant: the thread ends, and not the program.                           *)
EndsThread(printed) ==
  /\ poll' = "ended"
  /\ line' \in printed
  /\ requests' = destroy_request_service_list(requests)
  /\ curl' = "none" /\ resolving' = {} /\ known' = {} /\ matched' = None
  /\ req' = [req EXCEPT ![Example] = NoRequest]
  /\ UNCHANGED <<main, file, appVars, device, owner, sockets, named, switched>>

(* The program is aborted, or ends: what it has printed is written or not, *)
(* and its memory is gone.                                                 *)
Ends(printed) ==
  /\ main' = "ended" /\ poll' = "ended"
  /\ line' \in printed
  /\ requests' = destroy_request_service_list(requests)
  /\ curl' = "none" /\ resolving' = {} /\ known' = {} /\ matched' = None
  /\ req' = [req EXCEPT ![Example] = NoRequest]
  /\ UNCHANGED <<file, appVars, device, owner, sockets, named, switched>>

(* A failure of the browser frees the poll in the poll's own thread.       *)
BrowserFails == poll = "idle" /\ Ends({None})

(* http_get_function has no timeout; without init_curl's buffers it        *)
(* crashes.                                                                *)
http_get_function(s) ==
  IF curl = "failed" THEN Ends({None})
  ELSE /\ poll' = "getting" /\ matched' = s
       /\ resolving' = resolving \ {s}
       /\ Request(Example, s, "xml")
       /\ UNCHANGED <<main, seekVars, known, line, file>>

resolve_callback(s) ==
  /\ poll = "idle" /\ s \in resolving
  /\ \/ /\ resolving' = resolving \ {s}                       \* failure
        /\ UNCHANGED <<main, poll, seekVars, known, matched, line, file,
                       serviceVars>>
     \/ http_get_function(s)

(* An answer that does not fit in the buffer is refused, and the GET fails.*)
copyBuffer(s) == s \notin Long

service_found_callback ==
  /\ poll = "getting" /\ Reply(Example)
  /\ IF /\ req[Example].ans = "xml" /\ copyBuffer(matched)
        /\ get_matching_request_service(Description[matched], requests) # {}
     THEN poll' = "opening" /\ UNCHANGED matched
     ELSE poll' = "idle" /\ matched' = None
  /\ Forget(Example)
  /\ UNCHANGED <<main, seekVars, resolving, known, line, file>>

(* fopen empties the file, fclose fills it.                                *)
WriteOpens ==
  /\ poll = "opening" /\ poll' = "writing" /\ file' = Empty
  /\ UNCHANGED <<main, seekVars, resolving, known, matched, line, serviceVars>>

write_str_buffer_to_file ==
  /\ poll = "writing" /\ poll' = "leaving" /\ file' = matched
  /\ UNCHANGED <<main, seekVars, resolving, known, matched, line, serviceVars>>

(* avahi_browse_stop from the poll's own thread ends in an assertion, or   *)
(* returns to exit(0).                                                     *)
Leaves == poll = "leaving" /\ Ends({None, matched})

(* avahi_browse_stop of the main thread needs the poll's lock, which a     *)
(* callback holds; with a poll that was freed it crashes.                  *)
HP_client_deinit ==
  /\ main = "sleeping" /\ main' = "stopping"
  /\ UNCHANGED <<poll, seekVars, resolving, known, matched, line, file, serviceVars>>

avahi_core_stop ==
  main = "stopping" /\ poll \in {"idle", "freed"} /\ Ends({None})

Searching == main \in {"sleeping", "stopping"}

Discovery ==
  Searching /\ \/ \E s \in Svc : browse_callback(s) \/ resolve_callback(s)
               \/ BrowserFails \/ service_found_callback
               \/ WriteOpens \/ write_str_buffer_to_file \/ Leaves
               \/ HP_client_deinit \/ avahi_core_stop

(***************************************************************************)
(* Only a service of the wanted type and location is printed.              *)
(***************************************************************************)
FoundIsWanted ==
  line # None =>
    /\ WantedType \in {NULL, Description[line].type}
    /\ WantedLocation = Description[line].location
=============================================================================
