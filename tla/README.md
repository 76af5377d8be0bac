# HomeAutomationBridgeZ in TLA+

This directory is a TLA+ development of the programs of the repository: the
DZigbee bridge (`DZigbee-bridge/` on the `ihaplite/` framework), which carries
messages between a ZigBee coordinator, a stream socket and control clients; the
HomePort daemon (`hpbridge/hpdaemon/`), which offers services over HTTP with
server-sent events, a description and Avahi; and the programs that use a home
(`hpbridge/examples/`, `hpclientSD/`, `hpclientPUT/`, `Example/`). All are small
sets of POSIX threads or processes that share global state, sockets and files;
what can go wrong in them is interleaving, lost signals, timeouts, partial
failure and shutdown, and that is what is modelled.

Paths below are relative to `src/`; `hpdaemon/` is `hpbridge/hpdaemon/`.

## 1. Inventory

| Component | State | Operations | Interacts with | What makes it correct |
|---|---|---|---|---|
| Message bus, `ihaplite/msghandler.c` | `msg_context` (one message, sender, output, `occupied`), the four-slot `queue`, `currentmsg`, `MessageSignal[]`, each task's `Context_array` entry | `broadcast_msg`, `receive`, the `msgHandler` thread with `queue_add`, `queue_nextmsg`, `queue_remove` | every task; the alarm of its own entry | a message goes to the task the wiring names, at most once; one that is under way to its receiver alone is not lost without a printed line; nobody waits for ever |
| Alarms, `ihaplite/timemanager.c` | `AlarmCountdown[]`, `AlarmSignal[]`, no lock | `alarmSet`, `alarmTestAndReset`, the TimeManager thread | message bus, session manager | an alarm that was set is seen once |
| Session manager, `ihaplite/sessionmanager.c` | `session_table[]`, one alarm for all sessions, `communication_needed` | messages from IP tasks and ZigBee task, the one-second alarm | bus, alarms | a session ends by answer or timeout, a request is replied to once at most |
| IP tasks, `ihaplite/iptask.c` | socket, own context | accept, read, broadcast, receive, send | bus, session manager | a waiting client has its request or its answer on the way |
| ZigBee task and VPS table, `DZigbee-bridge/zigbee.c`, `vps2addr.c` | `addrs[]`, four modes (include, exclude, network update, description) | messages from clients and from the radio | bus, sessions, stream tasks | a number names one device and keeps it; an answer is that of the device that was asked |
| Stream tasks, `DZigbee-bridge/ipstreamtasks.c` | `ss`, `serverready`, `zconnected`, `client`, static and shared without a lock | `use_ipstream_server` in a receiving and a sending thread | the gateway's connection, ZigBee task | one listening socket; only dead connections are closed; a command is written |
| Conversions, `ihaplite/auxfunctions.c`, `tcpserver.c` | buffers with lengths of one byte | hexadecimal to binary and back | IP tasks, clients | they are inverse on what the ports carry |
| Wiring, `DZigbee-bridge/zigbee-bridge.c` | `msg_table`, task ids, conditions | `main` | all of the bridge | tasks start after what they signal |
| Server-sent events, `hpdaemon/hpd_events.c`, `hpd_server_sent_events.c` | global queue, list of session queues, each with connection id, subscriptions, `is_waiting`, `exit` | send an event, copy it to sessions, subscribe, connect, dequeue, wait for timeout, stop | web servers, log, registry, libmicrohttpd threads | a session gets its events in order by one connection, none stays behind, nothing freed is used, stop returns |
| Service registry, `hpdaemon/hpd_web_server.c`, `hpd_services.c`, `homeport.c` | structures of services and devices, the lists of the two servers | create, register, unregister, destroy, look up, start, stop | description, Avahi, events | no list names what is freed; list, description, publication and events agree whatever step fails |
| Web servers, `hpdaemon/hpd_http_web_server.c`, `hpd_https_web_server.c` | per request `con_cls`, per service a mutex and one value buffer | GET, PUT, one call per piece of a body | registry, events, application callbacks | concurrent requests on a value do not mix, every request ends, bodies are freed once |
| XML description, `hpdaemon/hpd_xml.c` | the document and its file | add, remove, extract | registry, web servers | a service is described while it is listed |
| Log, `hpdaemon/hpd_log.c` | the file, a position, a limit, a mutex | create, log, start again at the limit, destroy | events, web servers | messages stay whole and in order, the limit holds |
| Configuration and life, `hpdaemon/hpd_configure.c`, `homeport.c` | `hpd_daemon`, `cfg`, `hpd_log`, global pointers | start from a file or options, set, get, stop | everything in the daemon | nothing freed is used, failures leave a state that can be left |
| Avahi publishing, `hpdaemon/hpd_avahi_publish*.c` | entry groups, state of the client | create, remove, callbacks of the library's thread | registry | what is published can be requested |
| Examples, `hpbridge/examples/heating_example.c`, `Example/ztest.c` | services for the bridge's ports, sockets | GET and PUT functions, the search and the switch | bridge, daemon, clients | a description that names a lamp leads to the switching of that lamp |
| Clients, `hpclientSD/`, `hpclientPUT/` | requests, found services, an output file | browse, compare, write; get, put, describe | Avahi, daemon | what is found is what was asked for; the programs end |
| Parameters, gateway tools (`DGWconfig/`), unbuilt older copies | none shared | | | not modelled |

`hpdaemon/` also holds older copies of most files (`server_sent_events.c`,
`web_server_api.c`, `httpbak.c`, ...) that `Makefile.am` does not build.

How the programs meet: a client of the home speaks HTTP to a daemon; an example
daemon's functions speak TCP and UDP to the ports of the bridge (10000 + number);
an IP task of the bridge turns what arrives there into a message on the bus; the
session manager passes it on; the ZigBee task turns the number into a device and
the stream tasks carry the command to the gateway. Answers take the same way back.

## 2. Modules

| Module | What it is |
|---|---|
| `TimeManager` | the alarm arrays and the TimeManager thread, load and store apart; extended by the modules whose tasks use alarms |
| `MsgHandler` | the message bus: handler thread, queue, tasks that broadcast and receive |
| `MessageBus` | abstract: a lossy, at-most-once, correctly addressed bus |
| `SessionManager` | the session manager, the IP tasks and the alarm of the sessions (extends `TimeManager`), over a bus as `MessageBus` promises it |
| `VpsTable` | the table of virtual ports and its operations, as operators on tables |
| `IpStream` | the two stream threads in `use_ipstream_server`, test by test, and the gateway's connections |
| `HexCodec` | the hexadecimal conversions with their lengths of one byte |
| `ZigBeeBridge` | the ZigBee task, composed with the table, the stream tasks, the conversions and abstract sessions |
| `EventQueue` | the fields of an `EventQueue` and what each operation of `hpd_events.c` does to them under the queue's mutex |
| `ServerSentEvents` | all threads around the queues: producers, event thread, subscription requests, connections, `HPD_stop` |
| `EventFeed` | abstract: an in-order feed with one reader at a time |
| `HpdServices` | structures of services and devices: which are allocated, which service a device lists |
| `HpdXml` | the description as a function from names of devices to names of services |
| `AvahiPublish` | groups, collisions, the state of the client, in both builds |
| `HpdRegistry` | the registry: the calls of the application, part by part, over the three modules before |
| `ServiceCatalog` | abstract: availability events alternate and tell what is so |
| `HpdConnections` | the request handlers of both web servers, call by call of libmicrohttpd |
| `ServiceValue` | abstract: the value of a service as an atomic register |
| `HpdLog` | the log: file, position, writers |
| `HpdDaemon` | start, configuration and stop of the daemon, with the log and the threads that write it |
| `BridgeServices` | an application's services for the bridge's ports: GET by UDP, PUT by TCP, the walk over the services' mutexes |
| `RequestService` | what `hpclientSD` compares a service with |
| `ServiceDiscovery` | `hpclientSD`: main thread, callbacks in the thread of the poll, output file |
| `HomeClients` | the example and a user of `hpclientPUT`, composed with `BridgeServices` and `ServiceDiscovery` |
| `MsgHandler_proofs`, `SessionManager_proofs`, `ZigBeeBridge_proofs` (with the conversions of `HexCodec`), `HpdDaemon_proofs`, `HpdRegistry_proofs`, `HpdConnections_proofs`, `ServerSentEvents_proofs`, `HomeClients_proofs` | the theorems |
| `MC*` | instances for TLC |

### Message bus

`handler` is where the msgHandler thread is: before its first wait (`"start"`,
in which tasks may broadcast, since `sleep(0.2)` in `main` is `sleep(0)`),
waiting, woken, or in a pass. It owns `msg_context.mutex` in a pass, so a
broadcaster (`Broadcast`) needs `handler # "run"`. A pass is `HandlerQueueAdd`,
`HandlerSkipsAdd` or `HandlerPanics`, then one `HandlerDelivers` or
`HandlerLeaves` for each slot, then `HandlerWaits`. `tpc` is where each task is:
running (its own mutex locked), spinning in `broadcast_msg`, waiting in
`receive`, or woken and not yet returned. `pthread_mutex_trylock` on a
listener's mutex succeeds exactly while the listener is in `receive`; that of a
task that never locks its mutex always succeeds. `msg_table[-1]`, which the code
reads for a wake-up without a message, is the last column of the row before, and
for task 0 the memory in front of the table (`BeforeTable`, any task at all).
`Sheltered` are the listeners that none of these name: what such wake-ups
deliver never reaches them. With the zeros that `main()` leaves in the last
column these are all listeners but the one `BeforeTable` may name.

`sent`, `handed`, `reported`, `fresh`, `tried`, `settled` and `early` are history
variables; no action reads them except through the bound `MaxSent`. A message is
`Unread` while it is in its receiver's context and that one has not used it;
`settled` are those that were used, and those that were once under way to the
same receiver at the same time as another; `early` says that the context holds a
broadcast of before the handler's first wait.

### Sessions

`smPc` is where the session manager is: in its loop before the call of `receive`
(`"loop"`, where a signal of the TimeManager, which takes no mutex, is lost), in
`receive`, woken, at the switch (`"message"`), at the test of the alarm, in the
countdown. `smHolder` is the message in its context it has yet to use, `smFlag`
its entry of `MessageSignal`. `SMRequest`, `SMAnswer`, `SMUnknown` and
`SMRejects` are the cases of the switch, `SMTestsAlarm` and `SMCountsDown` what
follows it. `ipPc[v]` is the exchange of the IP task of virtual port `v`:
`IPRequests` reads and broadcasts, `IPReplies` is the return of `receive` with
the write to the client. An IP task passes its port to `receive`, so the flag it
resets is that of the task whose id equals the port: in the bridge port 2 takes
the session manager's, and so does the port numbered `SessionManagerTask_id` in
the instances. It does not look at the result: a wake-up before any message ever
came dereferences a NULL holder (`IPCrashes`), which ends the process
(`Running`).

The bus is `transit`, a bag of requests, replies and reports: `MessageBus`
promises delivery to the addressee, at most once, in any order, with loss.
A message given to a receiver that was woken and has not returned replaces the
one before, as in `MsgHandler!HandlerDelivers`. A request that the manager
passes on to the ZigBee task is not followed further here; `DeviceReports` is any
report at any time for any port in `Reported`, ports without an IP task included.

`owed` counts requests less replies of each port and `lost` names the ports
whose current exchange lost a message; both are history variables.

### Field side of the bridge

`ZigBeeBridge` has one action for each case of the loop of `ZigBeeTask`:
`Manage` (a request for port 0), `Command` and `Invalid` (one for a device's
port), `Include`, `Announce`, `Gateway`, `Exclude`, `NetUpdate` and `Translate`
(messages of the radio). `addrs` is the table, `mode` the set of the flags that
are set; `toZigBee`, `toSender` and `reports` are the messages on the bus, which
may be lost or reordered; messages that are alike count once. `ReportedAs` says
under which number a message of a device is reported, which is where the code
mixes addresses, network addresses and the mode of descriptions. `overrun` is
set when `vps_add` reads beyond a full table; the task takes no message after.
`session[v]` is one exchange through port `v`, as in `SessionManager`, with the
device the request was sent to; `steady` is history: no new numbering since.

`IpStream` follows each of the two threads through `use_ipstream_server`: `at`
is between which test and which assignment it is, so that all orders of the
accesses to `serverready`, `zconnected`, `ss` and `client` occur; the test of
`zconnected` and the reading of `client` are two steps. `conn` is what
the operating system knows of the gateway's connections. `server_init` and
`accept` may fail at any time (`InitFails`, `AcceptFails`), and `accept` does on
the descriptor -1 (`AcceptsNothing`); the receiver task ends with the first such
failure (`ipstreamtasks.c:62`). `refused` is history: a socket call failed
although nothing of the program was in its way. So is `overlap`: both threads
were at once between a test and its effect. `cut` is set when a connection is
closed that its peer still uses.

`HexCodec` has a message as a sequence of bytes and its text as a sequence of
digit values; `HexLength` and `hexbinary_to_binary` keep lengths modulo 256.

### Server-sent events

`conn[c].at` follows one connection thread from `get_queue` to the end of the
free callback. Finding a queue and using it are different steps, because the
code releases `queue_list_mutex` in between. `queue[s].memory` says whether the
queue has been freed. An operation that C leaves undefined (NULL to `strcmp`,
`DL_DELETE` of a NULL head or of an unlisted element, a freed queue) ends the
behaviour with its name in `fault`. A request without a matching cookie changes
nothing and has no action. Availability events are marked `direct`: they do not
go through the global queue.

### Registry

`call` is the application's call under way: its operation, the step it is at
(`Steps`), the service, and the services of a device that are left. Each part of
a call, list, description, Avahi, notification, is an action, because web server
and Avahi threads run in between and because a part that fails leaves the ones
before as they are. `last` is what the last call returned. A structure may be
destroyed once the parts were started (`WasStarted`), also after a stop. The two
lists, the document `xml_tree`, `groups` of Avahi and `told`, the last
availability event, are the parts that have to agree. Looking up
(`HPD_get_service`, ...) is by names, through one list and then the other.

### Requests

`conn[c]` of `HpdConnections` is a connection: where its thread is, the request,
which call of the handler this is (`"first"`, `"data"` for a piece of a body,
`"last"`), what `con_cls` points to and the copies it has made. `walk` is the
position in the list of services, whose mutexes `matching_service` takes one by
one. `GetSubscription` waits for the mutex of the service it subscribes to.
`GetLocks`/`GetEnds` and `PutLocks`/`PutEnds` are the two ends of the
application's functions; `buffer` is the value buffer of a service, `Torn` while
it is written. `send_event_of_value_change` reads it in a step of its own, after
the unlock. `secure` selects the server.

### Log and life of the daemon

`writer[t]` of `HpdLog` is a thread in `Log`: before the mutex, before `fopen`,
before the write, before the event. The file is a sequence of cells with the
number of the message each holds, so that a message that is overwritten, torn or
misplaced can be told. `HpdDaemon` has the three global pointers with their
memory (`"null"`, `"live"`, `"freed"`): nothing sets them to NULL again. `fault`
names the first use of freed memory, which ends the behaviour.

### Clients

`HomeClients` composes the example (`at`), a user, the search (`ServiceDiscovery`)
and the application's daemon (`BridgeServices`). A device, a description and a
service are model values. The bridge asks for a description by the network
address in the port's entry, and routes the answer by it (`zigbee.c:198`,
`:395`); it switches by the IEEE address. `vps_add` leaves the network address of
the entry's last device in place (`vps2addr.c:54-63`), so the two may be of
different devices. `device[s]` is the device behind port `s`, `named[s]`, history,
are all devices whose network address its entry has held; `Renumbers` changes
either or both at any time, and the answer to a request for a description is
that of any device in `named[s]`. `switched`, history, is the device the example
switched last, if the entry of its port has held no address but its own.

## 3. Runs

| Run | Question | Instance |
|---|---|---|
| `bus_safety` | can a message be duplicated, misdirected or, alone on its way to its receiver, be lost without a line; does a pass try every entry; does the handler implement `MessageBus` | 3 tasks in the roles of the bridge (a sender that never listens, a listener that checks `receive`, one that does not), wired as a chain, 2 slots, 3 messages, so the queue fills; broadcasts also before the handler's first wait |
| `bus_live` | do passes end and broadcasts return; is a broadcast seen | 2 messages, both listeners broadcast, also before the handler's first wait |
| `session_safety` | is a request replied to twice; does an IP task wait for nothing | 2 ports, one of them with the session manager's id, reports for both and for a port beyond the table, loss, spurious wake-ups, the TimeManager at any point; 2 exchanges of a port under way at once |
| `session_live` | does a session end, as `sessionmanager.c:131` has it: no | 2 ports with one exchange each under way, sessions of 2 visits, delays of 2 and 3, no overlap of TimeManager and manager |
| `sse_safety` | does the event thread sleep over an event; does the list name a destroyed queue | 2 sessions, 2 connections, 1 event; reconnection, spurious wake-up, early timeout and stop |
| `sse_feed` | order of events; is `EventFeed` implemented | 1 session, 2 connections, 2 events of a service and the log, subscriptions toggled |
| `sse_live` | well-behaved client: no fault, delivery, destruction | 1 session, 2 connections, 2 events |
| `registry` | do lists name freed structures; do the parts agree after partial failures; does SUCCESS mean done; is `ServiceCatalog` implemented | 2 devices, one of them secure, 3 services (two with the same name on different devices), both Avahi builds, failing parts, stop and start again |
| `web` | do concurrent requests mix values; is every PUT told once; is a body used twice; does every request end | 2 connections, 3 requests of any kind, bodies of 0 to 2 pieces, a read-only service that is also not yet described, either server |
| `daemon` | does the text of the log stay whole; is its limit kept; what is used after it was freed | 2 threads, 3 messages of 2 sizes, limits with and without room, 2 starts from file or options, a file of an earlier run |
| `field` | do numbers keep their devices; is the answer that of the device asked; do the stream threads harm each other where their tests do not overlap; is the sender done with a command | 2 devices, 2 numbers, 2 connections; see below |
| `clients` | is what is found what was asked; what is switched; does the example end | 3 services, 1 port, a lamp and another device, sockets for one GET |

Bounds: `MaxSent` and `MaxEvents` limit the messages and events of a behaviour;
`MaxCopies`, `MaxReports` and `MaxOwed` limit what a port has under way, not the
length of a behaviour; `MaxDelay` is the longest alarm. Two queue slots show
everything four do: a full queue, a queue with a gap, a queue whose first entry
is blocked. Three messages are the least that fill it with one in the context.
Two exchanges of one port are the least in which a reply of an earlier request
meets a later one, two ports the least in which one resets the flag or the alarm
of the other. `MaxRequests` = 3 on two connections lets one request pass another
and one be left over; `MaxChunks` = 2 is the least that calls a handler again
with a body in hand. `MaxStarts` = 2 is the least in which a pointer of an
earlier life is used; `MaxMessages` = 3 fills the log's nine cells and starts it
again. `MaxRadio`, `MaxAsks` and `MaxListed` bound what the radio and the clients
send. Two numbers and two devices are the least in which a table is full and in
which an answer can be another device's. `MaxUses` and `MaxSockets` bound what a
user does and the descriptors that GETs leave open.

The field run is a union of two, as `MCZigBeeBridge` says: a gateway that
connects and closes at any step with few messages, and a connected gateway with
as many messages as the bounds allow, from tables with and without devices. In
the second the stream tasks go first, since nobody sees where they are.

Deadlock is not checked where a behaviour may end: events (a fault, `HPD_stop`,
every connection used up), sessions (a crash of an IP task ends the process),
registry and daemon (an application that stopped, a fault), requests, field and
clients (bounds used up, programs that end). The two bus runs check it.

### Disagreements between code and text

These are properties one would state from a comment of the repository and that
the code does not have. They are kept as definitions or described here; no
passing run lists them, and `session_live` shows one of them violated.

- The retry of a message that could not be delivered: `msghandler.c:76` says the
  handler "returns to a pthread_cond_timedwait, then tries to deliver the
  messages again". The wait has no timeout, and the TimeManager signals without
  the handler's mutex (`timemanager.c:78`): a signal during a pass is lost and
  the message waits for the next broadcast (`QueuedIsRetried` in `MsgHandler`).
- `hpd_events.h:55` calls `is_waiting` "used in order to sleep when no Events are
  received". `hpd_events.c:438` uses the same field for the wait for a
  reconnection, and after one an event does not wake the new connection
  (`SleepsOnlyWhenEmpty` in `ServerSentEvents`, false with `Returns`, that is
  when a client comes back while a connection of its own is closing).
- `wait_for_timeout` (`hpd_events.c:442`, comment at `:423`) reports a timeout
  although a client has connected in the meantime (`TimeoutMeansNoClient`).
- `exit` is looked at only after the wait (`hpd_events.c:388`): the event thread
  may miss it, and `HPD_stop`, which joins it (`hpd_server_sent_events.c:598`),
  does not return (`StopReturns`).
- `sessionmanager.c:131` says "Set alarm so sessions can be decremented each
  second"; all sessions share the alarm, and requests for other ports set it
  anew before it expires, so that a session is never counted down. This is the
  finding of `session_live`: while port 1 makes one request after the other, and
  each is answered, the session of port 0 stays open undecremented.
- `tcpserver.c:158` says that "we can only send 128 bytes"; 127 is the most that
  a length of one byte leaves of it (`HexLength`, `MessagesSurvive`).

Met while modelling and part of the models:

- Bus and sessions: a broadcast that coincides with the retry alarm is not
  queued, which a printed line is the only sign of (`HandlerSkipsAdd`); a second
  message replaces one its receiver was signalled for and has not read
  (`HandlerDelivers`, `DeliverToManager`; `NoSilentDrop` promises nothing of two
  messages that are under way to one receiver at the same time); `sleep(0.2)` in
  `main` is `sleep(0)`, and a broadcast before the handler's first wait, whose
  signal nothing remembers, blocks the bus unless the wait ends spuriously
  (what `early` excepts from `OccupiedIsSeen` and `BroadcastReturns`); an alarm
  set between the TimeManager's signal and its clearing of the countdown is lost.
- Events: a session that subscribed and has no connection makes a lookup compare
  NULL (`LookupFails`); a wake-up without an event takes the head of an empty
  list (`PopNothing`).
- Field: `vps_add` reads beyond a full table (`overrun`); `getdescmode` stays set
  until a description arrives, and everything a device reports meanwhile goes to
  port 0; an excluded device keeps its number; the message of a closed stream is
  processed as one of the radio (`Empty`); a thread in `accept` is not told of
  the other's connection; writing to a connection that is gone raises SIGPIPE;
  any failure of `socket`, `bind`, `listen` or `accept` ends the receiver task for
  good, and the bridge goes on without it.
- Registry: a failing start leaves the parts before it running; a service is in
  the list before it is described, and the secure server takes the length of a
  missing description (`GetDescription`); nodes of devices are never removed.
- Requests: a PUT without a body is never answered (`"hung"`); an error in the
  middle of a body is answered, libmicrohttpd refuses the answer, and the
  connection is closed (`Refused`).
- Daemon: log and configuration are freed before the servers stop, and neither
  pointer is cleared (`UsesFreed`, `HPD_config_deinit`); `HPD_config_set_port`
  always returns `HPD_E_NO_HTTP` (`hpd_configure.c:354-356`); the log options
  of `HPD_start` are parsed and forgotten; an entry below the log's level opens
  nothing but takes the mutex; log events are sent without it and may overtake
  each other.
- Clients: a description is that of the device whose network address the port's
  entry holds, which may be an earlier device's, so that the example switches
  one device on the description of another (`named`); a GET opens two sockets
  and closes none; it waits without a timeout for a report with its service's
  mutex held; `avahi_browse_stop` is called from the poll's own callback; the
  second registration of the same service fails unseen; service 5's port is one
  the bridge does not have.

## 4. Fairness

`MsgHandler!Fairness`: weak fairness of the handler, its way to its first wait
included, of the TimeManager and of a woken task (threads are scheduled and an
uncontended mutex is obtained), strong fairness of a broadcaster, whose lock
attempt is enabled again and again but not always, because it unlocks, yields
and locks in a loop while others use the mutex. Nothing is assumed of what a
task does between calls, nor of spurious wake-ups.

`ServerSentEvents!Fairness`: weak fairness of the event thread, of each
connection thread, of a subscription under way and of `HPD_stop`. Clients and
producers need not act. `LongTimeout` is the assumption that the five seconds
outlast requests that are running; it is off where safety is checked and on in
the liveness run. `Returns = FALSE` in `sse_live` restricts the client: it makes
no request while its last connection is closing. Without it the properties fail.

`SessionManager!Fairness`: weak fairness of the session manager and of the
TimeManager's signal; strong fairness of the TimeManager's visits, which in
`session_live` (`Overlap` off) wait for the manager to be in `receive`. The bus
may lose or hold back everything, clients and devices may stop. The code does not
ensure that a visit does not fall into a round of the manager; `session_live`
shows that sessions stay open even so. `session_safety` and the theorems do
without it.

`ZigBeeBridge!Fairness`: weak fairness of the sending thread, of the receiving
thread's own steps and of a gateway without a connection that connects to a
listening socket (`Reconnects`), without which a sender in `accept` waits by
right. No socket call need fail. The ZigBee task, sessions and radio need not
act.

`HpdConnections!WebFairSpec`: strong fairness of each connection's thread in the
handler: it competes for mutexes that are freed again and again, and the
application's functions return. New requests need not arrive.

`HomeClients!Fairness`: weak fairness of the steps of the example, the search,
the request threads of the application and of `hpclientPUT`; the bridge may
refuse or forget an exchange, devices need not report, and the user need not act.

Registry and daemon state safety only and assume no fairness.

## 5. Proofs

`MsgHandler_proofs` proves for every number of tasks, slots and messages, every
wiring and delay:

- `TypeCorrect`: `Spec => []TypeOK`.
- `BusCorrect`: `Spec => []BusInv`. `NoDuplicate` and `NoStrayMessage` are not
  inductive: a duplicate appears when the handler adds a context that is still
  in the queue, a stray message when an entry is routed by an address that is
  not its broadcaster's. `BusInv` says of every entry with a broadcaster's
  address that it is undelivered and routed to its addressee, that no two slots
  carry the same one, and that the context holds such an entry only before the
  pass that queues it overwrites it.
- `AtMostOnce`, `AddressedOnly`: `NoDuplicate` and `NoStrayMessage`, from
  `BusInv`. The second is about `Sheltered` listeners, whatever the wiring and the
  memory in front of the table; it promises nothing of the others. `main()` uses
  outputs 1 to 4 of 11, so there it excepts at most the task `BeforeTable` names.
- `BroadcastIsSeen`: `OccupiedIsSeen`, wherever the handler starts. The broadcast
  of before its first wait is excepted by the formula (`early`), because the
  claim is false of it.
- `BusImplemented`: `Spec => ImplementsBus`, by mapping each action to a step of
  `MessageBus` or a stutter; the tasks that are not `Sheltered` are its `Strays`,
  which it lets find anything.
- `DropIsReported`: `NoSilentDrop`, from `DropInv`, whose other parts are
  `LoneInv` (two messages that are alive for one sheltered receiver are both
  settled, so the one that a delivery overwrites is excepted and no other is) and
  `ExposedInv` (while the context may be overwritten, because it is not occupied
  or a pass runs, the message in it is queued or reported as well).
- `EveryPassIsComplete`: `PassTriesAll`, from `PassInv`: every queued message up to
  the slot the pass has reached was tried, and a wait begins behind the last one.
- `FlagIsTruthful`: `FlagMeansNew`. A flag with a task's own index is raised by a
  delivery only, and the task that uses the holder lowers it in the same step.

`SessionManager_proofs` proves for every number of ports, timeout, delay, task
id, set of reporting devices and bound, with and without `Overlap` and
`Spurious`:

- `TypeCorrect`: `Spec => []TypeOK`.
- `OneReplyEach`: `Spec => []RepliesAreOwed`.
- `WaitersAreRemembered`: `Spec => []NoWaiterForgotten`.

`TypeOK` is not inductive: closing sessions puts replies on the bus and lowers
`owed`, and only the requests made limit how often. `SessionInv` adds that the
exchanges of a port fit their bound (`CopiesBounded`), that each of them is owed
a reply (`RepliesAreOwed`), and that the message flag announces a message
(`FlagIsHeld`). The argument is an account for each port: one lemma per action
(`...Ledger`) says what it does to the requests, sessions and replies of a port,
and the three theorems are read off these lemmas.

`ZigBeeBridge_proofs` proves for every size of the table, every set of devices,
addresses and connections and every bound:

- `FieldCorrect`: `BridgeSpec => []FieldIsSound`. Its part `OneByOneIsSafe` says
  that, as long as the threads never overlapped, only a socket call that failed by
  itself ends the receiver task, no undefined descriptor is read and no connection
  in use is closed. It says nothing of the flags; `StreamInv` says what a thread
  that has tested one may still rely on: no two threads are between a test and
  its effect, `serverready` means that the socket listens, a thread that is to set
  `zconnected` finds it clear, and a thread that closes finds `client` dead. What
  threads that do overlap do to each other is not bounded by any property.
- `AnswersCorrect`: `BridgeSpec => []AnswersNameTheDevice`, from `AnswerInv`:
  the table names the device of every steady exchange and of every steady
  report. A report is made, and an exchange sent, with the number the table had
  at that moment; only a new numbering changes it, and that unsteadies both.
- `NumbersKept`: `BridgeSpec => NumbersAreKept`, from the same invariant and the
  lemmas about the table (`AddTakesFree`, `NwkTouchesNoNumber`, `NumberNames`).
  That the first free number exists is an induction over the natural numbers,
  taken from the library's well-founded minimum.
- `MessagesSurvive`: of any message of `n` bytes that is converted to text and
  back, a client reads the first `n % 128`: all of it below 128 bytes, nothing at
  128. The lemmas are that the two digits of a byte make it again, how long the
  text is with a length of one byte, and where the digits of byte `j` stand.

`HpdDaemon_proofs` proves for every number of threads, starts, keys and
messages, every header, limit and size of message:

- `LogStaysSmall`: `DaemonSpec => []LogWithinLimit`. The position of a thread
  that is about to write was tested earlier; `RoomInv` carries the test over to
  the write, since the mutex is not needed for it: no step moves the limit.
- `DaemonCorrect`: `DaemonSpec => []DaemonIsSound`. Type correctness needs
  `FileInv` (positions lie inside the file, or the write would leave a gap);
  `FaultNeedsStoppedFile` needs `LifeInv`: a structure is freed only by a stop
  under way, before an exit, between a stop and the next start, or in a second
  life; no thread writes while the servers are down.
- `LogIsWhole`: `DaemonSpec => []LogIsContiguous`. `ContInv` says that the cells
  behind the header are those of the messages since, and that a thread between
  its choice of a position and its write has the mutex, so that the position is
  still the end of the text. `Text` glues messages together by a recursive
  function; what a proof needs of it (its length, and that one message more is
  appended) is an induction over the number of messages, done with the least
  element of the set of numbers for which the fact fails (`SetInduction`).

`HpdRegistry_proofs` proves for every set of devices, services and names, in
both Avahi builds:

- `ListsCorrect`: `RegSpec => []ListsAreSound`, from `StructInv`: beside the
  types, a listed service is allocated (`ListedIsAlive`), it is in the list of
  its own server under names that find it and nothing else (`Owned`), and the
  call under way is for services of the right kind (`CallShape`).
- `PartsStayTogether`: `RegSpec => []PartsAgree`. The agreement is not inductive:
  it says nothing of how far the call under way has come. `RegisteringInv` and
  `UnregisteringInv` say for each step which parts are done for its service,
  `PublishedIsTold` that nothing is published before the notification is next,
  and `LifeInv` what a stop has taken apart and what a start may rely on.
- `SuccessIsDone`: `RegSpec => []SuccessMeansDone`, with `FinishedInv`: what a
  call has done for the services that it no longer has to do.
- `CatalogImplemented`: `RegSpec => ImplementsCatalog`. Only the notifications
  and the end of a stop change what is available; every other step stutters.

`HpdConnections_proofs` proves for every number of connections, list of
services and bound:

- `RequestsCorrect`: `WebSpec => []RequestsAreSound`, from `ConnInv`, which says
  for each place of a handler what the connection has there (`Shape`). A body
  that was freed is not met again because the place behind the free is left by
  an answer only, and after an answer that was refused the connection is closed.
- `ValueImplemented`: `WebSpec => ImplementsValue`. `GetEnds` and `PutEnds` are
  the steps that read and write; all else asks, answers or stutters. The copy a
  connection keeps (`xmlbuff`) is what makes the answer that of its own step.
- `EventsTellPuts`: `WebSpec => []PutsAreTold`, from `ToldInv`: PUTs differ in
  what they write, one that has not written is in no history (`PendingIsNew`),
  one that has written and not sent is in no event (`TellingIsWritten`), value
  and buffer are the last entry of the history or a half-written buffer, and
  the copy made for an event was made after the write (`CopyIsWritten`).
- `FunctionsRunAlone`: `WebSpec => []HeldInFunctions`. The mutex of a service is
  that of the thread in a function of it, both ways; so the application's
  functions for one service never run at once, and no error path keeps a mutex.
- `RequestsAreFinite`: each step of a handler lowers `Work`, a natural number of
  the calls, services and places it has before it (`WalksAreBounded` keeps the
  walk in the list), and no step of another connection raises it. With strong
  fairness and `FunctionsRunAlone` this is why `EveryRequestEnds` holds; the last
  inference is not formal.

`ServerSentEvents_proofs` proves for every number of sessions, connections,
requests, services and events, with and without returning clients, short
timeouts, spurious wake-ups and `HPD_stop`:

- `QueuesCorrect` and `ConsumerWakes`: `Spec => []QueuesAreSound` and
  `Spec => []ConsumerSleepsOnlyWhenEmpty`, from `SseInv`. Besides types it says
  that a queue which exits or which a connection is about to destroy is not in
  the list (`ExitsAreUnlisted`, `DestroyedAreUnlisted`), so that both places
  that free a queue free one that nobody reaches through the list.
- `FeedImplemented`: `Spec => ImplementsFeed`. `Effects` and `Adds` say what a
  client sees of a step, and each is a step of `EventFeed` or a stutter; a
  connection that attaches has taken nothing (`NewTookNothing`).
- `FeedsInOrder`: `Spec => []EventsInOrder`, from `OrderInv`: the global queue
  is in order, the event being copied is older than all of it, and what a
  client was given is older still. Taking an event leaves a client's feed as it
  is, giving a queue up shortens it, and what is appended is newer.

- `FaultsHaveCauses`: `Spec => []FaultNeedsCause`. The faults of these
  behaviours end them (`fault`), so the other theorems say that whatever happens
  before the first undefined operation is right, and this one what it takes to
  get there. `Shape` says how a step may move a thread, a queue, the list and a
  request; `CauseInv` is read off it: a woken thread finds an event or need not
  (`WokenFinds`), a listed queue has an id once a connection came so far
  (`HasId`), and without `HPD_stop` and clients that come back a session has one
  connection at a time, whose queue only it removes (`OneConnection`) and never
  under a request (`RequestsHold`). With the constants of `sse_live` it says that
  nothing undefined happens at all.

`HomeClients_proofs` proves for every set of services, devices, descriptors and
clients:

- `SearchCorrect`: `ClientsSpec => []SearchIsSound`. The comparison, the opening of
  the file and the write are steps of their own; `SeekInv` says that what is
  matched stays wanted from the one to the other and on its way to the example.
- `LampsOnly`: `ClientsSpec => []OnlyLampsAreSwitched`: another device than a
  lamp is switched only through an entry that has held some other device's
  network address. From `LampInv`: the request the example has is that of the
  stage it is in and for the URL it was given (`StageInv`), and an answer that
  names a lamp came from a device whose network address the entry of that port
  has held (`DescribedInv`, `LampNamed`); what an entry has held is not
  forgotten, however often the bridge renumbers between the description and the
  switching.

Assumptions are those named `...Assumption` (and `DistinctNames`) in the
modules: sizes are positive, delays are between one and `MaxDelay`, the wiring
is a total function, the handler's entry is among the alarm slots, `None` is no
device, `NULL` is no event, no two services bear the same names.

Liveness stays with TLC: the prover reasons about neither fairness nor
`ENABLED`. These are `PassEnds`, `BroadcastReturns`, `EventsDelivered`,
`QueueDestroyed`, `EveryRequestEnds`, `SenderReturns` and `ExampleEnds`;
`SessionsEnd` is false. Every invariant, action property and refinement that a
passing run checks is also a theorem; `ExchangesKeepMessages` follows from
`MessagesSurvive` alone, since exchanges carry no bytes in the model. Of
`EveryRequestEnds` the safety core is proved (`RequestsAreFinite`,
`FunctionsRunAlone`).

## 6. Not modelled, and why

The 100 ms period of the TimeManager and the order in which it visits entries
(any armed entry may be next). Text, XML, cookies, TLS and HTTP details; the
bytes of messages but for the conversions. The unlock of a mutex that is not held
in `subscribe_to_service`: what it does to a list that two threads then change
at once is outside a model whose steps are the locked sections. The loop that
waits for `occupied` inside the session manager's `broadcast_msg` (it is in
`MsgHandler`; elsewhere a broadcast puts the message on the bus at once). The
`0TIME` keyword except for its longer delay, and UDP broadcasts. Memory
exhaustion and threads that cannot be created.

Registry: twins (services of the same names on a secure and a non-secure device
share a node of the description); `HPD_register_device_services` of a secure
device, which passes list elements where services are expected
(`hpd_web_server.c:325`); `HPD_destroy_service` before the first start, which
aborts; the lock that a collision's callback takes again
(`hpd_avahi_publish_core.c:97`) and the poll that is NULL after a failed start
(`hpd_avahi_publish_client.c:360`). That request threads walk the list of
services while the application changes it is in neither `HpdRegistry` nor
`HpdConnections`.

Requests: the static buffer of `hpd_xml.c:471`, the leak of a body on some error
paths, and the value -1 of an application function that the server takes for a
length (`heating_example.c:115`).

Field: the 200-byte buffer of `zigbee.c:251` and the address of the gateway that
is read before it is known (`zigbee.c:228`); the texts of the answers to
NETLIST_REQ, which name ports by position although numbers follow the devices.

Clients and examples: the lengths of `tcpclient.c:84` and `:114`, the
uninitialised file of `xmlAPI.c`, and the code behind `exit(0)` at
`HP_client.c:151`. The functions of the local services of the examples keep one
number each.

Parameters of services (`hpd_parameters.c`), the gateway tools (`DGWconfig/`)
and the copies that are not built: nothing of them interacts with the rest.

## 7. Plan

Done: the bus with its refinement and proofs; server-sent events with their
refinement and proofs; sessions with their proofs; the registry, the requests
and the daemon's life with the log; the field side of the bridge; conversions;
clients and examples. Next, in this order:

1. Proofs of the safety core of the other liveness properties, as for
   `EveryRequestEnds`: measures that every step of a waiting thread lowers.
2. `HpdRegistry` and `HpdConnections` over one list, so that a request meets an
   unregistration.
3. An abstract session (open, then answered or timed out, once) that
   `SessionManager` implements, and the exchanges of `ZigBeeBridge` shown to be
   an abstraction of it.
4. The walk over sessions in `hpd_server_sent_events.c` under the mutex that
   `subscribe_to_service` unlocks without holding it.
