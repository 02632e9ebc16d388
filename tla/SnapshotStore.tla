--------------------------- MODULE SnapshotStore ---------------------------
(***************************************************************************)
(* SnapshotStore of src/snapshot.rs and the two handlers of src/server.rs  *)
(* that read it while the sampler publishes from another thread.           *)
(*                                                                         *)
(* publish() stores the rendered text and then, in a second atomic store,  *)
(* the ready flag.  Memory is modelled with views: the k-th store to a     *)
(* location is its k-th message, a thread may read any message that is not *)
(* older than its view of the location, and an acquire load of a message   *)
(* written with release adds the writer's view at the time of the store to *)
(* the reader's.  The stores of the ready flag after the first write the   *)
(* same value but are messages of their own.                               *)
(*                                                                         *)
(* Handlers run on any thread of the runtime; all that is known about what *)
(* a handler has seen is what the client of its request had seen when it   *)
(* sent the request.  A client may have one request of each kind in        *)
(* flight.  Bodies are identified by the number of the publish that        *)
(* rendered them, 0 being the empty string the store is created with.      *)
(***************************************************************************)
EXTENDS Integers, FiniteSets

CONSTANTS
    Clients,     \* scrapers and readiness probes
    MaxPublish   \* bound: how many snapshots are published

ASSUME MaxPublishAssumption == MaxPublish \in Nat

VARIABLES
    rendered,    \* the number of stores to `rendered`
    ready,       \* the number of stores to `ready`
    view,        \* per client: what it knows of the two locations
    learned,     \* history, per client: the answers it has received
    request      \* per client and endpoint: the request in flight

vars == <<rendered, ready, view, learned, request>>

Endpoints == {"metrics", "readyz"}

View == [rendered : Nat, ready : Nat]

\* What answers have told a client: the newest body and whether it is ready.
Knowledge == [body : Nat, ready : BOOLEAN]

Request ==
    [state : {"idle", "sent", "answered"}, floor : View, known : Knowledge,
     message : Nat]

Unseen  == [rendered |-> 0, ready |-> 0]
Unaware == [body |-> 0, ready |-> FALSE]
Idle    == [state |-> "idle", floor |-> Unseen, known |-> Unaware, message |-> 0]

Newer(m, n) == IF m >= n THEN m ELSE n

Join(v, u) == [rendered |-> Newer(v.rendered, u.rendered),
               ready    |-> Newer(v.ready, u.ready)]

\* The writer's view when it stored the n-th body: the flag was last set by
\* the publish before.
RenderedView(n) == [rendered |-> n, ready |-> IF n = 0 THEN 0 ELSE n - 1]

\* Seeded fault: the flag is stored with Ordering::Relaxed.
ReadyViewRelaxed(n) == [rendered |-> 0, ready |-> n]

\* The writer's view when it set the flag for the n-th time (Release).
ReadyView(n) == [rendered |-> n, ready |-> n]

\* Endpoint e's answer to its n-th message, as the client understands it.
Learn(known, e, n) ==
    IF e = "metrics"
    THEN [known EXCEPT !.body = Newer(@, n)]
    ELSE [known EXCEPT !.ready = @ \/ n > 0]

Init ==
    /\ rendered = 0
    /\ ready = 0
    /\ view = [c \in Clients |-> Unseen]
    /\ learned = [c \in Clients |-> Unaware]
    /\ request = [c \in Clients |-> [e \in Endpoints |-> Idle]]

\* publish, first store: only the sampler publishes, one snapshot at a time.
StoreRendered ==
    /\ ready = rendered
    /\ rendered < MaxPublish
    /\ rendered' = rendered + 1
    /\ UNCHANGED <<ready, view, learned, request>>

\* publish, second store.
StoreReady ==
    /\ ready < rendered
    /\ ready' = rendered
    /\ UNCHANGED <<rendered, view, learned, request>>

Send(c, e) ==
    /\ request[c][e].state = "idle"
    /\ request' = [request EXCEPT ![c][e] =
                     [state |-> "sent", floor |-> view[c], known |-> learned[c],
                      message |-> 0]]
    /\ UNCHANGED <<rendered, ready, view, learned>>

\* The handler of a request answers with the n-th message it has loaded.
Answer(c, e, n) ==
    /\ request' = [request EXCEPT ![c][e].state = "answered", ![c][e].message = n]
    /\ UNCHANGED <<rendered, ready, view, learned>>

\* Seeded fault: the handler answers from a cache that may be of any age.
MetricsCached(c) ==
    /\ request[c]["metrics"].state = "sent"
    /\ \E n \in 0..rendered : Answer(c, "metrics", n)

\* GET /metrics: latest() loads the text.
Metrics(c) ==
    /\ request[c]["metrics"].state = "sent"
    /\ \E n \in request[c]["metrics"].floor.rendered..rendered : Answer(c, "metrics", n)

\* GET /readyz: is_ready() loads the flag.
Readyz(c) ==
    /\ request[c]["readyz"].state = "sent"
    /\ \E n \in request[c]["readyz"].floor.ready..ready : Answer(c, "readyz", n)

\* What an acquire load of the n-th message of e's location shows.
MessageView(e, n) == IF e = "metrics" THEN RenderedView(n) ELSE ReadyView(n)

\* The client receives the answer, and with it all that the handler had seen.
Receive(c, e) ==
    /\ request[c][e].state = "answered"
    /\ LET r == request[c][e] IN
        /\ view' = [view EXCEPT ![c] = Join(@, Join(r.floor, MessageView(e, r.message)))]
        /\ learned' = [learned EXCEPT ![c] = Learn(@, e, r.message)]
    /\ request' = [request EXCEPT ![c][e] = Idle]
    /\ UNCHANGED <<rendered, ready>>

Next ==
    \/ StoreRendered
    \/ StoreReady
    \/ \E c \in Clients :
        \/ \E e \in Endpoints : Send(c, e) \/ Receive(c, e)
        \/ Metrics(c)
        \/ Readyz(c)

Spec == Init /\ [][Next]_vars
-----------------------------------------------------------------------------
TypeOK ==
    /\ rendered \in Nat
    /\ ready \in Nat
    /\ view \in [Clients -> View]
    /\ learned \in [Clients -> Knowledge]
    /\ request \in [Clients -> [Endpoints -> Request]]

\* A client that has been told the exporter is ready, and asks for the metrics
\* afterwards, never gets the empty text of before the first publish: the flag
\* is stored after the text, with Release, and loaded with Acquire.
ReadyMeansContent ==
    \A c \in Clients :
        LET r == request[c]["metrics"] IN
        r.state = "answered" /\ r.known.ready => r.message > 0

\* A client never sees the exporter go back in time: no body older than one it
\* had received when it asked, and no 503 after a 200 from /readyz.
NeverBackwards ==
    \A c \in Clients :
        LET m == request[c]["metrics"]
            r == request[c]["readyz"]
        IN  /\ m.state = "answered" => m.message >= m.known.body
            /\ r.state = "answered" /\ r.known.ready => r.message > 0
=============================================================================
