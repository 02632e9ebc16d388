------------------------ MODULE SnapshotStoreProofs ------------------------
(***************************************************************************)
(* Theorems about SnapshotStore, for every set of clients and any number   *)
(* of snapshots.  What a client has learned is bounded by its view, and in *)
(* every view the flag is not ahead of the text: this is what Release on   *)
(* the flag and the order of the two stores give.                          *)
(***************************************************************************)
EXTENDS SnapshotStore, TLAPS

\* A view that some thread can have.
Sound(v) ==
    /\ v.ready <= v.rendered
    /\ v.rendered <= rendered
    /\ v.ready <= ready

\* Answers told a client no more than its view covers.
Covered(k, v) ==
    /\ k.body <= v.rendered
    /\ k.ready => v.ready > 0

RequestOK(r, e) ==
    /\ r.state # "idle" => Sound(r.floor) /\ Covered(r.known, r.floor)
    /\ r.state = "answered" =>
          IF e = "metrics" THEN r.message \in r.floor.rendered..rendered
                           ELSE r.message \in r.floor.ready..ready

Inv ==
    /\ TypeOK
    /\ ready <= rendered
    /\ rendered <= ready + 1
    /\ \A c \in Clients : Sound(view[c]) /\ Covered(learned[c], view[c])
    /\ \A c \in Clients : \A e \in Endpoints : RequestOK(request[c][e], e)

\* Fields of the records.
LEMMA FieldTypes ==
    /\ \A v \in View : v.rendered \in Nat /\ v.ready \in Nat
    /\ \A k \in Knowledge : k.body \in Nat /\ k.ready \in BOOLEAN
    /\ \A r \in Request : /\ r.state \in {"idle", "sent", "answered"}
                          /\ r.floor \in View /\ r.known \in Knowledge
                          /\ r.message \in Nat
  BY DEF View, Knowledge, Request

\* What clients start from is of these types.
LEMMA InitialTypes == Unseen \in View /\ Unaware \in Knowledge /\ Idle \in Request
  BY DEF Unseen, Unaware, Idle, View, Knowledge, Request

\* The views that a load adds to a sound one.
LEMMA JoinSound ==
    ASSUME NEW v \in View, NEW u \in View, Sound(v), Sound(u)
    PROVE  /\ Join(v, u) \in View
           /\ Sound(Join(v, u))
           /\ Join(v, u).rendered >= v.rendered /\ Join(v, u).rendered >= u.rendered
           /\ Join(v, u).ready >= v.ready /\ Join(v, u).ready >= u.ready
<1> DEFINE j == Join(v, u)
<1>1. /\ v.rendered \in Nat /\ v.ready \in Nat
      /\ u.rendered \in Nat /\ u.ready \in Nat
  BY FieldTypes
<1>2. /\ Newer(v.rendered, u.rendered) \in Nat
      /\ Newer(v.ready, u.ready) \in Nat
  BY <1>1 DEF Newer
<1>3. /\ j \in View
      /\ j.rendered = Newer(v.rendered, u.rendered)
      /\ j.ready = Newer(v.ready, u.ready)
  BY <1>2 DEF Join, View
<1> HIDE DEF j
<1>4. /\ j.rendered >= v.rendered /\ j.rendered >= u.rendered
      /\ j.ready >= v.ready /\ j.ready >= u.ready
      /\ j.rendered = v.rendered \/ j.rendered = u.rendered
      /\ j.ready = v.ready \/ j.ready = u.ready
  BY <1>1, <1>3 DEF Newer
<1>5. Sound(j)
  BY <1>1, <1>4 DEF Sound
<1> QED
  BY <1>3, <1>4, <1>5 DEF j

\* What a load of a message that has been written shows is sound.
LEMMA MessageSound ==
    ASSUME TypeOK, ready <= rendered, rendered <= ready + 1, NEW e \in Endpoints, NEW n \in Nat,
           IF e = "metrics" THEN n <= rendered ELSE n <= ready
    PROVE  /\ MessageView(e, n) \in View
           /\ Sound(MessageView(e, n))
           /\ e = "metrics" => MessageView(e, n).rendered = n
           /\ e = "readyz" => MessageView(e, n).ready = n
<1>1. rendered \in Nat /\ ready \in Nat
  BY DEF TypeOK
<1>2. CASE e = "metrics"
  <2> DEFINE p == IF n = 0 THEN 0 ELSE n - 1
             m == [rendered |-> n, ready |-> p]
  <2>1. p \in Nat /\ p <= n /\ p <= ready
    BY <1>1, <1>2
  <2>2. MessageView(e, n) = m
    BY <1>2 DEF MessageView, RenderedView
  <2> HIDE DEF p
  <2>3. m \in View /\ m.rendered = n /\ m.ready = p
    BY <2>1 DEF View
  <2> HIDE DEF m
  <2>4. Sound(m)
    BY <1>2, <2>1, <2>3 DEF Sound
  <2> QED
    BY <1>2, <2>2, <2>3, <2>4
<1>3. CASE e = "readyz"
  <2> DEFINE m == [rendered |-> n, ready |-> n]
  <2>1. MessageView(e, n) = m
    BY <1>3 DEF MessageView, ReadyView
  <2>2. m \in View /\ m.rendered = n /\ m.ready = n
    BY DEF View
  <2> HIDE DEF m
  <2>3. Sound(m)
    BY <1>1, <1>3, <2>2 DEF Sound
  <2> QED
    BY <1>3, <2>1, <2>2, <2>3
<1> QED
  BY <1>2, <1>3 DEF Endpoints

\* Publishing only makes room above the views there are.
LEMMA PublishKeeps ==
    ASSUME Inv, rendered' \in Nat, ready' \in Nat,
           rendered <= rendered', ready <= ready',
           ready' <= rendered', rendered' <= ready' + 1,
           UNCHANGED <<view, learned, request>>
    PROVE  Inv'
<1>1. TypeOK'
  BY DEF Inv, TypeOK
<1>2. rendered \in Nat /\ ready \in Nat
  BY DEF Inv, TypeOK
<1>3. ASSUME NEW v \in View, Sound(v) PROVE Sound(v)'
  BY <1>2, <1>3, FieldTypes DEF Sound
<1>4. ASSUME NEW c \in Clients
      PROVE  (Sound(view[c]) /\ Covered(learned[c], view[c]))'
  BY <1>3 DEF Inv, TypeOK, Covered
<1>5. ASSUME NEW c \in Clients, NEW e \in Endpoints
      PROVE  RequestOK(request[c][e], e)'
  <2> DEFINE r == request[c][e]
  <2>1. r \in Request /\ RequestOK(r, e) /\ r' = r
    BY DEF Inv, TypeOK
  <2> HIDE DEF r
  <2>2. r.floor \in View /\ r.message \in Nat /\ r.floor.rendered \in Nat /\ r.floor.ready \in Nat
    BY <2>1, FieldTypes
  <2>3. RequestOK(r, e)'
    BY <1>2, <1>3, <2>1, <2>2 DEF RequestOK, Covered
  <2> QED
    BY <2>3 DEF r
<1> QED
  BY <1>1, <1>4, <1>5 DEF Inv

\* A step that changes one request only.
LEMMA RequestStep ==
    ASSUME Inv, NEW c \in Clients, NEW e \in Endpoints, NEW q \in Request,
           RequestOK(q, e),
           request' = [request EXCEPT ![c] = [request[c] EXCEPT ![e] = q]],
           UNCHANGED <<rendered, ready, view, learned>>
    PROVE  Inv'
<1>1. request \in [Clients -> [Endpoints -> Request]]
  BY DEF Inv, TypeOK
<1>2. request' \in [Clients -> [Endpoints -> Request]]
  BY <1>1
<1>3. TypeOK'
  BY <1>2 DEF Inv, TypeOK
<1>4. ASSUME NEW d \in Clients PROVE (Sound(view[d]) /\ Covered(learned[d], view[d]))'
  BY DEF Inv, Sound
<1>5. ASSUME NEW d \in Clients, NEW f \in Endpoints
      PROVE  RequestOK(request[d][f], f)'
  <2>1. request'[d][f] = IF d = c /\ f = e THEN q ELSE request[d][f]
    BY <1>1
  <2>2. RequestOK(request[d][f], f)
    BY DEF Inv
  <2>3. CASE d = c /\ f = e
    BY <2>1, <2>3 DEF RequestOK, Sound
  <2>4. CASE ~ (d = c /\ f = e)
    BY <2>1, <2>2, <2>4 DEF RequestOK, Sound
  <2> QED
    BY <2>3, <2>4
<1> QED
  BY <1>3, <1>4, <1>5 DEF Inv

\* Sending a request records what the client knows.
LEMMA SendKeeps ==
    ASSUME Inv, NEW c \in Clients, NEW e \in Endpoints, Send(c, e)
    PROVE  Inv'
<1> DEFINE q == [state |-> "sent", floor |-> view[c], known |-> learned[c], message |-> 0]
<1>1. view[c] \in View /\ learned[c] \in Knowledge /\ Sound(view[c])
      /\ Covered(learned[c], view[c])
  BY DEF Inv, TypeOK
<1>2. q \in Request /\ q.state = "sent" /\ q.floor = view[c] /\ q.known = learned[c]
  BY <1>1 DEF Request
<1>3. request' = [request EXCEPT ![c] = [request[c] EXCEPT ![e] = q]]
      /\ UNCHANGED <<rendered, ready, view, learned>>
  BY DEF Send
<1> HIDE DEF q
<1>4. RequestOK(q, e)
  BY <1>1, <1>2 DEF RequestOK
<1> QED
  BY <1>2, <1>3, <1>4, RequestStep

\* A handler answers with a message it may read.
LEMMA AnswerKeeps ==
    ASSUME Inv, NEW c \in Clients, NEW e \in Endpoints, NEW n \in Nat,
           request[c][e].state = "sent",
           IF e = "metrics" THEN n \in request[c][e].floor.rendered..rendered
                            ELSE n \in request[c][e].floor.ready..ready,
           Answer(c, e, n)
    PROVE  Inv'
<1> DEFINE r == request[c][e]
           q == [r EXCEPT !.state = "answered", !.message = n]
<1>1. r \in Request /\ RequestOK(r, e) /\ r.state = "sent"
  BY DEF Inv, TypeOK
<1>2. q \in Request /\ q.state = "answered" /\ q.floor = r.floor
      /\ q.known = r.known /\ q.message = n
  BY <1>1 DEF Request
<1>3. request' = [request EXCEPT ![c] = [request[c] EXCEPT ![e] = q]]
      /\ UNCHANGED <<rendered, ready, view, learned>>
  BY DEF Answer, Inv, TypeOK
<1>4. IF e = "metrics" THEN n \in r.floor.rendered..rendered
                       ELSE n \in r.floor.ready..ready
  OBVIOUS
<1> HIDE DEF q, r
<1>5. RequestOK(q, e)
  BY <1>1, <1>2, <1>4 DEF RequestOK
<1> QED
  BY <1>2, <1>3, <1>5, RequestStep

\* Receiving an answer keeps what is learned within what is seen.
LEMMA ReceiveKeeps ==
    ASSUME Inv, NEW c \in Clients, NEW e \in Endpoints, Receive(c, e)
    PROVE  Inv'
<1> DEFINE r == request[c][e]
           u == MessageView(e, r.message)
           v == Join(view[c], Join(r.floor, u))
           k == Learn(learned[c], e, r.message)
<1>1. /\ r \in Request /\ RequestOK(r, e) /\ r.state = "answered"
      /\ view[c] \in View /\ learned[c] \in Knowledge
      /\ Sound(view[c]) /\ Covered(learned[c], view[c])
      /\ rendered \in Nat /\ ready \in Nat
  BY DEF Inv, TypeOK, Receive
<1>2. /\ view' = [view EXCEPT ![c] = v]
      /\ learned' = [learned EXCEPT ![c] = k]
      /\ request' = [request EXCEPT ![c] = [request[c] EXCEPT ![e] = Idle]]
      /\ UNCHANGED <<rendered, ready>>
  BY DEF Receive
<1> HIDE DEF r
<1>3. /\ r.floor \in View /\ r.message \in Nat /\ Sound(r.floor)
      /\ r.floor.rendered \in Nat /\ r.floor.ready \in Nat
      /\ IF e = "metrics" THEN r.message <= rendered ELSE r.message <= ready
  BY <1>1, FieldTypes DEF RequestOK
<1>4. /\ u \in View /\ Sound(u)
      /\ e = "metrics" => u.rendered = r.message
      /\ e = "readyz" => u.ready = r.message
  BY <1>3, MessageSound DEF Inv
<1> HIDE DEF u
<1>5. /\ Join(r.floor, u) \in View /\ Sound(Join(r.floor, u))
      /\ Join(r.floor, u).rendered >= u.rendered /\ Join(r.floor, u).ready >= u.ready
  BY <1>3, <1>4, JoinSound
<1>6. /\ v \in View /\ Sound(v)
      /\ v.rendered >= view[c].rendered /\ v.ready >= view[c].ready
      /\ v.rendered >= Join(r.floor, u).rendered /\ v.ready >= Join(r.floor, u).ready
  BY <1>1, <1>5, JoinSound
<1>7. /\ u.rendered \in Nat /\ u.ready \in Nat
      /\ view[c].rendered \in Nat /\ view[c].ready \in Nat
      /\ Join(r.floor, u).rendered \in Nat /\ Join(r.floor, u).ready \in Nat
      /\ learned[c].body \in Nat /\ learned[c].ready \in BOOLEAN
  BY <1>1, <1>4, <1>5, FieldTypes
<1>8. /\ v.rendered >= view[c].rendered /\ v.rendered >= u.rendered
      /\ v.ready >= view[c].ready /\ v.ready >= u.ready
      /\ v.rendered \in Nat /\ v.ready \in Nat
  BY <1>5, <1>6, <1>7, FieldTypes
<1> HIDE DEF v
<1>9. k \in Knowledge /\ Covered(k, v)
  <2>1. CASE e = "metrics"
    <3>1. k = [learned[c] EXCEPT !.body = Newer(@, r.message)]
      BY <2>1 DEF Learn
    <3>2. Newer(learned[c].body, r.message) \in Nat
      BY <1>3, <1>7 DEF Newer
    <3>3. /\ k \in Knowledge /\ k.body = Newer(learned[c].body, r.message)
          /\ k.ready = learned[c].ready
      BY <1>1, <3>1, <3>2 DEF Knowledge
    <3> HIDE DEF k
    <3>4. k.body <= v.rendered
      BY <1>1, <1>3, <1>4, <1>7, <1>8, <2>1, <3>3 DEF Newer, Covered
    <3> QED
      BY <1>1, <1>7, <1>8, <3>3, <3>4 DEF Covered
  <2>2. CASE e = "readyz"
    <3>1. k = [learned[c] EXCEPT !.ready = @ \/ r.message > 0]
      BY <2>2 DEF Learn
    <3>3. /\ k \in Knowledge /\ k.body = learned[c].body
          /\ k.ready = (learned[c].ready \/ r.message > 0)
      BY <1>1, <1>7, <3>1 DEF Knowledge
    <3> HIDE DEF k
    <3> QED
      BY <1>1, <1>3, <1>4, <1>7, <1>8, <2>2, <3>3 DEF Covered
  <2> QED
    BY <2>1, <2>2 DEF Endpoints
<1> HIDE DEF k
<1>10. TypeOK'
  BY <1>2, <1>6, <1>9, InitialTypes DEF Inv, TypeOK
<1>11. ASSUME NEW d \in Clients PROVE (Sound(view[d]) /\ Covered(learned[d], view[d]))'
  <2>1. Sound(view[d]) /\ Covered(learned[d], view[d])
    BY DEF Inv
  <2>2. view'[d] = (IF d = c THEN v ELSE view[d])
        /\ learned'[d] = (IF d = c THEN k ELSE learned[d])
    BY <1>2 DEF Inv, TypeOK
  <2> QED
    BY <1>2, <1>6, <1>9, <2>1, <2>2 DEF Sound, Covered
<1>12. ASSUME NEW d \in Clients, NEW f \in Endpoints
       PROVE  RequestOK(request[d][f], f)'
  <2>1. request'[d][f] = IF d = c /\ f = e THEN Idle ELSE request[d][f]
    BY <1>2 DEF Inv, TypeOK
  <2>2. RequestOK(request[d][f], f)
    BY DEF Inv
  <2>3. RequestOK(Idle, f)
    BY DEF RequestOK, Idle
  <2> QED
    BY <1>2, <2>1, <2>2, <2>3 DEF RequestOK, Sound
<1> QED
  BY <1>2, <1>10, <1>11, <1>12 DEF Inv

\* The inductive invariant.
THEOREM Invariance == Spec => []Inv
<1>1. Init => Inv
  <2> SUFFICES ASSUME Init PROVE Inv
    OBVIOUS
  <2>1. TypeOK
    BY InitialTypes DEF Init, TypeOK
  <2>2. ASSUME NEW c \in Clients PROVE Sound(view[c]) /\ Covered(learned[c], view[c])
    BY DEF Init, Sound, Covered, Unseen, Unaware
  <2>3. ASSUME NEW c \in Clients, NEW e \in Endpoints PROVE RequestOK(request[c][e], e)
    BY DEF Init, RequestOK, Idle
  <2> QED
    BY <2>1, <2>2, <2>3 DEF Init, Inv
<1>2. Inv /\ [Next]_vars => Inv'
  <2> SUFFICES ASSUME Inv, [Next]_vars PROVE Inv'
    OBVIOUS
  <2>0. rendered \in Nat /\ ready \in Nat /\ ready <= rendered /\ rendered <= ready + 1
    BY DEF Inv, TypeOK
  <2>1. CASE StoreRendered
    BY <2>0, <2>1, PublishKeeps DEF StoreRendered
  <2>2. CASE StoreReady
    BY <2>0, <2>2, PublishKeeps DEF StoreReady
  <2>3. ASSUME NEW c \in Clients, NEW e \in Endpoints, Send(c, e) PROVE Inv'
    BY <2>3, SendKeeps
  <2>4. ASSUME NEW c \in Clients, NEW e \in Endpoints, Receive(c, e) PROVE Inv'
    BY <2>4, ReceiveKeeps
  <2>5. ASSUME NEW c \in Clients, Metrics(c) PROVE Inv'
    <3>1. PICK n \in request[c]["metrics"].floor.rendered..rendered : Answer(c, "metrics", n)
      BY <2>5 DEF Metrics
    <3>2. request[c]["metrics"] \in Request
      BY DEF Inv, TypeOK, Endpoints
    <3>3. n \in Nat
      BY <2>0, <3>1, <3>2, FieldTypes
    <3> QED
      BY <2>5, <3>1, <3>3, AnswerKeeps DEF Metrics, Endpoints
  <2>6. ASSUME NEW c \in Clients, Readyz(c) PROVE Inv'
    <3>1. PICK n \in request[c]["readyz"].floor.ready..ready : Answer(c, "readyz", n)
      BY <2>6 DEF Readyz
    <3>2. request[c]["readyz"] \in Request
      BY DEF Inv, TypeOK, Endpoints
    <3>3. n \in Nat
      BY <2>0, <3>1, <3>2, FieldTypes
    <3> QED
      BY <2>6, <3>1, <3>3, AnswerKeeps DEF Readyz, Endpoints
  <2>7. CASE UNCHANGED vars
    BY <2>0, <2>7, PublishKeeps DEF vars
  <2> QED
    BY <2>1, <2>2, <2>3, <2>4, <2>5, <2>6, <2>7 DEF Next
<1> QED
  BY <1>1, <1>2, PTL DEF Spec

\* Every variable keeps its type.
THEOREM TypeCorrect == Spec => []TypeOK
<1>1. Inv => TypeOK
  BY DEF Inv
<1> QED
  BY <1>1, Invariance, PTL

\* Once told that the exporter is ready, a client never gets the empty text.
THEOREM ReadyMeansContentAlways == Spec => []ReadyMeansContent
<1>1. Inv => ReadyMeansContent
  <2> SUFFICES ASSUME Inv, NEW c \in Clients,
                      request[c]["metrics"].state = "answered",
                      request[c]["metrics"].known.ready
               PROVE  request[c]["metrics"].message > 0
    BY DEF ReadyMeansContent
  <2> DEFINE r == request[c]["metrics"]
  <2>1. r \in Request /\ RequestOK(r, "metrics") /\ r.state = "answered" /\ r.known.ready
    BY DEF Inv, TypeOK, Endpoints
  <2> HIDE DEF r
  <2>2. /\ r.message \in r.floor.rendered..rendered
        /\ r.floor.ready > 0 /\ r.floor.ready <= r.floor.rendered
    BY <2>1 DEF RequestOK, Covered, Sound
  <2>3. r.floor.ready \in Nat /\ r.floor.rendered \in Nat /\ r.message \in Nat
    BY <2>1, FieldTypes
  <2>4. rendered \in Nat
    BY DEF Inv, TypeOK
  <2>5. r.message > 0
    BY <2>2, <2>3, <2>4
  <2> QED
    BY <2>5 DEF r
<1> QED
  BY <1>1, Invariance, PTL

\* Neither the text nor readiness ever goes backwards for a client.
THEOREM NeverBackwardsAlways == Spec => []NeverBackwards
<1>1. Inv => NeverBackwards
  <2> SUFFICES ASSUME Inv, NEW c \in Clients
               PROVE  LET m == request[c]["metrics"]
                          r == request[c]["readyz"]
                      IN  /\ m.state = "answered" => m.message >= m.known.body
                          /\ r.state = "answered" /\ r.known.ready => r.message > 0
    BY DEF NeverBackwards
  <2>0. rendered \in Nat /\ ready \in Nat
    BY DEF Inv, TypeOK
  <2> DEFINE m == request[c]["metrics"]
             r == request[c]["readyz"]
  <2>1. /\ m \in Request /\ RequestOK(m, "metrics")
        /\ r \in Request /\ RequestOK(r, "readyz")
    BY DEF Inv, TypeOK, Endpoints
  <2> HIDE DEF m, r
  <2>2. /\ m.floor.rendered \in Nat /\ m.known.body \in Nat /\ m.message \in Nat
        /\ r.floor.ready \in Nat /\ r.message \in Nat
    BY <2>1, FieldTypes
  <2>3. m.state = "answered" => m.message >= m.known.body
    BY <2>0, <2>1, <2>2 DEF RequestOK, Covered
  <2>4. r.state = "answered" /\ r.known.ready => r.message > 0
    BY <2>0, <2>1, <2>2 DEF RequestOK, Covered
  <2> QED
    BY <2>3, <2>4 DEF m, r
<1> QED
  BY <1>1, Invariance, PTL
=============================================================================
