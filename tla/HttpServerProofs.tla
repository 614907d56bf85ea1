-------------------------- MODULE HttpServerProofs --------------------------
(***************************************************************************)
(* The theorems about HttpServer, for any hosts, clients, apps, plans of    *)
(* the clients and number of failures.                                      *)
(*                                                                          *)
(* The types hold whatever happens.  What the answers and the masters have  *)
(* is right as long as no two requests to one function of a host overlap    *)
(* (crossed): the parameter of a function is set, run with and read by      *)
(* separate steps, and an executor in get() has its argument twice, in the  *)
(* parameter and in the request it sends.  Good says what relates them.     *)
(***************************************************************************)
EXTENDS HttpServer, SequenceTheorems, FiniteSetTheorems, TLAPS

-----------------------------------------------------------------------------
(* The invariant.                                                           *)

Stage  == {"none", "sent", "cleared", "set", "queued", "waiting", "ran", "lost",
           "answered", "refused", "failed"}
Queued == {"queued", "waiting"}
Active == {"cleared", "set", "queued", "waiting", "ran"}

(* What is passed and returned.                                             *)
Arg     == App \union Host \union {Null}
Content == App \union {Empty, Whole, Null}

(* The arguments a function is asked with.                                  *)
ArgOf(f) ==
    IF f \in {"getCode", "downloadApp"} THEN App \union {Null}
    ELSE IF f = "send" THEN Host \union {Null} ELSE {Null}

(* What a request is made of.                                               *)
Requests ==
    [pc : Stage, host : Host \union {Null}, fn : Function \union {Null},
     arg : Arg, answer : Content]

(* An open request is one to a function of a host.                          *)
IsOpen(r) == r.pc # "none" => r.host \in Host /\ r.fn \in Function /\ r.arg \in ArgOf(r.fn)

RequestsTyped == request \in [Caller -> Requests] /\ \A c \in Caller : IsOpen(request[c])

(* A master is a function of apps.                                          *)
IsMap(map) ==
    /\ map = [x \in DOMAIN map |-> map[x]]
    /\ DOMAIN map \subseteq App
    /\ \A x \in DOMAIN map : map[x] \in Content

(* The hosts are functions of the names they are asked for.                 *)
ServerTyped ==
    /\ apps = [h \in Host |-> apps[h]]
    /\ \A h \in Host : IsMap(apps[h])
    /\ param \in [Host -> [Function -> Arg]]
    /\ \A h \in Host, f \in Function : param[h][f] \in ArgOf(f)
    /\ value \in [Host -> [Function -> Content]]

CountsTyped ==
    /\ getting \subseteq Host /\ asleep \subseteq Host
    /\ crossed \in BOOLEAN /\ failed \in Nat
    /\ left \in [Client -> Seq(Call)]

(* A queue holds callers that wait for the host, each once.                 *)
QueuesTyped ==
    /\ queue \in [Host -> Seq(Caller)]
    /\ \A h \in Host :
          /\ \A i \in 1..Len(queue[h]) :
                request[queue[h][i]].pc \in Queued /\ request[queue[h][i]].host = h
          /\ \A i, j \in 1..Len(queue[h]) : queue[h][i] = queue[h][j] => i = j

(* An executor inside get() asks for what the call it is running gets.      *)
HostAsks(h) ==
    /\ h \in getting <=> ~At(h, "none")
    /\ h \in getting =>
          /\ queue[h] # <<>> /\ h \notin asleep
          /\ Gets(Running(h)) /\ request[h].fn = Asks[Running(h)]
          /\ Running(h) = "downloadApp" => request[h].host = storeNode

HostsAsk == \A h \in Host : HostAsks(h)

(* The part that holds whatever requests overlap.                           *)
Types == RequestsTyped /\ ServerTyped /\ CountsTyped /\ QueuesTyped /\ HostsAsk

(* What is true of master while nothing overlaps: an app has its own code   *)
(* or none, and the store keeps what it was started with.                   *)
AppsTrue ==
    /\ \A h \in Host : \A a \in DOMAIN apps[h] : apps[h][a] \in {a, Empty}
    /\ \A a \in Loaded[storeNode] : a \in DOMAIN apps[storeNode] /\ apps[storeNode][a] = a

(* The code a host has for a path.                                          *)
Own(h, path) ==
    IF path = Null THEN {Whole}
    ELSE IF h = storeNode /\ path \in Loaded[storeNode] THEN {path} ELSE {path, Empty}

(* What DownloadInstalls says of an answer.                                 *)
Installed(h, path) ==
    path # Null /\ failed = 0 /\ "store" \in Loaded[storeNode] =>
       /\ path \in DOMAIN apps[h]
       /\ path \in Loaded[storeNode] => apps[h][path] = path

(* No two requests to a function are under way.                             *)
OneEach ==
    \A c, d \in Caller :
       /\ request[c].pc \in Active /\ request[d].pc \in Active
       /\ request[c].host = request[d].host /\ request[c].fn = request[d].fn
       => c = d

(* What the stages of a request have made sure of.                          *)
CallTrue(c) ==
    /\ request[c].pc \in {"set", "queued", "waiting"} =>
          param[request[c].host][request[c].fn] = request[c].arg
    /\ request[c].pc = "ran" /\ request[c].fn = "getCode" =>
          value[request[c].host]["getCode"] \in Own(request[c].host, request[c].arg)
    /\ request[c].pc = "answered" /\ request[c].fn = "getCode" =>
          request[c].answer \in Own(request[c].host, request[c].arg)
    /\ request[c].pc \in {"ran", "answered"} /\ request[c].fn = "downloadApp" =>
          Installed(request[c].host, request[c].arg)
    /\ request[c].pc = "refused" /\ request[c].fn = "getCode" =>
          request[c].host # storeNode \/ "store" \notin Loaded[storeNode]

CallsTrue == \A c \in Caller : CallTrue(c)

(* downloadApp still has the argument its get() went with.                  *)
Carries ==
    \A h \in Host : h \in getting /\ Running(h) = "downloadApp" =>
                       request[h].arg = param[h]["downloadApp"]

Good == AppsTrue /\ OneEach /\ CallsTrue /\ Carries

IInv == Types /\ (~crossed => Good)

-----------------------------------------------------------------------------
(* Requests.                                                                *)

(* Hosts are not clients.                                                   *)
LEMMA Apart ==
  /\ \A c \in Client : c \notin Host /\ c \in Caller
  /\ \A h \in Host : h \in Caller /\ h # Null
  /\ storeNode \in Host
BY HttpServerAssumption DEF Caller

(* Only the request of one caller changes.                                  *)
Others(c) == \A d \in Caller : d # c => request'[d] = request[d]

(* A request goes on: it asks for the same.                                 *)
SameCall(new, r) == new.host = r.host /\ new.fn = r.fn /\ new.arg = r.arg

(* NoRequest is a request, and not open.                                    *)
LEMMA NoRequestFacts == NoRequest \in Requests /\ NoRequest.pc = "none" /\ IsOpen(NoRequest)
BY DEF NoRequest, Requests, IsOpen, Stage, Arg, Content

(* One request is replaced.                                                 *)
LEMMA ReplaceFacts ==
  ASSUME RequestsTyped, NEW c \in Caller, NEW r \in Requests, IsOpen(r),
         request' = [request EXCEPT ![c] = r]
  PROVE  RequestsTyped' /\ Others(c) /\ request'[c] = r
<1>1. request'[c] = r /\ Others(c) /\ request' \in [Caller -> Requests]
  BY DEF RequestsTyped, Others
<1>2. \A d \in Caller : IsOpen(request'[d])
  BY <1>1 DEF RequestsTyped, Others
<1> QED
  BY <1>1, <1>2 DEF RequestsTyped

(* What a request is when it is sent.                                       *)
LEMMA SentFacts ==
  ASSUME RequestsTyped, NEW c \in Caller, NEW h \in Host, NEW f \in Function, NEW arg \in Arg,
         arg \in ArgOf(f), request' = Sent(c, h, f, arg)
  PROVE  /\ RequestsTyped' /\ Others(c) /\ request'[c].pc = "sent"
         /\ request'[c].host = h /\ request'[c].fn = f /\ request'[c].arg = arg
<1> DEFINE r == [pc |-> "sent", host |-> h, fn |-> f, arg |-> arg, answer |-> Null]
<1>1. r \in Requests /\ IsOpen(r)
  BY DEF Requests, IsOpen, Stage, Content
<1>2. request' = [request EXCEPT ![c] = r]
  BY DEF Sent
<1>3. r.pc = "sent" /\ r.host = h /\ r.fn = f /\ r.arg = arg
  OBVIOUS
<1> HIDE DEF r
<1> QED
  BY <1>1, <1>2, <1>3, ReplaceFacts

(* A request with another stage is one.                                     *)
LEMMA StageFacts ==
  ASSUME NEW r \in Requests, IsOpen(r), r.pc # "none", NEW pc \in Stage \ {"none"}
  PROVE  /\ [r EXCEPT !.pc = pc] \in Requests /\ IsOpen([r EXCEPT !.pc = pc])
         /\ [r EXCEPT !.pc = pc].pc = pc /\ SameCall([r EXCEPT !.pc = pc], r)
         /\ [r EXCEPT !.pc = pc].answer = r.answer
BY DEF Requests, IsOpen, SameCall

(* What Goes makes of a request: it is the same but for where it is.        *)
LEMMA GoesOn ==
  ASSUME RequestsTyped, NEW c \in Caller, ~At(c, "none"), NEW pc \in Stage \ {"none"},
         Goes(c, pc)
  PROVE  /\ RequestsTyped' /\ Others(c) /\ request'[c].pc = pc
         /\ request'[c].answer = request[c].answer /\ SameCall(request'[c], request[c])
<1>1. PICK r : r = request[c]
  OBVIOUS
<1> DEFINE b == [r EXCEPT !.pc = pc]
<1>2. r \in Requests /\ IsOpen(r) /\ r.pc # "none"
  BY <1>1 DEF RequestsTyped, At
<1>3. b \in Requests /\ IsOpen(b) /\ b.pc = pc /\ SameCall(b, r) /\ b.answer = r.answer
  BY <1>2, StageFacts
<1>4. request' = [request EXCEPT ![c] = b]
  BY <1>1 DEF Goes, RequestsTyped
<1> HIDE DEF b
<1> QED
  BY <1>1, <1>3, <1>4, ReplaceFacts

(* What ReadValue makes of one.                                             *)
LEMMA ReadFacts ==
  ASSUME RequestsTyped, NEW c \in Caller, ~At(c, "none"), NEW v \in Content,
         request' = [request EXCEPT ![c].pc = "answered", ![c].answer = v]
  PROVE  /\ RequestsTyped' /\ Others(c) /\ request'[c].pc = "answered"
         /\ request'[c].answer = v /\ SameCall(request'[c], request[c])
<1>1. PICK r : r = request[c]
  OBVIOUS
<1> DEFINE a == [r EXCEPT !.pc = "answered"]
           b == [a EXCEPT !.answer = v]
<1>2. r \in Requests /\ IsOpen(r) /\ r.pc # "none"
  BY <1>1 DEF RequestsTyped, At
<1>3. a \in Requests /\ IsOpen(a) /\ a.pc = "answered" /\ SameCall(a, r)
  BY <1>2, StageFacts DEF Stage
<1>4. request' = [request EXCEPT ![c] = b]
  BY <1>1 DEF RequestsTyped
<1> HIDE DEF a
<1>5. b \in Requests /\ IsOpen(b) /\ b.pc = "answered" /\ b.answer = v /\ SameCall(b, r)
  BY <1>3 DEF IsOpen, Requests, SameCall
<1> HIDE DEF b
<1> QED
  BY <1>1, <1>4, <1>5, ReplaceFacts

-----------------------------------------------------------------------------
(* Queues.                                                                  *)

(* The head of a queue waits for its host.                                  *)
LEMMA HeadFacts ==
  ASSUME Types, NEW h \in Host, queue[h] # <<>>
  PROVE  /\ Head(queue[h]) \in Caller /\ request[Head(queue[h])].pc \in Queued
         /\ request[Head(queue[h])].host = h
         /\ queue[h] \in Seq(Caller) /\ Len(queue[h]) \in Nat \ {0}
         /\ 1 \in 1..Len(queue[h]) /\ Head(queue[h]) = queue[h][1]
<1>1. queue[h] \in Seq(Caller) /\ Len(queue[h]) \in Nat \ {0} /\ 1 \in 1..Len(queue[h])
  BY DEF Types, QueuesTyped
<1>2. Head(queue[h]) = queue[h][1] /\ queue[h][1] \in Caller
  BY <1>1
<1> QED
  BY <1>1, <1>2 DEF Types, QueuesTyped

(* A step that leaves the queues alone: a request goes on that is queued    *)
(* before and after or not before, and that of a host stays open.           *)
Moves(c) ==
    /\ c \in Caller /\ Others(c) /\ RequestsTyped'
    /\ c \in Host => /\ request[c].pc # "none" /\ request'[c].pc # "none"
                     /\ SameCall(request'[c], request[c])
    /\ request[c].pc \in Queued =>
          request'[c].pc \in Queued /\ SameCall(request'[c], request[c])

(* The heads of the queues ask for the same after it.                       *)
LEMMA MovesQueues ==
  ASSUME Types, NEW c, Moves(c), NEW h \in Host, NEW i \in 1..Len(queue[h])
  PROVE  /\ request'[queue[h][i]].pc \in Queued
         /\ SameCall(request'[queue[h][i]], request[queue[h][i]])
         /\ request[queue[h][i]].host = h
<1>1. PICK d \in Caller : d = queue[h][i]
  BY DEF Types, QueuesTyped
<1>2. request[d].pc \in Queued /\ request[d].host = h
  BY <1>1 DEF Types, QueuesTyped
<1>3. CASE d = c
  BY <1>1, <1>2, <1>3 DEF Moves
<1>4. CASE d # c
  BY <1>1, <1>2, <1>4 DEF Moves, Others, SameCall
<1> QED
  BY <1>3, <1>4

(* What such a step keeps.                                                  *)
LEMMA MovesTypes ==
  ASSUME Types, NEW c, Moves(c), UNCHANGED <<queue, getting, asleep>>
  PROVE  QueuesTyped' /\ HostsAsk'
<1>1. QueuesTyped'
  <2>1. queue' \in [Host -> Seq(Caller)]
    BY DEF Types, QueuesTyped
  <2>2. ASSUME NEW h \in Host, NEW i \in 1..Len(queue'[h])
        PROVE  request'[queue'[h][i]].pc \in Queued /\ request'[queue'[h][i]].host = h
    BY MovesQueues DEF SameCall
  <2>3. \A h \in Host : \A i, j \in 1..Len(queue'[h]) : queue'[h][i] = queue'[h][j] => i = j
    BY DEF Types, QueuesTyped
  <2> QED
    BY <2>1, <2>2, <2>3 DEF QueuesTyped
<1>2. ASSUME NEW h \in Host
      PROVE  HostAsks(h)'
  <2>1. HostAsks(h)
    BY DEF Types, HostsAsk
  <2>2. /\ request'[h].pc = "none" <=> request[h].pc = "none"
        /\ request[h].pc # "none" => SameCall(request'[h], request[h])
    BY Apart DEF Moves, Others, SameCall
  <2>3. queue[h] # <<>> => request'[Head(queue[h])].fn = request[Head(queue[h])].fn
    BY HeadFacts, MovesQueues DEF SameCall
  <2> QED
    BY <2>1, <2>2, <2>3 DEF HostAsks, At, Running, SameCall
<1> QED
  BY <1>1, <1>2 DEF HostsAsk

(* A call is added to a queue.                                              *)
LEMMA EnqueueTypes ==
  ASSUME Types, NEW c \in Caller, Enqueue(c)
  PROVE  /\ QueuesTyped' /\ HostsAsk' /\ Moves(c)
         /\ \A h \in Host : queue[h] # <<>> =>
               queue'[h] # <<>> /\ Head(queue'[h]) = Head(queue[h])
         /\ request'[c].pc = "queued" /\ SameCall(request'[c], request[c])
         /\ request'[c].answer = request[c].answer
<1>1. PICK h \in Host : h = request[c].host
  BY DEF Enqueue, Types, RequestsTyped, IsOpen, At
<1>2. /\ RequestsTyped' /\ Others(c) /\ request'[c].pc = "queued"
      /\ request'[c].answer = request[c].answer /\ SameCall(request'[c], request[c])
  BY GoesOn DEF Enqueue, At, Stage, Types
<1>3. Moves(c)
  BY <1>2 DEF Moves, Enqueue, At, Queued
<1>4. PICK q : q = queue[h]
  OBVIOUS
<1>5. PICK a : a = Append(q, c)
  OBVIOUS
<1>6. q \in Seq(Caller) /\ queue \in [Host -> Seq(Caller)]
  BY <1>4 DEF Types, QueuesTyped
<1>7. /\ a \in Seq(Caller) /\ Len(q) \in Nat /\ Len(a) = Len(q) + 1 /\ a[Len(q) + 1] = c
      /\ \A i \in 1..Len(q) : a[i] = q[i]
  BY <1>5, <1>6
<1>8. queue' = [queue EXCEPT ![h] = a]
  BY <1>1, <1>4, <1>5 DEF Enqueue
<1>9. /\ queue'[h] = a /\ \A k \in Host : k # h => queue'[k] = queue[k]
      /\ queue' \in [Host -> Seq(Caller)]
  BY <1>6, <1>7, <1>8
<1>10. ASSUME NEW k \in Host, NEW i \in 1..Len(queue[k])
       PROVE  /\ queue[k][i] # c /\ request'[queue[k][i]].pc \in Queued
              /\ request'[queue[k][i]].host = k
  <2>1. request[queue[k][i]].pc \in Queued
    BY DEF Types, QueuesTyped
  <2> QED
    BY <1>3, <2>1, MovesQueues DEF SameCall, Enqueue, At, Queued
<1>11. ASSUME NEW k \in Host
       PROVE  /\ \A i \in 1..Len(queue'[k]) :
                    request'[queue'[k][i]].pc \in Queued /\ request'[queue'[k][i]].host = k
              /\ \A i, j \in 1..Len(queue'[k]) : queue'[k][i] = queue'[k][j] => i = j
  <2>1. \A i, j \in 1..Len(queue[k]) : queue[k][i] = queue[k][j] => i = j
    BY DEF Types, QueuesTyped
  <2>2. CASE k # h
    BY <1>9, <1>10, <2>1, <2>2
  <2>3. CASE k = h
    <3>1. \A i \in 1..Len(a) : i = Len(q) + 1 \/ i \in 1..Len(q)
      BY <1>7
    <3>2. ASSUME NEW i \in 1..Len(a)
          PROVE  request'[a[i]].pc \in Queued /\ request'[a[i]].host = h
      <4>1. CASE i = Len(q) + 1
        BY <1>1, <1>2, <1>7, <4>1 DEF SameCall, Queued
      <4>2. CASE i \in 1..Len(q)
        <5>1. a[i] = queue[h][i] /\ i \in 1..Len(queue[h])
          BY <1>4, <1>7, <4>2
        <5> QED
          BY <1>10, <5>1
      <4> QED
        BY <3>1, <4>1, <4>2
    <3>3. \A i \in 1..Len(q) : q[i] # c
      BY <1>4, <1>10
    <3>4. ASSUME NEW i \in 1..Len(a), NEW j \in 1..Len(a), a[i] = a[j]
          PROVE  i = j
      <4>1. CASE i \in 1..Len(q) /\ j \in 1..Len(q)
        BY <1>4, <1>7, <2>1, <2>3, <3>4, <4>1
      <4> QED
        BY <1>7, <3>1, <3>3, <3>4, <4>1
    <3>5. queue'[k] = a
      BY <1>9, <2>3
    <3>6. \A i \in 1..Len(queue'[k]) :
             request'[queue'[k][i]].pc \in Queued /\ request'[queue'[k][i]].host = k
      BY <2>3, <3>2, <3>5
    <3>7. \A i, j \in 1..Len(queue'[k]) : queue'[k][i] = queue'[k][j] => i = j
      BY <3>4, <3>5
    <3> QED
      BY <3>6, <3>7
  <2> QED
    BY <2>2, <2>3
<1>12. QueuesTyped'
  BY <1>9, <1>11 DEF QueuesTyped
<1>13. ASSUME NEW k \in Host, queue[k] # <<>>
       PROVE  queue'[k] # <<>> /\ Head(queue'[k]) = Head(queue[k])
  <2>1. queue[k] \in Seq(Caller) /\ 1 \in 1..Len(queue[k]) /\ Head(queue[k]) = queue[k][1]
    BY <1>13, HeadFacts
  <2>2. CASE k # h
    BY <1>9, <1>13, <2>2
  <2>3. CASE k = h
    <3>1. 1 \in 1..Len(q) /\ Head(queue[k]) = q[1]
      BY <1>4, <2>1, <2>3
    <3>2. a # <<>> /\ Head(a) = a[1] /\ a[1] = q[1]
      BY <1>7, <3>1
    <3> QED
      BY <1>9, <2>3, <3>1, <3>2
  <2> QED
    BY <2>2, <2>3
<1>14. ASSUME NEW k \in Host
       PROVE  HostAsks(k)'
  <2>1. HostAsks(k) /\ UNCHANGED getting
    BY DEF Types, HostsAsk, Enqueue
  <2>2. /\ request'[k].pc = "none" <=> request[k].pc = "none"
        /\ request[k].pc # "none" => SameCall(request'[k], request[k])
    BY <1>3, Apart DEF Moves, Others, SameCall
  <2>3. queue[k] # <<>> => request'[Head(queue[k])].fn = request[Head(queue[k])].fn
    BY <1>3, HeadFacts, MovesQueues DEF SameCall
  <2>4. k \in getting => k \notin asleep'
    BY <1>1, <2>1 DEF HostAsks, Enqueue
  <2> QED
    BY <1>13, <2>1, <2>2, <2>3, <2>4 DEF HostAsks, At, Running, SameCall
<1> QED
  BY <1>2, <1>3, <1>12, <1>13, <1>14 DEF HostsAsk

(* What is left of a queue without the call at a place.                     *)
Without(q, i, new) ==
    /\ new \in Seq(Caller) /\ Len(new) = Len(q) - 1
    /\ \A j \in 1..Len(new) : new[j] = q[IF j < i THEN j ELSE j + 1]

(* The Tail of a queue,                                                     *)
LEMMA TailWithout ==
  ASSUME NEW q \in Seq(Caller), q # <<>>
  PROVE  Without(q, 1, Tail(q))
BY DEF Without

(* and what Tears leaves.                                                   *)
LEMMA TornWithout ==
  ASSUME NEW q \in Seq(Caller), NEW i \in 1..Len(q)
  PROVE  Without(q, i, SubSeq(q, 1, i - 1) \o SubSeq(q, i + 1, Len(q)))
<1>1. PICK n \in Nat : n = Len(q)
  OBVIOUS
<1>2. PICK a : a = SubSeq(q, 1, i - 1)
  OBVIOUS
<1>3. PICK b : b = SubSeq(q, i + 1, n)
  OBVIOUS
<1>4. /\ i \in 1..n /\ i - 1 \in 0..n /\ i + 1 \in 1..(n + 1)
      /\ \A j \in 1..(i - 1) : j \in 1..n
      /\ \A j \in (i + 1)..n : j \in 1..n
  BY <1>1
<1>5. a \in Seq(Caller) /\ Len(a) = i - 1 /\ \A j \in 1..(i - 1) : a[j] = q[j]
  BY <1>1, <1>2, <1>4, SubSeqProperties
<1>6. b \in Seq(Caller) /\ Len(b) = n - i /\ \A j \in 1..(n - i) : b[j] = q[i + j]
  BY <1>1, <1>3, <1>4, SubSeqProperties
<1>7. PICK c : c = a \o b
  OBVIOUS
<1>8. /\ c \in Seq(Caller) /\ Len(c) = (i - 1) + (n - i)
      /\ \A j \in 1..((i - 1) + (n - i)) : c[j] = IF j <= i - 1 THEN a[j] ELSE b[j - (i - 1)]
  <2>1. a \in Seq(Caller) /\ b \in Seq(Caller)
    BY <1>5, <1>6
  <2>2. /\ c \in Seq(Caller) /\ Len(c) = Len(a) + Len(b)
        /\ \A j \in 1..(Len(a) + Len(b)) : c[j] = IF j <= Len(a) THEN a[j] ELSE b[j - Len(a)]
    BY <1>7, <2>1, ConcatProperties
  <2> QED
    BY <1>5, <1>6, <2>2
<1>9. Len(c) = n - 1
  BY <1>4, <1>8
<1>10. ASSUME NEW j \in 1..Len(c)
       PROVE  c[j] = q[IF j < i THEN j ELSE j + 1]
  <2>1. CASE j < i
    BY <1>4, <1>5, <1>8, <1>9, <2>1
  <2>2. CASE ~(j < i)
    <3>1. j - (i - 1) \in 1..(n - i) /\ i + (j - (i - 1)) = j + 1 /\ ~(j <= i - 1)
          /\ j \in 1..((i - 1) + (n - i))
      BY <1>4, <1>9, <2>2
    <3> QED
      BY <1>6, <1>8, <2>2, <3>1
  <2> QED
    BY <2>1, <2>2
<1> QED
  BY <1>1, <1>2, <1>3, <1>7, <1>8, <1>9, <1>10 DEF Without

(* A call leaves the queue of a host: it has run, or it is lost.  When it   *)
(* was one in get(), the request of the executor is over too.               *)
Leaves(h, i, d, ends) ==
    /\ h \in Host /\ i \in 1..Len(queue[h]) /\ d \in Caller /\ d = queue[h][i]
    /\ queue' = [queue EXCEPT ![h] = queue'[h]] /\ Without(queue[h], i, queue'[h])
    /\ RequestsTyped'
    /\ \/ request'[d].pc = "ran" /\ i = 1
       \/ request'[d].pc = "lost"
    /\ SameCall(request'[d], request[d])
    /\ \A e \in Caller \ {d} : request'[e] = IF ends /\ e = h THEN NoRequest ELSE request[e]
    /\ ends => request[h].pc \notin Queued /\ request[h].pc # "none" /\ i = 1
    /\ h \in getting => ends \/ i > 1
    /\ getting' = IF ends THEN getting \ {h} ELSE getting
    /\ UNCHANGED <<param, asleep, crossed, left>>

(* The others in the queues stay where they are.                            *)
LEMMA LeavesOthers ==
  ASSUME Types, NEW h, NEW i, NEW d, NEW ends, Leaves(h, i, d, ends)
  PROVE  /\ request[d].pc \in Queued /\ request[d].host = h
         /\ \A k \in Host : \A j \in 1..Len(queue[k]) :
               k # h \/ j # i =>
                 /\ queue[k][j] \in Caller /\ queue[k][j] # d
                 /\ request'[queue[k][j]] = request[queue[k][j]]
                 /\ request[queue[k][j]].pc \in Queued /\ request[queue[k][j]].host = k
<1>1. request[d].pc \in Queued /\ request[d].host = h
  BY DEF Leaves, Types, QueuesTyped
<1>2. ASSUME NEW k \in Host, NEW j \in 1..Len(queue[k]), k # h \/ j # i
      PROVE  /\ queue[k][j] \in Caller /\ queue[k][j] # d
             /\ request'[queue[k][j]] = request[queue[k][j]]
             /\ request[queue[k][j]].pc \in Queued /\ request[queue[k][j]].host = k
  <2>1. PICK e \in Caller : e = queue[k][j]
    BY DEF Types, QueuesTyped
  <2>2. request[e].pc \in Queued /\ request[e].host = k
    BY <2>1 DEF Types, QueuesTyped
  <2>3. e # d
    <3>1. CASE k # h
      BY <1>1, <2>2, <3>1
    <3>2. CASE k = h
      BY <1>2, <2>1, <3>2 DEF Leaves, Types, QueuesTyped
    <3> QED
      BY <3>1, <3>2
  <2>4. ends => e # h
    BY <2>2 DEF Leaves
  <2> QED
    BY <2>1, <2>2, <2>3, <2>4 DEF Leaves
<1> QED
  BY <1>1, <1>2

(* What such a step keeps.                                                  *)
LEMMA LeavesTypes ==
  ASSUME Types, NEW h, NEW i, NEW d, NEW ends \in BOOLEAN, Leaves(h, i, d, ends)
  PROVE  QueuesTyped' /\ HostsAsk'
<1>1. /\ h \in Host /\ i \in 1..Len(queue[h]) /\ d \in Caller /\ d = queue[h][i]
      /\ request[d].pc \in Queued /\ request[d].host = h
  <2>1. request[d].pc \in Queued /\ request[d].host = h
    BY LeavesOthers
  <2> QED
    BY <2>1 DEF Leaves
<1>2. PICK q : q = queue[h]
  OBVIOUS
<1>3. PICK w : w = queue'[h]
  OBVIOUS
<1>4. /\ q \in Seq(Caller) /\ w \in Seq(Caller) /\ Len(w) = Len(q) - 1
      /\ \A j \in 1..Len(w) : w[j] = q[IF j < i THEN j ELSE j + 1]
      /\ queue' = [queue EXCEPT ![h] = w] /\ queue \in [Host -> Seq(Caller)]
  BY <1>1, <1>2, <1>3 DEF Leaves, Without, Types, QueuesTyped
<1>5. queue' \in [Host -> Seq(Caller)] /\ \A k \in Host : k # h => queue'[k] = queue[k]
  BY <1>4
<1> DEFINE At0(j) == IF j < i THEN j ELSE j + 1
<1>6. ASSUME NEW j \in 1..Len(w)
      PROVE  At0(j) \in 1..Len(q) /\ At0(j) # i
  BY <1>1, <1>2, <1>4
<1>7. ASSUME NEW j \in 1..Len(w), NEW m \in 1..Len(w), At0(j) = At0(m)
      PROVE  j = m
  BY <1>1, <1>2, <1>4, <1>7
<1>8. \A j \in 1..Len(w) : w[j] = q[At0(j)]
  BY <1>4
<1> HIDE DEF At0
<1>9. ASSUME NEW k \in Host
      PROVE  /\ \A j \in 1..Len(queue'[k]) :
                   request'[queue'[k][j]].pc \in Queued /\ request'[queue'[k][j]].host = k
             /\ \A j, m \in 1..Len(queue'[k]) : queue'[k][j] = queue'[k][m] => j = m
  <2>0. \A j, m \in 1..Len(queue[k]) : queue[k][j] = queue[k][m] => j = m
    BY DEF Types, QueuesTyped
  <2>1. CASE k # h
    BY <1>5, <2>0, <2>1, LeavesOthers
  <2>2. CASE k = h
    <3>1. ASSUME NEW j \in 1..Len(w)
          PROVE  request'[w[j]].pc \in Queued /\ request'[w[j]].host = h
      <4>1. At0(j) \in 1..Len(queue[h]) /\ At0(j) # i /\ w[j] = queue[h][At0(j)]
        BY <1>2, <1>6, <1>8
      <4> QED
        BY <1>1, <4>1, LeavesOthers
    <3>2. ASSUME NEW j \in 1..Len(w), NEW m \in 1..Len(w), w[j] = w[m]
          PROVE  j = m
      <4>1. At0(j) = At0(m)
        BY <1>2, <1>6, <1>8, <2>0, <2>2, <3>2
      <4> QED
        BY <1>7, <4>1
    <3> QED
      BY <1>3, <2>2, <3>1, <3>2
  <2> QED
    BY <2>1, <2>2
<1>10. QueuesTyped'
  BY <1>5, <1>9 DEF QueuesTyped
<1>11. ASSUME NEW k \in Host, queue[k] # <<>>, k # h \/ i > 1
       PROVE  /\ queue'[k] # <<>> /\ Head(queue'[k]) = Head(queue[k])
              /\ request'[Head(queue[k])] = request[Head(queue[k])]
  <2>1. 1 \in 1..Len(queue[k]) /\ Head(queue[k]) = queue[k][1]
    BY <1>11, HeadFacts
  <2>2. request'[queue[k][1]] = request[queue[k][1]]
    BY <1>1, <1>11, <2>1, LeavesOthers
  <2>3. CASE k # h
    BY <1>5, <1>11, <2>1, <2>2, <2>3
  <2>4. CASE k = h
    <3>1. 1 < i /\ 1 \in 1..Len(w)
      BY <1>1, <1>2, <1>4, <1>11, <2>4
    <3>2. w # <<>> /\ Head(w) = w[1] /\ w[1] = q[1]
      BY <1>4, <3>1
    <3> QED
      BY <1>2, <1>3, <2>1, <2>2, <2>4, <3>2
  <2> QED
    BY <2>3, <2>4
<1>12. ASSUME NEW k \in Host
       PROVE  HostAsks(k)'
  <2>1. HostAsks(k) /\ k \in Caller
    BY Apart DEF Types, HostsAsk
  <2>2. CASE k = h /\ ends
    <3>1. k # d
      BY <1>1, <2>2 DEF Leaves
    <3>2. request'[k].pc = "none" /\ k \notin getting'
      BY <2>1, <2>2, <3>1, NoRequestFacts DEF Leaves
    <3> QED
      BY <3>2 DEF HostAsks, At
  <2>3. CASE ~(k = h /\ ends)
    <3>1. /\ request'[k].pc = "none" <=> request[k].pc = "none"
          /\ SameCall(request'[k], request[k])
          /\ k \in getting' <=> k \in getting
      BY <1>1, <2>1, <2>3 DEF Leaves, SameCall, Queued
    <3>2. k \in getting => k # h \/ i > 1
      BY <2>3 DEF Leaves
    <3>3. UNCHANGED asleep
      BY DEF Leaves
    <3>4. k \in getting => /\ queue[k] # <<>> /\ queue'[k] # <<>>
                           /\ Running(k)' = Running(k)
      BY <1>11, <2>1, <3>2 DEF HostAsks, Running
    <3> QED
      BY <2>1, <3>1, <3>3, <3>4 DEF HostAsks, At, SameCall
  <2> QED
    BY <2>2, <2>3
<1> QED
  BY <1>10, <1>12 DEF HostsAsk

-----------------------------------------------------------------------------
(* Types of the steps.                                                      *)

(* The hosts' data, but for the queues.                                     *)
LEMMA ServerStays ==
  ASSUME Types, UNCHANGED <<apps, param, value>>
  PROVE  ServerTyped'
BY DEF Types, ServerTyped

(* A master is replaced.                                                    *)
LEMMA SetAppsFacts ==
  ASSUME ServerTyped, NEW h \in Host, NEW map, IsMap(map), apps' = [apps EXCEPT ![h] = map]
  PROVE  /\ apps' = [k \in Host |-> apps'[k]] /\ \A k \in Host : IsMap(apps'[k])
         /\ apps'[h] = map /\ \A k \in Host : k # h => apps'[k] = apps[k]
<1>1. /\ apps' = [k \in Host |-> apps'[k]] /\ apps'[h] = map
      /\ \A k \in Host : k # h => apps'[k] = apps[k]
  BY DEF ServerTyped
<1> QED
  BY <1>1 DEF ServerTyped

(* One entry of a parameter or a value is set.                              *)
LEMMA SetEntry ==
  ASSUME NEW S, NEW map \in [Host -> [Function -> S]], NEW h \in Host, NEW f \in Function,
         NEW v \in S, NEW new, new = [map EXCEPT ![h][f] = v]
  PROVE  /\ new \in [Host -> [Function -> S]] /\ new[h][f] = v
         /\ \A k \in Host, g \in Function : k # h \/ g # f => new[k][g] = map[k][g]
<1>1. PICK m \in [Function -> S] : m = map[h]
  OBVIOUS
<1>2. PICK n : n = [m EXCEPT ![f] = v]
  OBVIOUS
<1>3. new = [map EXCEPT ![h] = n]
  BY <1>1, <1>2
<1>4. n \in [Function -> S] /\ n[f] = v /\ \A g \in Function : g # f => n[g] = m[g]
  BY <1>2
<1>5. new \in [Host -> [Function -> S]] /\ new[h] = n /\ \A k \in Host : k # h => new[k] = map[k]
  BY <1>3, <1>4
<1> QED
  BY <1>1, <1>4, <1>5

(* getNode keeps a map of the apps, and has the node.                       *)
LEMMA ReachedMap ==
  ASSUME ServerTyped, NEW h \in Host, NEW path \in App \union {Null}
  PROVE  /\ IsMap(Reached(h, path)) /\ CodeOf(h, path) \in Content
         /\ path # Null => path \in DOMAIN Reached(h, path)
         /\ \A a \in DOMAIN apps[h] :
               a \in DOMAIN Reached(h, path) /\ Reached(h, path)[a] = apps[h][a]
         /\ \A a \in DOMAIN Reached(h, path) :
               Reached(h, path)[a] = IF a \in DOMAIN apps[h] THEN apps[h][a] ELSE Empty
<1>1. PICK m : m = apps[h]
  OBVIOUS
<1>2. IsMap(m)
  BY <1>1 DEF ServerTyped
<1>3. PICK new : new = [a \in DOMAIN m \union {path} |-> IF a = path THEN Empty ELSE m[a]]
  OBVIOUS
<1>4. PICK r : r = Reached(h, path)
  OBVIOUS
<1>5. r = IF path = Null \/ path \in DOMAIN m THEN m ELSE new
  BY <1>1, <1>3, <1>4 DEF Reached
<1>6. CASE path = Null \/ path \in DOMAIN m
  <2>1. r = m
    BY <1>5, <1>6
  <2>2. CodeOf(h, path) = IF path = Null THEN Whole ELSE m[path]
    BY <1>4, <2>1 DEF CodeOf
  <2>3. CodeOf(h, path) \in Content
    BY <1>2, <1>6, <2>2 DEF IsMap, Content
  <2> QED
    BY <1>1, <1>2, <1>4, <1>6, <2>1, <2>3
<1>7. CASE ~(path = Null \/ path \in DOMAIN m)
  <2>1. r = new /\ path \in App
    BY <1>5, <1>7
  <2>2. /\ DOMAIN new = DOMAIN m \union {path} /\ new[path] = Empty
        /\ \A a \in DOMAIN m : new[a] = m[a]
        /\ new = [a \in DOMAIN new |-> new[a]]
    BY <1>3, <1>7
  <2>3. IsMap(new)
    BY <1>2, <2>1, <2>2 DEF IsMap, Content
  <2>4. CodeOf(h, path) = new[path]
    BY <1>4, <1>7, <2>1 DEF CodeOf
  <2>5. CodeOf(h, path) \in Content
    BY <2>2, <2>4 DEF Content
  <2> QED
    BY <1>1, <1>4, <1>7, <2>1, <2>2, <2>3, <2>5
<1> QED
  BY <1>6, <1>7

(* The types of Init.                                                       *)
LEMMA TypedInit == Init => Types
<1> SUFFICES ASSUME Init PROVE Types
  OBVIOUS
<1>1. /\ request = [c \in Caller |-> NoRequest] /\ queue = [h \in Host |-> <<>>]
      /\ getting = {} /\ asleep = {} /\ crossed = FALSE /\ failed = 0 /\ left \in Plan
  BY DEF Init
<1>2. RequestsTyped
  BY <1>1, NoRequestFacts DEF RequestsTyped
<1>3. ServerTyped
  <2>1. \A h \in Host : apps[h] = [a \in Loaded[h] |-> a] /\ Loaded[h] \subseteq App
    BY HttpServerAssumption DEF Init
  <2>2. ASSUME NEW h \in Host
        PROVE  IsMap(apps[h])
    <3>1. PICK m : m = apps[h]
      OBVIOUS
    <3>2. DOMAIN m = Loaded[h] /\ m = [a \in DOMAIN m |-> m[a]] /\ \A a \in DOMAIN m : m[a] = a
      BY <2>1, <3>1
    <3>3. IsMap(m)
      BY <2>1, <3>2 DEF IsMap, Content
    <3> QED
      BY <3>1, <3>3
  <2>3. apps = [h \in Host |-> apps[h]]
    BY DEF Init
  <2>4. /\ param \in [Host -> [Function -> Arg]] /\ value \in [Host -> [Function -> Content]]
        /\ \A h \in Host, f \in Function : param[h][f] = Null
    BY DEF Init, Arg, Content
  <2> QED
    BY <2>2, <2>3, <2>4 DEF ServerTyped, ArgOf
<1>4. CountsTyped
  BY <1>1, HttpServerAssumption DEF CountsTyped
<1>5. QueuesTyped
  BY <1>1 DEF QueuesTyped
<1>6. HostsAsk
  BY <1>1, NoRequestFacts, Apart DEF HostsAsk, HostAsks, At
<1> QED
  BY <1>2, <1>3, <1>4, <1>5, <1>6 DEF Types

(* A step that moves one request and leaves the rest to its own.            *)
LEMMA MovesAre ==
  ASSUME Types, NEW c \in Caller,
         \/ Request(c) /\ c \in Client
         \/ SendThrows(c) /\ c \in Client
         \/ Refuse(c) \/ ClearParams(c) \/ SetParam(c) \/ Wait(c) \/ ReadValue(c)
  PROVE  /\ Moves(c) /\ UNCHANGED <<apps, value, queue, asleep, getting>>
         /\ ~Request(c) => SameCall(request'[c], request[c]) /\ UNCHANGED left
         /\ ~Request(c) /\ ~ReadValue(c) => request'[c].answer = request[c].answer
<1>1. ASSUME NEW pc \in Stage \ {"none"}, ~At(c, "none"), Goes(c, pc),
             request[c].pc \in Queued => pc \in Queued
      PROVE  Moves(c) /\ SameCall(request'[c], request[c]) /\ request'[c].answer = request[c].answer
  BY <1>1, GoesOn DEF Moves, Types, At
<1>2. CASE Request(c) /\ c \in Client
  <2>1. left[c] \in Seq(Call) /\ left[c] # <<>>
    BY <1>2 DEF Request, Types, CountsTyped
  <2>2. PICK call \in Call : call = Head(left[c])
    BY <2>1
  <2>3. /\ call.host \in Host /\ call.fn \in Function /\ call.arg \in Arg
        /\ call.arg \in ArgOf(call.fn)
    BY <2>2 DEF Call, Arg, ArgOf
  <2>4. request' = Sent(c, call.host, call.fn, call.arg)
    BY <1>2, <2>2 DEF Request
  <2>5. RequestsTyped' /\ Others(c)
    BY <2>3, <2>4, SentFacts DEF Types
  <2> QED
    BY <1>2, <2>5, Apart DEF Moves, Request, Over, Queued
<1>3. CASE SendThrows(c)
  BY <1>1, <1>3 DEF SendThrows, At, Stage, Queued
<1>4. CASE Refuse(c)
  BY <1>1, <1>4 DEF Refuse, At, Stage, Queued
<1>5. CASE ClearParams(c)
  BY <1>1, <1>5 DEF ClearParams, At, Stage, Queued
<1>6. CASE SetParam(c)
  BY <1>1, <1>6 DEF SetParam, At, Stage, Queued
<1>7. CASE Wait(c)
  BY <1>1, <1>7 DEF Wait, At, Stage, Queued
<1>8. CASE ReadValue(c)
  <2>1. request[c].host \in Host /\ request[c].fn \in Function /\ ~At(c, "none")
    BY <1>8 DEF ReadValue, At, Types, RequestsTyped, IsOpen
  <2>2. value[request[c].host][request[c].fn] \in Content
    BY <2>1 DEF Types, ServerTyped
  <2>3. PICK v \in Content : v = value[request[c].host][request[c].fn]
    BY <2>2
  <2>4. request' = [request EXCEPT ![c].pc = "answered", ![c].answer = v]
    BY <1>8, <2>3 DEF ReadValue
  <2>5. /\ RequestsTyped' /\ Others(c) /\ request'[c].pc = "answered"
        /\ SameCall(request'[c], request[c])
    BY <2>1, <2>4, ReadFacts DEF Types
  <2> QED
    BY <1>8, <2>1, <2>5 DEF Moves, ReadValue, At, Queued
<1> QED
  BY <1>2, <1>3, <1>4, <1>5, <1>6, <1>7, <1>8

(* The types of the steps of serve and of a client.                         *)
LEMMA MovesKeep ==
  ASSUME Types, NEW c \in Caller,
         \/ Request(c) /\ c \in Client
         \/ SendThrows(c) /\ c \in Client
         \/ Refuse(c) \/ ClearParams(c) \/ SetParam(c) \/ Wait(c) \/ ReadValue(c)
  PROVE  Types'
<1>1. Moves(c) /\ UNCHANGED <<apps, value, queue, asleep, getting>>
  BY MovesAre
<1>2. QueuesTyped' /\ HostsAsk' /\ RequestsTyped'
  <2>1. QueuesTyped' /\ HostsAsk'
    BY <1>1, MovesTypes
  <2> QED
    BY <1>1, <2>1 DEF Moves
<1>3. CASE ClearParams(c) \/ SetParam(c)
  <2>1. /\ request[c].host \in Host /\ request[c].fn \in Function /\ request[c].arg \in Arg
        /\ request[c].arg \in ArgOf(request[c].fn)
    BY <1>3 DEF ClearParams, SetParam, At, Types, RequestsTyped, IsOpen, Requests
  <2>2. PICK v \in Arg : /\ v \in ArgOf(request[c].fn)
                         /\ param' = [param EXCEPT ![request[c].host][request[c].fn] = v]
    BY <1>3, <2>1 DEF ClearParams, SetParam, Arg, ArgOf
  <2>3. PICK h \in Host : h = request[c].host
    BY <2>1
  <2>4. PICK f \in Function : f = request[c].fn
    BY <2>1
  <2>5. param \in [Host -> [Function -> Arg]]
    BY DEF Types, ServerTyped
  <2>6. /\ param' \in [Host -> [Function -> Arg]] /\ param'[h][f] = v
        /\ \A k \in Host, g \in Function : k # h \/ g # f => param'[k][g] = param[k][g]
    BY <2>2, <2>3, <2>4, <2>5, SetEntry
  <2>7. ServerTyped'
    BY <1>1, <2>2, <2>4, <2>6 DEF Types, ServerTyped
  <2>8. CountsTyped'
    BY <1>1, <1>3 DEF Types, CountsTyped, ClearParams, SetParam
  <2> QED
    BY <1>2, <2>7, <2>8 DEF Types
<1>4. CASE Request(c) /\ c \in Client
  <2>1. left \in [Client -> Seq(Call)] /\ left[c] # <<>>
    BY <1>4 DEF Request, Types, CountsTyped
  <2>2. Tail(left[c]) \in Seq(Call)
    BY <1>4, <2>1
  <2>3. CountsTyped'
    BY <1>1, <1>4, <2>1, <2>2 DEF Types, CountsTyped, Request
  <2> QED
    BY <1>1, <1>2, <1>4, <2>3, ServerStays DEF Types, Request
<1>5. CASE SendThrows(c) \/ Refuse(c) \/ Wait(c) \/ ReadValue(c)
  <2>1. CountsTyped'
    BY <1>1, <1>5 DEF Types, CountsTyped, SendThrows, Refuse, Wait, ReadValue
  <2>2. UNCHANGED param
    BY <1>5 DEF SendThrows, Refuse, Wait, ReadValue
  <2> QED
    BY <1>1, <1>2, <2>1, <2>2, ServerStays DEF Types
<1> QED
  BY <1>3, <1>4, <1>5

(* The step into the queue.                                                 *)
LEMMA EnqueueKeeps ==
  ASSUME Types, NEW c \in Caller, Enqueue(c)
  PROVE  Types'
<1>1. QueuesTyped' /\ HostsAsk' /\ Moves(c)
  BY EnqueueTypes
<1>2. CountsTyped'
  BY DEF Types, CountsTyped, Enqueue, RequestsTyped, IsOpen, At
<1>3. UNCHANGED <<apps, param, value>>
  BY DEF Enqueue
<1> QED
  BY <1>1, <1>2, <1>3, ServerStays DEF Types, Moves

(* What leaves of requests when a call is over, and its executor's request  *)
(* with it.                                                                 *)
LEMMA EndFacts ==
  ASSUME Types, NEW h \in Host, queue[h] # <<>>, NEW ends \in BOOLEAN,
         ends => request[h].pc \notin Queued /\ request[h].pc # "none" /\ h \in getting,
         ~ends => h \notin getting,
         Return(h, IF ends THEN [request EXCEPT ![h] = NoRequest] ELSE request),
         getting' = IF ends THEN getting \ {h} ELSE getting,
         UNCHANGED <<param, asleep, crossed, left>>,
         NEW d, d = Head(queue[h])
  PROVE  /\ Leaves(h, 1, d, ends)
         /\ request'[d].pc = IF request[d].pc = "waiting" THEN "ran" ELSE "lost"
         /\ \/ request'[d].answer = request[d].answer /\ d # h
            \/ ~ends
<1>1. /\ d \in Caller /\ request[d].pc \in Queued /\ request[d].host = h /\ d = queue[h][1]
      /\ 1 \in 1..Len(queue[h]) /\ queue[h] \in Seq(Caller) /\ h \in Caller
  BY HeadFacts, Apart
<1>2. PICK requests : requests = IF ends THEN [request EXCEPT ![h] = NoRequest] ELSE request
  OBVIOUS
<1>3. /\ requests \in [Caller -> Requests] /\ \A e \in Caller : IsOpen(requests[e])
      /\ \A e \in Caller : requests[e] = IF ends /\ e = h THEN NoRequest ELSE request[e]
  BY <1>1, <1>2, NoRequestFacts DEF Types, RequestsTyped
<1>4. ends => d # h
  BY <1>1
<1>5. PICK r : r = request[d]
  OBVIOUS
<1>6. r \in Requests /\ IsOpen(r) /\ r.pc # "none" /\ requests[d] = r
  BY <1>1, <1>3, <1>4, <1>5 DEF Types, RequestsTyped, Queued
<1>7. PICK pc \in {"ran", "lost"} : pc = IF r.pc = "waiting" THEN "ran" ELSE "lost"
  OBVIOUS
<1> DEFINE b == [r EXCEPT !.pc = pc]
<1>8. b \in Requests /\ IsOpen(b) /\ b.pc = pc /\ SameCall(b, r) /\ b.answer = r.answer
  BY <1>6, StageFacts DEF Stage
<1>9. request' = [requests EXCEPT ![d] = b]
  BY <1>1, <1>2, <1>3, <1>6, <1>7 DEF Return
<1> HIDE DEF b
<1>10. /\ request' \in [Caller -> Requests] /\ request'[d] = b
       /\ \A e \in Caller \ {d} : request'[e] = requests[e]
  BY <1>1, <1>3, <1>8, <1>9
<1>11. RequestsTyped'
  BY <1>3, <1>8, <1>10 DEF RequestsTyped
<1>12. PICK w : w = Tail(queue[h])
  OBVIOUS
<1>13. Without(queue[h], 1, w) /\ queue' = [queue EXCEPT ![h] = w]
  BY <1>1, <1>12, TailWithout DEF Return
<1>14. queue'[h] = w
  BY <1>13 DEF Types, QueuesTyped
<1>15. Leaves(h, 1, d, ends)
  BY <1>1, <1>3, <1>5, <1>7, <1>8, <1>10, <1>11, <1>13, <1>14 DEF Leaves
<1> QED
  BY <1>4, <1>5, <1>7, <1>8, <1>10, <1>15

(* The steps that end a call without get(), and those that end it with it.  *)
LEMMA EndsAre ==
  ASSUME Types, NEW h \in Host,
         \/ GetCode(h) \/ Receive(h) \/ GetOfNobody(h)
         \/ GotCode(h) \/ GotNothing(h) \/ GetRefused(h) \/ GetFails(h),
         NEW d, d = Head(queue[h]),
         NEW ends \in BOOLEAN, ends <=> h \in getting
  PROVE  /\ Leaves(h, 1, d, ends) /\ queue[h] # <<>>
         /\ request'[d].pc = IF request[d].pc = "waiting" THEN "ran" ELSE "lost"
         /\ \/ request'[d].answer = request[d].answer /\ d # h
            \/ ~ends
<1>1. CASE GetCode(h) \/ Receive(h) \/ GetOfNobody(h)
  <2>1. /\ h \notin getting /\ queue[h] # <<>> /\ Return(h, request)
        /\ UNCHANGED <<param, asleep, getting, crossed, left>>
    BY <1>1 DEF GetCode, Receive, GetOfNobody, Idle
  <2> QED
    BY <2>1, EndFacts
<1>2. CASE GotCode(h) \/ GotNothing(h) \/ GetRefused(h) \/ GetFails(h)
  <2>1. /\ GetEnds(h) /\ request[h].pc \in {"answered", "refused", "sent"}
        /\ UNCHANGED <<param, asleep, crossed, left>>
    BY <1>2 DEF GotCode, GotNothing, GetRefused, GetFails, At
  <2>2. h \in getting /\ queue[h] # <<>>
    BY <2>1 DEF GetEnds, Types, HostsAsk, HostAsks
  <2>3. /\ getting' = getting \ {h} /\ Return(h, [request EXCEPT ![h] = NoRequest])
        /\ request[h].pc \notin Queued /\ request[h].pc # "none"
    BY <2>1 DEF GetEnds, Queued
  <2> QED
    BY <2>1, <2>2, <2>3, EndFacts
<1> QED
  BY <1>1, <1>2

(* Types after them: master and the value are what is left.                 *)
LEMMA EndsKeep ==
  ASSUME Types, NEW h \in Host,
         \/ GetCode(h) \/ Receive(h) \/ GetOfNobody(h)
         \/ GotCode(h) \/ GotNothing(h) \/ GetRefused(h) \/ GetFails(h)
  PROVE  Types'
<1>1. PICK d : d = Head(queue[h])
  OBVIOUS
<1>2. PICK ends \in BOOLEAN : ends <=> h \in getting
  <2>1. CASE h \in getting
    BY <2>1
  <2>2. CASE h \notin getting
    BY <2>2
  <2> QED
    BY <2>1, <2>2
<1>3. Leaves(h, 1, d, ends)
  BY <1>1, <1>2, EndsAre
<1>4. QueuesTyped' /\ HostsAsk' /\ RequestsTyped'
  <2>1. QueuesTyped' /\ HostsAsk'
    BY <1>3, LeavesTypes
  <2> QED
    BY <1>3, <2>1 DEF Leaves
<1>5. CountsTyped'
  <2>1. failed' = failed \/ failed' = failed + 1
    BY DEF GetCode, Receive, GetOfNobody, GotCode, GotNothing, GetRefused, GetFails
  <2>2. getting' \subseteq getting /\ UNCHANGED <<asleep, crossed, left>>
    BY <1>3 DEF Leaves
  <2> QED
    BY <2>1, <2>2 DEF Types, CountsTyped
<1>6. ServerTyped'
  <2>1. CASE GetCode(h)
    <3>1. PICK path : path = param[h]["getCode"]
      OBVIOUS
    <3>2. path \in App \union {Null} /\ "getCode" \in Function
      BY <3>1 DEF Types, ServerTyped, ArgOf, Function, Directory
    <3>3. /\ apps' = [apps EXCEPT ![h] = Reached(h, path)]
          /\ value' = [value EXCEPT ![h]["getCode"] = CodeOf(h, path)] /\ UNCHANGED param
      BY <2>1, <3>1 DEF GetCode
    <3>4. IsMap(Reached(h, path)) /\ CodeOf(h, path) \in Content
      BY <3>2, ReachedMap DEF Types
    <3>5. PICK map : map = Reached(h, path)
      OBVIOUS
    <3>6. apps' = [k \in Host |-> apps'[k]] /\ \A k \in Host : IsMap(apps'[k])
      BY <3>3, <3>4, <3>5, SetAppsFacts DEF Types
    <3>7. PICK v \in Content : v = CodeOf(h, path)
      BY <3>4
    <3>8. value \in [Host -> [Function -> Content]] /\ value' = [value EXCEPT ![h]["getCode"] = v]
      BY <3>3, <3>7 DEF Types, ServerTyped
    <3>9. value' \in [Host -> [Function -> Content]]
      BY <3>2, <3>8, SetEntry
    <3> QED
      BY <3>3, <3>6, <3>9 DEF Types, ServerTyped
  <2>2. CASE GotCode(h)
    <3>1. PICK path : path = param[h]["downloadApp"]
      OBVIOUS
    <3>2. path \in App \union {Null}
      BY <3>1 DEF Types, ServerTyped, ArgOf, Function, Directory
    <3>3. PICK code : code = request[h].answer
      OBVIOUS
    <3>4. code \in Content
      BY <3>3, Apart DEF Types, RequestsTyped, Requests
    <3>5. PICK m : m = Reached(h, path)
      OBVIOUS
    <3>6. IsMap(m) /\ (path # Null => path \in DOMAIN m)
      BY <3>2, <3>5, ReachedMap DEF Types
    <3> DEFINE map == IF path = Null \/ code = Null THEN m ELSE [m EXCEPT ![path] = code]
    <3>8. IsMap(map)
      BY <3>4, <3>6 DEF IsMap
    <3>9. apps' = [apps EXCEPT ![h] = map] /\ UNCHANGED <<param, value>>
      BY <2>2, <3>1, <3>3, <3>5 DEF GotCode
    <3> HIDE DEF map
    <3>10. apps' = [k \in Host |-> apps'[k]] /\ \A k \in Host : IsMap(apps'[k])
      BY <3>8, <3>9, SetAppsFacts DEF Types
    <3> QED
      BY <3>9, <3>10 DEF Types, ServerTyped
  <2>3. CASE Receive(h) \/ GetOfNobody(h) \/ GotNothing(h) \/ GetRefused(h) \/ GetFails(h)
    BY <2>3, ServerStays DEF Receive, GetOfNobody, GotNothing, GetRefused, GetFails
  <2> QED
    BY <2>1, <2>2, <2>3
<1> QED
  BY <1>4, <1>5, <1>6 DEF Types

(* An executor goes into get().                                             *)
LEMMA GetKeeps ==
  ASSUME Types, NEW h \in Host, Get(h)
  PROVE  /\ Types' /\ Others(h) /\ At(h, "none") /\ queue[h] # <<>> /\ h \notin getting
         /\ request'[h].pc = "sent" /\ request'[h].fn = Asks[Running(h)]
         /\ request'[h].arg = AskedArg(h, Running(h))
         /\ \A k \in Host : queue[k] # <<>> => request'[Head(queue[k])] = request[Head(queue[k])]
<1>1. PICK f : f = Running(h)
  OBVIOUS
<1>2. /\ h \in Caller /\ queue[h] # <<>> /\ h \notin getting /\ h \notin asleep
      /\ f \in DOMAIN Asks
  BY <1>1, Apart DEF Get, Idle, Gets
<1>3. f \in {"getAppList", "downloadApp", "send"} /\ f \in Function
  BY <1>2 DEF Asks, Function, Directory
<1>4. PICK g : g = Asks[f]
  OBVIOUS
<1>5. /\ g \in Function
      /\ g = IF f = "getAppList" THEN "serialize" ELSE IF f = "downloadApp" THEN "getCode" ELSE "receive"
  BY <1>3, <1>4 DEF Asks, Function, Directory
<1>6. PICK arg : arg = AskedArg(h, f)
  OBVIOUS
<1>7. arg \in Arg /\ arg \in ArgOf(g)
  <2>1. param[h][f] \in ArgOf(f)
    BY <1>3 DEF Types, ServerTyped
  <2> QED
    BY <1>3, <1>5, <1>6, <2>1 DEF AskedArg, ArgOf, Arg
<1>8. PICK k \in Host : k = AskedHost(h, f)
  BY <1>1 DEF Get
<1>9. request' = Sent(h, k, g, arg)
  BY <1>1, <1>4, <1>6, <1>8 DEF Get
<1>10. /\ RequestsTyped' /\ Others(h) /\ request'[h].pc = "sent"
       /\ request'[h].host = k /\ request'[h].fn = g /\ request'[h].arg = arg
  BY <1>2, <1>5, <1>7, <1>9, SentFacts DEF Types
<1>11. At(h, "none")
  BY <1>2 DEF Types, HostsAsk, HostAsks
<1>12. ASSUME NEW j \in Host, NEW i \in 1..Len(queue[j])
       PROVE  request'[queue[j][i]] = request[queue[j][i]]
  <2>1. queue[j][i] \in Caller /\ request[queue[j][i]].pc \in Queued
    BY DEF Types, QueuesTyped
  <2> QED
    BY <1>10, <1>11, <2>1 DEF Others, At, Queued
<1>13. ASSUME NEW j \in Host, queue[j] # <<>>
       PROVE  request'[Head(queue[j])] = request[Head(queue[j])]
  BY <1>12, <1>13, HeadFacts
<1>14. UNCHANGED queue /\ getting' = getting \union {h}
       /\ UNCHANGED <<apps, param, value, asleep, crossed, failed, left>>
  BY DEF Get
<1>15. QueuesTyped'
  BY <1>12, <1>14 DEF Types, QueuesTyped
<1>16. ASSUME NEW j \in Host
       PROVE  HostAsks(j)'
  <2>1. HostAsks(j)
    BY DEF Types, HostsAsk
  <2>2. queue[j] # <<>> => Running(j)' = Running(j)
    BY <1>13, <1>14 DEF Running
  <2>3. CASE j = h
    <3>1. f = "downloadApp" => k = storeNode
      BY <1>8 DEF AskedHost
    <3> QED
      BY <1>1, <1>2, <1>4, <1>10, <1>14, <2>2, <2>3, <3>1 DEF HostAsks, At, Gets
  <2>4. CASE j # h
    <3>1. request'[j] = request[j]
      BY <1>10, <2>4, Apart DEF Others
    <3> QED
      BY <1>14, <2>1, <2>2, <2>4, <3>1 DEF HostAsks, At
  <2> QED
    BY <2>3, <2>4
<1>17. CountsTyped' /\ ServerTyped'
  BY <1>14, ServerStays DEF Types, CountsTyped
<1> QED
  BY <1>1, <1>2, <1>4, <1>6, <1>10, <1>11, <1>13, <1>15, <1>16, <1>17 DEF Types, HostsAsk

(* A call is dropped.                                                       *)
LEMMA TearsIs ==
  ASSUME Types, NEW h \in Host, Tears(h)
  PROVE  /\ \E i \in 1..Len(queue[h]), d \in Caller : Leaves(h, i, d, FALSE) /\ request'[d].pc = "lost"
         /\ UNCHANGED <<apps, value, failed>>
<1>1. queue[h] \in Seq(Caller) /\ DOMAIN queue[h] = 1..Len(queue[h])
  BY DEF Types, QueuesTyped
<1>2. PICK i \in 1..Len(queue[h]) :
        /\ h \in getting => i > 1
        /\ queue' = [queue EXCEPT ![h] = SubSeq(@, 1, i - 1) \o SubSeq(@, i + 1, Len(@))]
        /\ Goes(queue[h][i], "lost")
  BY <1>1 DEF Tears
<1>3. PICK d \in Caller : d = queue[h][i]
  BY <1>1
<1>4. request[d].pc \in Queued
  BY <1>3 DEF Types, QueuesTyped
<1>5. /\ RequestsTyped' /\ Others(d) /\ request'[d].pc = "lost"
      /\ SameCall(request'[d], request[d])
  BY <1>2, <1>3, <1>4, GoesOn DEF Types, At, Queued, Stage
<1>6. PICK w : w = SubSeq(queue[h], 1, i - 1) \o SubSeq(queue[h], i + 1, Len(queue[h]))
  OBVIOUS
<1>7. Without(queue[h], i, w) /\ queue' = [queue EXCEPT ![h] = w]
  BY <1>1, <1>2, <1>6, TornWithout
<1>8. queue'[h] = w
  BY <1>7 DEF Types, QueuesTyped
<1>9. UNCHANGED <<apps, param, value, asleep, getting, crossed, failed, left>>
  BY DEF Tears
<1>10. Leaves(h, i, d, FALSE)
  BY <1>2, <1>3, <1>5, <1>7, <1>8, <1>9 DEF Leaves, Others
<1> QED
  BY <1>5, <1>9, <1>10

(* The queue stays typed when it is torn.                                   *)
LEMMA TearsKeeps ==
  ASSUME Types, NEW h \in Host, Tears(h)
  PROVE  Types'
<1>1. PICK i \in 1..Len(queue[h]), d \in Caller : Leaves(h, i, d, FALSE)
  BY TearsIs
<1>2. QueuesTyped' /\ HostsAsk'
  BY <1>1, LeavesTypes
<1>3. RequestsTyped'
  BY <1>1 DEF Leaves
<1>4. UNCHANGED <<apps, param, value, asleep, getting, crossed, failed, left>>
  BY DEF Tears
<1>5. CountsTyped' /\ ServerTyped'
  BY <1>4, ServerStays DEF Types, CountsTyped
<1> QED
  BY <1>2, <1>3, <1>5 DEF Types

(* Every step keeps the types.                                              *)
LEMMA TypedStep == Types /\ [Next]_vars => Types'
<1> SUFFICES ASSUME Types, [Next]_vars PROVE Types'
  OBVIOUS
<1>1. CASE UNCHANGED vars
  BY <1>1 DEF vars, Types, RequestsTyped, ServerTyped, CountsTyped, QueuesTyped, HostsAsk,
              HostAsks, At, Running
<1>2. CASE Next
  <2>1. ASSUME NEW c \in Client, Request(c) \/ SendThrows(c)
        PROVE  Types'
    BY <2>1, MovesKeep, Apart
  <2>2. ASSUME NEW c \in Caller, Serve(c)
        PROVE  Types'
    BY <2>2, MovesKeep, EnqueueKeeps DEF Serve
  <2>3. ASSUME NEW h \in Host, Execute(h) \/ GetFails(h) \/ Tears(h)
        PROVE  Types'
    BY <2>3, EndsKeep, GetKeeps, TearsKeeps DEF Execute
  <2> QED
    BY <1>2, <2>1, <2>2, <2>3 DEF Next
<1> QED
  BY <1>1, <1>2

(* Types is an invariant.                                                   *)
LEMMA TypesInvariance == Spec => []Types
<1> QED
  BY TypedInit, TypedStep, PTL DEF Spec

(* A sequence without duplicates is as long as it has elements.             *)
LEMMA DistinctCount ==
  ASSUME NEW S, NEW q \in Seq(S), \A i, j \in 1..Len(q) : q[i] = q[j] => i = j
  PROVE  Cardinality({q[i] : i \in DOMAIN q}) = Len(q)
<1> DEFINE T == {q[i] : i \in DOMAIN q}
<1>1. Len(q) \in Nat /\ DOMAIN q = 1..Len(q)
  OBVIOUS
<1>2. IsFiniteSet(1..Len(q)) /\ Cardinality(1..Len(q)) = Len(q)
  BY <1>1, FS_Interval
<1>3. [i \in 1..Len(q) |-> q[i]] \in Bijection(1..Len(q), T)
  BY <1>1 DEF Bijection, Injection, Surjection, IsInjective
<1>4. ExistsBijection(1..Len(q), T)
  BY <1>3 DEF ExistsBijection
<1> QED
  BY <1>2, <1>4, FS_Bijection

(* The queues hold the callers that wait, each once, and an executor inside *)
(* get() has its call and its request open, through all that ThreadNode.run *)
(* can lose: what serve and the executors do next relies on it.             *)
THEOREM TypeCorrect == Spec => []TypeOK
<1>1. Types => TypeOK
  <2> SUFFICES ASSUME Types PROVE TypeOK
    OBVIOUS
  <2>1. ASSUME NEW h \in Host
        PROVE  /\ \A i \in DOMAIN queue[h] :
                     /\ request[queue[h][i]].pc \in {"queued", "waiting"}
                     /\ request[queue[h][i]].host = h
               /\ Cardinality({queue[h][i] : i \in DOMAIN queue[h]}) = Len(queue[h])
               /\ h \in getting <=> ~At(h, "none")
               /\ h \in getting => queue[h] # <<>> /\ h \notin asleep
    <3>1. queue[h] \in Seq(Caller) /\ DOMAIN queue[h] = 1..Len(queue[h])
      BY DEF Types, QueuesTyped
    <3>2. \A i \in DOMAIN queue[h] :
             request[queue[h][i]].pc \in {"queued", "waiting"} /\ request[queue[h][i]].host = h
      BY <3>1 DEF Types, QueuesTyped, Queued
    <3>3. \A i, j \in 1..Len(queue[h]) : queue[h][i] = queue[h][j] => i = j
      BY DEF Types, QueuesTyped
    <3>4. Cardinality({queue[h][i] : i \in DOMAIN queue[h]}) = Len(queue[h])
      BY <3>1, <3>3, DistinctCount
    <3>5. /\ h \in getting <=> ~At(h, "none")
          /\ h \in getting => queue[h] # <<>> /\ h \notin asleep
      BY DEF Types, HostsAsk, HostAsks
    <3> QED
      BY <3>2, <3>4, <3>5
  <2>2. ASSUME NEW c \in Caller
        PROVE  request[c].fn \in Function \union {Null}
    BY DEF Types, RequestsTyped, Requests
  <2> QED
    BY <2>1, <2>2 DEF TypeOK
<1> QED
  BY <1>1, TypesInvariance, PTL

-----------------------------------------------------------------------------
(* What holds as long as no two requests to a function overlap.             *)

(* Masters only gain: what a host has it keeps, and what it has of the      *)
(* store keeps its code.                                                    *)
Grows ==
    /\ \A h \in Host : \A a \in DOMAIN apps[h] :
          /\ a \in DOMAIN apps'[h]
          /\ a \in Loaded[storeNode] /\ apps[h][a] = a => apps'[h][a] = a
    /\ failed' = 0 => failed = 0

(* What is installed stays so.                                             *)
LEMMA InstalledStays ==
  ASSUME Grows, NEW h \in Host, NEW path, Installed(h, path)
  PROVE  Installed(h, path)'
BY DEF Grows, Installed

(* A request that does not move stays true.                                 *)
LEMMA CallStays ==
  ASSUME Types, Grows, NEW c \in Caller, CallTrue(c), request'[c] = request[c],
         request[c].pc \in {"set", "queued", "waiting"} =>
            param'[request[c].host][request[c].fn] = param[request[c].host][request[c].fn],
         request[c].pc = "ran" /\ request[c].fn = "getCode" =>
            value'[request[c].host]["getCode"] = value[request[c].host]["getCode"]
  PROVE  CallTrue(c)'
<1>1. PICK r : r = request[c]
  OBVIOUS
<1>2. r.pc # "none" => r.host \in Host
  BY <1>1 DEF Types, RequestsTyped, IsOpen
<1>3. r.pc \in {"ran", "answered"} /\ r.fn = "downloadApp" => Installed(r.host, r.arg)
  BY <1>1 DEF CallTrue
<1>4. r.pc \in {"ran", "answered"} /\ r.fn = "downloadApp" => Installed(r.host, r.arg)'
  BY <1>2, <1>3, InstalledStays
<1> QED
  BY <1>1, <1>4 DEF CallTrue, Own

(* No request to a function begins.                                         *)
LEMMA OneEachStays ==
  ASSUME OneEach,
         \A c \in Caller : request'[c].pc \in Active =>
            /\ request[c].pc \in Active
            /\ request'[c].host = request[c].host /\ request'[c].fn = request[c].fn
  PROVE  OneEach'
BY DEF OneEach

(* The head of a queue is under way.                                        *)
LEMMA HeadCall ==
  ASSUME Types, Good, NEW h \in Host, queue[h] # <<>>, NEW d, d = Head(queue[h])
  PROVE  /\ d \in Caller /\ request[d].host = h /\ request[d].fn = Running(h)
         /\ request[d].pc \in Queued /\ request[d].pc \in Active
         /\ param[h][Running(h)] = request[d].arg
<1>1. d \in Caller /\ request[d].host = h /\ request[d].fn = Running(h) /\ request[d].pc \in Queued
  BY HeadFacts DEF Running
<1>2. CallTrue(d)
  BY <1>1 DEF Good, CallsTrue
<1> QED
  BY <1>1, <1>2 DEF CallTrue, Queued, Active

(* downloadApp keeps its argument when the queues are left alone and its    *)
(* parameter is.                                                            *)
LEMMA CarriesStays ==
  ASSUME Types, Carries, NEW c, Moves(c), UNCHANGED getting,
         \A h \in Host : queue[h] # <<>> => Head(queue'[h]) = Head(queue[h]),
         \A h \in Host : h \in getting /\ Running(h) = "downloadApp" =>
            param'[h]["downloadApp"] = param[h]["downloadApp"]
  PROVE  Carries'
<1> SUFFICES ASSUME NEW h \in Host, h \in getting, Running(h)' = "downloadApp"
             PROVE  request'[h].arg = param'[h]["downloadApp"]
  BY DEF Carries
<1>1. queue[h] # <<>> /\ request[h].pc # "none"
  BY DEF Types, HostsAsk, HostAsks, At
<1>2. Running(h)' = Running(h)
  BY <1>1, HeadFacts, MovesQueues DEF Running, SameCall
<1>3. request'[h].arg = request[h].arg
  BY <1>1, Apart DEF Moves, Others, SameCall
<1> QED
  BY <1>2, <1>3 DEF Carries

(* A client asks, or cannot.                                                *)
LEMMA AskGood ==
  ASSUME Types, Good, NEW c \in Client, Request(c) \/ SendThrows(c)
  PROVE  Good'
<1>1. c \in Caller /\ Moves(c) /\ UNCHANGED <<apps, value, queue, asleep, getting>>
  BY MovesAre, Apart
<1>2. UNCHANGED param /\ Others(c) /\ request'[c].pc \in {"sent", "failed"}
  <2>1. CASE Request(c)
    <3>1. left[c] \in Seq(Call) /\ left[c] # <<>>
      BY <2>1 DEF Request, Types, CountsTyped
    <3>2. PICK call \in Call : call = Head(left[c])
      BY <3>1
    <3>3. /\ call.host \in Host /\ call.fn \in Function /\ call.arg \in Arg
          /\ call.arg \in ArgOf(call.fn)
      BY <3>2 DEF Call, Arg, ArgOf
    <3>4. request' = Sent(c, call.host, call.fn, call.arg)
      BY <2>1, <3>2 DEF Request
    <3> QED
      BY <1>1, <2>1, <3>3, <3>4, SentFacts DEF Types, Request
  <2>2. CASE SendThrows(c)
    BY <1>1, <2>2, GoesOn DEF SendThrows, At, Stage, Types
  <2> QED
    BY <2>1, <2>2
<1>3. Grows
  BY <1>1 DEF Grows, Request, SendThrows, Types, CountsTyped
<1>4. CallsTrue'
  <2>1. CallTrue(c)'
    BY <1>2 DEF CallTrue
  <2>2. ASSUME NEW d \in Caller, d # c
        PROVE  CallTrue(d)'
    BY <1>1, <1>2, <1>3, <2>2, CallStays DEF Others, Good, CallsTrue
  <2> QED
    BY <2>1, <2>2 DEF CallsTrue
<1>5. OneEach'
  BY <1>2, OneEachStays DEF Others, Good, Active
<1>6. AppsTrue'
  BY <1>1 DEF AppsTrue, Good
<1>7. Carries'
  BY <1>1, <1>2, CarriesStays DEF Good
<1> QED
  BY <1>4, <1>5, <1>6, <1>7 DEF Good

(* serve, but for the parameters.                                           *)
LEMMA ServeGood ==
  ASSUME Types, Good, NEW c \in Caller, Refuse(c) \/ Enqueue(c) \/ Wait(c) \/ ReadValue(c)
  PROVE  Good'
<1>1. /\ Moves(c) /\ UNCHANGED <<apps, value, getting>> /\ SameCall(request'[c], request[c])
      /\ \A h \in Host : queue[h] # <<>> => Head(queue'[h]) = Head(queue[h])
      /\ UNCHANGED <<param, failed>>
  <2>1. CASE Refuse(c) \/ Wait(c) \/ ReadValue(c)
    BY <2>1, MovesAre DEF Refuse, Wait, ReadValue, Request, At, Over
  <2>2. CASE Enqueue(c)
    BY <2>2, EnqueueTypes DEF Enqueue
  <2> QED
    BY <2>1, <2>2
<1>2. Grows /\ Others(c)
  BY <1>1 DEF Grows, Moves
<1>3. CallTrue(c)
  BY DEF Good, CallsTrue
<1>4. CallTrue(c)'
  <2>1. request'[c].host = request[c].host /\ request'[c].fn = request[c].fn
        /\ request'[c].arg = request[c].arg
    BY <1>1 DEF SameCall
  <2>2. CASE Refuse(c)
    <3>1. request'[c].pc = "refused" /\ At(c, "sent")
      BY <2>2, GoesOn DEF Refuse, Types, At, Stage
    <3>2. request[c].host = storeNode /\ "store" \in Loaded[storeNode] => request[c].fn # "getCode"
      BY <2>2 DEF Refuse, Exists, Directory, Good, AppsTrue
    <3> QED
      BY <2>1, <3>1, <3>2 DEF CallTrue
  <2>3. CASE Enqueue(c) \/ Wait(c)
    <3>1. request'[c].pc \in Queued /\ request[c].pc \in {"set", "queued"}
      <4>1. CASE Enqueue(c)
        BY <4>1, EnqueueTypes DEF Enqueue, At, Queued
      <4>2. CASE Wait(c)
        BY <4>2, GoesOn DEF Wait, Types, At, Stage, Queued
      <4> QED
        BY <2>3, <4>1, <4>2
    <3> QED
      BY <1>1, <1>3, <2>1, <3>1 DEF CallTrue, Queued
  <2>4. CASE ReadValue(c)
    <3>1. /\ request[c].pc = "ran" /\ request[c].host \in Host /\ request[c].fn \in Function
      BY <2>4 DEF ReadValue, At, Types, RequestsTyped, IsOpen
    <3>2. PICK v \in Content : v = value[request[c].host][request[c].fn]
      BY <3>1 DEF Types, ServerTyped
    <3>3. request' = [request EXCEPT ![c].pc = "answered", ![c].answer = v]
      BY <2>4, <3>2 DEF ReadValue
    <3>4. request'[c].pc = "answered" /\ request'[c].answer = v
      BY <3>1, <3>3, ReadFacts DEF Types, At
    <3>5. request[c].fn = "downloadApp" => Installed(request[c].host, request[c].arg)'
      <4>1. PICK r : r = request[c]
        OBVIOUS
      <4>2. r.fn = "downloadApp" => Installed(r.host, r.arg)
        BY <1>3, <3>1, <4>1 DEF CallTrue
      <4>3. r.fn = "downloadApp" => Installed(r.host, r.arg)'
        BY <1>2, <3>1, <4>1, <4>2, InstalledStays
      <4> QED
        BY <2>1, <4>1, <4>3 DEF Installed
    <3>6. request[c].fn = "getCode" => v \in Own(request[c].host, request[c].arg)
      BY <1>3, <3>1, <3>2 DEF CallTrue
    <3>7. request'[c].fn = "getCode" => request'[c].answer \in Own(request'[c].host, request'[c].arg)
      BY <2>1, <3>4, <3>6
    <3> QED
      BY <2>1, <3>4, <3>5, <3>7 DEF CallTrue, Own
  <2> QED
    BY <2>2, <2>3, <2>4
<1>5. CallsTrue'
  <2>1. ASSUME NEW d \in Caller, d # c
        PROVE  CallTrue(d)'
    BY <1>1, <1>2, <2>1, CallStays DEF Others, Good, CallsTrue
  <2> QED
    BY <1>4, <2>1 DEF CallsTrue
<1>6. OneEach'
  <2>1. request'[c].pc \in Active => request[c].pc \in Active
    <3>1. CASE Refuse(c)
      BY <3>1, GoesOn DEF Refuse, Types, At, Stage, Active
    <3>2. CASE Enqueue(c) \/ Wait(c) \/ ReadValue(c)
      BY <3>2 DEF Enqueue, Wait, ReadValue, At, Active
    <3> QED
      BY <3>1, <3>2
  <2> QED
    BY <1>1, <1>2, <2>1, OneEachStays DEF Others, Good, SameCall
<1>7. AppsTrue'
  BY <1>1 DEF AppsTrue, Good
<1>8. Carries'
  BY <1>1, CarriesStays DEF Good
<1> QED
  BY <1>5, <1>6, <1>7, <1>8 DEF Good

(* The parameters are set: the request is the only one under way to its     *)
(* function.                                                                *)
LEMMA ParamGood ==
  ASSUME Types, Good, NEW c \in Caller, ClearParams(c) \/ SetParam(c), ~crossed'
  PROVE  Good'
<1>1. /\ Moves(c) /\ UNCHANGED <<apps, value, queue, getting>> /\ Others(c)
      /\ SameCall(request'[c], request[c]) /\ UNCHANGED failed
  BY MovesAre DEF Moves, ClearParams, SetParam, Request, At, Over
<1>2. PICK h \in Host : h = request[c].host
  BY DEF ClearParams, SetParam, At, Types, RequestsTyped, IsOpen
<1>3. PICK f \in Function : f = request[c].fn
  BY DEF ClearParams, SetParam, At, Types, RequestsTyped, IsOpen
<1>4. PICK v \in Arg : v = IF ClearParams(c) THEN Null ELSE request[c].arg
  BY DEF Types, RequestsTyped, Requests, Arg
<1>5. param' = [param EXCEPT ![h][f] = v]
  BY <1>2, <1>3, <1>4 DEF ClearParams, SetParam, At
<1>6. /\ param'[h][f] = v
      /\ \A k \in Host, g \in Function : k # h \/ g # f => param'[k][g] = param[k][g]
  BY <1>5, SetEntry DEF Types, ServerTyped
<1>7. ASSUME NEW d \in Caller \ {c}, request[d].host = h, request[d].fn = f,
             request[d].pc \in Active
      PROVE  FALSE
  <2>1. CASE ClearParams(c)
    BY <1>2, <1>3, <1>7, <2>1 DEF ClearParams, Overlaps, Active
  <2>2. CASE SetParam(c)
    BY <1>2, <1>3, <1>7, <2>2 DEF SetParam, At, Active, Good, OneEach
  <2> QED
    BY <2>1, <2>2
<1>8. /\ request'[c].pc = IF ClearParams(c) THEN "cleared" ELSE "set"
      /\ request[c].pc \in {"sent", "cleared"}
  <2>1. CASE ClearParams(c)
    BY <2>1, GoesOn DEF ClearParams, Types, At, Stage
  <2>2. CASE SetParam(c)
    BY <2>2, GoesOn DEF ClearParams, SetParam, Types, At, Stage
  <2> QED
    BY <2>1, <2>2
<1>9. Grows
  BY <1>1 DEF Grows
<1>10. CallsTrue'
  <2>1. CallTrue(c)'
    BY <1>1, <1>2, <1>3, <1>4, <1>6, <1>8 DEF CallTrue, SameCall
  <2>2. ASSUME NEW d \in Caller, d # c
        PROVE  CallTrue(d)'
    <3>1. request'[d] = request[d] /\ CallTrue(d)
      BY <1>1, <2>2 DEF Others, Good, CallsTrue
    <3>2. request[d].pc \in {"set", "queued", "waiting"} =>
             param'[request[d].host][request[d].fn] = param[request[d].host][request[d].fn]
      BY <1>6, <1>7, <2>2 DEF Active, Types, RequestsTyped, IsOpen
    <3> QED
      BY <1>1, <1>9, <3>1, <3>2, CallStays
  <2> QED
    BY <2>1, <2>2 DEF CallsTrue
<1>11. OneEach'
  <2> SUFFICES ASSUME NEW d \in Caller, NEW e \in Caller,
                      request'[d].pc \in Active, request'[e].pc \in Active,
                      request'[d].host = request'[e].host, request'[d].fn = request'[e].fn
               PROVE  d = e
    BY DEF OneEach
  <2>1. CASE d # c /\ e # c
    BY <1>1, <2>1 DEF Others, Good, OneEach
  <2>2. CASE d = c /\ e # c
    BY <1>1, <1>2, <1>3, <1>7, <2>2 DEF Others, SameCall
  <2>3. CASE d # c /\ e = c
    BY <1>1, <1>2, <1>3, <1>7, <2>3 DEF Others, SameCall
  <2> QED
    BY <2>1, <2>2, <2>3
<1>12. AppsTrue'
  BY <1>1 DEF AppsTrue, Good
<1>13. Carries'
  <2>1. ASSUME NEW k \in Host, k \in getting, Running(k) = "downloadApp"
        PROVE  param'[k]["downloadApp"] = param[k]["downloadApp"]
    <3>1. queue[k] # <<>>
      BY <2>1 DEF Types, HostsAsk, HostAsks
    <3>2. PICK d : d = Head(queue[k])
      OBVIOUS
    <3>3. /\ d \in Caller /\ request[d].host = k /\ request[d].fn = "downloadApp"
          /\ request[d].pc \in Queued /\ request[d].pc \in Active
      BY <2>1, <3>1, <3>2, HeadCall
    <3>4. d # c
      BY <1>8, <3>3 DEF Queued
    <3>5. k # h \/ "downloadApp" # f
      BY <1>7, <3>3, <3>4
    <3>6. "downloadApp" \in Function
      BY DEF Function, Directory
    <3> QED
      BY <1>6, <3>5, <3>6
  <2> QED
    BY <1>1, <2>1, CarriesStays DEF Good
<1> QED
  BY <1>10, <1>11, <1>12, <1>13 DEF Good

(* A call leaves a queue, and what that means for the others: only what is  *)
(* said of its own request is left to see to.                               *)
LEMMA LeavesGood ==
  ASSUME Types, Good, NEW h, NEW i, NEW d, NEW ends \in BOOLEAN, Leaves(h, i, d, ends),
         Grows, AppsTrue',
         \A e \in Caller \ {d} : request[e].pc = "ran" /\ request[e].fn = "getCode" =>
            value'[request[e].host]["getCode"] = value[request[e].host]["getCode"],
         request'[d].pc = "ran" => CallTrue(d)'
  PROVE  Good'
<1>1. /\ h \in Host /\ i \in 1..Len(queue[h]) /\ d \in Caller /\ d = queue[h][i]
      /\ request'[d].pc \in {"ran", "lost"} /\ SameCall(request'[d], request[d])
      /\ \A e \in Caller \ {d} : request'[e] = IF ends /\ e = h THEN NoRequest ELSE request[e]
      /\ h \in getting => ends \/ i > 1
      /\ getting' = IF ends THEN getting \ {h} ELSE getting
      /\ UNCHANGED param
  BY DEF Leaves
<1>2. request[d].pc \in Queued /\ request[d].host = h
  BY LeavesOthers
<1>3. CallsTrue'
  <2>1. CallTrue(d)'
    BY <1>1 DEF CallTrue
  <2>2. ASSUME NEW e \in Caller, e # d
        PROVE  CallTrue(e)'
    <3>1. CASE ends /\ e = h
      <4>1. request'[e].pc = "none"
        BY <1>1, <2>2, <3>1, NoRequestFacts
      <4> QED
        BY <4>1 DEF CallTrue
    <3>2. CASE ~(ends /\ e = h)
      BY <1>1, <2>2, <3>2, CallStays DEF Good, CallsTrue
    <3> QED
      BY <3>1, <3>2
  <2> QED
    BY <2>1, <2>2 DEF CallsTrue
<1>4. OneEach'
  <2>1. ASSUME NEW e \in Caller, request'[e].pc \in Active
        PROVE  /\ request[e].pc \in Active
               /\ request'[e].host = request[e].host /\ request'[e].fn = request[e].fn
    BY <1>1, <1>2, <2>1, NoRequestFacts DEF SameCall, Active, Queued
  <2> QED
    BY <2>1, OneEachStays DEF Good
<1>5. Carries'
  <2> SUFFICES ASSUME NEW k \in Host, k \in getting', Running(k)' = "downloadApp"
               PROVE  request'[k].arg = param'[k]["downloadApp"]
    BY DEF Carries
  <2>1. k \in getting /\ (k # h \/ i > 1) /\ ~(ends /\ k = h)
    BY <1>1
  <2>2. queue[k] # <<>> /\ k \in Caller
    BY <2>1, Apart DEF Types, HostsAsk, HostAsks
  <2>3. Running(k)' = Running(k)
    <3>1. 1 \in 1..Len(queue[k]) /\ Head(queue[k]) = queue[k][1]
      BY <2>2, HeadFacts
    <3>2. request'[queue[k][1]] = request[queue[k][1]]
      BY <1>1, <2>1, <3>1, LeavesOthers
    <3>3. Head(queue'[k]) = queue[k][1]
      <4>1. CASE k # h
        <5>1. queue' = [queue EXCEPT ![h] = queue'[h]] /\ queue \in [Host -> Seq(Caller)]
          BY DEF Leaves, Types, QueuesTyped
        <5> QED
          BY <3>1, <4>1, <5>1
      <4>2. CASE k = h
        <5>1. PICK w : w = queue'[h]
          OBVIOUS
        <5>2. PICK q : q = queue[h]
          OBVIOUS
        <5>3. /\ w \in Seq(Caller) /\ Len(w) = Len(q) - 1 /\ q \in Seq(Caller)
              /\ \A j \in 1..Len(w) : w[j] = q[IF j < i THEN j ELSE j + 1]
          BY <5>1, <5>2 DEF Leaves, Without, Types, QueuesTyped
        <5>4. 1 < i /\ i \in 1..Len(q) /\ 1 \in 1..Len(w)
          BY <1>1, <2>1, <4>2, <5>2, <5>3
        <5>5. Head(w) = w[1] /\ w[1] = q[1]
          BY <5>3, <5>4
        <5> QED
          BY <4>2, <5>1, <5>2, <5>5
      <4> QED
        BY <4>1, <4>2
    <3> QED
      BY <3>1, <3>2, <3>3 DEF Running
  <2>4. request'[k].arg = request[k].arg
    BY <1>1, <2>1, <2>2 DEF SameCall
  <2> QED
    BY <1>1, <2>1, <2>3, <2>4 DEF Good, Carries
<1> QED
  BY <1>3, <1>4, <1>5 DEF Good

(* A call is dropped.                                                       *)
LEMMA TearsGood ==
  ASSUME Types, Good, NEW h \in Host, Tears(h)
  PROVE  Good'
<1>1. PICK i \in 1..Len(queue[h]), d \in Caller :
         Leaves(h, i, d, FALSE) /\ request'[d].pc = "lost"
  BY TearsIs
<1>2. UNCHANGED <<apps, value, failed>>
  BY TearsIs
<1>3. Grows /\ AppsTrue'
  BY <1>2 DEF Grows, Good, AppsTrue
<1> QED
  BY <1>1, <1>2, <1>3, LeavesGood

(* An executor goes into get().                                             *)
LEMMA GetGood ==
  ASSUME Types, Good, NEW h \in Host, Get(h)
  PROVE  Good'
<1>1. /\ Others(h) /\ request[h].pc = "none" /\ h \in Caller
      /\ request'[h].pc = "sent" /\ request'[h].arg = AskedArg(h, Running(h))
      /\ \A k \in Host : queue[k] # <<>> => request'[Head(queue[k])] = request[Head(queue[k])]
  BY GetKeeps, Apart DEF At
<1>2. /\ UNCHANGED <<apps, param, value, queue, failed>>
      /\ getting' = getting \union {h}
  BY DEF Get
<1>3. Grows /\ AppsTrue'
  BY <1>2 DEF Grows, Good, AppsTrue
<1>4. CallsTrue'
  <2>1. CallTrue(h)'
    BY <1>1 DEF CallTrue
  <2>2. ASSUME NEW d \in Caller, d # h
        PROVE  CallTrue(d)'
    BY <1>1, <1>2, <1>3, <2>2, CallStays DEF Others, Good, CallsTrue
  <2> QED
    BY <2>1, <2>2 DEF CallsTrue
<1>5. OneEach'
  BY <1>1, OneEachStays DEF Others, Good, Active
<1>6. Carries'
  <2> SUFFICES ASSUME NEW k \in Host, k \in getting', Running(k)' = "downloadApp"
               PROVE  request'[k].arg = param'[k]["downloadApp"]
    BY DEF Carries
  <2>1. queue[k] # <<>>
    BY <1>2, GetKeeps DEF Types, HostsAsk, HostAsks
  <2>2. Running(k) = "downloadApp"
    BY <1>1, <1>2, <2>1 DEF Running
  <2>3. CASE k = h
    BY <1>1, <1>2, <2>2, <2>3 DEF AskedArg
  <2>4. CASE k # h
    BY <1>1, <1>2, <2>2, <2>4, Apart DEF Others, Good, Carries
  <2> QED
    BY <2>3, <2>4
<1> QED
  BY <1>3, <1>4, <1>5, <1>6 DEF Good

(* The code is serialized.                                                  *)
LEMMA GetCodeGood ==
  ASSUME Types, Good, NEW h \in Host, GetCode(h)
  PROVE  Good'
<1>1. PICK d : d = Head(queue[h])
  OBVIOUS
<1>2. h \notin getting /\ Running(h) = "getCode" /\ queue[h] # <<>> /\ UNCHANGED failed
  BY DEF GetCode, Idle
<1>3. Leaves(h, 1, d, FALSE)
  BY <1>1, <1>2, EndsAre
<1>4. /\ d \in Caller /\ request[d].host = h /\ request[d].fn = "getCode"
      /\ request[d].pc \in Queued /\ request[d].pc \in Active
      /\ param[h]["getCode"] = request[d].arg
  BY <1>1, <1>2, HeadCall
<1>5. PICK path : path = param[h]["getCode"]
  OBVIOUS
<1>6. path \in App \union {Null} /\ "getCode" \in Function
  BY <1>5 DEF Types, ServerTyped, ArgOf, Function, Directory
<1>7. PICK m : m = Reached(h, path)
  OBVIOUS
<1>8. /\ IsMap(m)
      /\ path # Null => path \in DOMAIN m
      /\ \A a \in DOMAIN apps[h] : a \in DOMAIN m /\ m[a] = apps[h][a]
      /\ \A a \in DOMAIN m : m[a] = IF a \in DOMAIN apps[h] THEN apps[h][a] ELSE Empty
  BY <1>6, <1>7, ReachedMap DEF Types
<1>9. apps' = [apps EXCEPT ![h] = m]
  BY <1>5, <1>7 DEF GetCode
<1>10. apps'[h] = m /\ \A k \in Host : k # h => apps'[k] = apps[k]
  BY <1>9 DEF Types, ServerTyped
<1>11. \A a \in DOMAIN m : m[a] \in {a, Empty}
  BY <1>8 DEF Good, AppsTrue
<1>12. AppsTrue'
  <2>1. ASSUME NEW k \in Host, NEW a \in DOMAIN apps'[k]
        PROVE  apps'[k][a] \in {a, Empty}
    BY <1>10, <1>11 DEF Good, AppsTrue
  <2>2. ASSUME NEW a \in Loaded[storeNode]
        PROVE  a \in DOMAIN apps'[storeNode] /\ apps'[storeNode][a] = a
    <3>1. a \in DOMAIN apps[storeNode] /\ apps[storeNode][a] = a
      BY DEF Good, AppsTrue
    <3> QED
      BY <1>8, <1>10, <3>1, Apart
  <2> QED
    BY <2>1, <2>2 DEF AppsTrue
<1>13. Grows
  BY <1>2, <1>8, <1>10 DEF Grows
<1>14. PICK v \in Content : v = CodeOf(h, path)
  BY <1>6, ReachedMap DEF Types
<1>15. value' = [value EXCEPT ![h]["getCode"] = v]
  BY <1>5, <1>14 DEF GetCode
<1>16. /\ value'[h]["getCode"] = v
       /\ \A k \in Host, g \in Function : k # h \/ g # "getCode" => value'[k][g] = value[k][g]
  BY <1>6, <1>15, SetEntry DEF Types, ServerTyped
<1>17. v \in Own(h, path)
  <2>1. v = IF path = Null THEN Whole ELSE m[path]
    BY <1>7, <1>14 DEF CodeOf
  <2>2. h = storeNode /\ path \in Loaded[storeNode] => m[path] = path
    BY <1>8 DEF Good, AppsTrue
  <2>3. path # Null => m[path] \in {path, Empty}
    BY <1>8, <1>11
  <2> QED
    BY <2>1, <2>2, <2>3 DEF Own
<1>18. request'[d].pc = "ran" => CallTrue(d)'
  <2>1. SameCall(request'[d], request[d])
    BY <1>3 DEF Leaves
  <2> QED
    BY <1>4, <1>5, <1>16, <1>17, <2>1 DEF CallTrue, SameCall, Own
<1>19. ASSUME NEW e \in Caller \ {d}, request[e].pc = "ran", request[e].fn = "getCode"
       PROVE  value'[request[e].host]["getCode"] = value[request[e].host]["getCode"]
  <2>1. request[e].host \in Host
    BY <1>19 DEF Types, RequestsTyped, IsOpen
  <2>2. request[e].host # h
    BY <1>4, <1>19 DEF Good, OneEach, Active
  <2> QED
    BY <1>6, <1>16, <2>1, <2>2
<1> QED
  BY <1>3, <1>12, <1>13, <1>18, <1>19, LeavesGood

(* Calls that end with nothing done.                                        *)
LEMMA NothingGood ==
  ASSUME Types, Good, NEW h \in Host,
         Receive(h) \/ GetOfNobody(h) \/ GotNothing(h) \/ GetRefused(h) \/ GetFails(h)
  PROVE  Good'
<1>1. PICK d : d = Head(queue[h])
  OBVIOUS
<1>2. PICK ends \in BOOLEAN : ends <=> h \in getting
  <2>1. CASE h \in getting
    BY <2>1
  <2>2. CASE h \notin getting
    BY <2>2
  <2> QED
    BY <2>1, <2>2
<1>3. Leaves(h, 1, d, ends) /\ queue[h] # <<>>
  BY <1>1, <1>2, EndsAre
<1>4. /\ apps' = apps /\ value' = value
      /\ failed' = failed \/ (failed' = failed + 1 /\ GetFails(h))
  <2>1. CASE Receive(h)
    BY <2>1 DEF Receive
  <2>2. CASE GetOfNobody(h)
    BY <2>2 DEF GetOfNobody
  <2>3. CASE GotNothing(h)
    BY <2>3 DEF GotNothing
  <2>4. CASE GetRefused(h)
    BY <2>4 DEF GetRefused
  <2>5. CASE GetFails(h)
    <3>1. apps' = apps /\ value' = value /\ failed' = failed + 1
      BY <2>5 DEF GetFails
    <3> QED
      BY <2>5, <3>1
  <2> QED
    BY <2>1, <2>2, <2>3, <2>4, <2>5
<1>5. failed \in Nat
  BY DEF Types, CountsTyped
<1>6. Grows /\ AppsTrue'
  BY <1>4, <1>5 DEF Grows, Good, AppsTrue
<1>7. d \in Caller /\ request[d].host = h /\ request[d].fn = Running(h)
  BY <1>1, <1>3, HeadCall
<1>8. Running(h) # "getCode"
  <2>1. CASE Receive(h)
    BY <2>1 DEF Receive
  <2>2. CASE GetOfNobody(h)
    BY <2>2 DEF GetOfNobody, Gets, Asks
  <2>3. CASE GotNothing(h)
    BY <2>3 DEF GotNothing
  <2>4. CASE GetRefused(h) \/ GetFails(h)
    BY <2>4 DEF GetRefused, GetFails, GetEnds, Types, HostsAsk, HostAsks, Gets, Asks
  <2> QED
    BY <2>1, <2>2, <2>3, <2>4
<1>9. Running(h) = "downloadApp" => failed' # 0 \/ "store" \notin Loaded[storeNode]
  <2>1. CASE Receive(h)
    BY <2>1 DEF Receive
  <2>2. CASE GetOfNobody(h)
    <3>1. AskedHost(h, Running(h)) = Null
      BY <2>2 DEF GetOfNobody
    <3> QED
      BY <3>1, Apart DEF AskedHost
  <2>3. CASE GotNothing(h)
    BY <2>3 DEF GotNothing
  <2>4. CASE GetRefused(h)
    <3>1. h \in getting /\ request[h].pc = "refused" /\ h \in Caller
      BY <2>4, Apart DEF GetRefused, GetEnds, At
    <3>2. Running(h) = "downloadApp" => request[h].host = storeNode /\ request[h].fn = "getCode"
      BY <3>1 DEF Types, HostsAsk, HostAsks, Asks
    <3> QED
      BY <3>1, <3>2 DEF Good, CallsTrue, CallTrue
  <2>5. CASE GetFails(h)
    BY <1>5, <2>5 DEF GetFails
  <2> QED
    BY <2>1, <2>2, <2>3, <2>4, <2>5
<1>10. request'[d].pc = "ran" => CallTrue(d)'
  <2>1. SameCall(request'[d], request[d])
    BY <1>3 DEF Leaves
  <2> QED
    BY <1>7, <1>8, <1>9, <2>1 DEF CallTrue, SameCall, Installed
<1>11. \A e \in Caller \ {d} : request[e].pc = "ran" /\ request[e].fn = "getCode" =>
          value'[request[e].host]["getCode"] = value[request[e].host]["getCode"]
  BY <1>4
<1> QED
  BY <1>3, <1>6, <1>10, <1>11, LeavesGood

(* The code is installed.                                                   *)
LEMMA GotCodeGood ==
  ASSUME Types, Good, NEW h \in Host, GotCode(h)
  PROVE  Good'
<1>1. PICK d : d = Head(queue[h])
  OBVIOUS
<1>2. /\ h \in getting /\ Running(h) = "downloadApp" /\ request[h].pc = "answered"
      /\ UNCHANGED <<value, failed>> /\ h \in Caller
  BY Apart DEF GotCode, GetEnds, At
<1>3. Leaves(h, 1, d, TRUE) /\ queue[h] # <<>>
  BY <1>1, <1>2, EndsAre
<1>4. /\ d \in Caller /\ request[d].host = h /\ request[d].fn = "downloadApp"
      /\ param[h]["downloadApp"] = request[d].arg
  BY <1>1, <1>2, <1>3, HeadCall
<1>5. PICK path : path = param[h]["downloadApp"]
  OBVIOUS
<1>6. path \in App \union {Null}
  BY <1>5 DEF Types, ServerTyped, ArgOf, Function, Directory
<1>7. PICK code : code = request[h].answer
  OBVIOUS
<1>8. code \in Own(storeNode, path)
  <2>1. request[h].fn = "getCode" /\ request[h].host = storeNode
    BY <1>2 DEF Types, HostsAsk, HostAsks, Asks
  <2>2. request[h].arg = path
    BY <1>2, <1>5 DEF Good, Carries
  <2>3. CallTrue(h)
    BY <1>2 DEF Good, CallsTrue
  <2> QED
    BY <1>2, <1>7, <2>1, <2>2, <2>3 DEF CallTrue
<1>9. path # Null => code \in {path, Empty} /\ code # Null
  <2>1. Null \notin App \union {Empty}
    BY HttpServerAssumption
  <2> QED
    BY <1>6, <1>8, <2>1 DEF Own
<1>10. path # Null /\ path \in Loaded[storeNode] => code = path
  BY <1>8 DEF Own
<1>11. PICK m : m = Reached(h, path)
  OBVIOUS
<1>12. /\ IsMap(m)
       /\ path # Null => path \in DOMAIN m
       /\ \A a \in DOMAIN apps[h] : a \in DOMAIN m /\ m[a] = apps[h][a]
       /\ \A a \in DOMAIN m : m[a] = IF a \in DOMAIN apps[h] THEN apps[h][a] ELSE Empty
  BY <1>6, <1>11, ReachedMap DEF Types
<1> DEFINE map == IF path = Null \/ code = Null THEN m ELSE [m EXCEPT ![path] = code]
<1>13. apps' = [apps EXCEPT ![h] = map]
  BY <1>5, <1>7, <1>11 DEF GotCode
<1>14. /\ DOMAIN map = DOMAIN m
       /\ \A a \in DOMAIN m : a # path => map[a] = m[a]
       /\ path # Null => path \in DOMAIN map /\ map[path] = code
  <2>1. CASE path = Null
    BY <2>1
  <2>2. CASE path # Null
    <3>1. map = [m EXCEPT ![path] = code]
      BY <1>9, <2>2
    <3>2. path \in DOMAIN m /\ IsMap(m)
      BY <1>12, <2>2
    <3> HIDE DEF map
    <3> QED
      BY <3>1, <3>2 DEF IsMap
  <2> QED
    BY <2>1, <2>2
<1>15. path = Null => map = m
  OBVIOUS
<1> HIDE DEF map
<1>16. apps'[h] = map /\ \A k \in Host : k # h => apps'[k] = apps[k]
  BY <1>13 DEF Types, ServerTyped
<1>17. \A a \in DOMAIN map : map[a] \in {a, Empty}
  <2>1. \A a \in DOMAIN m : m[a] \in {a, Empty}
    BY <1>12 DEF Good, AppsTrue
  <2> QED
    BY <1>9, <1>14, <1>15, <2>1
<1>18. \A a \in DOMAIN apps[h] :
          a \in DOMAIN map /\ (a \in Loaded[storeNode] /\ apps[h][a] = a => map[a] = a)
  <2> SUFFICES ASSUME NEW a \in DOMAIN apps[h]
               PROVE  a \in DOMAIN map /\ (a \in Loaded[storeNode] /\ apps[h][a] = a => map[a] = a)
    OBVIOUS
  <2>1. a \in DOMAIN m /\ m[a] = apps[h][a]
    BY <1>12
  <2>2. CASE path = Null
    BY <1>15, <2>1, <2>2
  <2>3. CASE path # Null
    BY <1>10, <1>14, <2>1, <2>3
  <2> QED
    BY <2>2, <2>3
<1>19. AppsTrue'
  <2>1. ASSUME NEW k \in Host, NEW a \in DOMAIN apps'[k]
        PROVE  apps'[k][a] \in {a, Empty}
    BY <1>16, <1>17 DEF Good, AppsTrue
  <2>2. ASSUME NEW a \in Loaded[storeNode]
        PROVE  a \in DOMAIN apps'[storeNode] /\ apps'[storeNode][a] = a
    <3>1. a \in DOMAIN apps[storeNode] /\ apps[storeNode][a] = a
      BY DEF Good, AppsTrue
    <3> QED
      BY <1>16, <1>18, <3>1, Apart
  <2> QED
    BY <2>1, <2>2 DEF AppsTrue
<1>20. Grows
  BY <1>2, <1>16, <1>18 DEF Grows
<1>21. request'[d].pc = "ran" => CallTrue(d)'
  <2>1. /\ request'[d].host = h /\ request'[d].fn = "downloadApp" /\ request'[d].arg = path
    BY <1>3, <1>4, <1>5 DEF Leaves, SameCall
  <2>2. path # Null => /\ path \in DOMAIN apps'[h]
                       /\ path \in Loaded[storeNode] => apps'[h][path] = path
    BY <1>10, <1>14, <1>16
  <2> QED
    BY <2>1, <2>2 DEF CallTrue, Installed
<1>22. \A e \in Caller \ {d} : request[e].pc = "ran" /\ request[e].fn = "getCode" =>
          value'[request[e].host]["getCode"] = value[request[e].host]["getCode"]
  BY <1>2
<1> QED
  BY <1>3, <1>19, <1>20, <1>21, <1>22, LeavesGood

(* The initial state,                                                       *)
LEMMA GoodInit == Init => Good
<1> SUFFICES ASSUME Init PROVE Good
  OBVIOUS
<1>1. request = [c \in Caller |-> NoRequest] /\ getting = {}
  BY DEF Init
<1>2. \A c \in Caller : request[c].pc = "none"
  BY <1>1, NoRequestFacts
<1>3. AppsTrue
  <2>1. \A h \in Host : apps[h] = [a \in Loaded[h] |-> a]
    BY DEF Init
  <2> QED
    BY <2>1, Apart DEF AppsTrue
<1>4. OneEach /\ CallsTrue
  BY <1>2 DEF OneEach, CallsTrue, CallTrue, Active
<1>5. Carries
  BY <1>1 DEF Carries
<1> QED
  BY <1>3, <1>4, <1>5 DEF Good

(* and every step, until requests have overlapped,                          *)
LEMMA GoodStep ==
  ASSUME Types, Good, [Next]_vars, ~crossed'
  PROVE  Good'
<1>1. CASE UNCHANGED vars
  BY <1>1 DEF vars, Good, AppsTrue, OneEach, CallsTrue, CallTrue, Carries, Own, Installed,
              Running
<1>2. CASE Next
  <2>1. ASSUME NEW c \in Client, Request(c) \/ SendThrows(c)
        PROVE  Good'
    BY <2>1, AskGood
  <2>2. ASSUME NEW c \in Caller, Serve(c)
        PROVE  Good'
    BY <2>2, ServeGood, ParamGood DEF Serve
  <2>3. ASSUME NEW h \in Host, Execute(h) \/ GetFails(h) \/ Tears(h)
        PROVE  Good'
    BY <2>3, GetCodeGood, GetGood, NothingGood, GotCodeGood, TearsGood DEF Execute
  <2> QED
    BY <1>2, <2>1, <2>2, <2>3 DEF Next
<1> QED
  BY <1>1, <1>2

(* which stays so.                                                          *)
LEMMA StaysCrossed ==
  ASSUME [Next]_vars, crossed
  PROVE  crossed'
<1>1. CASE UNCHANGED vars
  BY <1>1 DEF vars
<1>2. ASSUME NEW c \in Client, Request(c) \/ SendThrows(c)
      PROVE  crossed'
  BY <1>2 DEF Request, SendThrows
<1>3. ASSUME NEW c \in Caller, Serve(c)
      PROVE  crossed'
  BY <1>3 DEF Serve, Refuse, ClearParams, SetParam, Enqueue, Wait, ReadValue
<1>4. ASSUME NEW h \in Host, Execute(h) \/ GetFails(h) \/ Tears(h)
      PROVE  crossed'
  BY <1>4 DEF Execute, GetCode, Receive, Get, GetOfNobody, GotCode, GotNothing, GetRefused,
              GetFails, Tears
<1> QED
  BY <1>1, <1>2, <1>3, <1>4 DEF Next

(* The invariant.                                                           *)
LEMMA Invariance == Spec => []IInv
<1>1. Init => IInv
  BY TypedInit, GoodInit DEF IInv
<1>2. IInv /\ [Next]_vars => IInv'
  BY TypedStep, GoodStep, StaysCrossed DEF IInv
<1> QED
  BY <1>1, <1>2, PTL DEF Spec

(* An app is installed under its own name, though downloadApp reads its     *)
(* parameter again after another host's answer, until requests overlap.     *)
THEOREM RightCodeInstalled == Spec => []RightCode
<1>1. IInv => RightCode
  BY DEF IInv, Good, AppsTrue, RightCode
<1> QED
  BY <1>1, Invariance, PTL

(* An answer to getCode is that of its own argument, until requests overlap.*)
THEOREM AnswersAreOwn == Spec => []OwnAnswers
<1>1. IInv => OwnAnswers
  <2> SUFFICES ASSUME IInv, NEW c \in Caller, At(c, "answered"), request[c].fn = "getCode",
                      ~crossed
               PROVE  request[c].answer \in IF request[c].arg = Null THEN {Whole}
                                            ELSE {request[c].arg, Empty}
    BY DEF OwnAnswers
  <2>1. CallTrue(c)
    BY DEF IInv, Good, CallsTrue
  <2>2. request[c].answer \in Own(request[c].host, request[c].arg)
    BY <2>1 DEF CallTrue, At
  <2> QED
    BY <2>2 DEF Own
<1> QED
  BY <1>1, Invariance, PTL

(* When downloadApp is answered the app is installed, with the store's code *)
(* if the store has it: until requests overlap, nothing but a failing get() *)
(* lets it be answered without.                                             *)
THEOREM DownloadsInstall == Spec => []DownloadInstalls
<1>1. IInv => DownloadInstalls
  <2> SUFFICES ASSUME IInv, NEW c \in Caller, At(c, "answered"),
                      request[c].fn = "downloadApp", request[c].arg # Null, ~crossed,
                      failed = 0, "store" \in Loaded[storeNode]
               PROVE  /\ request[c].arg \in DOMAIN apps[request[c].host]
                      /\ request[c].arg \in Loaded[storeNode] =>
                            apps[request[c].host][request[c].arg] = request[c].arg
    BY DEF DownloadInstalls
  <2>1. CallTrue(c)
    BY DEF IInv, Good, CallsTrue
  <2>2. Installed(request[c].host, request[c].arg)
    BY <2>1 DEF CallTrue, At
  <2> QED
    BY <2>2 DEF Installed
<1> QED
  BY <1>1, Invariance, PTL
=============================================================================
