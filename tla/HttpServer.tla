----------------------------- MODULE HttpServer -----------------------------
(***************************************************************************)
(* org.pdk.network.http.HttpServer with the functions of the local.node.js  *)
(* files it runs: requests of HTTP clients and of other hosts to the hosts  *)
(* that Main starts.                                                        *)
(*                                                                          *)
(* A host has one executor (the ThreadNode of its root), which runs one     *)
(* call after the other, and a thread for every request it serves.  A       *)
(* function is one node: its parameter and its value are shared by all      *)
(* calls.  A function that calls get() keeps the executor until the other   *)
(* host has answered, for no timeout is set; a host is therefore itself a   *)
(* caller.  The proxy between them only forwards.                           *)
(*                                                                          *)
(* Of the run queue this module has what a caller and its call lose by it:  *)
(* a notify before its wait, on either side, and a call the unprotected     *)
(* list drops.  ThreadNode has its steps.  Left to ThreadNode are an Error  *)
(* that ends the executor and a wait that returns for no reason.            *)
(***************************************************************************)
EXTENDS Integers, Sequences, FiniteSets

CONSTANTS Host,        \* the instances behind the proxy
          Client,      \* who sends requests to them
          storeNode,   \* the host named "store.node"
          App,         \* the apps: directories of master
          Loaded,      \* the apps every host was started with
          Null,
          Plan,        \* bounds: what the clients ask for, a sequence for each,
          MaxFailures  \* and the requests that fail

(* The functions, and the app whose local.node.js has each.                 *)
Directory == [getAppList |-> "store", getCode |-> "store", downloadApp |-> "store",
              send |-> "chat", receive |-> "chat", serialize |-> "node"]
Function == DOMAIN Directory
InUse    == {"store", "chat"}

Empty    == "empty"   \* the code of a node without links
Whole    == "master"  \* the code of master itself

(* What can be asked of a host.  Bound: the apps whose functions are called *)
(* are not themselves downloaded.                                           *)
Call ==
    {call \in [host : Host, fn : Function, arg : App \union Host \union {Null}] :
        /\ call.fn = "getCode" => call.arg \in App \union {Null}
        /\ call.fn = "downloadApp" => call.arg \in (App \ InUse) \union {Null}
        /\ call.fn = "send" => call.arg \in Host
        /\ call.fn \notin {"getCode", "downloadApp", "send"} => call.arg = Null}

(* No app of the repository is called node.                                 *)
ASSUME HttpServerAssumption ==
    /\ Host \intersect Client = {}
    /\ storeNode \in Host
    /\ "node" \notin App
    /\ Loaded \in [Host -> SUBSET App]
    /\ {Empty, Whole} \intersect App = {}
    /\ Null \notin App \union Host \union Client \union Function \union {Empty, Whole}
    /\ Plan \subseteq [Client -> Seq(Call)]
    /\ MaxFailures \in Nat

VARIABLES apps,      \* the apps in every host's master, and whose code each has
          param,     \* the value of the parameter of every host's functions
          value,     \* the value of the functions
          request,   \* the request every caller has open
          queue,     \* runQueue of every host: callers
          asleep,    \* the hosts whose executor waits though a call was added
          getting,   \* the hosts whose executor is inside get()
          crossed,   \* history: two requests to one function overlapped
          failed,    \* the number of requests that failed
          left       \* what the clients ask for next

vars == <<apps, param, value, request, queue, asleep, getting, crossed, failed, left>>

Caller == Client \union Host

NoRequest == [pc |-> "none", host |-> Null, fn |-> Null, arg |-> Null, answer |-> Null]

Init ==
    /\ apps = [h \in Host |-> [a \in Loaded[h] |-> a]]
    /\ param = [h \in Host |-> [f \in Function |-> Null]]
    /\ value = [h \in Host |-> [f \in Function |-> Null]]
    /\ request = [c \in Caller |-> NoRequest]
    /\ queue = [h \in Host |-> <<>>]
    /\ asleep = {}
    /\ getting = {}
    /\ crossed = FALSE
    /\ failed = 0
    /\ left \in Plan

-----------------------------------------------------------------------------
(* Files.getNodeIfExist: the path of a function is that of its app, which   *)
(* has it if the code there is the app's.                                   *)
Exists(h, f) ==
    /\ Directory[f] \in DOMAIN apps[h]
    /\ apps[h][Directory[f]] = Directory[f]

(* Files.getNode(path), which makes the node it misses: no path is master.  *)
Reached(h, path) ==
    IF path = Null \/ path \in DOMAIN apps[h] THEN apps[h]
    ELSE [a \in DOMAIN apps[h] \union {path} |-> IF a = path THEN Empty ELSE apps[h][a]]

(* The code a host serializes for a path.                                   *)
CodeOf(h, path) == IF path = Null THEN Whole ELSE Reached(h, path)[path]

(* What a function gets, of which host and with which argument.             *)
Asks == [getAppList |-> "serialize", downloadApp |-> "getCode", send |-> "receive"]
Gets(f) == f \in DOMAIN Asks
AskedHost(h, f) == IF f = "send" THEN param[h][f] ELSE storeNode
AskedArg(h, f)  == IF f = "downloadApp" THEN param[h][f] ELSE Null

At(c, pc) == request[c].pc = pc
Goes(c, pc) == request' = [request EXCEPT ![c].pc = pc]
Over(c) == request[c].pc \in {"none", "answered", "refused", "failed"}

Sent(c, h, f, arg) ==
    [request EXCEPT ![c] =
        [pc |-> "sent", host |-> h, fn |-> f, arg |-> arg, answer |-> Null]]

-----------------------------------------------------------------------------
(* A client, one request after the other.                                   *)
Request(c) ==
    /\ Over(c) /\ left[c] # <<>>
    /\ LET call == Head(left[c])
       IN  request' = Sent(c, call.host, call.fn, call.arg)
    /\ left' = [left EXCEPT ![c] = Tail(@)]
    /\ UNCHANGED <<apps, param, value, queue, asleep, getting, crossed, failed>>

(* The host cannot be reached.                                              *)
SendThrows(c) ==
    /\ At(c, "sent") /\ failed < MaxFailures
    /\ failed' = failed + 1
    /\ Goes(c, "failed")
    /\ UNCHANGED <<apps, param, value, queue, asleep, getting, crossed, left>>

-----------------------------------------------------------------------------
(* serve, in a thread of the request: without the node the answer is 404,   *)
Refuse(c) ==
    /\ At(c, "sent") /\ ~Exists(request[c].host, request[c].fn)
    /\ Goes(c, "refused")
    /\ UNCHANGED <<apps, param, value, queue, asleep, getting, crossed, failed, left>>

(* else the parameters are set to null, whatever other request to the       *)
(* function there is,                                                       *)
Overlaps(c) ==
    \E d \in Caller \ {c} :
       /\ request[d].host = request[c].host /\ request[d].fn = request[c].fn
       /\ request[d].pc \in {"cleared", "set", "queued", "waiting", "ran"}

ClearParams(c) ==
    /\ At(c, "sent") /\ Exists(request[c].host, request[c].fn)
    /\ param' = [param EXCEPT ![request[c].host][request[c].fn] = Null]
    /\ crossed' = (crossed \/ Overlaps(c))
    /\ Goes(c, "cleared")
    /\ UNCHANGED <<apps, value, queue, asleep, getting, failed, left>>

(* then to the arguments,                                                   *)
SetParam(c) ==
    /\ At(c, "cleared")
    /\ param' = [param EXCEPT ![request[c].host][request[c].fn] = request[c].arg]
    /\ Goes(c, "set")
    /\ UNCHANGED <<apps, value, queue, asleep, getting, crossed, failed, left>>

(* the call is added to the run queue, and the executor notified: it sleeps *)
(* on if it had found the queue empty and does not wait yet;                *)
Enqueue(c) ==
    /\ At(c, "set")
    /\ LET h == request[c].host
       IN  /\ queue' = [queue EXCEPT ![h] = Append(@, c)]
           /\ \/ asleep' = asleep \ {h}
              \/ queue[h] = <<>> /\ h \notin asleep /\ asleep' = asleep \union {h}
    /\ Goes(c, "queued")
    /\ UNCHANGED <<apps, param, value, getting, crossed, failed, left>>

(* the thread waits for the call to be over;                                *)
Wait(c) ==
    /\ At(c, "queued")
    /\ Goes(c, "waiting")
    /\ UNCHANGED <<apps, param, value, queue, asleep, getting, crossed, failed, left>>

(* A mutant of ReadValue: it does not wait for the call.                    *)
ReadValueAtOnce(c) ==
    /\ request[c].pc \in {"waiting", "ran"}
    /\ request' = [request EXCEPT ![c].pc = "answered",
                                  ![c].answer = value[request[c].host][request[c].fn]]
    /\ UNCHANGED <<apps, param, value, queue, asleep, getting, crossed, failed, left>>

(* at last the function's value is serialized into the response.            *)
ReadValue(c) ==
    /\ At(c, "ran")
    /\ request' = [request EXCEPT ![c].pc = "answered",
                                  ![c].answer = value[request[c].host][request[c].fn]]
    /\ UNCHANGED <<apps, param, value, queue, asleep, getting, crossed, failed, left>>

(* LinkedList is not synchronised: when another request uses the queue too, *)
(* an added call can be dropped, unless it runs already.                    *)
Tears(h) ==
    /\ \E i \in DOMAIN queue[h] :
          /\ h \in getting => i > 1
          /\ \E d \in Caller \ {queue[h][i]} :
                request[d].host = h /\ request[d].pc \in {"set", "queued", "waiting"}
          /\ queue' = [queue EXCEPT ![h] = SubSeq(@, 1, i - 1) \o SubSeq(@, i + 1, Len(@))]
          /\ Goes(queue[h][i], "lost")
    /\ UNCHANGED <<apps, param, value, asleep, getting, crossed, failed, left>>

-----------------------------------------------------------------------------
(* The executor of a host                                                   *)
Idle(h) == h \notin getting \union asleep /\ queue[h] # <<>>
Running(h) == request[Head(queue[h])].fn

(* A mutant of Return: the call stays in the queue.                         *)
ReturnKeeps(h, requests) ==
    /\ queue' = queue
    /\ request' = [requests EXCEPT ![Head(queue[h])].pc =
                      IF @ = "waiting" THEN "ran" ELSE "lost"]

(* The call at the head of the queue is over and its caller is notified,    *)
(* which a caller that does not wait yet never learns.                      *)
Return(h, requests) ==
    /\ queue' = [queue EXCEPT ![h] = Tail(@)]
    /\ request' = [requests EXCEPT ![Head(queue[h])].pc =
                      IF @ = "waiting" THEN "ran" ELSE "lost"]

(* getCode: Node.serialize(path)                                            *)
GetCode(h) ==
    /\ Idle(h) /\ Running(h) = "getCode"
    /\ LET path == param[h]["getCode"]
       IN  /\ apps' = [apps EXCEPT ![h] = Reached(h, path)]
           /\ value' = [value EXCEPT ![h]["getCode"] = CodeOf(h, path)]
    /\ Return(h, request)
    /\ UNCHANGED <<param, asleep, getting, crossed, failed, left>>

(* receive: gui(...), which tells the web sockets                           *)
Receive(h) ==
    /\ Idle(h) /\ Running(h) = "receive"
    /\ Return(h, request)
    /\ UNCHANGED <<apps, param, value, asleep, getting, crossed, failed, left>>

(* getAppList, downloadApp and send: requestToProxy, to another host;       *)
Get(h) ==
    /\ Idle(h) /\ Gets(Running(h))
    /\ LET f == Running(h)
       IN  /\ AskedHost(h, f) \in Host
           /\ request' = Sent(h, AskedHost(h, f), Asks[f], AskedArg(h, f))
    /\ getting' = getting \union {h}
    /\ UNCHANGED <<apps, param, value, queue, asleep, crossed, failed, left>>

(* without a name it is the proxy that is asked, and it has no such node.   *)
GetOfNobody(h) ==
    /\ Idle(h) /\ Gets(Running(h)) /\ AskedHost(h, Running(h)) = Null
    /\ Return(h, request)
    /\ UNCHANGED <<apps, param, value, asleep, getting, crossed, failed, left>>

(* get() is over, and with it the call.                                     *)
GetEnds(h) ==
    /\ h \in getting
    /\ getting' = getting \ {h}
    /\ Return(h, [request EXCEPT ![h] = NoRequest])

(* A mutant of GotCode: the path is that of the call queued last.           *)
GotCodeOfLast(h) ==
    /\ At(h, "answered") /\ Running(h) = "downloadApp" /\ GetEnds(h)
    /\ LET path == param[h][request[queue[h][Len(queue[h])]].fn]
           code == request[h].answer
       IN  apps' = [apps EXCEPT ![h] =
               IF path = Null \/ code = Null THEN Reached(h, path)
               ELSE [Reached(h, path) EXCEPT ![path] = code]]
    /\ UNCHANGED <<param, value, asleep, crossed, failed, left>>

(* A mutant of GotCode: only the node is made.                              *)
GotCodeDrops(h) ==
    /\ At(h, "answered") /\ Running(h) = "downloadApp" /\ GetEnds(h)
    /\ apps' = [apps EXCEPT ![h] = Reached(h, param[h]["downloadApp"])]
    /\ UNCHANGED <<param, value, asleep, crossed, failed, left>>

(* downloadApp has the code.  Node.eval puts it at the path in the          *)
(* parameter, which is read again.  The code may be null, and the node is   *)
(* made before that fails; the path may be null, and what is replaced then  *)
(* is master, which Instance has cached and goes on to use.                 *)
GotCode(h) ==
    /\ At(h, "answered") /\ Running(h) = "downloadApp" /\ GetEnds(h)
    /\ LET path == param[h]["downloadApp"]
           code == request[h].answer
       IN  apps' = [apps EXCEPT ![h] =
               IF path = Null \/ code = Null THEN Reached(h, path)
               ELSE [Reached(h, path) EXCEPT ![path] = code]]
    /\ UNCHANGED <<param, value, asleep, crossed, failed, left>>

(* send is done.                                                            *)
GotNothing(h) ==
    /\ At(h, "answered") /\ Running(h) = "send" /\ GetEnds(h)
    /\ UNCHANGED <<apps, param, value, asleep, crossed, failed, left>>

(* Any status but 200 is an exception, which ends the call and which run    *)
(* catches: the function keeps its former value, and is answered with that. *)
GetRefused(h) ==
    /\ At(h, "refused") /\ GetEnds(h)
    /\ UNCHANGED <<apps, param, value, asleep, crossed, failed, left>>

(* A mutant of GetFails: nobody catches the exception.                      *)
GetFailsUncaught(h) ==
    /\ h \in getting /\ request[h].pc \in {"sent", "answered"} /\ failed < MaxFailures
    /\ failed' = failed + 1
    /\ request' = [request EXCEPT ![h] = NoRequest]
    /\ UNCHANGED <<apps, param, value, queue, asleep, getting, crossed, left>>

(* So is a host that cannot be reached and an answer that is lost.          *)
GetFails(h) ==
    /\ request[h].pc \in {"sent", "answered"} /\ failed < MaxFailures
    /\ GetEnds(h)
    /\ failed' = failed + 1
    /\ UNCHANGED <<apps, param, value, asleep, crossed, left>>

-----------------------------------------------------------------------------
Serve(c) ==
    \/ Refuse(c) \/ ClearParams(c) \/ SetParam(c)
    \/ Enqueue(c) \/ Wait(c) \/ ReadValue(c)

Execute(h) ==
    \/ GetCode(h) \/ Receive(h) \/ Get(h) \/ GetOfNobody(h)
    \/ GotCode(h) \/ GotNothing(h) \/ GetRefused(h)

Next ==
    \/ \E c \in Client : Request(c) \/ SendThrows(c)
    \/ \E c \in Caller : Serve(c)
    \/ \E h \in Host : Execute(h) \/ GetFails(h) \/ Tears(h)

Spec == Init /\ [][Next]_vars

(* The threads of the requests and the executors go on (an executor waits   *)
(* while the request of its get() is served, so one condition says both);   *)
(* nobody has to ask, and nothing has to fail.                              *)
FairSpec ==
    /\ Spec
    /\ \A c \in Client : WF_vars(Serve(c))
    /\ \A h \in Host : WF_vars(Execute(h) \/ Serve(h))

-----------------------------------------------------------------------------
(* The queues hold the callers that wait or are about to, each once, an     *)
(* executor inside get() has its call at the head and its request open, and *)
(* one that sleeps missed a call.                                           *)
TypeOK ==
    /\ \A h \in Host :
          /\ \A i \in DOMAIN queue[h] :
                request[queue[h][i]].pc \in {"queued", "waiting"} /\ request[queue[h][i]].host = h
          /\ Cardinality({queue[h][i] : i \in DOMAIN queue[h]}) = Len(queue[h])
          /\ h \in getting <=> ~At(h, "none")
          /\ h \in getting => queue[h] # <<>> /\ h \notin asleep
    /\ \A c \in Caller : request[c].fn \in Function \union {Null}

(* An answer to getCode is the code of its own argument (serve clears,      *)
(* sets, runs and reads in five steps, among those of other requests), as   *)
(* long as no two requests to one function of a host overlap.               *)
OwnAnswers ==
    \A c \in Caller :
       LET call == request[c]
       IN  At(c, "answered") /\ call.fn = "getCode" /\ ~crossed
           => call.answer \in IF call.arg = Null THEN {Whole} ELSE {call.arg, Empty}

(* An app is installed under its own name, though downloadApp reads its     *)
(* parameter a second time when the code has come, after any number of      *)
(* other requests.                                                          *)
RightCode ==
    ~crossed => \A h \in Host : \A a \in DOMAIN apps[h] : apps[h][a] \in {a, Empty}

(* When downloadApp is answered the app is there, with the store's code     *)
(* unless the store has none.  A failed get() is answered in the same way:  *)
(* this says that nothing else is.                                          *)
DownloadInstalls ==
    \A c \in Caller :
       LET call == request[c]
       IN  /\ At(c, "answered") /\ call.fn = "downloadApp" /\ call.arg # Null
           /\ ~crossed /\ failed = 0 /\ "store" \in Loaded[storeNode]
           => /\ call.arg \in DOMAIN apps[call.host]
              /\ call.arg \in Loaded[storeNode] => apps[call.host][call.arg] = call.arg

(* The hosts that get on with no call unless another arrives: the executor  *)
(* missed a notify, or its own request was lost, or it waits for another of *)
(* these hosts, which may be itself.                                        *)
StandStill(hosts) ==
    \A h \in hosts :
       \/ h \in asleep
       \/ h \in getting /\ At(h, "lost")
       \/ h \in getting /\ request[h].pc \in {"queued", "waiting"} /\ request[h].host \in hosts

Still == UNION {hosts \in SUBSET Host : StandStill(hosts)}

(* Every request of a client is answered, unless its own call or notify was *)
(* lost or the host stands still: a get() that is refused or fails, at any  *)
(* host, keeps no executor from its other calls.                            *)
RequestsEnd ==
    \A c \in Client : ~Over(c) ~> Over(c) \/ At(c, "lost") \/ request[c].host \in Still
=============================================================================
