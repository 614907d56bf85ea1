---------------------------- MODULE MC_HttpServer ----------------------------
(* Small instances of HttpServer: the client and the store of Main.         *)
EXTENDS HttpServer

Asked(host, fn, arg) == [host |-> host, fn |-> fn, arg |-> arg]
AtClient(fn, arg) == Asked("client.node", fn, arg)
AtStore(fn, arg)  == Asked("store.node", fn, arg)

MCApp    == {"store", "chat", "summator", "hello_world"}
MCLoaded == [h \in Host |-> IF h = "store.node" THEN MCApp ELSE MCApp \ {"summator"}]

Plans(one, two, three) ==
    [c \in Client |-> CASE c = "one" -> one [] c = "two" -> two [] OTHER -> three]

(* Two clients of client.node and one of store.node: downloads beside the   *)
(* list of the apps, beside another's code and of different apps; hosts     *)
(* that send to each other; and the store that downloads from itself.       *)
MCPlan ==
    {Plans(<<AtClient("getAppList", Null), AtClient("downloadApp", "summator")>>,
           <<AtClient("getCode", "summator")>>,
           <<AtStore("getCode", "chat")>>),
     Plans(<<AtClient("downloadApp", "summator")>>,
           <<AtClient("downloadApp", "hello_world"), AtClient("serialize", Null)>>,
           <<AtStore("getCode", Null)>>),
     Plans(<<AtClient("send", "store.node")>>,
           <<AtClient("downloadApp", "summator")>>,
           <<AtStore("send", "client.node")>>),
     Plans(<<AtStore("downloadApp", "hello_world")>>,
           <<AtClient("send", "store.node")>>,
           <<AtClient("send", "client.node")>>)}
=============================================================================
