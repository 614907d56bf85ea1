----------------------------- MODULE ThreadNode -----------------------------
(***************************************************************************)
(* org.pdk.store.model.node.ThreadNode: the queue of calls to the functions *)
(* of one executor thread.                                                  *)
(*                                                                          *)
(* Callers (request threads, the instance, other executors) put a RunData   *)
(* into runQueue and notify it; the executor polls and runs, and notifies   *)
(* the RunData, on which a synchronous caller waits.  runQueue is a         *)
(* java.util.LinkedList that nothing protects, so a step here is one access *)
(* to a field of it, in the order java.util.LinkedList has them.  Memory is *)
(* taken to be sequentially consistent.                                     *)
(*                                                                          *)
(* A call is a pair of its caller and its number, and stands for its        *)
(* RunData and for the list node that holds it: each is made once for each  *)
(* call.  All calls are to one function: params says whose arguments are in *)
(* its parameter nodes.  Locals are forgotten after their last use.         *)
(***************************************************************************)
EXTENDS Integers, Sequences, FiniteSets

CONSTANTS Caller,      \* the threads that call run
          Async,       \* the values of run's parameter async that are used
          Null,        \* Java's null
          MaxCalls,    \* bound of the model: calls of all callers
          MaxSpurious, \* bound of the model: spurious wakeups
          MaxErrors    \* bound of the model: runs that end the executor

ASSUME ThreadNodeAssumption ==
    /\ Async \subseteq BOOLEAN
    /\ {MaxCalls, MaxSpurious, MaxErrors} \subseteq Nat
    /\ IsFiniteSet(Caller)
    /\ Null \notin Caller \X (1..MaxCalls)

VARIABLES first, last, next,  \* the links of runQueue
          item,               \* the calls whose list node still has its item
          size,               \* runQueue.size
          asynchronous,       \* the calls with callerIsBlocked = null
          params,             \* whose arguments the function's parameters hold
          callers,            \* the callers: pc, number of calls, locals
          executor,           \* the executor: pc and locals
          runs,               \* the calls run, and with whose arguments
          spurious, errors    \* bounds

queue   == <<first, last, next, item, size>>
bounds  == <<spurious, errors>>
vars    == <<queue, asynchronous, params, callers, executor, runs, bounds>>

Call == Caller \X (1..MaxCalls)

Made       == {call \in Call : call[2] <= callers[call[1]].n}
Current(c) == <<c, callers[c].n>>
At(c, pc)  == callers[c].pc = pc
Go(c, pc)  == callers' = [callers EXCEPT ![c].pc = pc]

ExecutorAt(pc)   == executor.pc = pc
ExecutorGoes(pc) == executor' = [executor EXCEPT !.pc = pc]

Init ==
    /\ first = Null /\ last = Null /\ size = 0
    /\ next = [call \in Call |-> Null]
    /\ item = {}
    /\ asynchronous = {}
    /\ params = Null
    /\ callers = [c \in Caller |-> [pc |-> "idle", n |-> 0, l |-> Null,
                                    size |-> 0]]
    /\ executor = [pc |-> "check", f |-> Null, next |-> Null, size |-> 0,
                   runData |-> Null]
    /\ runs = <<>>
    /\ spurious = 0 /\ errors = 0

-----------------------------------------------------------------------------
(* run(node, args, async, access_token), in a caller                        *)

(* A call begins, with arguments, which setParams puts into the parameters  *)
(* of the function.  (One that checkAccess refuses changes nothing.)        *)
Begin(c, async) ==
    /\ At(c, "idle") /\ Cardinality(Made) < MaxCalls
    /\ LET call == <<c, callers[c].n + 1>>
       IN  /\ callers' = [callers EXCEPT ![c].pc = "readLast", ![c].n = @ + 1]
           /\ asynchronous' = IF async THEN asynchronous \union {call} ELSE asynchronous
           /\ params' = call
    /\ UNCHANGED <<queue, executor, runs, bounds>>

(* runQueue.add: l = last; last = new node; first or l.next = it; size++.   *)
ReadLast(c) ==
    /\ At(c, "readLast")
    /\ callers' = [callers EXCEPT ![c].pc = "writeLast", ![c].l = last]
    /\ item' = item \union {Current(c)}
    /\ UNCHANGED <<first, last, next, size, asynchronous, params, executor, runs, bounds>>

WriteLast(c) ==
    /\ At(c, "writeLast")
    /\ last' = Current(c)
    /\ Go(c, "link")
    /\ UNCHANGED <<first, next, item, size, asynchronous, params, executor, runs, bounds>>

LinkFirst(c) ==
    /\ At(c, "link") /\ callers[c].l = Null
    /\ first' = Current(c)
    /\ Go(c, "readSize")
    /\ UNCHANGED <<last, next, item, size, asynchronous, params, executor, runs, bounds>>

(* A mutant of LinkNext: the new node goes to the front, as with push.      *)
LinkNextPush(c) ==
    /\ At(c, "link") /\ callers[c].l # Null
    /\ next' = [next EXCEPT ![Current(c)] = first]
    /\ first' = Current(c)
    /\ Go(c, "readSize")
    /\ UNCHANGED <<last, item, size, asynchronous, params, executor, runs, bounds>>

LinkNext(c) ==
    /\ At(c, "link") /\ callers[c].l # Null
    /\ next' = [next EXCEPT ![callers[c].l] = Current(c)]
    /\ Go(c, "readSize")
    /\ UNCHANGED <<first, last, item, size, asynchronous, params, executor, runs, bounds>>

ReadSize(c) ==
    /\ At(c, "readSize")
    /\ callers' = [callers EXCEPT ![c].pc = "writeSize", ![c].l = Null,
                                   ![c].size = size]
    /\ UNCHANGED <<queue, asynchronous, params, executor, runs, bounds>>

WriteSize(c) ==
    /\ At(c, "writeSize")
    /\ size' = callers[c].size + 1
    /\ callers' = [callers EXCEPT ![c].pc = "notify", ![c].size = 0]
    /\ UNCHANGED <<first, last, next, item, asynchronous, params, executor, runs, bounds>>

(* A mutant of AfterNotify: the meaning of callerIsBlocked is inverted.     *)
AfterNotifyInverted(call) == IF call \in asynchronous THEN "wait" ELSE "idle"

(* What becomes of a caller that has notified: only a blocked one waits.    *)
AfterNotify(call) == IF call \in asynchronous THEN "idle" ELSE "wait"

(* notify(runQueue) wakes the executor if it waits, and else is lost.       *)
NotifyQueue(c) ==
    /\ At(c, "notify")
    /\ Go(c, AfterNotify(Current(c)))
    /\ IF ExecutorAt("waiting") THEN ExecutorGoes("check") ELSE UNCHANGED executor
    /\ UNCHANGED <<queue, asynchronous, params, runs, bounds>>

(* wait(runData)                                                            *)
WaitForRun(c) ==
    /\ At(c, "wait")
    /\ Go(c, "waiting")
    /\ UNCHANGED <<queue, asynchronous, params, executor, runs, bounds>>

(* A wait is in no loop: a caller that wakes for no reason returns.         *)
WakeSpuriously(c) ==
    /\ At(c, "waiting") /\ spurious < MaxSpurious
    /\ spurious' = spurious + 1
    /\ Go(c, "idle")
    /\ UNCHANGED <<queue, asynchronous, params, executor, runs, errors>>

CallerContinues(c) ==
    \/ ReadLast(c) \/ WriteLast(c) \/ LinkFirst(c) \/ LinkNext(c)
    \/ ReadSize(c) \/ WriteSize(c) \/ NotifyQueue(c) \/ WaitForRun(c)

-----------------------------------------------------------------------------
(* run(), the executor's loop                                               *)

(* while (!runQueue.isEmpty())                                              *)
CheckQueue ==
    /\ ExecutorAt("check")
    /\ ExecutorGoes(IF size = 0 THEN "wait" ELSE "poll")
    /\ UNCHANGED <<queue, asynchronous, params, callers, runs, bounds>>

(* wait(runQueue)                                                           *)
WaitForCalls ==
    /\ ExecutorAt("wait")
    /\ ExecutorGoes("waiting")
    /\ UNCHANGED <<queue, asynchronous, params, callers, runs, bounds>>

ExecutorWakesSpuriously ==
    /\ ExecutorAt("waiting") /\ spurious < MaxSpurious
    /\ spurious' = spurious + 1
    /\ ExecutorGoes("check")
    /\ UNCHANGED <<queue, asynchronous, params, callers, runs, errors>>

(* A mutant of PollFirst: isEmpty is trusted, as with removeFirst.          *)
PollFirstUnchecked ==
    /\ ExecutorAt("poll")
    /\ executor' = [executor EXCEPT !.pc = "take", !.f = first]
    /\ UNCHANGED <<queue, asynchronous, params, callers, runs, bounds>>

(* runQueue.pollFirst: f = first, the answer is null if f is; else take     *)
(* f.item and f.next; first = next; last = null if next is; size--.         *)
PollFirst ==
    /\ ExecutorAt("poll")
    /\ executor' = [executor EXCEPT !.pc = IF first = Null THEN "clearItems" ELSE "take",
                                    !.f = first]
    /\ UNCHANGED <<queue, asynchronous, params, callers, runs, bounds>>

(* A mutant of Take: the call stays in the queue, as with peekFirst.        *)
TakeNothing ==
    /\ ExecutorAt("take")
    /\ LET f == executor.f
       IN  executor' = [executor EXCEPT !.pc = "unlink", !.f = Null, !.next = f,
                                        !.runData = IF f \in item THEN f ELSE Null]
    /\ UNCHANGED <<queue, asynchronous, params, callers, runs, bounds>>

Take ==
    /\ ExecutorAt("take")
    /\ LET f == executor.f
       IN  /\ executor' = [executor EXCEPT !.pc = "unlink", !.f = Null, !.next = next[f],
                                           !.runData = IF f \in item THEN f ELSE Null]
           /\ item' = item \ {f}
           /\ next' = [next EXCEPT ![f] = Null]
    /\ UNCHANGED <<first, last, size, asynchronous, params, callers, runs, bounds>>

Unlink ==
    /\ ExecutorAt("unlink")
    /\ first' = executor.next
    /\ executor' = [executor EXCEPT
           !.pc = IF executor.next = Null THEN "unlinkLast" ELSE "pollReadSize",
           !.next = Null]
    /\ UNCHANGED <<last, next, item, size, asynchronous, params, callers, runs, bounds>>

UnlinkLast ==
    /\ ExecutorAt("unlinkLast")
    /\ last' = Null
    /\ ExecutorGoes("pollReadSize")
    /\ UNCHANGED <<first, next, item, size, asynchronous, params, callers, runs, bounds>>

PollReadSize ==
    /\ ExecutorAt("pollReadSize")
    /\ executor' = [executor EXCEPT !.pc = "pollWriteSize", !.size = size]
    /\ UNCHANGED <<queue, asynchronous, params, callers, runs, bounds>>

PollWriteSize ==
    /\ ExecutorAt("pollWriteSize")
    /\ size' = executor.size - 1
    /\ executor' = [executor EXCEPT
           !.pc = IF executor.runData = Null THEN "clearItems" ELSE "run", !.size = 0]
    /\ UNCHANGED <<first, last, next, item, asynchronous, params, callers, runs, bounds>>

(* runner.run(runData.node): one that throws an Exception counts as run.    *)
Run ==
    /\ ExecutorAt("run")
    /\ runs' = Append(runs, [call |-> executor.runData, params |-> params])
    /\ ExecutorGoes("notify")
    /\ UNCHANGED <<queue, asynchronous, params, callers, bounds>>

(* An Error (the interpreter's recursion may overflow the stack) is no      *)
(* Exception: it ends the thread.                                           *)
RunEndsExecutor ==
    /\ ExecutorAt("run") /\ errors < MaxErrors
    /\ errors' = errors + 1
    /\ runs' = Append(runs, [call |-> executor.runData, params |-> params])
    /\ ExecutorGoes("dead")
    /\ UNCHANGED <<queue, asynchronous, params, callers, spurious>>

(* notify(runData) wakes the caller if it waits already, and else is lost.  *)
NotifyCaller ==
    /\ ExecutorAt("notify")
    /\ LET c == executor.runData[1]
       IN  IF Current(c) = executor.runData /\ At(c, "waiting")
           THEN Go(c, "idle")
           ELSE UNCHANGED callers
    /\ executor' = [executor EXCEPT !.pc = "check", !.runData = Null]
    /\ UNCHANGED <<queue, asynchronous, params, runs, bounds>>

(* runQueue.clear: all items and links, then last, first and size.          *)
Linked ==
    LET Reached[n \in Nat] ==
            IF n = 0 THEN {first}
                     ELSE Reached[n - 1] \union {next[call] : call \in Reached[n - 1] \ {Null}}
    IN  Reached[Cardinality(Call)] \ {Null}

ClearItems ==
    /\ ExecutorAt("clearItems")
    /\ item' = item \ Linked
    /\ next' = [call \in Call |-> IF call \in Linked THEN Null ELSE next[call]]
    /\ ExecutorGoes("clearLast")
    /\ UNCHANGED <<first, last, size, asynchronous, params, callers, runs, bounds>>

ClearLast ==
    /\ ExecutorAt("clearLast")
    /\ last' = Null
    /\ ExecutorGoes("clearFirst")
    /\ UNCHANGED <<first, next, item, size, asynchronous, params, callers, runs, bounds>>

ClearFirst ==
    /\ ExecutorAt("clearFirst")
    /\ first' = Null
    /\ ExecutorGoes("clearSize")
    /\ UNCHANGED <<last, next, item, size, asynchronous, params, callers, runs, bounds>>

(* A mutant of ClearSize: the size stays, as if the else did nothing.       *)
ClearNotSize ==
    /\ ExecutorAt("clearSize")
    /\ ExecutorGoes("check")
    /\ UNCHANGED <<queue, asynchronous, params, callers, runs, bounds>>

ClearSize ==
    /\ ExecutorAt("clearSize")
    /\ size' = 0
    /\ ExecutorGoes("check")
    /\ UNCHANGED <<first, last, next, item, asynchronous, params, callers, runs, bounds>>

ExecutorContinues ==
    \/ CheckQueue \/ WaitForCalls
    \/ PollFirst \/ Take \/ Unlink \/ UnlinkLast \/ PollReadSize \/ PollWriteSize
    \/ Run \/ NotifyCaller
    \/ ClearItems \/ ClearLast \/ ClearFirst \/ ClearSize

-----------------------------------------------------------------------------
Next ==
    \/ \E c \in Caller :
          \/ \E async \in Async : Begin(c, async)
          \/ CallerContinues(c)
          \/ WakeSpuriously(c)
    \/ ExecutorContinues
    \/ ExecutorWakesSpuriously
    \/ RunEndsExecutor

Spec == Init /\ [][Next]_vars

(* Every thread that can run does; a thread that waits needs its notify.    *)
FairSpec ==
    /\ Spec
    /\ \A c \in Caller : WF_vars(CallerContinues(c))
    /\ WF_vars(ExecutorContinues)

-----------------------------------------------------------------------------
(* The list nodes and threads hold calls or null; what a caller that is     *)
(* idle has been told, and what the executor has at hand, fit its pc.       *)
TypeOK ==
    /\ {first, last, params} \subseteq Call \union {Null}
    /\ next \in [Call -> Call \union {Null}]
    /\ item \subseteq Call /\ asynchronous \subseteq Call
    /\ size \in Int
    /\ callers \in [Caller ->
           [pc : {"idle", "readLast", "writeLast",
                  "link", "readSize", "writeSize", "notify", "wait", "waiting"},
            n : 0..MaxCalls, l : Call \union {Null}, size : Int]]
    /\ executor \in
           [pc : {"check", "wait", "waiting", "poll", "take", "unlink",
                  "unlinkLast", "pollReadSize", "pollWriteSize", "run", "notify",
                  "dead", "clearItems", "clearLast", "clearFirst", "clearSize"},
            f : Call \union {Null}, next : Call \union {Null}, size : Int,
            runData : Call \union {Null}]
    /\ ExecutorAt("take") => executor.f # Null
    /\ executor.pc \in {"run", "notify"} => executor.runData # Null
    /\ runs \in Seq([call : Call, params : Call \union {Null}])
    /\ spurious \in 0..MaxSpurious /\ errors \in 0..MaxErrors

(* Whatever two callers and the executor do to the unprotected list, no     *)
(* call is run twice (pollFirst in run, its null answers and clear).        *)
RunsOnce ==
    \A i, j \in 1..Len(runs) : runs[i].call = runs[j].call => i = j

(* The calls of a caller that is the only one are run in the order it made  *)
(* them, even asynchronous ones, which race with the executor (runQueue is  *)
(* a queue).  Some of them may be lost.                                     *)
Alone(c) == \A call \in Made : call[1] = c

RunsInOrder ==
    (\E c \in Caller : Alone(c)) =>
        \A i, j \in 1..Len(runs) : i < j => runs[i].call[2] < runs[j].call[2]

(* A synchronous run() that has returned has run its node:  callers read its *)
(* result from the node next (ThreadNode.run, its wait(runData)).  Only a   *)
(* spurious wakeup can break it.                                            *)
ReturnsAfterRun ==
    \A c \in Caller :
        At(c, "idle") /\ callers[c].n > 0 /\ Current(c) \notin asynchronous
            => \/ \E i \in 1..Len(runs) : runs[i].call = Current(c)
               \/ spurious > 0

(* The executor does not spin: it comes to run a node or to wait, even with *)
(* a size that says there is a call where the list has none (run's else).   *)
ExecutorRests == []<>(executor.pc \in {"run", "waiting", "dead"})

(* One synchronous caller and the executor take turns.                      *)
TakingTurns == (\E c \in Caller : Alone(c)) /\ asynchronous = {} /\ spurious = 0

(* Then the unprotected list stays intact: where neither is inside one of   *)
(* its operations, size counts the calls in it and its ends are null        *)
(* together (add in ThreadNode.run against pollFirst in run).               *)
QueueIntact ==
    (/\ TakingTurns
     /\ ExecutorAt("check")
     /\ \A c \in Caller : callers[c].pc \in {"idle", "wait", "waiting"})
        => /\ size = Cardinality(item)
           /\ (first = Null) = (size = 0)
           /\ (last = Null) = (size = 0)

(* And a node runs with the arguments of its call, though setParams puts    *)
(* them into nodes that every call shares.                                  *)
OwnArguments ==
    TakingTurns =>
        \A i \in 1..Len(runs) : runs[i].params = runs[i].call

(* A call that has begun returns (ThreadNode.run).                          *)
RunReturns == \A c \in Caller : callers[c].pc # "idle" ~> callers[c].pc = "idle"
=============================================================================
