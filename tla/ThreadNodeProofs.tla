-------------------------- MODULE ThreadNodeProofs --------------------------
(***************************************************************************)
(* Whatever any number of callers and the executor do to the list nothing   *)
(* protects, no call runs twice, and a synchronous call does not return     *)
(* before it ran.  The calls of a caller that is alone run in order; if     *)
(* they are synchronous the list stays intact, and each has its arguments.  *)
(***************************************************************************)
EXTENDS ThreadNode, FiniteSetTheorems, FunctionTheorems, SequenceTheorems, TLAPS

-----------------------------------------------------------------------------
(* The invariant.                                                           *)

(* The calls whose list node was made.                                      *)
Added == {call \in Made : ~(At(call[1], "readLast") /\ call = Current(call[1]))}

(* The calls that ran.                                                      *)
Ran == {runs[i].call : i \in 1..Len(runs)}

(* The executor has a call in its hands that it took and did not run.       *)
Holding == executor.pc \in {"unlink", "unlinkLast", "pollReadSize", "pollWriteSize", "run"}

(* A call is in the list, or in the executor's hands, or has run, or was    *)
(* lost; it goes from one to the next, and never back.                      *)
OneWay ==
    /\ item \subseteq Added /\ Ran \subseteq Added
    /\ item \intersect Ran = {}
    /\ executor.runData # Null => executor.runData \in Added \ item
    /\ Holding => executor.runData \notin Ran
    /\ ExecutorAt("notify") => executor.runData \in Ran

(* Who is not idle has begun a call.                                        *)
InCall == \A c \in Caller : callers[c].pc # "idle" => callers[c].n > 0

IInv == TypeOK /\ InCall /\ OneWay /\ RunsOnce /\ ReturnsAfterRun

-----------------------------------------------------------------------------
(* Types.                                                                   *)

CallerType == [pc : {"idle", "readLast", "writeLast",
                     "link", "readSize", "writeSize", "notify", "wait", "waiting"},
               n : 0..MaxCalls, l : Call \union {Null}, size : Int]

(* What TypeOK says of the callers, and a call a caller is in.              *)
LEMMA CallerFacts ==
  ASSUME TypeOK, NEW c \in Caller
  PROVE  /\ callers \in [Caller -> CallerType] /\ callers[c] \in CallerType
         /\ callers[c].n \in 0..MaxCalls
         /\ callers[c].n > 0 => Current(c) \in Call
  BY DEF TypeOK, CallerType, Current, Call

(* Null is no call.                                                        *)
LEMMA NullFacts == Null \notin Call
  BY ThreadNodeAssumption DEF ThreadNodeAssumption, Call

(* There is room for one more call where the bound says so.                 *)
LEMMA RoomForCall ==
  ASSUME TypeOK, NEW c \in Caller, Cardinality(Made) < MaxCalls
  PROVE  callers[c].n + 1 \in 1..MaxCalls
<1> DEFINE n == callers[c].n
           f == [k \in 1..n |-> <<c, k>>]
<1>1. MaxCalls \in Nat /\ n \in 0..MaxCalls
  BY ThreadNodeAssumption, CallerFacts DEF ThreadNodeAssumption
<1>2. IsFiniteSet(Made)
  <2>1. IsFiniteSet(1..MaxCalls)
    BY <1>1, FS_Interval
  <2>2. IsFiniteSet(Call)
    BY <2>1, ThreadNodeAssumption, FS_Product DEF ThreadNodeAssumption, Call
  <2> QED
    BY <2>2, FS_Subset DEF Made
<1>3. f \in Injection(1..n, Made)
  <2>1. \A k \in 1..n : <<c, k>> \in Made
    BY <1>1 DEF Made, Call
  <2>2. f \in [1..n -> Made]
    BY <2>1
  <2>3. \A j, k \in 1..n : f[j] = f[k] => j = k
    OBVIOUS
  <2> HIDE DEF f
  <2> QED
    BY <2>2, <2>3, Fun_IsInj
<1>4. Cardinality(1..n) <= Cardinality(Made)
  BY <1>2, <1>3, FS_Injection
<1>5. Cardinality(1..n) = n
  <2>1. n \in Nat
    BY <1>1
  <2> HIDE DEF n
  <2>2. Cardinality(1..n) = IF 1 > n THEN 0 ELSE n - 1 + 1
    BY <2>1, FS_Interval
  <2> QED
    BY <2>1, <2>2
<1>6. Cardinality(Made) \in Nat
  BY <1>2, FS_CardinalityType
<1> QED
  BY <1>1, <1>4, <1>5, <1>6

-----------------------------------------------------------------------------
(* Every step keeps the types.                                              *)

(* The executor's step.                                                     *)
ExecutorType ==
    [pc : {"check", "wait", "waiting", "poll", "take", "unlink",
           "unlinkLast", "pollReadSize", "pollWriteSize", "run", "notify",
           "dead", "clearItems", "clearLast", "clearFirst", "clearSize"},
     f : Call \union {Null}, next : Call \union {Null}, size : Int,
     runData : Call \union {Null}]

RunType == [call : Call, params : Call \union {Null}]

(* The parts of TypeOK the steps of the executor change.                    *)
ExecutorOK ==
    /\ executor \in ExecutorType
    /\ ExecutorAt("take") => executor.f # Null
    /\ executor.pc \in {"run", "notify"} => executor.runData # Null

QueueOK ==
    /\ {first, last} \subseteq Call \union {Null}
    /\ next \in [Call -> Call \union {Null}]
    /\ item \subseteq Call /\ size \in Int

OthersOK ==
    /\ params \in Call \union {Null}
    /\ asynchronous \subseteq Call
    /\ callers \in [Caller -> CallerType]
    /\ spurious \in 0..MaxSpurious /\ errors \in 0..MaxErrors

RunsOK == runs \in Seq(RunType)

(* Together they are TypeOK.                                                *)
LEMMA Types == /\ TypeOK <=> ExecutorOK /\ QueueOK /\ OthersOK /\ RunsOK
               /\ TypeOK' <=> ExecutorOK' /\ QueueOK' /\ OthersOK' /\ RunsOK'
  BY DEF TypeOK, ExecutorOK, ExecutorType, QueueOK, OthersOK, CallerType, RunsOK, RunType, ExecutorAt

(* The executor keeps the types.                                            *)
LEMMA ExecutorStepType ==
  ASSUME TypeOK, ExecutorContinues \/ ExecutorWakesSpuriously \/ RunEndsExecutor
  PROVE  TypeOK'
<1> SUFFICES ExecutorOK' /\ QueueOK' /\ OthersOK' /\ RunsOK'
  BY Types
<1>0. ExecutorOK /\ QueueOK /\ OthersOK /\ RunsOK
  BY Types
<1>1. ExecutorOK'
  <2> USE <1>0 DEF ExecutorOK, ExecutorType, ExecutorAt, ExecutorGoes
  <2>1. CASE CheckQueue
    BY <2>1 DEF CheckQueue
  <2>2. CASE WaitForCalls
    BY <2>2 DEF WaitForCalls
  <2>3. CASE ExecutorWakesSpuriously
    BY <2>3 DEF ExecutorWakesSpuriously
  <2>4. CASE PollFirst
    BY <2>4 DEF PollFirst, QueueOK
  <2>5. CASE Take
    BY <2>5 DEF Take, QueueOK
  <2>6. CASE Unlink
    BY <2>6 DEF Unlink
  <2>7. CASE UnlinkLast
    BY <2>7 DEF UnlinkLast
  <2>8. CASE PollReadSize
    BY <2>8 DEF PollReadSize, QueueOK
  <2>9. CASE PollWriteSize
    <3> DEFINE pc == IF executor.runData = Null THEN "clearItems" ELSE "run"
               n == 0
    <3>1. executor' = [executor EXCEPT !.pc = pc, !.size = n]
      BY <2>9 DEF PollWriteSize
    <3>2. pc \in {"clearItems", "run"} /\ (pc = "run" => executor.runData # Null) /\ n \in Int
      OBVIOUS
    <3> HIDE DEF pc, n
    <3> QED
      BY <3>1, <3>2
  <2>10. CASE Run
    BY <2>10 DEF Run
  <2>11. CASE RunEndsExecutor
    BY <2>11 DEF RunEndsExecutor
  <2>12. CASE NotifyCaller
    BY <2>12 DEF NotifyCaller
  <2>13. CASE ClearItems
    BY <2>13 DEF ClearItems
  <2>14. CASE ClearLast
    BY <2>14 DEF ClearLast
  <2>15. CASE ClearFirst
    BY <2>15 DEF ClearFirst
  <2>16. CASE ClearSize
    BY <2>16 DEF ClearSize
  <2> QED
    BY <2>1, <2>2, <2>3, <2>4, <2>5, <2>6, <2>7, <2>8, <2>9, <2>10, <2>11,
       <2>12, <2>13, <2>14, <2>15, <2>16 DEF ExecutorContinues
<1>2. QueueOK'
  <2> USE <1>0 DEF QueueOK, queue
  <2>1. CASE UNCHANGED queue
    BY <2>1
  <2>2. CASE Take
    BY <2>2 DEF Take
  <2>3. CASE Unlink
    BY <2>3 DEF Unlink, ExecutorOK, ExecutorType
  <2>4. CASE UnlinkLast \/ ClearLast \/ ClearFirst \/ ClearSize
    BY <2>4 DEF UnlinkLast, ClearLast, ClearFirst, ClearSize
  <2>5. CASE PollWriteSize
    BY <2>5 DEF PollWriteSize, ExecutorOK, ExecutorType
  <2>6. CASE ClearItems
    BY <2>6 DEF ClearItems
  <2> QED
    BY <2>1, <2>2, <2>3, <2>4, <2>5, <2>6 DEF ExecutorContinues, ExecutorWakesSpuriously,
       RunEndsExecutor, CheckQueue, WaitForCalls, PollFirst, PollReadSize, Run, NotifyCaller
<1>3. OthersOK'
  <2> USE <1>0 DEF OthersOK, bounds
  <2>1. CASE UNCHANGED <<params, asynchronous, callers, spurious, errors>>
    BY <2>1
  <2>2. CASE ExecutorWakesSpuriously
    BY <2>2, ThreadNodeAssumption DEF ExecutorWakesSpuriously, ThreadNodeAssumption
  <2>3. CASE RunEndsExecutor
    BY <2>3, ThreadNodeAssumption DEF RunEndsExecutor, ThreadNodeAssumption
  <2>4. CASE NotifyCaller
    BY <2>4 DEF NotifyCaller, Go, CallerType
  <2> QED
    BY <2>1, <2>2, <2>3, <2>4 DEF ExecutorContinues, CheckQueue, WaitForCalls, PollFirst,
       Take, Unlink, UnlinkLast, PollReadSize, PollWriteSize, Run,
       ClearItems, ClearLast, ClearFirst, ClearSize
<1>4. RunsOK'
  <2> USE <1>0 DEF RunsOK
  <2>1. CASE UNCHANGED runs
    BY <2>1
  <2>2. CASE Run \/ RunEndsExecutor
    <3>1. runs' = Append(runs, [call |-> executor.runData, params |-> params])
      BY <2>2 DEF Run, RunEndsExecutor
    <3>2. [call |-> executor.runData, params |-> params] \in RunType
      BY <2>2 DEF Run, RunEndsExecutor, RunType, ExecutorOK, ExecutorType, ExecutorAt, OthersOK
    <3> QED
      BY <3>1, <3>2, AppendProperties
  <2> QED
    BY <2>1, <2>2 DEF ExecutorContinues, ExecutorWakesSpuriously, CheckQueue, WaitForCalls,
       PollFirst, Take, Unlink, UnlinkLast, PollReadSize, PollWriteSize, NotifyCaller,
       ClearItems, ClearLast, ClearFirst, ClearSize
<1> QED
  BY <1>1, <1>2, <1>3, <1>4

(* A caller begins a call.                                                  *)
LEMMA BeginType ==
  ASSUME TypeOK, NEW c \in Caller, NEW async \in Async, Begin(c, async)
  PROVE  TypeOK'
<1>0. ExecutorOK /\ QueueOK /\ OthersOK /\ RunsOK
  BY Types
<1>1. callers[c].n + 1 \in 1..MaxCalls
  BY RoomForCall DEF Begin
<1>2. async \in BOOLEAN
  BY ThreadNodeAssumption DEF ThreadNodeAssumption
<1>3. <<c, callers[c].n + 1>> \in Call
  BY <1>1 DEF Call
<1>4. callers' \in [Caller -> CallerType]
  BY <1>1, CallerFacts DEF Begin, CallerType
<1>5. OthersOK'
  BY <1>0, <1>3, <1>4 DEF OthersOK, Begin, bounds
<1>6. ExecutorOK' /\ QueueOK' /\ RunsOK'
  BY <1>0 DEF ExecutorOK, ExecutorAt, QueueOK, RunsOK, Begin, queue
<1> QED
  BY <1>5, <1>6, Types

(* A caller that is in a call goes on with it.                              *)
LEMMA CallerStepType ==
  ASSUME TypeOK, InCall, NEW c \in Caller, CallerContinues(c) \/ WakeSpuriously(c)
  PROVE  TypeOK'
<1> SUFFICES ExecutorOK' /\ QueueOK' /\ OthersOK' /\ RunsOK'
  BY Types
<1>0. ExecutorOK /\ QueueOK /\ OthersOK /\ RunsOK
  BY Types
<1>1. /\ callers \in [Caller -> CallerType]
      /\ callers[c].pc # "idle" => Current(c) \in Call
  BY CallerFacts DEF InCall
<1>2. QueueOK'
  <2> USE <1>0 DEF QueueOK, queue
  <2>1. CASE UNCHANGED queue
    BY <2>1
  <2>2. CASE ReadLast(c)
    BY <1>1, <2>2 DEF ReadLast, At
  <2>3. CASE WriteLast(c)
    BY <1>1, <2>3 DEF WriteLast, At
  <2>4. CASE LinkFirst(c)
    BY <1>1, <2>4 DEF LinkFirst, At
  <2>5. CASE LinkNext(c)
    BY <1>1, <2>5 DEF LinkNext, At
  <2>6. CASE WriteSize(c)
    BY <1>1, <2>6 DEF WriteSize, CallerType
  <2> QED
    BY <2>1, <2>2, <2>3, <2>4, <2>5, <2>6
       DEF CallerContinues, ReadSize, NotifyQueue, WaitForRun, WakeSpuriously
<1>3. callers' \in [Caller -> CallerType]
  <2> USE <1>1 DEF CallerType, Go
  <2>1. CASE ReadLast(c)
    <3>1. last \in Call \union {Null}
      BY <1>0 DEF QueueOK
    <3> DEFINE new == [callers[c] EXCEPT !.pc = "writeLast", !.l = last]
    <3>2. new \in CallerType
      BY <3>1
    <3>3. callers' = [callers EXCEPT ![c] = new]
      BY <2>1 DEF ReadLast
    <3> HIDE DEF new
    <3> QED
      BY <3>2, <3>3
  <2>2. CASE ReadSize(c)
    <3>1. size \in Int
      BY <1>0 DEF QueueOK
    <3> DEFINE new == [callers[c] EXCEPT !.pc = "writeSize", !.l = Null, !.size = size]
    <3>2. new \in CallerType
      BY <3>1
    <3>3. callers' = [callers EXCEPT ![c] = new]
      BY <2>2 DEF ReadSize
    <3> HIDE DEF new
    <3> QED
      BY <3>2, <3>3
  <2>3. CASE WriteSize(c)
    <3> DEFINE n == 0
               new == [callers[c] EXCEPT !.pc = "notify", !.size = n]
    <3>1. n \in Int
      OBVIOUS
    <3>2. callers' = [callers EXCEPT ![c] = new]
      BY <2>3 DEF WriteSize
    <3> HIDE DEF n
    <3>3. new \in CallerType
      BY <3>1
    <3> HIDE DEF new
    <3> QED
      BY <3>2, <3>3
  <2>4. CASE NotifyQueue(c)
    <3>1. AfterNotify(Current(c)) \in {"idle", "wait"}
      BY DEF AfterNotify
    <3>2. callers' = [callers EXCEPT ![c].pc = AfterNotify(Current(c))]
      BY <2>4 DEF NotifyQueue
    <3> QED
      BY <3>1, <3>2
  <2>5. CASE WriteLast(c) \/ LinkFirst(c) \/ LinkNext(c) \/ WaitForRun(c) \/ WakeSpuriously(c)
    <3>1. PICK pc \in {"link", "readSize", "waiting", "idle"} : callers' = [callers EXCEPT ![c].pc = pc]
      BY <2>5 DEF WriteLast, LinkFirst, LinkNext, WaitForRun, WakeSpuriously
    <3> QED
      BY <3>1
  <2> QED
    BY <2>1, <2>2, <2>3, <2>4, <2>5 DEF CallerContinues
<1>4. OthersOK'
  <2>1. UNCHANGED <<params, asynchronous, errors>> /\ spurious' \in 0..MaxSpurious
    BY <1>0, ThreadNodeAssumption DEF ThreadNodeAssumption, OthersOK, bounds, CallerContinues,
       ReadLast, WriteLast, LinkFirst, LinkNext, ReadSize, WriteSize, NotifyQueue, WaitForRun,
       WakeSpuriously
  <2> QED
    BY <1>0, <1>3, <2>1 DEF OthersOK
<1>5. ExecutorOK'
  <2>1. UNCHANGED executor \/ (ExecutorAt("waiting") /\ ExecutorGoes("check"))
    BY DEF CallerContinues,
       ReadLast, WriteLast, LinkFirst, LinkNext, ReadSize, WriteSize, NotifyQueue, WaitForRun,
       WakeSpuriously
  <2> QED
    BY <1>0, <2>1 DEF ExecutorOK, ExecutorType, ExecutorAt, ExecutorGoes
<1>6. RunsOK'
  BY <1>0 DEF RunsOK, CallerContinues,
     ReadLast, WriteLast, LinkFirst, LinkNext, ReadSize, WriteSize, NotifyQueue, WaitForRun,
     WakeSpuriously
<1> QED
  BY <1>2, <1>4, <1>5, <1>6

-----------------------------------------------------------------------------
(* Every step keeps the rest.                                               *)

(* What a caller's step does to pc and number of the callers.               *)
Moves(c, pc, n) ==
    /\ \A d \in Caller \ {c} : callers'[d].pc = callers[d].pc /\ callers'[d].n = callers[d].n
    /\ callers'[c].pc = pc /\ callers'[c].n = n

(* The steps of a call after ReadLast add no call.                          *)
LEMMA AddedSame ==
  ASSUME NEW c \in Caller, NEW pc, Moves(c, pc, callers[c].n),
         ~At(c, "readLast"), pc # "readLast"
  PROVE  Added' = Added
<1>1. \A d \in Caller : callers'[d].n = callers[d].n
  BY DEF Moves
<1>2. \A d \in Caller : At(d, "readLast")' = At(d, "readLast")
  BY DEF Moves, At
<1>3. \A call \in Call : call[1] \in Caller
  BY DEF Call
<1> QED
  BY <1>1, <1>2, <1>3 DEF Added, Made, Current

(* A caller that neither begins, makes its list node nor returns.           *)
LEMMA OnTheWay ==
  ASSUME IInv, NEW c \in Caller, NEW pc, Moves(c, pc, callers[c].n),
         callers[c].pc \notin {"idle", "readLast"}, pc \notin {"idle", "readLast"},
         UNCHANGED <<item, asynchronous, runs, spurious>>,
         \/ UNCHANGED executor
         \/ ExecutorAt("waiting") /\ ExecutorGoes("check")
  PROVE  InCall' /\ OneWay' /\ RunsOnce' /\ ReturnsAfterRun'
<1>1. Added' = Added
  BY AddedSame DEF At
<1>2. InCall'
  BY DEF IInv, InCall, Moves
<1>3. OneWay'
  <2>1. Ran' = Ran
    BY DEF Ran
  <2>2. executor'.runData = executor.runData
    BY DEF ExecutorGoes, IInv, TypeOK
  <2>3. Holding' => Holding
    BY DEF ExecutorGoes, Holding, IInv, TypeOK
  <2>4. ExecutorAt("notify")' => ExecutorAt("notify")
    BY DEF ExecutorGoes, ExecutorAt, IInv, TypeOK
  <2> QED
    BY <1>1, <2>1, <2>2, <2>3, <2>4 DEF IInv, OneWay
<1>4. RunsOnce'
  BY DEF IInv, RunsOnce
<1>5. ReturnsAfterRun'
  <2>1. \A d \in Caller : At(d, "idle")' => At(d, "idle") /\ callers'[d].n = callers[d].n
    BY DEF Moves, At
  <2> QED
    BY <2>1 DEF IInv, ReturnsAfterRun, Current
<1> QED
  BY <1>2, <1>3, <1>4, <1>5

(* Begin makes a call whose list node is not made yet.                      *)
LEMMA BeginStep ==
  ASSUME IInv, NEW c \in Caller, NEW async \in Async, Begin(c, async)
  PROVE  InCall' /\ OneWay' /\ RunsOnce' /\ ReturnsAfterRun'
<1> DEFINE n == callers[c].n
<1>0. /\ n \in Nat /\ callers \in [Caller -> CallerType]
      /\ n + 1 \in 1..MaxCalls
  BY CallerFacts, RoomForCall DEF IInv, Begin
<1>1. Moves(c, "readLast", n + 1)
  BY <1>0 DEF Begin, Moves, CallerType
<1>2. /\ callers[c].pc = "idle" /\ UNCHANGED <<item, executor, runs, spurious>>
      /\ asynchronous \subseteq asynchronous'
  BY DEF Begin, At, queue, bounds
<1> HIDE DEF n
<1>3. Added' = Added
  <2> SUFFICES ASSUME NEW call \in Call
               PROVE  (call \in Added)' = (call \in Added)
    BY DEF Added, Made
  <2>1. PICK d \in Caller, k \in 1..MaxCalls : call = <<d, k>>
    BY DEF Call
  <2>2. k \in Nat
    BY <2>1
  <2>3. CASE d = c
    <3>1. call \in Added <=> k <= n
      BY <1>2, <2>1, <2>3 DEF Added, Made, At, n
    <3>2. (call \in Added)' <=> k <= n + 1 /\ k # n + 1
      BY <1>1, <2>1, <2>3 DEF Added, Made, At, Current, Moves
    <3> QED
      BY <1>0, <2>2, <3>1, <3>2
  <2>4. CASE d # c
    BY <1>1, <2>1, <2>4 DEF Added, Made, At, Current, Moves
  <2> QED
    BY <2>3, <2>4
<1>4. InCall'
  BY <1>0, <1>1 DEF IInv, InCall, Moves
<1>5. OneWay'
  BY <1>2, <1>3 DEF IInv, OneWay, Ran, Holding, ExecutorAt
<1>6. RunsOnce'
  BY <1>2 DEF IInv, RunsOnce
<1>7. ReturnsAfterRun'
  <2>1. \A d \in Caller : At(d, "idle")' => At(d, "idle") /\ callers'[d].n = callers[d].n
    BY <1>1 DEF Moves, At
  <2> QED
    BY <1>2, <2>1 DEF IInv, ReturnsAfterRun, Current
<1> QED
  BY <1>4, <1>5, <1>6, <1>7

(* ReadLast makes the list node: the call is in the list, and was nowhere.  *)
LEMMA ReadLastStep ==
  ASSUME IInv, NEW c \in Caller, ReadLast(c)
  PROVE  InCall' /\ OneWay' /\ RunsOnce' /\ ReturnsAfterRun'
<1>0. callers \in [Caller -> CallerType] /\ callers[c].pc = "readLast"
  BY CallerFacts DEF IInv, ReadLast, At
<1>1. Moves(c, "writeLast", callers[c].n)
  BY <1>0 DEF ReadLast, Moves, CallerType
<1>2. UNCHANGED <<executor, runs, spurious, asynchronous>> /\ item' = item \union {Current(c)}
  BY DEF ReadLast, bounds
<1>3. Current(c) \in Made \ Added
  BY <1>0, CallerFacts DEF IInv, InCall, Made, Added, At, Current, Call
<1>4. Added' = Added \union {Current(c)}
  <2> SUFFICES ASSUME NEW call \in Call
               PROVE  (call \in Added)' <=> call \in Added \/ call = Current(c)
    BY <1>3 DEF Added, Made
  <2>1. call[1] \in Caller
    BY DEF Call
  <2>2. CASE call[1] = c
    <3>1. (call \in Added)' <=> call[2] <= callers[c].n
      BY <1>1, <2>2 DEF Added, Made, At, Moves
    <3>2. call \in Added <=> call[2] <= callers[c].n /\ call # Current(c)
      BY <1>0, <2>2 DEF Added, Made, At
    <3> QED
      BY <1>3, <3>1, <3>2 DEF Made, Current
  <2>3. CASE call[1] # c
    BY <1>1, <2>1, <2>3 DEF Added, Made, At, Current, Moves
  <2> QED
    BY <2>2, <2>3
<1>5. InCall'
  BY <1>0, <1>1 DEF IInv, InCall, Moves
<1>6. OneWay'
  BY <1>2, <1>3, <1>4 DEF IInv, OneWay, Ran, Holding, ExecutorAt
<1>7. RunsOnce'
  BY <1>2 DEF IInv, RunsOnce
<1>8. ReturnsAfterRun'
  <2>1. \A d \in Caller : At(d, "idle")' => At(d, "idle") /\ callers'[d].n = callers[d].n
    BY <1>1 DEF Moves, At
  <2> QED
    BY <1>2, <2>1 DEF IInv, ReturnsAfterRun, Current
<1> QED
  BY <1>5, <1>6, <1>7, <1>8

(* The end of a call, and its other steps.                                  *)
LEMMA CallerStep ==
  ASSUME IInv, NEW c \in Caller, CallerContinues(c) \/ WakeSpuriously(c)
  PROVE  InCall' /\ OneWay' /\ RunsOnce' /\ ReturnsAfterRun'
<1>0. callers \in [Caller -> CallerType]
  BY CallerFacts DEF IInv
<1>1. ASSUME NEW pc, callers' = [callers EXCEPT ![c].pc = pc]
      PROVE  Moves(c, pc, callers[c].n)
  BY <1>0, <1>1 DEF Moves, CallerType
<1>2. CASE ReadLast(c)
  BY <1>2, ReadLastStep
<1>3. CASE WriteLast(c) \/ LinkFirst(c) \/ LinkNext(c) \/ WaitForRun(c)
  <2>1. PICK pc \in {"link", "readSize", "waiting"} : callers' = [callers EXCEPT ![c].pc = pc]
    BY <1>3 DEF WriteLast, LinkFirst, LinkNext, WaitForRun, Go
  <2>2. /\ callers[c].pc \notin {"idle", "readLast"}
        /\ UNCHANGED <<item, asynchronous, runs, spurious, executor>>
    BY <1>3 DEF WriteLast, LinkFirst, LinkNext, WaitForRun, At, queue, bounds
  <2>3. Moves(c, pc, callers[c].n)
    BY <1>1, <2>1
  <2> QED
    BY <2>1, <2>2, <2>3, OnTheWay
<1>4. CASE ReadSize(c) \/ WriteSize(c)
  <2>1. PICK pc \in {"writeSize", "notify"} : Moves(c, pc, callers[c].n)
    BY <1>0, <1>4 DEF ReadSize, WriteSize, Moves, CallerType
  <2>2. /\ callers[c].pc \notin {"idle", "readLast"}
        /\ UNCHANGED <<item, asynchronous, runs, spurious, executor>>
    BY <1>4 DEF ReadSize, WriteSize, At, queue, bounds
  <2> QED
    BY <2>1, <2>2, OnTheWay
<1>5. CASE NotifyQueue(c) /\ Current(c) \notin asynchronous
  <2>1. Moves(c, "wait", callers[c].n)
    BY <1>1, <1>5 DEF NotifyQueue, Go, AfterNotify
  <2>2. /\ callers[c].pc \notin {"idle", "readLast"}
        /\ UNCHANGED <<item, asynchronous, runs, spurious>>
        /\ UNCHANGED executor \/ (ExecutorAt("waiting") /\ ExecutorGoes("check"))
    BY <1>5 DEF NotifyQueue, At, queue, bounds
  <2> QED
    BY <2>1, <2>2, OnTheWay
<1>6. CASE (NotifyQueue(c) /\ Current(c) \in asynchronous) \/ WakeSpuriously(c)
  <2>1. Moves(c, "idle", callers[c].n)
    BY <1>1, <1>6 DEF NotifyQueue, WakeSpuriously, Go, AfterNotify
  <2>2. /\ callers[c].pc \notin {"idle", "readLast"}
        /\ UNCHANGED <<item, asynchronous, runs>>
        /\ UNCHANGED executor \/ (ExecutorAt("waiting") /\ ExecutorGoes("check"))
        /\ spurious' = spurious \/ spurious' = spurious + 1
        /\ Current(c) \in asynchronous \/ spurious' = spurious + 1
    BY <1>6 DEF NotifyQueue, WakeSpuriously, At, queue, bounds
  <2>3. spurious \in Nat
    BY ThreadNodeAssumption DEF ThreadNodeAssumption, IInv, TypeOK
  <2>4. Added' = Added
    BY <2>1, <2>2, AddedSame DEF At
  <2>5. InCall'
    BY <2>1 DEF IInv, InCall, Moves
  <2>6. OneWay'
    <3>1. Ran' = Ran
      BY <2>2 DEF Ran
    <3>2. executor'.runData = executor.runData
      BY <2>2 DEF ExecutorGoes, IInv, TypeOK
    <3>3. Holding' => Holding
      BY <2>2 DEF ExecutorGoes, Holding, IInv, TypeOK
    <3>4. ExecutorAt("notify")' => ExecutorAt("notify")
      BY <2>2 DEF ExecutorGoes, ExecutorAt, IInv, TypeOK
    <3> QED
      BY <2>2, <2>4, <3>1, <3>2, <3>3, <3>4 DEF IInv, OneWay
  <2>7. RunsOnce'
    BY <2>2 DEF IInv, RunsOnce
  <2>8. ReturnsAfterRun'
    <3>1. \A d \in Caller \ {c} : At(d, "idle")' => At(d, "idle") /\ callers'[d].n = callers[d].n
      BY <2>1 DEF Moves, At
    <3>2. Current(c)' = Current(c)
      BY <2>1 DEF Moves, Current
    <3>3. Current(c) \in asynchronous \/ spurious' > 0
      BY <2>2, <2>3
    <3>4. spurious > 0 => spurious' > 0
      BY <2>2, <2>3
    <3> QED
      BY <2>2, <3>1, <3>2, <3>3, <3>4 DEF IInv, ReturnsAfterRun, Current
  <2> QED
    BY <2>5, <2>6, <2>7, <2>8
<1> QED
  BY <1>2, <1>3, <1>4, <1>5, <1>6 DEF CallerContinues

(* The executor's steps that neither take nor run a call, nor answer.       *)
LEMMA ExecutorAside ==
  ASSUME IInv, UNCHANGED <<callers, asynchronous, runs>>,
         item' \subseteq item, spurious' = spurious \/ spurious' = spurious + 1,
         executor'.runData = executor.runData,
         Holding' => Holding, ~ExecutorAt("notify")'
  PROVE  InCall' /\ OneWay' /\ RunsOnce' /\ ReturnsAfterRun'
<1>1. Added' = Added /\ Ran' = Ran
  BY DEF Added, Made, At, Current, Ran
<1>2. OneWay'
  BY <1>1 DEF IInv, OneWay
<1>3. spurious > 0 => spurious' > 0
  BY ThreadNodeAssumption DEF ThreadNodeAssumption, IInv, TypeOK
<1>4. ReturnsAfterRun'
  BY <1>3 DEF IInv, ReturnsAfterRun, At, Current
<1> QED
  BY <1>2, <1>4 DEF IInv, InCall, RunsOnce

(* Take moves a call from the list to the executor's hands.                 *)
LEMMA TakeStep ==
  ASSUME IInv, Take
  PROVE  InCall' /\ OneWay' /\ RunsOnce' /\ ReturnsAfterRun'
<1> DEFINE f == executor.f
<1>1. /\ UNCHANGED <<callers, asynchronous, runs, spurious>> /\ item' = item \ {f}
      /\ executor'.pc = "unlink" /\ executor'.runData = IF f \in item THEN f ELSE Null
  BY DEF Take, bounds, IInv, TypeOK
<1>2. Added' = Added /\ Ran' = Ran
  BY <1>1 DEF Added, Made, At, Current, Ran
<1>3. Null \notin Ran
  BY NullFacts DEF IInv, OneWay, Added, Made
<1>4. OneWay'
  BY <1>1, <1>2, <1>3 DEF IInv, OneWay, ExecutorAt
<1>5. ReturnsAfterRun'
  BY <1>1 DEF IInv, ReturnsAfterRun, At, Current
<1> QED
  BY <1>1, <1>4, <1>5 DEF IInv, InCall, RunsOnce

(* Run runs the call the executor has at hand, which did not run before.    *)
LEMMA RunStep ==
  ASSUME IInv, Run \/ RunEndsExecutor
  PROVE  InCall' /\ OneWay' /\ RunsOnce' /\ ReturnsAfterRun'
<1> DEFINE call == executor.runData
           n == Len(runs)
           this == [call |-> call, params |-> params]
<1>1. /\ UNCHANGED <<callers, asynchronous, item, spurious>>
      /\ executor.pc = "run" /\ runs' = Append(runs, this)
      /\ executor'.pc \in {"notify", "dead"} /\ executor'.runData = call
  BY DEF Run, RunEndsExecutor, ExecutorAt, ExecutorGoes, queue, bounds, IInv, TypeOK
<1>2. call \in Added \ item /\ call \notin Ran
  BY <1>1 DEF IInv, TypeOK, OneWay, Holding
<1>3. n \in Nat /\ Len(runs') = n + 1 /\ runs'[n + 1] = this
      /\ \A i \in 1..n : runs'[i] = runs[i]
  <2>1. runs \in Seq(RunType)
    BY Types DEF IInv, RunsOK
  <2>2. this \in RunType
    BY <1>1, Types DEF IInv, ExecutorOK, ExecutorType, OthersOK, RunType
  <2> HIDE DEF this
  <2> QED
    BY <1>1, <2>1, <2>2, AppendProperties, LenProperties
<1> HIDE DEF n
<1>4. Added' = Added
  BY <1>1 DEF Added, Made, At, Current
<1>5. Ran' = Ran \union {call}
  <2>1. Ran' = {runs'[i].call : i \in 1..(n + 1)}
    BY <1>3 DEF Ran
  <2>2. Ran = {runs[i].call : i \in 1..n}
    BY DEF Ran, n
  <2>3. \A i : i \in 1..(n + 1) <=> i \in 1..n \/ i = n + 1
    BY <1>3
  <2>4. this.call = call
    OBVIOUS
  <2> HIDE DEF this, call
  <2> QED
    BY <1>3, <2>1, <2>2, <2>3, <2>4
<1>6. OneWay'
  BY <1>1, <1>2, <1>4, <1>5 DEF IInv, OneWay, ExecutorAt, Holding
<1>7. RunsOnce'
  <2>1. \A i \in 1..n : runs[i].call \in Ran
    BY DEF Ran, n
  <2>2. \A i \in 1..(n + 1) : i \in 1..n \/ i = n + 1
    BY <1>3
  <2>3. \A i, j \in 1..n : runs[i].call = runs[j].call => i = j
    BY DEF IInv, RunsOnce, n
  <2>4. this.call = call
    OBVIOUS
  <2> HIDE DEF this, call
  <2> QED
    BY <1>2, <1>3, <2>1, <2>2, <2>3, <2>4 DEF RunsOnce
<1>8. ReturnsAfterRun'
  <2>1. \A i \in 1..Len(runs) : i \in 1..Len(runs') /\ runs'[i] = runs[i]
    BY <1>3 DEF n
  <2> QED
    BY <1>1, <2>1 DEF IInv, ReturnsAfterRun, At, Current
<1> QED
  BY <1>1, <1>6, <1>7, <1>8 DEF IInv, InCall

(* NotifyCaller lets a caller return, whose call has run.                   *)
LEMMA NotifyCallerStep ==
  ASSUME IInv, NotifyCaller
  PROVE  InCall' /\ OneWay' /\ RunsOnce' /\ ReturnsAfterRun'
<1> DEFINE call == executor.runData
<1>1. /\ UNCHANGED <<asynchronous, item, runs, spurious>> /\ executor.pc = "notify"
      /\ executor'.pc = "check" /\ executor'.runData = Null
  BY DEF NotifyCaller, ExecutorAt, queue, bounds, IInv, TypeOK
<1>2. call \in Ran /\ call \in Call
  BY <1>1 DEF IInv, OneWay, ExecutorAt, Added, Made
<1> PICK c \in Caller : c = call[1]
  BY <1>2 DEF Call
<1>3. callers \in [Caller -> CallerType]
  BY Types DEF IInv, OthersOK
<1>4. Added' = Added
  <2>1. CASE UNCHANGED callers
    BY <2>1 DEF Added, Made, At, Current
  <2>2. CASE callers[c].pc = "waiting" /\ Go(c, "idle")
    <3>1. Moves(c, "idle", callers[c].n)
      BY <1>2, <1>3, <2>2 DEF Moves, Go, CallerType
    <3> QED
      BY <1>2, <2>2, <3>1, AddedSame DEF At
  <2> QED
    BY <2>1, <2>2 DEF NotifyCaller, At
<1>5. OneWay'
  BY <1>1, <1>4 DEF IInv, OneWay, Ran, Holding, ExecutorAt
<1>6. InCall' /\ ReturnsAfterRun'
  <2>1. CASE UNCHANGED callers
    BY <1>1, <2>1 DEF IInv, InCall, ReturnsAfterRun, At, Current
  <2>2. CASE Current(c) = call /\ callers[c].pc = "waiting" /\ Go(c, "idle")
    <3>1. Moves(c, "idle", callers[c].n)
      BY <1>2, <1>3, <2>2 DEF Moves, Go, CallerType
    <3>2. \A d \in Caller \ {c} : At(d, "idle")' => At(d, "idle") /\ callers'[d].n = callers[d].n
      BY <3>1 DEF Moves, At
    <3>3. Current(c)' = call
      BY <2>2, <3>1 DEF Moves, Current
    <3>4. \E i \in 1..Len(runs) : runs[i].call = Current(c)'
      BY <1>2, <3>3 DEF Ran
    <3>5. ReturnsAfterRun'
      BY <1>1, <3>2, <3>4 DEF IInv, ReturnsAfterRun, Current
    <3>6. InCall'
      BY <3>1 DEF IInv, InCall, Moves
    <3> QED
      BY <3>5, <3>6
  <2> QED
    BY <2>1, <2>2 DEF NotifyCaller, At
<1> QED
  BY <1>1, <1>5, <1>6 DEF IInv, RunsOnce

(* All steps of the executor.                                               *)
LEMMA ExecutorStep ==
  ASSUME IInv, ExecutorContinues \/ ExecutorWakesSpuriously \/ RunEndsExecutor
  PROVE  InCall' /\ OneWay' /\ RunsOnce' /\ ReturnsAfterRun'
<1>0. executor \in ExecutorType
  BY Types DEF IInv, ExecutorOK
<1>1. CASE Take
  BY <1>1, TakeStep
<1>2. CASE Run \/ RunEndsExecutor
  BY <1>2, RunStep
<1>3. CASE NotifyCaller
  BY <1>3, NotifyCallerStep
<1>4. CASE CheckQueue \/ WaitForCalls \/ ExecutorWakesSpuriously \/ PollFirst
  <2>1. /\ executor.pc \in {"check", "wait", "waiting", "poll"}
        /\ executor'.pc \in {"wait", "waiting", "check", "poll", "clearItems", "take"}
        /\ executor'.runData = executor.runData
    BY <1>0, <1>4 DEF CheckQueue, WaitForCalls, ExecutorWakesSpuriously, PollFirst,
       ExecutorAt, ExecutorGoes, ExecutorType
  <2>2. /\ UNCHANGED <<callers, asynchronous, runs, item>>
        /\ spurious' = spurious \/ spurious' = spurious + 1
    BY <1>4 DEF CheckQueue, WaitForCalls, ExecutorWakesSpuriously, PollFirst, queue, bounds
  <2> QED
    BY <2>1, <2>2, ExecutorAside DEF Holding, ExecutorAt
<1>5. CASE Unlink \/ UnlinkLast \/ PollReadSize \/ PollWriteSize
  <2>1. /\ executor.pc \in {"unlink", "unlinkLast", "pollReadSize", "pollWriteSize"}
        /\ executor'.pc # "notify" /\ executor'.runData = executor.runData
    BY <1>0, <1>5 DEF Unlink, UnlinkLast, PollReadSize, PollWriteSize,
       ExecutorAt, ExecutorGoes, ExecutorType
  <2>2. UNCHANGED <<callers, asynchronous, runs, item, spurious>>
    BY <1>5 DEF Unlink, UnlinkLast, PollReadSize, PollWriteSize, queue, bounds
  <2> QED
    BY <2>1, <2>2, ExecutorAside DEF Holding, ExecutorAt
<1>6. CASE ClearItems \/ ClearLast \/ ClearFirst \/ ClearSize
  <2>1. /\ executor'.pc \in {"clearLast", "clearFirst", "clearSize", "check"}
        /\ executor'.runData = executor.runData
    BY <1>0, <1>6 DEF ClearItems, ClearLast, ClearFirst, ClearSize,
       ExecutorAt, ExecutorGoes, ExecutorType
  <2>2. UNCHANGED <<callers, asynchronous, runs, spurious>> /\ item' \subseteq item
    BY <1>6 DEF ClearItems, ClearLast, ClearFirst, ClearSize, queue, bounds
  <2> QED
    BY <2>1, <2>2, ExecutorAside DEF Holding, ExecutorAt
<1> QED
  BY <1>1, <1>2, <1>3, <1>4, <1>5, <1>6 DEF ExecutorContinues

-----------------------------------------------------------------------------
(* A lone synchronous caller and the executor take turns.                   *)

(* The executor looks for calls or waits for them.                          *)
Resting == executor.pc \in {"check", "wait", "waiting"}

(* The list has these calls and ends, and says it has n.                    *)
Holds(calls, head, tail, n) == item = calls /\ first = head /\ last = tail /\ size = n

(* The calls of c wait for each other: while c makes one, the list is empty *)
(* and the executor rests; then the executor takes the call out again.      *)
Turns(c) ==
    LET call == Current(c)
        Has(pc) == executor.pc = pc /\ executor.runData = call
    IN  /\ next = [k \in Call |-> Null]
        /\ callers[c].n > 0 => params = call
        /\ callers[c].pc \in {"idle", "readLast"} => Resting /\ Holds({}, Null, Null, 0)
        /\ callers[c].pc \in {"writeLast", "link"} => callers[c].l = Null
        /\ callers[c].pc = "writeLast" => Resting /\ Holds({call}, Null, Null, 0)
        /\ callers[c].pc = "link" => Resting /\ Holds({call}, Null, call, 0)
        /\ callers[c].pc \in {"readSize", "writeSize"} => Resting /\ Holds({call}, call, call, 0)
        /\ callers[c].pc = "writeSize" => callers[c].size = 0
        /\ callers[c].pc \in {"notify", "wait", "waiting"} =>
              \/ (Resting \/ ExecutorAt("poll")) /\ Holds({call}, call, call, 1)
              \/ ExecutorAt("take") /\ executor.f = call /\ Holds({call}, call, call, 1)
              \/ Has("unlink") /\ executor.next = Null /\ Holds({}, call, call, 1)
              \/ Has("unlinkLast") /\ Holds({}, Null, call, 1)
              \/ Has("pollReadSize") /\ Holds({}, Null, Null, 1)
              \/ Has("pollWriteSize") /\ executor.size = 1 /\ Holds({}, Null, Null, 1)
              \/ (Has("run") \/ Has("notify")) /\ Holds({}, Null, Null, 0)
              \/ (Resting \/ ExecutorAt("dead")) /\ Holds({}, Null, Null, 0)
        /\ \A i \in 1..Len(runs) : runs[i].params = runs[i].call

Undisturbed == asynchronous = {} /\ spurious = 0

TurnsInv == Undisturbed => \A c \in Caller : Alone(c) => Turns(c)

(* Who is alone in one state was alone in the one before.                   *)
LEMMA AloneBefore ==
  ASSUME NEW c \in Caller, Alone(c)', Undisturbed', Made \subseteq Made',
         asynchronous \subseteq asynchronous', spurious' = spurious
  PROVE  Alone(c) /\ Undisturbed
  BY DEF Alone, Undisturbed

(* Then nobody else has begun a call.                                       *)
LEMMA OthersIdle ==
  ASSUME IInv, NEW c \in Caller, Alone(c), NEW d \in Caller, d # c
  PROVE  callers[d].n = 0 /\ callers[d].pc = "idle"
<1>1. callers[d].n \in 0..MaxCalls /\ MaxCalls \in Nat
  BY CallerFacts, ThreadNodeAssumption DEF IInv, ThreadNodeAssumption
<1>2. ASSUME callers[d].n > 0 PROVE FALSE
  <2>1. <<d, 1>> \in Made
    BY <1>1, <1>2 DEF Made, Call
  <2> QED
    BY <2>1 DEF Alone
<1> QED
  BY <1>1, <1>2 DEF IInv, InCall

(* A call begins when the one before it is over.                            *)
LEMMA BeginTurns ==
  ASSUME IInv, TurnsInv, NEW d \in Caller, NEW async \in Async, Begin(d, async)
  PROVE  TurnsInv'
<1> SUFFICES ASSUME Undisturbed', NEW c \in Caller, Alone(c)'
             PROVE  Turns(c)'
  BY DEF TurnsInv
<1>0. /\ callers \in [Caller -> CallerType] /\ callers[d].n \in Nat
      /\ callers[d].n + 1 \in 1..MaxCalls
  BY CallerFacts, RoomForCall DEF IInv, Begin
<1> DEFINE n == callers[d].n
<1>1. Moves(d, "readLast", n + 1)
  BY <1>0 DEF Begin, Moves, CallerType
<1>2. /\ callers[d].pc = "idle" /\ UNCHANGED <<first, last, next, item, size, executor, runs, spurious>>
      /\ asynchronous \subseteq asynchronous' /\ params' = <<d, n + 1>>
  BY DEF Begin, At, queue, bounds
<1> HIDE DEF n
<1>3. \A b \in Caller : callers'[b].n = IF b = d THEN n + 1 ELSE callers[b].n
  BY <1>1 DEF Moves
<1>4. Made \subseteq Made'
  <2> SUFFICES ASSUME NEW call \in Made PROVE call \in Made'
    OBVIOUS
  <2>1. call \in Call /\ call[1] \in Caller /\ call[2] \in Nat /\ call[2] <= callers[call[1]].n
    BY DEF Made, Call
  <2>2. call[2] <= callers'[call[1]].n
    BY <1>0, <1>3, <2>1 DEF n
  <2> QED
    BY <2>1, <2>2 DEF Made
<1>5. d = c
  <2>1. <<d, n + 1>> \in Made'
    BY <1>0, <1>1 DEF Made, Call, Moves, n
  <2> QED
    BY <2>1 DEF Alone
<1>6. Turns(c)
  BY <1>2, <1>4, AloneBefore DEF TurnsInv
<1>7. Current(c)' = <<d, n + 1>> /\ callers'[c].pc = "readLast"
  BY <1>1, <1>5 DEF Current, Moves
<1> QED
  BY <1>2, <1>5, <1>6, <1>7 DEF Turns, Holds, Resting, ExecutorAt

(* The rest of a call, up to the wait.                                      *)
LEMMA CallerTurns ==
  ASSUME IInv, TurnsInv, NEW d \in Caller, CallerContinues(d) \/ WakeSpuriously(d)
  PROVE  TurnsInv'
<1> SUFFICES ASSUME Undisturbed', NEW c \in Caller, Alone(c)'
             PROVE  Turns(c)'
  BY DEF TurnsInv
<1>0. callers \in [Caller -> CallerType] /\ spurious \in Nat
  BY CallerFacts, ThreadNodeAssumption DEF ThreadNodeAssumption, IInv, TypeOK
<1>1. /\ asynchronous' = asynchronous /\ runs' = runs /\ params' = params
      /\ callers[d].pc # "idle" /\ (spurious' = spurious \/ WakeSpuriously(d))
  BY DEF CallerContinues, ReadLast, WriteLast, LinkFirst, LinkNext, ReadSize, WriteSize,
     NotifyQueue, WaitForRun, WakeSpuriously, At, bounds
<1>2. ~WakeSpuriously(d)
  BY <1>0 DEF WakeSpuriously, Undisturbed
<1>3. \A b \in Caller : callers'[b].n = callers[b].n
  BY <1>0, <1>2 DEF CallerContinues, ReadLast, WriteLast, LinkFirst, LinkNext, ReadSize, WriteSize,
     NotifyQueue, WaitForRun, Go, CallerType
<1>4. Made' = Made /\ Current(c)' = Current(c)
  BY <1>3 DEF Made, Call, Current
<1>5. Alone(c) /\ Turns(c) /\ asynchronous = {}
  BY <1>1, <1>2, <1>4, AloneBefore DEF TurnsInv, Undisturbed
<1>6. d = c
  BY <1>1, <1>5, OthersIdle
<1> DEFINE call == Current(c)
<1>7. CASE ReadLast(c)
  <2>1. /\ callers[c].pc = "readLast" /\ callers'[c].pc = "writeLast" /\ callers'[c].l = last
        /\ item' = item \union {call}
        /\ UNCHANGED <<first, last, next, size, executor>>
    BY <1>0, <1>7 DEF ReadLast, At, CallerType
  <2> QED
    BY <1>1, <1>3, <1>4, <1>5, <2>1 DEF Turns, Holds, Resting
<1>8. CASE WriteLast(c)
  <2>1. /\ callers[c].pc = "writeLast" /\ callers'[c].pc = "link"
        /\ callers'[c].l = callers[c].l /\ last' = call
        /\ UNCHANGED <<first, item, next, size, executor>>
    BY <1>0, <1>8 DEF WriteLast, At, Go, CallerType
  <2> QED
    BY <1>1, <1>3, <1>4, <1>5, <2>1 DEF Turns, Holds, Resting
<1>9. CASE LinkFirst(c)
  <2>1. /\ callers[c].pc = "link" /\ callers'[c].pc = "readSize" /\ first' = call
        /\ UNCHANGED <<last, item, next, size, executor>>
    BY <1>0, <1>9 DEF LinkFirst, At, Go, CallerType
  <2> QED
    BY <1>1, <1>3, <1>4, <1>5, <2>1 DEF Turns, Holds, Resting
<1>10. CASE LinkNext(c)
  BY <1>5, <1>10 DEF LinkNext, At, Turns
<1>11. CASE ReadSize(c)
  <2>1. /\ callers[c].pc = "readSize" /\ callers'[c].pc = "writeSize" /\ callers'[c].size = size
        /\ UNCHANGED <<first, last, item, next, size, executor>>
    BY <1>0, <1>11 DEF ReadSize, At, CallerType, queue
  <2> QED
    BY <1>1, <1>3, <1>4, <1>5, <2>1 DEF Turns, Holds, Resting
<1>12. CASE WriteSize(c)
  <2>1. /\ callers[c].pc = "writeSize" /\ callers'[c].pc = "notify"
        /\ size' = callers[c].size + 1
        /\ UNCHANGED <<first, last, item, next, executor>>
    BY <1>0, <1>12 DEF WriteSize, At, CallerType
  <2>2. callers[c].size = 0 /\ Resting /\ item = {call} /\ first = call /\ last = call
    BY <1>5, <2>1 DEF Turns, Holds
  <2>3. Resting' /\ Holds({call}, call, call, 1)'
    BY <1>4, <2>1, <2>2 DEF Resting, Holds
  <2> QED
    BY <1>1, <1>3, <1>4, <1>5, <2>1, <2>3 DEF Turns
<1>13. CASE NotifyQueue(c)
  <2>1. AfterNotify(call) = "wait"
    BY <1>5 DEF AfterNotify
  <2>2. /\ callers[c].pc = "notify" /\ callers'[c].pc = "wait"
        /\ UNCHANGED <<first, last, item, next, size>>
    BY <1>0, <1>13, <2>1 DEF NotifyQueue, At, Go, CallerType, queue
  <2>3. CASE UNCHANGED executor
    BY <1>1, <1>3, <1>4, <1>5, <2>2, <2>3 DEF Turns, Holds, Resting, ExecutorAt
  <2>4. CASE executor.pc = "waiting" /\ executor'.pc = "check"
    <3>1. Holds({call}, call, call, 1) \/ Holds({}, Null, Null, 0)
      BY <1>5, <2>2, <2>4 DEF Turns, Resting, ExecutorAt
    <3>2. Holds({call}, call, call, 1)' \/ Holds({}, Null, Null, 0)'
      BY <1>4, <2>2, <3>1 DEF Holds
    <3>3. Resting'
      BY <2>4 DEF Resting
    <3> QED
      BY <1>1, <1>3, <1>4, <1>5, <2>2, <3>2, <3>3 DEF Turns
  <2>5. executor \in ExecutorType
    BY Types DEF IInv, ExecutorOK
  <2> QED
    BY <1>13, <2>3, <2>4, <2>5 DEF NotifyQueue, ExecutorAt, ExecutorGoes, ExecutorType
<1>14. CASE WaitForRun(c)
  <2>1. /\ callers[c].pc = "wait" /\ callers'[c].pc = "waiting"
        /\ UNCHANGED <<first, last, item, next, size, executor>>
    BY <1>0, <1>14 DEF WaitForRun, At, Go, CallerType, queue
  <2> QED
    BY <1>1, <1>3, <1>4, <1>5, <2>1 DEF Turns, Holds, Resting, ExecutorAt
<1> QED
  BY <1>2, <1>6, <1>7, <1>8, <1>9, <1>10, <1>11, <1>12, <1>13, <1>14 DEF CallerContinues

(* The executor takes the call out, runs it and lets the caller return.     *)
LEMMA ExecutorTurns ==
  ASSUME IInv, TurnsInv, ExecutorContinues \/ ExecutorWakesSpuriously \/ RunEndsExecutor
  PROVE  TurnsInv'
<1> SUFFICES ASSUME Undisturbed', NEW c \in Caller, Alone(c)'
             PROVE  Turns(c)'
  BY DEF TurnsInv
<1>0. /\ callers \in [Caller -> CallerType] /\ executor \in ExecutorType
      /\ runs \in Seq(RunType) /\ spurious \in Nat
  BY Types, ThreadNodeAssumption
     DEF ThreadNodeAssumption, IInv, OthersOK, ExecutorOK, RunsOK
<1>1. ~ExecutorWakesSpuriously
  BY <1>0 DEF ExecutorWakesSpuriously, Undisturbed
<1>2. asynchronous' = asynchronous /\ params' = params /\ spurious' = spurious
  BY <1>1 DEF ExecutorContinues, CheckQueue, WaitForCalls, PollFirst, Take, Unlink, UnlinkLast,
     PollReadSize, PollWriteSize, Run, RunEndsExecutor, NotifyCaller,
     ClearItems, ClearLast, ClearFirst, ClearSize, bounds
<1>3. NotifyCaller \/ UNCHANGED callers
  BY <1>1 DEF ExecutorContinues, CheckQueue, WaitForCalls, PollFirst, Take, Unlink, UnlinkLast,
     PollReadSize, PollWriteSize, Run, RunEndsExecutor,
     ClearItems, ClearLast, ClearFirst, ClearSize
<1>4. \A b \in Caller : callers'[b].n = callers[b].n
  <2>1. CASE UNCHANGED callers
    BY <2>1
  <2>2. CASE \E d : callers' = [callers EXCEPT ![d].pc = "idle"]
    BY <1>0, <2>2 DEF CallerType
  <2> QED
    BY <1>3, <2>1, <2>2 DEF NotifyCaller, Go
<1>5. Made' = Made /\ Current(c)' = Current(c)
  BY <1>4 DEF Made, Call, Current
<1>6. Turns(c)
  BY <1>2, <1>5, AloneBefore DEF TurnsInv
<1>7. callers[c].pc \in {"idle", "readLast", "writeLast", "link", "readSize", "writeSize"} => Resting
  BY <1>6 DEF Turns
<1>8. callers[c].pc \in {"idle", "readLast", "writeLast", "link", "readSize", "writeSize",
                         "notify", "wait", "waiting"}
  BY <1>0 DEF CallerType
<1> DEFINE call == Current(c)
           Full == Holds({call}, call, call, 1)
           Empty == Holds({}, Null, Null, 0)
           Waits == callers[c].pc \in {"notify", "wait", "waiting"}
<1>9. Waits => callers[c].n > 0 /\ call \in Call
  BY CallerFacts DEF IInv, InCall
<1>10. CASE CheckQueue \/ WaitForCalls
  <2>1. /\ Resting /\ UNCHANGED <<first, last, next, item, size, callers, runs>>
        /\ Resting' \/ (size # 0 /\ executor'.pc = "poll")
    BY <1>0, <1>10 DEF CheckQueue, WaitForCalls, ExecutorAt, ExecutorGoes, Resting, ExecutorType, queue
  <2>2. Full' <=> Full
    BY <1>5, <2>1 DEF Holds
  <2>3. Empty' <=> Empty
    BY <2>1 DEF Holds
  <2>4. CASE Waits
    <3>1. Full \/ Empty
      BY <1>6, <2>1, <2>4 DEF Turns, Resting, ExecutorAt
    <3>2. Empty => Resting'
      BY <2>1 DEF Holds
    <3> QED
      BY <1>2, <1>4, <1>5, <1>6, <2>1, <2>2, <2>3, <2>4, <3>1, <3>2 DEF Turns, ExecutorAt
  <2>5. CASE ~Waits
    <3>1. size = 0
      BY <1>6, <1>8, <2>5 DEF Turns, Holds
    <3> QED
      BY <1>2, <1>4, <1>5, <1>6, <2>1, <2>5, <3>1 DEF Turns, Holds
  <2> QED
    BY <2>4, <2>5
<1>11. CASE PollFirst
  <2>1. /\ executor.pc = "poll" /\ UNCHANGED <<first, last, next, item, size, callers, runs>>
        /\ executor'.pc = IF first = Null THEN "clearItems" ELSE "take"
        /\ executor'.f = first
    BY <1>0, <1>11 DEF PollFirst, ExecutorAt, ExecutorType, queue
  <2>2. Waits
    BY <1>7, <1>8, <2>1 DEF Resting
  <2>3. Full
    BY <1>6, <2>1, <2>2 DEF Turns, Resting, ExecutorAt
  <2>4. first = call /\ call # Null
    BY <1>9, <2>2, <2>3, NullFacts DEF Holds
  <2>5. executor'.pc = "take" /\ executor'.f = Current(c)' /\ Full'
    BY <1>5, <2>1, <2>3, <2>4 DEF Holds
  <2> QED
    BY <1>2, <1>4, <1>5, <1>6, <2>1, <2>2, <2>5 DEF Turns, ExecutorAt
<1>12. CASE Take
  <2>1. /\ executor.pc = "take" /\ UNCHANGED <<first, last, size, callers, runs>>
        /\ executor'.pc = "unlink" /\ executor'.next = next[executor.f]
        /\ executor'.runData = IF executor.f \in item THEN executor.f ELSE Null
        /\ item' = item \ {executor.f} /\ next' = [next EXCEPT ![executor.f] = Null]
    BY <1>0, <1>12 DEF Take, ExecutorAt, ExecutorType
  <2>2. Waits
    BY <1>7, <1>8, <2>1 DEF Resting
  <2>3. executor.f = call /\ Full /\ next = [k \in Call |-> Null]
    BY <1>6, <2>1, <2>2 DEF Turns, Resting, ExecutorAt
  <2>4. next' = [k \in Call |-> Null] /\ executor'.next = Null
    BY <1>9, <2>1, <2>2, <2>3
  <2>5. executor'.runData = Current(c)' /\ Holds({}, call, call, 1)'
    BY <1>5, <2>1, <2>3 DEF Holds
  <2> QED
    BY <1>2, <1>4, <1>5, <1>6, <2>1, <2>2, <2>4, <2>5 DEF Turns, ExecutorAt
<1>13. CASE Unlink
  <2>1. /\ executor.pc = "unlink" /\ UNCHANGED <<last, next, item, size, callers, runs>>
        /\ first' = executor.next /\ executor'.runData = executor.runData
        /\ executor'.pc = IF executor.next = Null THEN "unlinkLast" ELSE "pollReadSize"
    BY <1>0, <1>13 DEF Unlink, ExecutorAt, ExecutorType
  <2>2. Waits
    BY <1>7, <1>8, <2>1 DEF Resting
  <2>3. executor.runData = call /\ executor.next = Null /\ Holds({}, call, call, 1)
    BY <1>6, <2>1, <2>2 DEF Turns, Resting, ExecutorAt
  <2>4. executor'.pc = "unlinkLast" /\ executor'.runData = Current(c)' /\ Holds({}, Null, call, 1)'
    BY <1>5, <2>1, <2>3 DEF Holds
  <2> QED
    BY <1>2, <1>4, <1>5, <1>6, <2>1, <2>2, <2>4 DEF Turns, ExecutorAt
<1>14. CASE UnlinkLast
  <2>1. /\ executor.pc = "unlinkLast" /\ UNCHANGED <<first, next, item, size, callers, runs>>
        /\ last' = Null /\ executor'.runData = executor.runData
        /\ executor'.pc = "pollReadSize"
    BY <1>0, <1>14 DEF UnlinkLast, ExecutorAt, ExecutorGoes, ExecutorType
  <2>2. Waits
    BY <1>7, <1>8, <2>1 DEF Resting
  <2>3. executor.runData = call /\ Holds({}, Null, call, 1)
    BY <1>6, <2>1, <2>2 DEF Turns, Resting, ExecutorAt
  <2>4. executor'.runData = Current(c)' /\ Holds({}, Null, Null, 1)'
    BY <1>5, <2>1, <2>3 DEF Holds
  <2> QED
    BY <1>2, <1>4, <1>5, <1>6, <2>1, <2>2, <2>4 DEF Turns, ExecutorAt
<1>15. CASE PollReadSize
  <2>1. /\ executor.pc = "pollReadSize" /\ UNCHANGED <<first, last, next, item, size, callers, runs>>
        /\ executor'.runData = executor.runData /\ executor'.size = size
        /\ executor'.pc = "pollWriteSize"
    BY <1>0, <1>15 DEF PollReadSize, ExecutorAt, ExecutorType, queue
  <2>2. Waits
    BY <1>7, <1>8, <2>1 DEF Resting
  <2>3. executor.runData = call /\ Holds({}, Null, Null, 1)
    BY <1>6, <2>1, <2>2 DEF Turns, Resting, ExecutorAt
  <2>4. executor'.runData = Current(c)' /\ Holds({}, Null, Null, 1)' /\ executor'.size = 1
    BY <1>5, <2>1, <2>3 DEF Holds
  <2> QED
    BY <1>2, <1>4, <1>5, <1>6, <2>1, <2>2, <2>4 DEF Turns, ExecutorAt
<1>16. CASE PollWriteSize
  <2>1. /\ executor.pc = "pollWriteSize" /\ UNCHANGED <<first, last, next, item, callers, runs>>
        /\ size' = executor.size - 1 /\ executor'.runData = executor.runData
        /\ executor'.pc = IF executor.runData = Null THEN "clearItems" ELSE "run"
    BY <1>0, <1>16 DEF PollWriteSize, ExecutorAt, ExecutorType
  <2>2. Waits
    BY <1>7, <1>8, <2>1 DEF Resting
  <2>3. executor.runData = call /\ Holds({}, Null, Null, 1) /\ executor.size = 1
    BY <1>6, <2>1, <2>2 DEF Turns, Resting, ExecutorAt
  <2>4. executor'.pc = "run" /\ executor'.runData = Current(c)'
    BY <1>5, <1>9, <2>1, <2>2, <2>3, NullFacts
  <2>5. size' = 0
    BY <2>1, <2>3
  <2>6. Empty'
    BY <2>1, <2>3, <2>5 DEF Holds
  <2> QED
    BY <1>2, <1>4, <1>5, <1>6, <2>1, <2>2, <2>4, <2>6 DEF Turns, ExecutorAt
<1>17. CASE Run \/ RunEndsExecutor
  <2> DEFINE this == [call |-> executor.runData, params |-> params]
             n == Len(runs)
  <2>1. /\ executor.pc = "run" /\ UNCHANGED <<first, last, next, item, size, callers>>
        /\ runs' = Append(runs, this) /\ executor'.runData = executor.runData
        /\ executor'.pc \in {"notify", "dead"}
    BY <1>0, <1>17 DEF Run, RunEndsExecutor, ExecutorAt, ExecutorGoes, ExecutorType, queue
  <2>2. Waits
    BY <1>7, <1>8, <2>1 DEF Resting
  <2>3. executor.runData = call /\ Empty
    BY <1>6, <2>1, <2>2 DEF Turns, Resting, ExecutorAt
  <2>4. executor'.runData = Current(c)' /\ Empty'
    BY <1>5, <2>1, <2>3 DEF Holds
  <2>5. this.params = call /\ this.call = call
    BY <1>6, <1>9, <2>2, <2>3 DEF Turns
  <2>6. \A i \in 1..Len(runs') : runs'[i].params = runs'[i].call
    <3>1. this \in RunType
      BY <1>9, <2>2, <2>3, Types DEF IInv, OthersOK, RunType
    <3> HIDE DEF this
    <3>2. n \in Nat /\ Len(runs') = n + 1 /\ runs'[n + 1] = this
          /\ \A i \in 1..n : runs'[i] = runs[i]
      BY <1>0, <2>1, <3>1, AppendProperties, LenProperties
    <3>3. \A i \in 1..n : runs[i].params = runs[i].call
      BY <1>6 DEF Turns
    <3> HIDE DEF n
    <3>4. \A i \in 1..(n + 1) : i \in 1..n \/ i = n + 1
      BY <3>2
    <3> QED
      BY <2>5, <3>2, <3>3, <3>4
  <2> QED
    BY <1>2, <1>4, <1>5, <1>6, <2>1, <2>2, <2>4, <2>6 DEF Turns, ExecutorAt
<1>18. CASE NotifyCaller
  <2>1. /\ executor.pc = "notify" /\ UNCHANGED <<first, last, next, item, size, runs>>
        /\ executor'.pc = "check"
    BY <1>0, <1>18 DEF NotifyCaller, ExecutorAt, ExecutorType, queue
  <2>2. Waits
    BY <1>7, <1>8, <2>1 DEF Resting
  <2>3. executor.runData = call /\ Empty
    BY <1>6, <2>1, <2>2 DEF Turns, Resting, ExecutorAt
  <2>4. Empty' /\ Resting'
    BY <2>1, <2>3 DEF Holds, Resting
  <2>5. callers'[c].pc \in {"idle", "notify", "wait", "waiting"}
    BY <1>0, <1>18, <2>2, <2>3 DEF NotifyCaller, Go, Current, CallerType
  <2> QED
    BY <1>2, <1>4, <1>5, <1>6, <2>1, <2>4, <2>5 DEF Turns
<1>19. ~(ClearItems \/ ClearLast \/ ClearFirst \/ ClearSize)
  BY <1>6, <1>7, <1>8 DEF ClearItems, ClearLast, ClearFirst, ClearSize, Turns, Resting, ExecutorAt
<1> QED
  BY <1>1, <1>10, <1>11, <1>12, <1>13, <1>14, <1>15, <1>16, <1>17, <1>18, <1>19
     DEF ExecutorContinues

-----------------------------------------------------------------------------
(* The calls of a lone caller run in order, synchronous or not.             *)

(* The number of the last call of c whose list node can be reached.         *)
Reachable(c) ==
    IF callers[c].pc \in {"readLast", "writeLast", "link"} THEN callers[c].n - 1 ELSE callers[c].n

(* x is null, or a later call than all that ran and the one at hand.        *)
Later(x) ==
    x = Null \/ ( /\ \A i \in 1..Len(runs) : runs[i].call[2] < x[2]
                  /\ executor.runData # Null => executor.runData[2] < x[2] )

(* The links lead from earlier calls to later ones, and so does the         *)
(* executor, wherever c cuts the list in two.                               *)
Order(c) ==
    LET NotAfter(x, n) == x = Null \/ x[2] <= n
    IN  /\ \A x \in {first, executor.f, executor.next, executor.runData} : NotAfter(x, Reachable(c))
        /\ \A call \in Call : NotAfter(next[call], Reachable(c))
        /\ \A i \in 1..Len(runs) : runs[i].call[2] <= Reachable(c)
        /\ NotAfter(last, callers[c].n) /\ (At(c, "readLast") => NotAfter(last, callers[c].n - 1))
        /\ At(c, "writeLast") \/ At(c, "link") => NotAfter(callers[c].l, callers[c].n - 1)
        /\ \A call \in Call : next[call] = Null \/ call[2] < next[call][2]
        /\ ~ExecutorAt("unlink") => Later(first)
        /\ ExecutorAt("take") => Later(executor.f)
        /\ ExecutorAt("unlink") => Later(executor.next)
        /\ Holding /\ executor.runData # Null =>
              \A i \in 1..Len(runs) : runs[i].call[2] < executor.runData[2]
        /\ \A i, j \in 1..Len(runs) : i < j => runs[i].call[2] < runs[j].call[2]

OrderInv == \A c \in Caller : Alone(c) => Order(c)

(* Calls have numbers, and the links and ends lead to calls.                *)
LEMMA Numbers ==
  ASSUME IInv
  PROVE  /\ \A call \in Call : call[2] \in Nat
         /\ {first, last, executor.f, executor.next, executor.runData} \subseteq Call \union {Null}
         /\ \A call \in Call : next[call] \in Call \union {Null}
         /\ \A i \in 1..Len(runs) : runs[i].call \in Call
         /\ \A c \in Caller : callers[c].n \in Nat /\ callers[c].l \in Call \union {Null}
<1>1. QueueOK /\ ExecutorOK /\ OthersOK /\ RunsOK
  BY Types DEF IInv
<1>2. MaxCalls \in Nat
  BY ThreadNodeAssumption DEF ThreadNodeAssumption
<1>3. \A i \in 1..Len(runs) : runs[i] \in RunType
  BY <1>1, ElementOfSeq DEF RunsOK
<1> QED
  BY <1>1, <1>2, <1>3 DEF QueueOK, ExecutorOK, ExecutorType, OthersOK, CallerType, RunType, Call

(* A step that only moves a caller that has linked its call.                *)
LEMMA OrderAside ==
  ASSUME IInv, NEW c \in Caller, Order(c), NEW pc, Moves(c, pc, callers[c].n),
         callers[c].pc \notin {"readLast", "writeLast", "link"},
         pc \notin {"readLast", "writeLast", "link"},
         UNCHANGED <<first, last, next, runs>>,
         \/ UNCHANGED executor
         \/ ExecutorAt("waiting") /\ ExecutorGoes("check")
  PROVE  Order(c)'
<1>1. Reachable(c)' = Reachable(c) /\ callers'[c].n = callers[c].n
  BY DEF Reachable, Moves
<1>2. /\ executor'.f = executor.f /\ executor'.next = executor.next
      /\ executor'.runData = executor.runData
      /\ executor'.pc = executor.pc \/ (executor.pc = "waiting" /\ executor'.pc = "check")
  BY Types DEF IInv, ExecutorOK, ExecutorType, ExecutorAt, ExecutorGoes
<1>3. \A x : Later(x)' = Later(x)
  BY <1>2 DEF Later
<1>4. callers'[c].pc \notin {"readLast", "writeLast", "link"}
  BY DEF Moves
<1> QED
  BY <1>1, <1>2, <1>3, <1>4 DEF Order, At, ExecutorAt, Holding

(* A call begins after all that are in the list.                            *)
LEMMA BeginOrder ==
  ASSUME IInv, OrderInv, NEW d \in Caller, NEW async \in Async, Begin(d, async)
  PROVE  OrderInv'
<1> SUFFICES ASSUME NEW c \in Caller, Alone(c)'
             PROVE  Order(c)'
  BY DEF OrderInv
<1>0. /\ callers \in [Caller -> CallerType] /\ callers[d].n \in Nat
      /\ callers[d].n + 1 \in 1..MaxCalls
  BY CallerFacts, RoomForCall DEF IInv, Begin
<1> DEFINE n == callers[d].n
<1>1. Moves(d, "readLast", n + 1)
  BY <1>0 DEF Begin, Moves, CallerType
<1>2. callers[d].pc = "idle" /\ UNCHANGED <<first, last, next, executor, runs>>
  BY DEF Begin, At, queue
<1>3. Made \subseteq Made' /\ <<d, n + 1>> \in Made'
  <2>1. \A b \in Caller : callers'[b].n = IF b = d THEN n + 1 ELSE callers[b].n
    BY <1>1 DEF Moves
  <2> HIDE DEF n
  <2>2. ASSUME NEW call \in Made PROVE call \in Made'
    <3>1. call \in Call /\ call[1] \in Caller /\ call[2] \in Nat /\ call[2] <= callers[call[1]].n
      BY <2>2 DEF Made, Call
    <3>2. call[2] <= callers'[call[1]].n
      BY <1>0, <2>1, <3>1 DEF n
    <3> QED
      BY <3>1, <3>2 DEF Made
  <2>3. <<d, n + 1>> \in Made'
    BY <1>0, <2>1 DEF Made, Call, n
  <2> QED
    BY <2>2, <2>3
<1>4. d = c /\ Alone(c)
  BY <1>3 DEF Alone
<1>5. Order(c)
  BY <1>4 DEF OrderInv
<1> HIDE DEF n
<1>6. n \in Nat /\ callers[c].n = n /\ callers'[c].n = n + 1 /\ callers'[c].pc = "readLast"
  BY <1>0, <1>1, <1>4 DEF Moves, n
<1>7. Reachable(c)' = Reachable(c) /\ Reachable(c) = n /\ callers'[c].n - 1 = n
  <2>1. Reachable(c) = n
    BY <1>2, <1>4, <1>6 DEF Reachable
  <2>2. Reachable(c)' = callers'[c].n - 1
    BY <1>6 DEF Reachable
  <2>3. n + 1 - 1 = n
    BY <1>6
  <2> QED
    BY <1>6, <2>1, <2>2, <2>3
<1>8. last = Null \/ (last[2] <= n /\ last[2] <= n + 1)
  BY <1>5, <1>6, Numbers DEF Order
<1>9. \A x : Later(x)' = Later(x)
  BY <1>2 DEF Later
<1>10. /\ last' = Null \/ last'[2] <= callers'[c].n
       /\ last' = Null \/ last'[2] <= callers'[c].n - 1
  BY <1>2, <1>6, <1>7, <1>8
<1> QED
  BY <1>2, <1>5, <1>6, <1>7, <1>9, <1>10 DEF Order, At, ExecutorAt, Holding

(* A new call is linked behind an earlier one, or becomes the first.        *)
LEMMA CallerOrder ==
  ASSUME IInv, OrderInv, NEW d \in Caller, CallerContinues(d) \/ WakeSpuriously(d)
  PROVE  OrderInv'
<1> SUFFICES ASSUME NEW c \in Caller, Alone(c)'
             PROVE  Order(c)'
  BY DEF OrderInv
<1>0. /\ callers \in [Caller -> CallerType] /\ callers[c].n \in Nat
  BY CallerFacts, Numbers DEF IInv
<1>1. callers[d].pc # "idle"
  BY DEF CallerContinues, ReadLast, WriteLast, LinkFirst, LinkNext, ReadSize, WriteSize,
     NotifyQueue, WaitForRun, WakeSpuriously, At
<1>2. \A b \in Caller : callers'[b].n = callers[b].n
  BY <1>0 DEF CallerContinues, ReadLast, WriteLast, LinkFirst, LinkNext, ReadSize, WriteSize,
     NotifyQueue, WaitForRun, WakeSpuriously, Go, CallerType
<1>3. Made' = Made /\ Current(c)' = Current(c)
  BY <1>2 DEF Made, Call, Current
<1>4. Alone(c) /\ Order(c)
  BY <1>3 DEF Alone, OrderInv
<1>5. d = c
  BY <1>1, <1>4, OthersIdle
<1>6. Current(c) \in Call /\ Current(c)[2] = callers[c].n
  BY <1>1, <1>5, CallerFacts DEF IInv, InCall, Current
<1> DEFINE n == callers[c].n
<1>7. CASE ReadLast(c)
  <2>1. /\ callers[c].pc = "readLast" /\ callers'[c].pc = "writeLast" /\ callers'[c].l = last
        /\ UNCHANGED <<first, last, next, runs, executor>>
    BY <1>0, <1>7 DEF ReadLast, At, CallerType
  <2>2. Reachable(c)' = Reachable(c)
    BY <1>2, <2>1 DEF Reachable
  <2>3. \A x : Later(x)' = Later(x)
    BY <2>1 DEF Later
  <2> QED
    BY <1>2, <1>4, <2>1, <2>2, <2>3 DEF Order, At, ExecutorAt, Holding
<1>8. CASE WriteLast(c)
  <2>1. /\ callers[c].pc = "writeLast" /\ callers'[c].pc = "link"
        /\ callers'[c].l = callers[c].l /\ last' = Current(c)
        /\ UNCHANGED <<first, next, runs, executor>>
    BY <1>0, <1>8 DEF WriteLast, At, Go, CallerType
  <2>2. Reachable(c)' = Reachable(c)
    BY <1>2, <2>1 DEF Reachable
  <2>3. \A x : Later(x)' = Later(x)
    BY <2>1 DEF Later
  <2>4. Current(c)[2] <= n
    BY <1>0, <1>6
  <2> QED
    BY <1>2, <1>4, <2>1, <2>2, <2>3, <2>4 DEF Order, At, ExecutorAt, Holding
<1>9. CASE LinkFirst(c) \/ LinkNext(c)
  <2>1. /\ callers[c].pc = "link" /\ callers'[c].pc = "readSize"
        /\ UNCHANGED <<last, runs, executor>>
    BY <1>0, <1>9 DEF LinkFirst, LinkNext, At, Go, CallerType
  <2>2. Reachable(c) = n - 1 /\ Reachable(c)' = n
    BY <1>2, <2>1 DEF Reachable
  <2>3. \A x : Later(x)' = Later(x)
    BY <2>1 DEF Later
  <2>4. Later(Current(c))
    <3>1. \A i \in 1..Len(runs) : runs[i].call[2] < n
      BY <1>0, <1>4, <2>2, Numbers DEF Order
    <3>2. executor.runData # Null => executor.runData[2] < n
      BY <1>0, <1>4, <2>2, Numbers DEF Order
    <3> QED
      BY <1>6, <3>1, <3>2 DEF Later
  <2> DEFINE NotAfter(x) == x = Null \/ x[2] <= n
  <2>5. \A x \in {first, executor.f, executor.next, executor.runData} : NotAfter(x)
    <3>1. \A x \in Call : x[2] <= n - 1 => x[2] <= n
      BY <1>0, Numbers
    <3> QED
      BY <1>4, <2>2, <3>1, Numbers DEF Order
  <2>6. \A i \in 1..Len(runs) : runs[i].call[2] <= n
    BY <1>0, <1>4, <2>2, Numbers DEF Order
  <2>7. \A call \in Call : NotAfter(next[call])
    BY <1>0, <1>4, <2>2, Numbers DEF Order
  <2>8. NotAfter(Current(c))
    BY <1>0, <1>6
  <2>9. /\ first' \in {first, Current(c)}
        /\ \A call \in Call : NotAfter(next'[call]) /\ (next'[call] = Null \/ call[2] < next'[call][2])
    <3>1. CASE LinkFirst(c)
      BY <1>4, <2>7, <3>1 DEF LinkFirst, Order
    <3>2. CASE LinkNext(c)
      <4>1. /\ callers[c].l \in Call /\ callers[c].l[2] <= n - 1 /\ first' = first
            /\ next' = [next EXCEPT ![callers[c].l] = Current(c)]
        BY <1>4, <2>1, <3>2, Numbers DEF LinkNext, Order, At
      <4>2. callers[c].l[2] < Current(c)[2]
        BY <1>0, <1>6, <4>1, Numbers
      <4>3. next \in [Call -> Call \union {Null}]
        BY Types DEF IInv, QueueOK
      <4>4. ASSUME NEW call \in Call
            PROVE  NotAfter(next'[call]) /\ (next'[call] = Null \/ call[2] < next'[call][2])
        <5>1. CASE call = callers[c].l
          BY <2>8, <4>1, <4>2, <4>3, <5>1
        <5>2. CASE call # callers[c].l
          BY <1>4, <2>7, <4>1, <4>3, <5>2 DEF Order
        <5> QED
          BY <5>1, <5>2
      <4> QED
        BY <4>1, <4>4
    <3> QED
      BY <1>9, <3>1, <3>2
  <2>10. /\ ~ExecutorAt("unlink") => Later(first')
         /\ NotAfter(first')
    BY <1>4, <2>4, <2>5, <2>8, <2>9 DEF Order
  <2>11. callers'[c].n = n /\ callers'[c].pc = "readSize"
    BY <1>2, <2>1
  <2>12. /\ \A x \in {first', executor.f, executor.next, executor.runData} : NotAfter(x)
         /\ NotAfter(last)
    BY <1>4, <2>5, <2>10 DEF Order
  <2>13. Later(first)' <=> Later(first')
    BY <2>1 DEF Later
  <2> QED
    BY <1>4, <2>1, <2>2, <2>3, <2>6, <2>9, <2>10, <2>11, <2>12, <2>13 DEF Order, At, ExecutorAt, Holding
<1>10. CASE ReadSize(c) \/ WriteSize(c) \/ NotifyQueue(c) \/ WaitForRun(c) \/ WakeSpuriously(c)
  <2>1. /\ callers[c].pc \notin {"readLast", "writeLast", "link"}
        /\ UNCHANGED <<first, last, next, runs>>
        /\ UNCHANGED executor \/ (ExecutorAt("waiting") /\ ExecutorGoes("check"))
    BY <1>10 DEF ReadSize, WriteSize, NotifyQueue, WaitForRun, WakeSpuriously, At, queue
  <2>2. PICK pc : pc \notin {"readLast", "writeLast", "link"} /\ Moves(c, pc, n)
    <3>1. CASE ReadSize(c)
      BY <1>0, <3>1 DEF ReadSize, Moves, CallerType
    <3>2. CASE WriteSize(c)
      BY <1>0, <3>2 DEF WriteSize, Moves, CallerType
    <3>3. CASE NotifyQueue(c) \/ WaitForRun(c) \/ WakeSpuriously(c)
      <4>1. PICK pc \in {"wait", "waiting", "idle"} : callers' = [callers EXCEPT ![c].pc = pc]
        BY <3>3 DEF NotifyQueue, AfterNotify, WaitForRun, WakeSpuriously, Go
      <4>2. Moves(c, pc, n)
        BY <1>0, <4>1 DEF Moves, CallerType
      <4> QED
        BY <4>2
    <3> QED
      BY <1>10, <3>1, <3>2, <3>3
  <2> QED
    BY <1>4, <2>1, <2>2, OrderAside
<1> QED
  BY <1>5, <1>7, <1>8, <1>9, <1>10 DEF CallerContinues

(* The executor takes calls out from the front.                             *)
LEMMA ExecutorOrder ==
  ASSUME IInv, OrderInv, ExecutorContinues \/ ExecutorWakesSpuriously \/ RunEndsExecutor
  PROVE  OrderInv'
<1> SUFFICES ASSUME NEW c \in Caller, Alone(c)'
             PROVE  Order(c)'
  BY DEF OrderInv
<1>0. /\ callers \in [Caller -> CallerType] /\ executor \in ExecutorType /\ QueueOK
      /\ runs \in Seq(RunType)
  BY Types DEF IInv, OthersOK, ExecutorOK, RunsOK
<1>1. NotifyCaller \/ UNCHANGED callers
  BY DEF ExecutorContinues, CheckQueue, WaitForCalls, ExecutorWakesSpuriously, PollFirst, Take,
     Unlink, UnlinkLast, PollReadSize, PollWriteSize, Run, RunEndsExecutor,
     ClearItems, ClearLast, ClearFirst, ClearSize
<1>2. \A b \in Caller : /\ callers'[b].n = callers[b].n /\ callers'[b].l = callers[b].l
                        /\ \/ callers'[b].pc = callers[b].pc
                           \/ callers[b].pc = "waiting" /\ callers'[b].pc = "idle"
  <2>1. CASE UNCHANGED callers
    BY <2>1
  <2>2. CASE NotifyCaller /\ ~UNCHANGED callers
    <3>1. PICK d : callers[d].pc = "waiting" /\ callers' = [callers EXCEPT ![d].pc = "idle"]
      BY <2>2 DEF NotifyCaller, At, Go
    <3> QED
      BY <1>0, <3>1 DEF CallerType
  <2> QED
    BY <1>1, <2>1, <2>2
<1>3. Made' = Made
  BY <1>2 DEF Made, Call
<1>4. Alone(c) /\ Order(c)
  BY <1>3 DEF Alone, OrderInv
<1>5. /\ Reachable(c)' = Reachable(c)
      /\ \A pc \in {"readLast", "writeLast", "link"} : At(c, pc)' <=> At(c, pc)
  BY <1>2 DEF Reachable, At
<1> DEFINE max == Reachable(c)
           NotAfter(x) == x = Null \/ x[2] <= max
           Ups == \A call \in Call : NotAfter(next[call]) /\ (next[call] = Null \/ call[2] < next[call][2])
<1>6. CASE CheckQueue \/ WaitForCalls \/ ExecutorWakesSpuriously \/ PollReadSize
           \/ PollWriteSize \/ NotifyCaller \/ ClearSize
  <2>1. /\ UNCHANGED <<first, last, next, runs>>
        /\ executor'.f = executor.f /\ executor'.next = executor.next
        /\ executor'.runData \in {executor.runData, Null}
        /\ executor.pc # "unlink" /\ executor'.pc \notin {"unlink", "take"}
        /\ Holding' => Holding
    BY <1>0, <1>6 DEF CheckQueue, WaitForCalls, ExecutorWakesSpuriously, PollReadSize, PollWriteSize,
       NotifyCaller, ClearSize, ExecutorAt, ExecutorGoes, Holding, ExecutorType, queue
  <2>2. \A x : Later(x) => Later(x)'
    BY <2>1 DEF Later
  <2> QED
    BY <1>2, <1>4, <1>5, <2>1, <2>2 DEF Order, ExecutorAt
<1>7. CASE UnlinkLast \/ ClearLast \/ ClearFirst \/ ClearItems
  <2>1. /\ first' \in {first, Null} /\ last' \in {last, Null} /\ runs' = runs
        /\ executor'.f = executor.f /\ executor'.next = executor.next
        /\ executor'.runData = executor.runData
        /\ executor.pc # "unlink" /\ executor'.pc \notin {"unlink", "take"}
        /\ Holding' => Holding
    BY <1>0, <1>7 DEF UnlinkLast, ClearLast, ClearFirst, ClearItems, ExecutorAt, ExecutorGoes,
       Holding, ExecutorType
  <2>2. \A x : Later(x)' <=> Later(x)
    BY <2>1 DEF Later
  <2>3. \A call \in Call : next'[call] \in {next[call], Null}
    BY <1>7 DEF UnlinkLast, ClearLast, ClearFirst, ClearItems
  <2>4. Later(first') \/ executor.pc = "unlink"
    BY <1>4, <2>1 DEF Order, Later, ExecutorAt
  <2> QED
    BY <1>2, <1>4, <1>5, <2>1, <2>2, <2>3, <2>4 DEF Order, ExecutorAt
<1>8. CASE PollFirst
  <2>1. /\ UNCHANGED <<first, last, next, runs>> /\ executor.pc = "poll"
        /\ executor'.f = first /\ executor'.next = executor.next
        /\ executor'.runData = executor.runData
        /\ executor'.pc \in {"take", "clearItems"}
    BY <1>0, <1>8 DEF PollFirst, ExecutorAt, ExecutorType, queue
  <2>2. \A x : Later(x)' <=> Later(x)
    BY <2>1 DEF Later
  <2>3. Later(first) /\ NotAfter(first)
    BY <1>4, <2>1 DEF Order, ExecutorAt
  <2>4. ~Holding'
    BY <2>1 DEF Holding
  <2> QED
    BY <1>2, <1>4, <1>5, <2>1, <2>2, <2>3, <2>4 DEF Order, ExecutorAt
<1>9. CASE Take
  <2> DEFINE f == executor.f
  <2>1. /\ UNCHANGED <<first, last, runs>> /\ executor.pc = "take"
        /\ executor'.f = Null /\ executor'.next = next[f]
        /\ executor'.runData \in {f, Null}
        /\ executor'.pc = "unlink" /\ next' = [next EXCEPT ![f] = Null]
    BY <1>0, <1>9 DEF Take, ExecutorAt, ExecutorType
  <2>2. f \in Call /\ Later(f) /\ NotAfter(f) /\ f # Null
    BY <1>0, <1>4, <2>1, Types, NullFacts DEF IInv, ExecutorOK, ExecutorType, ExecutorAt, Order
  <2>3. \A call \in Call : next'[call] \in {next[call], Null}
    BY <1>0, <2>1 DEF QueueOK
  <2>4. NotAfter(next[f]) /\ (next[f] = Null \/ f[2] < next[f][2])
    BY <1>4, <2>2 DEF Order
  <2>5. \A i \in 1..Len(runs) : runs[i].call[2] < f[2]
    BY <2>2 DEF Later
  <2> HIDE DEF f
  <2>6. next[f] = Null \/ \A i \in 1..Len(runs) : runs[i].call[2] < next[f][2]
    BY <2>2, <2>4, <2>5, Numbers
  <2>7. Later(executor.next)'
    BY <2>1, <2>4, <2>6 DEF Later
  <2>8. \A x \in {first', executor'.f, executor'.next, executor'.runData} : NotAfter(x)
    BY <1>4, <2>1, <2>2, <2>4 DEF Order
  <2>9. /\ \A call \in Call : NotAfter(next'[call])
        /\ \A call \in Call : next'[call] = Null \/ call[2] < next'[call][2]
    BY <1>4, <2>3 DEF Order
  <2> QED
    BY <1>2, <1>4, <1>5, <2>1, <2>5, <2>7, <2>8, <2>9 DEF Order, ExecutorAt, Holding
<1>10. CASE Unlink
  <2>1. /\ UNCHANGED <<last, next, runs>> /\ executor.pc = "unlink"
        /\ first' = executor.next /\ executor'.next = Null /\ executor'.f = executor.f
        /\ executor'.runData = executor.runData
        /\ executor'.pc \in {"unlinkLast", "pollReadSize"}
    BY <1>0, <1>10 DEF Unlink, ExecutorAt, ExecutorType
  <2>2. \A x : Later(x)' <=> Later(x)
    BY <2>1 DEF Later
  <2>3. Later(executor.next) /\ NotAfter(executor.next) /\ Holding
    BY <1>4, <2>1 DEF Order, ExecutorAt, Holding
  <2>4. Later(first)'
    BY <2>1, <2>3 DEF Later
  <2> QED
    BY <1>2, <1>4, <1>5, <2>1, <2>3, <2>4 DEF Order, ExecutorAt
<1>11. CASE Run \/ RunEndsExecutor
  <2> DEFINE call == executor.runData
             this == [call |-> call, params |-> params]
             n == Len(runs)
  <2>1. /\ UNCHANGED <<first, last, next>> /\ executor.pc = "run"
        /\ executor'.f = executor.f /\ executor'.next = executor.next
        /\ executor'.runData = call
        /\ executor'.pc \in {"notify", "dead"} /\ runs' = Append(runs, this)
    BY <1>0, <1>11 DEF Run, RunEndsExecutor, ExecutorAt, ExecutorGoes, ExecutorType, queue
  <2>2. call \in Call /\ call # Null /\ NotAfter(call)
    BY <1>4, <2>1, NullFacts, Types DEF IInv, ExecutorOK, ExecutorType, Order
  <2>3. this \in RunType /\ this.call = call
    BY <2>2, Types DEF IInv, OthersOK, RunType
  <2> HIDE DEF this
  <2>4. n \in Nat /\ Len(runs') = n + 1 /\ runs'[n + 1] = this
        /\ \A i \in 1..n : runs'[i] = runs[i]
    BY <1>0, <2>1, <2>3, AppendProperties, LenProperties
  <2>5. /\ \A i \in 1..n : runs[i].call[2] < call[2] /\ runs[i].call[2] <= max
        /\ \A i, j \in 1..n : i < j => runs[i].call[2] < runs[j].call[2]
    BY <1>4, <2>1, <2>2 DEF Order, Holding
  <2>6. first = Null \/ (call[2] < first[2] /\ \A i \in 1..n : runs[i].call[2] < first[2])
    BY <1>4, <2>1, <2>2 DEF Order, Later, ExecutorAt
  <2> HIDE DEF n, call
  <2>7. \A i \in 1..(n + 1) : i \in 1..n \/ i = n + 1
    BY <2>4
  <2>8. /\ \A i \in 1..Len(runs') : runs'[i].call[2] <= max
        /\ \A i, j \in 1..Len(runs') : i < j => runs'[i].call[2] < runs'[j].call[2]
    BY <2>2, <2>3, <2>4, <2>5, <2>7
  <2>9. Later(first)'
    <3>1. first = Null \/ \A i \in 1..Len(runs') : runs'[i].call[2] < first[2]
      BY <2>3, <2>4, <2>6, <2>7
    <3> QED
      BY <2>1, <2>6, <3>1 DEF Later
  <2>10. ~Holding' /\ executor'.pc \notin {"take", "unlink"}
    BY <2>1 DEF Holding
  <2>11. \A x \in {first', executor'.f, executor'.next, executor'.runData} : NotAfter(x)
    BY <1>4, <2>1, <2>2 DEF Order
  <2> QED
    BY <1>2, <1>4, <1>5, <2>1, <2>8, <2>9, <2>10, <2>11 DEF Order, ExecutorAt
<1> QED
  BY <1>6, <1>7, <1>8, <1>9, <1>10, <1>11 DEF ExecutorContinues

-----------------------------------------------------------------------------
(* The theorems.                                                            *)

(* The invariant holds at first.                                            *)
LEMMA InitIInv == Init => IInv
<1> SUFFICES ASSUME Init PROVE IInv
  OBVIOUS
<1>1. TypeOK
  <2>1. ExecutorOK
    BY DEF Init, ExecutorOK, ExecutorType, ExecutorAt
  <2>2. QueueOK
    BY DEF Init, QueueOK
  <2>3. OthersOK
    BY ThreadNodeAssumption DEF ThreadNodeAssumption, Init, OthersOK, CallerType
  <2>4. RunsOK
    BY DEF Init, RunsOK
  <2> QED
    BY <2>1, <2>2, <2>3, <2>4, Types
<1>2. InCall
  BY DEF Init, InCall
<1>3. Ran = {}
  <2>1. runs = <<>>
    BY DEF Init
  <2>2. Len(runs) = 0
    BY <2>1
  <2> QED
    BY <2>2 DEF Ran
<1>4. OneWay
  BY <1>3 DEF Init, OneWay, Holding, ExecutorAt
<1>5. RunsOnce
  BY DEF Init, RunsOnce
<1>6. ReturnsAfterRun
  BY DEF Init, ReturnsAfterRun
<1> QED
  BY <1>1, <1>2, <1>4, <1>5, <1>6 DEF IInv

(* Every step keeps it.                                                     *)
LEMMA StepIInv == IInv /\ [Next]_vars => IInv'
<1> SUFFICES ASSUME IInv, [Next]_vars PROVE IInv'
  OBVIOUS
<1>1. CASE \E c \in Caller, async \in Async : Begin(c, async)
  BY <1>1, BeginType, BeginStep DEF IInv
<1>2. CASE \E c \in Caller : CallerContinues(c) \/ WakeSpuriously(c)
  BY <1>2, CallerStepType, CallerStep DEF IInv
<1>3. CASE ExecutorContinues \/ ExecutorWakesSpuriously \/ RunEndsExecutor
  BY <1>3, ExecutorStepType, ExecutorStep DEF IInv
<1>4. CASE UNCHANGED vars
  <2>1. UNCHANGED <<first, last, next, item, size, asynchronous, params, callers, executor,
                    runs, spurious, errors>>
    BY <1>4 DEF vars, queue, bounds
  <2>2. TypeOK'
    <3>1. ExecutorOK /\ QueueOK /\ OthersOK /\ RunsOK
      BY Types DEF IInv
    <3>2. ExecutorOK' /\ QueueOK' /\ OthersOK' /\ RunsOK'
      BY <2>1, <3>1 DEF ExecutorOK, ExecutorAt, QueueOK, OthersOK, RunsOK
    <3> QED
      BY <3>2, Types
  <2>3. InCall' /\ RunsOnce' /\ ReturnsAfterRun'
    BY <2>1 DEF IInv, InCall, RunsOnce, ReturnsAfterRun, At, Current
  <2>4. OneWay'
    BY <2>1 DEF IInv, OneWay, Added, Made, At, Current, Ran, Holding, ExecutorAt
  <2> QED
    BY <2>2, <2>3, <2>4 DEF IInv
<1> QED
  BY <1>1, <1>2, <1>3, <1>4 DEF Next

(* And the turns of a lone caller and the executor.                         *)
LEMMA InitTurns == Init => TurnsInv
<1> SUFFICES ASSUME Init, NEW c \in Caller PROVE Turns(c)
  BY DEF TurnsInv
<1>1. runs = <<>> /\ Len(runs) = 0
  BY DEF Init
<1>2. Resting /\ Holds({}, Null, Null, 0)
  BY DEF Init, Resting, Holds
<1> QED
  BY <1>1, <1>2 DEF Init, Turns

(* Every step keeps them.                                                   *)
LEMMA StepTurns == IInv /\ TurnsInv /\ [Next]_vars => TurnsInv'
<1> SUFFICES ASSUME IInv, TurnsInv, [Next]_vars PROVE TurnsInv'
  OBVIOUS
<1>1. CASE \E c \in Caller, async \in Async : Begin(c, async)
  BY <1>1, BeginTurns
<1>2. CASE \E c \in Caller : CallerContinues(c) \/ WakeSpuriously(c)
  BY <1>2, CallerTurns
<1>3. CASE ExecutorContinues \/ ExecutorWakesSpuriously \/ RunEndsExecutor
  BY <1>3, ExecutorTurns
<1>4. CASE UNCHANGED vars
  <2>1. UNCHANGED <<first, last, next, item, size, asynchronous, params, callers, executor,
                    runs, spurious, errors>>
    BY <1>4 DEF vars, queue, bounds
  <2>2. \A c \in Caller : Turns(c)' = Turns(c)
    BY <2>1 DEF Turns, Current, Resting, Holds, ExecutorAt
  <2>3. \A c \in Caller : Alone(c)' = Alone(c)
    BY <2>1 DEF Alone, Made
  <2> QED
    BY <2>1, <2>2, <2>3 DEF TurnsInv, Undisturbed
<1> QED
  BY <1>1, <1>2, <1>3, <1>4 DEF Next

(* The queue is intact between the turns,                                   *)
LEMMA TurnsQueueIntact == IInv /\ TurnsInv => QueueIntact
<1> SUFFICES ASSUME IInv, TurnsInv, TakingTurns, ExecutorAt("check"),
                    \A c \in Caller : callers[c].pc \in {"idle", "wait", "waiting"}
             PROVE  /\ size = Cardinality(item)
                    /\ (first = Null) = (size = 0)
                    /\ (last = Null) = (size = 0)
  BY DEF QueueIntact
<1>1. PICK c \in Caller : Alone(c) /\ Turns(c)
  BY DEF TakingTurns, TurnsInv, Undisturbed
<1> DEFINE call == Current(c)
<1>2. CASE callers[c].pc = "idle"
  <2>1. Holds({}, Null, Null, 0)
    BY <1>1, <1>2 DEF Turns
  <2> QED
    BY <2>1, FS_EmptySet DEF Holds
<1>3. CASE callers[c].pc \in {"wait", "waiting"}
  <2>1. Holds({}, Null, Null, 0) \/ Holds({call}, call, call, 1)
    BY <1>1, <1>3 DEF Turns, ExecutorAt
  <2>2. call # Null
    BY <1>3, CallerFacts, NullFacts DEF IInv, InCall
  <2> QED
    BY <2>1, <2>2, FS_EmptySet, FS_Singleton DEF Holds
<1> QED
  BY <1>2, <1>3

(* and every run has its own arguments.                                     *)
LEMMA TurnsOwnArguments == TurnsInv => OwnArguments
  BY DEF TurnsInv, Turns, OwnArguments, TakingTurns, Undisturbed

(* The order of a lone caller's calls: at first,                            *)
LEMMA InitOrder == Init => OrderInv
<1> SUFFICES ASSUME Init, NEW c \in Caller PROVE Order(c)
  BY DEF OrderInv
<1>1. runs = <<>> /\ Len(runs) = 0
  BY DEF Init
<1>2. \A i \in 1..Len(runs) : FALSE
  BY <1>1
<1>3. /\ first = Null /\ last = Null /\ executor.f = Null /\ executor.next = Null
      /\ executor.runData = Null /\ executor.pc = "check" /\ callers[c].pc = "idle"
      /\ \A call \in Call : next[call] = Null
  BY DEF Init
<1> QED
  BY <1>2, <1>3 DEF Order, Later, At, ExecutorAt, Holding

(* and after every step.                                                    *)
LEMMA StepOrder == IInv /\ OrderInv /\ [Next]_vars => OrderInv'
<1> SUFFICES ASSUME IInv, OrderInv, [Next]_vars PROVE OrderInv'
  OBVIOUS
<1>1. CASE \E c \in Caller, async \in Async : Begin(c, async)
  BY <1>1, BeginOrder
<1>2. CASE \E c \in Caller : CallerContinues(c) \/ WakeSpuriously(c)
  BY <1>2, CallerOrder
<1>3. CASE ExecutorContinues \/ ExecutorWakesSpuriously \/ RunEndsExecutor
  BY <1>3, ExecutorOrder
<1>4. CASE UNCHANGED vars
  <2>1. UNCHANGED <<first, last, next, callers, executor, runs>>
    BY <1>4 DEF vars, queue
  <2>2. \A x : Later(x)' <=> Later(x)
    BY <2>1 DEF Later
  <2>3. \A c \in Caller : Order(c)' <=> Order(c)
    BY <2>1 DEF Order, Later, Reachable, At, ExecutorAt, Holding
  <2>4. \A c \in Caller : Alone(c)' = Alone(c)
    BY <2>1 DEF Alone, Made
  <2> QED
    BY <2>3, <2>4 DEF OrderInv
<1> QED
  BY <1>1, <1>2, <1>3, <1>4 DEF Next

(* The links of the list, the callers and the executor keep their types.    *)
THEOREM TypeCorrect == Spec => []TypeOK
<1>1. IInv => TypeOK
  BY DEF IInv
<1> QED
  BY <1>1, InitIInv, StepIInv, PTL DEF Spec

(* No call runs twice, whatever callers and executor do to the list         *)
(* (ThreadNode.run, whose runQueue nothing protects).                       *)
THEOREM RunsAtMostOnce == Spec => []RunsOnce
<1>1. IInv => RunsOnce
  BY DEF IInv
<1> QED
  BY <1>1, InitIInv, StepIInv, PTL DEF Spec

(* A synchronous run() that has returned has run its node, unless it woke   *)
(* up for no reason (ThreadNode.run waits without a condition).             *)
THEOREM ReturnsOnlyAfterRun == Spec => []ReturnsAfterRun
<1>1. IInv => ReturnsAfterRun
  BY DEF IInv
<1> QED
  BY <1>1, InitIInv, StepIInv, PTL DEF Spec

(* A synchronous caller that nobody joins leaves the unprotected list       *)
(* intact, however its add and the executor's pollFirst meet.               *)
THEOREM QueueStaysIntact == Spec => []QueueIntact
  BY InitIInv, StepIInv, InitTurns, StepTurns, TurnsQueueIntact, PTL DEF Spec

(* And its calls run with their own arguments, though every call shares     *)
(* the nodes setParams puts them into.                                      *)
THEOREM RunsWithOwnArguments == Spec => []OwnArguments
  BY InitIInv, StepIInv, InitTurns, StepTurns, TurnsOwnArguments, PTL DEF Spec

(* The calls of a caller that nobody joins run in the order it made them,   *)
(* even asynchronous ones, which race with the executor and may be lost.    *)
THEOREM AlwaysInOrder == Spec => []RunsInOrder
<1>1. OrderInv => RunsInOrder
  BY DEF OrderInv, Order, RunsInOrder
<1> QED
  BY <1>1, InitIInv, StepIInv, InitOrder, StepOrder, PTL DEF Spec
=============================================================================
