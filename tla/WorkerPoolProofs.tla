-------------------------- MODULE WorkerPoolProofs --------------------------
(***************************************************************************)
(* Proofs, for every value of the constants, about the worker pool of      *)
(* WorkerPool.tla.                                                         *)
(***************************************************************************)
EXTENDS WorkerPool, FiniteSetTheorems, TLAPS

(* What the locals of the two pool threads hold at each point of           *)
(* distribute_request_internal, stop() and replace_worker.                 *)
Distributing == {"get", "blocking", "waiting", "add"}
StopPoints   == {"stop", "stopping", "joining"}
RecoverPoints == {"drain", "current", "timeout_error", "abandon", "detach",
                  "detach_count"}
ReplacePoints == {"mark", "prepare", "limit", "spawn"}
                   \cup RecoverPoints \cup StopPoints
ThreadLocals ==
  /\ \A t \in Threads :
       /\ th[t].pc \in Distributing => th[t].item \in RequestMetadata
       /\ th[t].pc \in StopPoints => th[t].old \in Objects
  /\ th["sup"].pc \in ReplacePoints => th["sup"].slot \in Slots
  /\ th["sup"].pc \in {"mark", "prepare"} => workers[th["sup"].slot] \in Objects
  /\ th["sup"].pc \in RecoverPoints => th["sup"].old \in Objects
  /\ th["sup"].pc \in {"timeout_error", "abandon"} => th["sup"].seen \in Requests

(* live_detached covers the workers whose detached flag is set.            *)
DetachedFlags == {o \in Objects : w[o].detached}
LeakCount == live_detached >= Cardinality(DetachedFlags)


-----------------------------------------------------------------------------
(* Finite sets of slots and of objects *)

\* There are finitely many slots.
LEMMA SlotsFinite == IsFiniteSet(Slots)
<1>1. 1 \in Int /\ NumWorkers \in Int
  BY PoolAssumption
<1> QED
  BY <1>1, FS_Interval DEF Slots

\* There are finitely many worker objects within the failure budgets.
LEMMA ObjectsFinite == IsFiniteSet(Objects)
<1>1. 1 \in Int /\ NumWorkers + MaxFaults + MaxStalls \in Int
  BY PoolAssumption
<1> QED
  BY <1>1, FS_Interval DEF Objects

\* Slots are objects as well: the constructor's workers.
LEMMA SlotsAreObjects == Slots \subseteq Objects /\ 0 \notin Objects
BY PoolAssumption DEF Slots, Objects

\* A worker that carries the detached flag is in the count.
LEMMA LeakPositive ==
  ASSUME TypeOK, LeakCount, NEW o \in Objects, w[o].detached
  PROVE  live_detached > 0
<1>1. IsFiniteSet(DetachedFlags)
  BY ObjectsFinite, FS_Subset DEF DetachedFlags
<1>2. o \in DetachedFlags
  BY DEF DetachedFlags
<1>3. Cardinality(DetachedFlags) \in Nat /\ Cardinality(DetachedFlags) # 0
  BY <1>1, <1>2, FS_CardinalityType, FS_EmptySet
<1> QED
  BY <1>3 DEF LeakCount, TypeOK

-----------------------------------------------------------------------------
(* Steps of a worker thread *)

\* The loop keeps worker records well formed.
LEMMA PollQueueTyped ==
  ASSUME NEW x \in WorkerRecord
  PROVE  /\ PollQueue(x) \in WorkerRecord
         /\ PollQueue(x).detached = x.detached
<1>1. CASE x.stop
  BY <1>1 DEF PollQueue, WorkerRecord, WorkerState, WorkerPC
<1>2. CASE ~x.stop /\ x.queue # <<>>
  <2>1. x.queue \in Seq(RequestMetadata)
    BY DEF WorkerRecord
  <2>2. Head(x.queue) \in RequestMetadata /\ Tail(x.queue) \in Seq(RequestMetadata)
    BY <1>2, <2>1
  <2>3. Head(x.queue).data \in Requests
    BY <2>2 DEF RequestMetadata
  <2> QED
    BY <1>2, <2>2, <2>3 DEF PollQueue, WorkerRecord, WorkerState, WorkerPC
<1>3. CASE ~x.stop /\ x.queue = <<>>
  BY <1>3 DEF PollQueue, WorkerRecord, WorkerPC
<1> QED
  BY <1>1, <1>2, <1>3

\* notify wakes a waiting worker and changes nothing else.
LEMMA NotifyTyped ==
  ASSUME NEW x \in WorkerRecord
  PROVE  /\ Notify(x) \in WorkerRecord
         /\ Notify(x).detached = x.detached
BY DEF Notify, WorkerRecord, WorkerPC

\* A recorded change of a request keeps its record well formed, also when the
\* name stands for no request.
LEMMA RequestUpdate ==
  ASSUME TypeOK, NEW r
  PROVE  /\ [req EXCEPT ![r].runs = @ + 1] \in [Requests -> RequestRecord]
         /\ [req EXCEPT ![r].responses = @ + 1] \in [Requests -> RequestRecord]
         /\ [req EXCEPT ![r].timeouts = @ + 1] \in [Requests -> RequestRecord]
         /\ [req EXCEPT ![r].discarded = TRUE] \in [Requests -> RequestRecord]
         /\ [req EXCEPT ![r].dropped = TRUE] \in [Requests -> RequestRecord]
         /\ [req EXCEPT ![r].received = TRUE] \in [Requests -> RequestRecord]
<1>1. req \in [Requests -> RequestRecord]
  BY DEF TypeOK
<1>2. CASE r \in Requests
  <2>1. req[r] \in RequestRecord
    BY <1>1, <1>2
  <2>2. /\ [req[r] EXCEPT !.runs = @ + 1] \in RequestRecord
        /\ [req[r] EXCEPT !.responses = @ + 1] \in RequestRecord
        /\ [req[r] EXCEPT !.timeouts = @ + 1] \in RequestRecord
    BY <2>1 DEF RequestRecord
  <2>3. /\ [req[r] EXCEPT !.discarded = TRUE] \in RequestRecord
        /\ [req[r] EXCEPT !.dropped = TRUE] \in RequestRecord
        /\ [req[r] EXCEPT !.received = TRUE] \in RequestRecord
    BY <2>1 DEF RequestRecord
  <2> QED
    BY <1>1, <2>2, <2>3
<1>3. CASE r \notin Requests
  BY <1>1, <1>3
<1> QED
  BY <1>2, <1>3

\* A change of one worker record keeps the worker table typed.
LEMMA WorkerUpdate ==
  ASSUME TypeOK, NEW o, NEW x \in WorkerRecord
  PROVE  [w EXCEPT ![o] = x] \in [Objects -> WorkerRecord]
BY DEF TypeOK

\* Any step of a worker thread, of its handler or of time keeps the types.
LEMMA WorkerStepTyped ==
  ASSUME TypeOK, LeakCount, NEW o \in Objects,
         \/ WorkerLoop(o) \/ WRespond(o)
         \/ WHeartbeat(o) \/ WFault(o) \/ Stall(o)
  PROVE  TypeOK'
<1>0. w[o] \in WorkerRecord
  BY DEF TypeOK
<1>1. CASE WLoopTop(o)
  <2> DEFINE x == [w[o] EXCEPT !.state = "Idle", !.stale = FALSE]
  <2>1. x \in WorkerRecord
    BY <1>0 DEF WorkerRecord, WorkerState
  <2>2. PollQueue(x) \in WorkerRecord
    BY <2>1, PollQueueTyped
  <2>3. w' \in [Objects -> WorkerRecord]
    BY <1>1, <2>2, WorkerUpdate DEF WLoopTop
  <2> QED
    BY <1>1, <2>3 DEF WLoopTop, TypeOK, pool, proc, budget
<1>2. CASE WBlock(o)
  <2>1. [w[o] EXCEPT !.pc = "waiting"] \in WorkerRecord
    BY <1>0 DEF WorkerRecord, WorkerPC
  <2>2. w' \in [Objects -> WorkerRecord]
    BY <1>2, <2>1, WorkerUpdate DEF WBlock
  <2> QED
    BY <1>2, <2>2 DEF WBlock, TypeOK, pool, proc, budget
<1>3. CASE WWake(o)
  <2>1. PollQueue(w[o]) \in WorkerRecord
    BY <1>0, PollQueueTyped
  <2>2. w' \in [Objects -> WorkerRecord]
    BY <1>3, <2>1, WorkerUpdate DEF WWake
  <2> QED
    BY <1>3, <2>2 DEF WWake, TypeOK, pool, proc, budget
<1>4. CASE WClaim(o)
  <2>1. [w[o] EXCEPT !.stale = FALSE, !.current = w[o].hand, !.pc = "claimed"]
          \in WorkerRecord
    BY <1>0 DEF WorkerRecord, WorkerPC
  <2>2. w' \in [Objects -> WorkerRecord]
    BY <1>4, <2>1, WorkerUpdate DEF WClaim
  <2> QED
    BY <1>4, <2>2 DEF WClaim, TypeOK, pool, proc, budget
<1>5. CASE WEnterRequest(o)
  <2>1. [w[o] EXCEPT !.pc = "running"] \in WorkerRecord
    BY <1>0 DEF WorkerRecord, WorkerPC
  <2>2. w' \in [Objects -> WorkerRecord]
    BY <1>5, <2>1, WorkerUpdate DEF WEnterRequest
  <2>3. abandoned'.ids \subseteq Requests
    BY <1>5 DEF WEnterRequest, TypeOK, clear_abandoned
  <2>4. req' \in [Requests -> RequestRecord]
    BY <1>5, RequestUpdate DEF WEnterRequest
  <2> QED
    BY <1>5, <2>2, <2>3, <2>4 DEF WEnterRequest, TypeOK, pool, budget
<1>6. CASE WRespond(o)
  <2>1. [w[o] EXCEPT !.stale = FALSE, !.pc = "finished"] \in WorkerRecord
    BY <1>0 DEF WorkerRecord, WorkerPC
  <2>2. w' \in [Objects -> WorkerRecord]
    BY <1>6, <2>1, WorkerUpdate DEF WRespond
  <2>3. req' \in [Requests -> RequestRecord]
    BY <1>6, RequestUpdate DEF WRespond
  <2> QED
    BY <1>6, <2>2, <2>3 DEF WRespond, TypeOK, pool, proc, budget
<1>7. CASE WFault(o)
  <2>1. [w[o] EXCEPT !.state = "Faulted", !.stale = FALSE, !.stop = TRUE,
                     !.pc = "unwinding"] \in WorkerRecord
    BY <1>0 DEF WorkerRecord, WorkerPC, WorkerState
  <2>2. w' \in [Objects -> WorkerRecord]
    BY <1>7, <2>1, WorkerUpdate DEF WFault
  <2>3. faults' \in 0 .. MaxFaults
    BY <1>7, PoolAssumption DEF WFault, TypeOK
  <2> QED
    BY <1>7, <2>2, <2>3 DEF WFault, TypeOK, pool, proc
<1>8. CASE WClearCurrent(o)
  <2>1. [w[o] EXCEPT !.current = Nil, !.hand = Nil, !.pc = "top"] \in WorkerRecord
    BY <1>0 DEF WorkerRecord, WorkerPC
  <2>2. w' \in [Objects -> WorkerRecord]
    BY <1>8, <2>1, WorkerUpdate DEF WClearCurrent
  <2> QED
    BY <1>8, <2>2 DEF WClearCurrent, TypeOK, pool, proc, budget
<1>9. CASE WExit(o)
  <2>1. [w[o] EXCEPT !.state = "Exited", !.stale = FALSE, !.pc = "unwinding"]
          \in WorkerRecord
    BY <1>0 DEF WorkerRecord, WorkerPC, WorkerState
  <2>2. w' \in [Objects -> WorkerRecord]
    BY <1>9, <2>1, WorkerUpdate DEF WExit
  <2> QED
    BY <1>9, <2>2 DEF WExit, TypeOK, pool, proc, budget
<1>10. CASE WUnwind(o)
  <2>1. [w[o] EXCEPT !.detached = FALSE, !.pc = "gone"] \in WorkerRecord
    BY <1>0 DEF WorkerRecord, WorkerPC
  <2>2. w' \in [Objects -> WorkerRecord]
    BY <1>10, <2>1, WorkerUpdate DEF WUnwind
  <2>3. live_detached' \in Nat
    BY <1>10, LeakPositive DEF WUnwind, TypeOK
  <2> QED
    BY <1>10, <2>2, <2>3 DEF WUnwind, TypeOK, pool, proc, budget
<1>11. CASE WHeartbeat(o)
  <2>1. [w[o] EXCEPT !.stale = FALSE] \in WorkerRecord
    BY <1>0 DEF WorkerRecord
  <2>2. w' \in [Objects -> WorkerRecord]
    BY <1>11, <2>1, WorkerUpdate DEF WHeartbeat
  <2> QED
    BY <1>11, <2>2 DEF WHeartbeat, TypeOK, pool, proc, budget
<1>12. CASE Stall(o)
  <2>1. [w[o] EXCEPT !.stale = TRUE] \in WorkerRecord
    BY <1>0 DEF WorkerRecord
  <2>2. w' \in [Objects -> WorkerRecord]
    BY <1>12, <2>1, WorkerUpdate DEF Stall
  <2>3. stalls' \in 0 .. MaxStalls
    BY <1>12, PoolAssumption DEF Stall, TypeOK
  <2> QED
    BY <1>12, <2>2, <2>3 DEF Stall, TypeOK, pool, proc
<1> QED
  BY <1>1, <1>2, <1>3, <1>4, <1>5, <1>6, <1>7, <1>8, <1>9, <1>10, <1>11, <1>12
  DEF WorkerLoop

-----------------------------------------------------------------------------
(* Steps of an initializer thread *)

\* A change of one thread's locals keeps the thread table typed.
LEMMA ThreadUpdate ==
  ASSUME TypeOK, NEW t, NEW x \in ThreadRecord
  PROVE  [th EXCEPT ![t] = x] \in [Threads -> ThreadRecord]
BY DEF TypeOK

\* A freshly made Worker is well formed.
LEMMA NewWorkerTyped ==
  ASSUME NEW i \in Slots
  PROVE  NewWorker(i) \in WorkerRecord /\ ~NewWorker(i).detached
<1>1. <<>> \in Seq(RequestMetadata)
  OBVIOUS
<1> QED
  BY <1>1 DEF NewWorker, WorkerRecord, WorkerState, WorkerPC

\* notify_one moves at most one waiting thread on, to the wait's predicate.
LEMMA NotifyOneTyped ==
  ASSUME TypeOK, NEW ths \in NotifyOne(th)
  PROVE  /\ ths \in [Threads -> ThreadRecord]
         /\ \A t \in Threads :
              \/ ths[t] = th[t]
              \/ th[t].pc = "waiting" /\ ths[t] = [th[t] EXCEPT !.pc = "get"]
<1>1. CASE ths = th
  BY <1>1 DEF TypeOK
<1>2. CASE \E t \in Threads : /\ th[t].pc = "waiting"
                              /\ ths = [th EXCEPT ![t].pc = "get"]
  <2>1. PICK t \in Threads : /\ th[t].pc = "waiting"
                             /\ ths = [th EXCEPT ![t].pc = "get"]
    BY <1>2
  <2>2. th[t] \in ThreadRecord
    BY DEF TypeOK
  <2>3. [th[t] EXCEPT !.pc = "get"] \in ThreadRecord
    BY <2>2 DEF ThreadRecord, ThreadPC
  <2>4. ths = [th EXCEPT ![t] = [th[t] EXCEPT !.pc = "get"]]
    BY <2>1
  <2>5. ths \in [Threads -> ThreadRecord]
    BY <2>3, <2>4, ThreadUpdate
  <2>6. \A u \in Threads : \/ ths[u] = th[u]
                           \/ u = t /\ ths[u] = [th[t] EXCEPT !.pc = "get"]
    BY <2>4 DEF TypeOK
  <2> QED
    BY <2>1, <2>5, <2>6
<1> QED
  BY <1>1, <1>2 DEF NotifyOne

\* A step of an initializer thread keeps the types.
LEMMA InitializerTyped ==
  ASSUME TypeOK, NEW o \in Objects, initialize_worker(o) \/ InitFail(o)
  PROVE  TypeOK'
<1>0. w[o] \in WorkerRecord
  BY DEF TypeOK
<1>1. CASE InitStart(o)
  <2> DEFINE x == workers[w[o].slot]
             y == [w[x] EXCEPT !.stop = FALSE, !.state = "Starting",
                               !.stale = FALSE, !.joinable = TRUE, !.pc = "top"]
             v == [w EXCEPT ![x] = y]
  <2>1. v \in [Objects -> WorkerRecord]
    <3>1. CASE x \in Objects
      <4>1. w[x] \in WorkerRecord
        BY <3>1 DEF TypeOK
      <4>2. y \in WorkerRecord
        BY <4>1, ZenonT(30) DEF WorkerRecord, WorkerState, WorkerPC
      <4> QED
        BY <4>2, WorkerUpdate
    <3>2. CASE x \notin Objects
      BY <3>2 DEF TypeOK
    <3> QED
      BY <3>1, <3>2
  <2>2. v[o] \in WorkerRecord
    BY <2>1
  <2>3. [v[o] EXCEPT !.init = "store"] \in WorkerRecord
    BY <2>2 DEF WorkerRecord
  <2>4. w' = [v EXCEPT ![o] = [v[o] EXCEPT !.init = "store"]]
    BY <1>1 DEF InitStart
  <2>5. w' \in [Objects -> WorkerRecord]
    BY <2>1, <2>3, <2>4
  <2> HIDE DEF x, y, v
  <2> QED
    BY <1>1, <2>5 DEF InitStart, TypeOK, pool, proc, budget
<1>2. CASE InitFail(o)
  <2>1. [w[o] EXCEPT !.init = "done"] \in WorkerRecord
    BY <1>0 DEF WorkerRecord
  <2>2. w' \in [Objects -> WorkerRecord]
    BY <1>2, <2>1, WorkerUpdate DEF InitFail
  <2>3. init_failures' \in 0 .. MaxInitFailures
    BY <1>2, PoolAssumption DEF InitFail, TypeOK
  <2> QED
    BY <1>2, <2>2, <2>3 DEF InitFail, TypeOK, pool, proc
<1>3. CASE InitStoreIdle(o)
  <2>1. [w[o] EXCEPT !.state = "Idle", !.stale = FALSE, !.init = "ready"]
          \in WorkerRecord
    BY <1>0 DEF WorkerRecord, WorkerState
  <2>2. w' \in [Objects -> WorkerRecord]
    BY <1>3, <2>1, WorkerUpdate DEF InitStoreIdle
  <2> QED
    BY <1>3, <2>2 DEF InitStoreIdle, TypeOK, pool, proc, budget
<1>4. CASE set_worker_ready(o)
  <2>1. [w[o] EXCEPT !.init = "done"] \in WorkerRecord
    BY <1>0 DEF WorkerRecord
  <2>2. w' \in [Objects -> WorkerRecord]
    BY <1>4, <2>1, WorkerUpdate DEF set_worker_ready
  <2>3. CASE UNCHANGED <<pool, th>>
    BY <1>4, <2>2, <2>3 DEF set_worker_ready, TypeOK, pool, proc, budget
  <2>4. CASE ~UNCHANGED <<pool, th>>
    <3> DEFINE i == w[o].slot
    <3>1. /\ i \in Slots
          /\ workers' = workers
          /\ ready_list' = [ready_list EXCEPT ![i] = TRUE]
          /\ ready_count' = ready_count + 1
          /\ replacement_attempts' = [replacement_attempts EXCEPT ![i] = 0]
          /\ backoff' = [backoff EXCEPT ![i] = FALSE]
          /\ ready_queue' = Append(ready_queue, i)
          /\ th' \in NotifyOne(th)
      BY <1>0, <1>4, <2>4 DEF set_worker_ready, WorkerRecord
    <3>2. /\ ready_list' \in [Slots -> BOOLEAN]
          /\ ready_count' \in Nat
          /\ backoff' \in [Slots -> BOOLEAN]
      BY <3>1 DEF TypeOK
    <3>3. replacement_attempts' \in [Slots -> 0 .. max_replace_attempts]
      BY <3>1, PoolAssumption DEF TypeOK
    <3>4. ready_queue' \in Seq(Slots)
      BY <3>1 DEF TypeOK
    <3>5. th' \in [Threads -> ThreadRecord]
      BY <3>1, NotifyOneTyped
    <3> QED
      BY <1>4, <2>2, <3>1, <3>2, <3>3, <3>4, <3>5
      DEF set_worker_ready, TypeOK, proc, budget
  <2> QED
    BY <2>3, <2>4
<1> QED
  BY <1>1, <1>2, <1>3, <1>4 DEF initialize_worker

-----------------------------------------------------------------------------
(* Steps of main and of the supervisor *)

\* A step of distribute_request_internal keeps the types.
LEMMA DistributeTyped ==
  ASSUME TypeOK, ThreadLocals, NEW t \in Threads, distribute_request(t)
  PROVE  TypeOK'
<1>0. th[t] \in ThreadRecord
  BY DEF TypeOK
<1>1. AfterDistribute(t) \in ThreadPC
  BY DEF AfterDistribute, ThreadPC
<1>2. CASE get_ready_worker(t)
  <2>1. CASE Dropped(t) /\ ready_queue' \in Seq(Slots)
    <3>1. [th[t] EXCEPT !.pc = AfterDistribute(t), !.item = Nil] \in ThreadRecord
      BY <1>0, <1>1 DEF ThreadRecord
    <3>2. th' \in [Threads -> ThreadRecord]
      BY <2>1, <3>1, ThreadUpdate DEF Dropped
    <3>3. req' \in [Requests -> RequestRecord]
      BY <2>1, RequestUpdate DEF Dropped
    <3> QED
      BY <1>2, <2>1, <3>2, <3>3 DEF get_ready_worker, TypeOK, objs, proc, budget
  <2>2. CASE /\ th' = [th EXCEPT ![t].pc = "blocking"]
             /\ UNCHANGED <<ready_queue, req>>
    <3>1. [th[t] EXCEPT !.pc = "blocking"] \in ThreadRecord
      BY <1>0 DEF ThreadRecord, ThreadPC
    <3>2. th' \in [Threads -> ThreadRecord]
      BY <2>2, <3>1, ThreadUpdate
    <3> QED
      BY <1>2, <2>2, <3>2 DEF get_ready_worker, TypeOK, objs, proc, budget
  <2>3. CASE RotateReadyQueue(t) /\ UNCHANGED req
    <3>1. PICK k \in ReadyPositions :
            /\ ready_queue' = Append(SubSeq(ready_queue, k + 1, Len(ready_queue)),
                                     ready_queue[k])
            /\ th' = [th EXCEPT ![t] = [@ EXCEPT !.target = workers[ready_queue[k]],
                                                 !.pc = "add"]]
      BY <2>3 DEF RotateReadyQueue
    <3>2. k \in 1 .. Len(ready_queue) /\ ready_queue \in Seq(Slots)
      BY DEF ReadyPositions, TypeOK
    <3>3. ready_queue[k] \in Slots
      BY <3>2
    <3>4. ready_queue' \in Seq(Slots)
      <4>1. SubSeq(ready_queue, k + 1, Len(ready_queue)) \in Seq(Slots)
        BY <3>2
      <4> QED
        BY <3>1, <3>3, <4>1
    <3>5. workers[ready_queue[k]] \in Objects \cup {Nil}
      BY <3>3 DEF TypeOK
    <3>6. [th[t] EXCEPT !.target = workers[ready_queue[k]], !.pc = "add"]
            \in ThreadRecord
      BY <1>0, <3>5 DEF ThreadRecord, ThreadPC
    <3>7. th' \in [Threads -> ThreadRecord]
      BY <3>1, <3>6, ThreadUpdate
    <3> QED
      BY <1>2, <2>3, <3>4, <3>7 DEF get_ready_worker, TypeOK, objs, proc, budget
  <2>4. <<>> \in Seq(Slots) /\ ready_queue \in Seq(Slots)
    BY DEF TypeOK
  <2> QED
    BY <1>2, <2>1, <2>2, <2>3, <2>4 DEF get_ready_worker
<1>3. CASE WaitReady(t)
  <2>1. [th[t] EXCEPT !.pc = "waiting"] \in ThreadRecord
    BY <1>0 DEF ThreadRecord, ThreadPC
  <2>2. th' \in [Threads -> ThreadRecord]
    BY <1>3, <2>1, ThreadUpdate DEF WaitReady
  <2> QED
    BY <1>3, <2>2 DEF WaitReady, TypeOK, pool, objs, proc, budget
<1>4. CASE add_request(t)
  <2> DEFINE x == th[t].target
  <2>1. th[t].item \in RequestMetadata
    BY <1>4 DEF add_request, ThreadLocals, Distributing
  <2>2. w' \in [Objects -> WorkerRecord]
    <3>1. CASE x \in Objects
      <4>1. w[x] \in WorkerRecord
        BY <3>1 DEF TypeOK
      <4>2. w[x].queue \in Seq(RequestMetadata)
        BY <4>1 DEF WorkerRecord
      <4>3. Append(w[x].queue, th[t].item) \in Seq(RequestMetadata)
        BY <2>1, <4>2
      <4>4. [w[x] EXCEPT !.queue = Append(@, th[t].item)] \in WorkerRecord
        BY <4>1, <4>3 DEF WorkerRecord
      <4> QED
        BY <1>4, <4>4, NotifyTyped, WorkerUpdate DEF add_request
    <3>2. CASE x \notin Objects
      BY <1>4, <3>2 DEF add_request, TypeOK
    <3> QED
      BY <3>1, <3>2
  <2>3. [th[t] EXCEPT !.pc = AfterDistribute(t), !.item = Nil, !.target = Nil]
          \in ThreadRecord
    BY <1>0, <1>1 DEF ThreadRecord
  <2>4. th' \in [Threads -> ThreadRecord]
    BY <1>4, <2>3, ThreadUpdate DEF add_request
  <2> QED
    BY <1>4, <2>2, <2>4 DEF add_request, TypeOK, pool, proc, budget
<1> QED
  BY <1>2, <1>3, <1>4 DEF distribute_request
\* A step of Worker::stop keeps the types.
LEMMA StopTyped ==
  ASSUME TypeOK, ThreadLocals, NEW t \in Threads, stop(t)
  PROVE  TypeOK'
<1> DEFINE o == th[t].old
<1>0. th[t] \in ThreadRecord
  BY DEF TypeOK
<1>1. AfterStop(t) \in ThreadPC
  BY DEF AfterStop, AfterRecover, ThreadPC
<1>2. o \in Objects
  BY DEF stop, StopRequest, StopNotify, StopJoin, StopTimeout, ThreadLocals,
         StopPoints
<1>3. w[o] \in WorkerRecord
  BY <1>2 DEF TypeOK
<1>4. [th[t] EXCEPT !.pc = AfterStop(t), !.old = Nil] \in ThreadRecord
  BY <1>0, <1>1 DEF ThreadRecord
<1>5. CASE StopRequest(t)
  <2>1. [th[t] EXCEPT !.pc = "stopping", !.seen = w[o].state] \in ThreadRecord
    BY <1>0, <1>3 DEF ThreadRecord, ThreadPC, WorkerRecord
  <2>2. th' \in [Threads -> ThreadRecord]
    BY <1>4, <1>5, <2>1, ThreadUpdate DEF StopRequest
  <2>3. [w[o] EXCEPT !.stop = TRUE] \in WorkerRecord
    BY <1>3 DEF WorkerRecord
  <2>4. w' \in [Objects -> WorkerRecord]
    <3>1. CASE w' = w
      BY <3>1 DEF TypeOK
    <3>2. CASE w' = [w EXCEPT ![o].stop = TRUE]
      BY <2>3, <3>2, WorkerUpdate
    <3> QED
      BY <1>5, <3>1, <3>2 DEF StopRequest
  <2> QED
    BY <1>5, <2>2, <2>4 DEF StopRequest, TypeOK, pool, proc, budget
<1>6. CASE StopNotify(t)
  <2>1. [th[t] EXCEPT !.pc = "joining", !.seen = Nil] \in ThreadRecord
    BY <1>0 DEF ThreadRecord, ThreadPC
  <2>2. th' \in [Threads -> ThreadRecord]
    BY <1>6, <2>1, ThreadUpdate DEF StopNotify
  <2>3. [w[o] EXCEPT !.state = "Stopping"] \in WorkerRecord
    BY <1>3 DEF WorkerRecord, WorkerState
  <2>4. w' \in [Objects -> WorkerRecord]
    BY <1>3, <1>6, <2>3, NotifyTyped, WorkerUpdate DEF StopNotify
  <2> QED
    BY <1>6, <2>2, <2>4 DEF StopNotify, TypeOK, pool, proc, budget
<1>7. CASE StopJoin(t)
  <2>1. [w[o] EXCEPT !.joinable = FALSE,
                     !.state = IF w[o].state = "Faulted" THEN "Faulted"
                               ELSE "Exited"]
          \in WorkerRecord
    BY <1>3 DEF WorkerRecord, WorkerState
  <2>2. w' \in [Objects -> WorkerRecord]
    BY <1>7, <2>1, WorkerUpdate DEF StopJoin
  <2>3. th' \in [Threads -> ThreadRecord]
    BY <1>4, <1>7, ThreadUpdate DEF StopJoin
  <2> QED
    BY <1>7, <2>2, <2>3 DEF StopJoin, TypeOK, pool, proc, budget
<1>8. CASE StopTimeout(t)
  <2>1. [w[o] EXCEPT !.joinable = FALSE, !.state = "Faulted"] \in WorkerRecord
    BY <1>3 DEF WorkerRecord, WorkerState
  <2>2. w' \in [Objects -> WorkerRecord]
    BY <1>8, <2>1, WorkerUpdate DEF StopTimeout
  <2>3. th' \in [Threads -> ThreadRecord]
    BY <1>4, <1>8, ThreadUpdate DEF StopTimeout
  <2> QED
    BY <1>8, <2>2, <2>3 DEF StopTimeout, TypeOK, pool, proc, budget
<1> QED
  BY <1>5, <1>6, <1>7, <1>8 DEF stop

\* The first half of replace_worker (monitor, mark, prepare) keeps the types.
LEMMA PrepareTyped ==
  ASSUME TypeOK, ThreadLocals,
         \/ \E i \in Slots : monitor_worker_at(i)
         \/ SupervisorEnd \/ mark_worker_not_ready \/ prepare_worker_replacement
  PROVE  TypeOK'
<1> DEFINE s == th["sup"]
<1>0. s \in ThreadRecord
  BY DEF TypeOK, Threads
<1>1. CASE \E i \in Slots : monitor_worker_at(i)
  <2>1. PICK i \in Slots : monitor_worker_at(i)
    BY <1>1
  <2>2. i \in 0 .. NumWorkers
    BY PoolAssumption DEF Slots
  <2>3. [s EXCEPT !.pc = "mark", !.slot = i,
                  !.force = w[workers[i]].state # "Faulted"] \in ThreadRecord
    BY <1>0, <2>2, ZenonT(30) DEF ThreadRecord, ThreadPC
  <2>4. th' \in [Threads -> ThreadRecord]
    BY <2>1, <2>3, ThreadUpdate DEF monitor_worker_at
  <2> QED
    BY <2>1, <2>4 DEF monitor_worker_at, TypeOK, pool, objs, proc, budget
<1>2. CASE SupervisorEnd
  <2>1. [s EXCEPT !.pc = "done"] \in ThreadRecord
    BY <1>0 DEF ThreadRecord, ThreadPC
  <2>2. th' \in [Threads -> ThreadRecord]
    BY <1>2, <2>1, ThreadUpdate DEF SupervisorEnd
  <2> QED
    BY <1>2, <2>2 DEF SupervisorEnd, TypeOK, pool, objs, proc, budget
<1>3. CASE mark_worker_not_ready
  <2>1. [s EXCEPT !.pc = IF is_shutting_down
                            \/ (ready_list[s.slot] /\ ready_count <= 0)
                         THEN "scan" ELSE "prepare"] \in ThreadRecord
    BY <1>0 DEF ThreadRecord, ThreadPC
  <2>2. th' \in [Threads -> ThreadRecord]
    BY <1>3, <2>1, ThreadUpdate DEF mark_worker_not_ready
  <2>3. ready_list' \in [Slots -> BOOLEAN]
    BY <1>3 DEF mark_worker_not_ready, TypeOK
  <2>4. ready_count' \in Nat
    <3>1. ready_count \in Nat
      BY DEF TypeOK
    <3> QED
      BY <1>3, <3>1 DEF mark_worker_not_ready
  <2> QED
    BY <1>3, <2>2, <2>3, <2>4 DEF mark_worker_not_ready, TypeOK, objs, proc, budget
<1>4. CASE prepare_worker_replacement
  <2>1. s.slot \in Slots /\ workers[s.slot] \in Objects
    BY <1>4 DEF prepare_worker_replacement, ThreadLocals, ReplacePoints
  <2> DEFINE maxed == replacement_attempts[s.slot] >= max_replace_attempts
  <2>0. maxed \in BOOLEAN
    OBVIOUS
  <2>2. [s EXCEPT !.pc = "drain", !.maxed = maxed, !.old = workers[s.slot]]
          \in ThreadRecord
    <3> HIDE DEF maxed
    <3> QED
      BY <1>0, <2>0, <2>1 DEF ThreadRecord, ThreadPC
  <2>3. th' \in [Threads -> ThreadRecord]
    BY <1>4, <2>2, ThreadUpdate DEF prepare_worker_replacement
  <2>4. /\ workers' \in [Slots -> Objects \cup {Nil}]
        /\ backoff' \in [Slots -> BOOLEAN]
    BY <1>4 DEF prepare_worker_replacement, TypeOK
  <2>5. replacement_attempts' \in [Slots -> 0 .. max_replace_attempts]
    <3>1. replacement_attempts[s.slot] \in 0 .. max_replace_attempts
      BY <2>1 DEF TypeOK
    <3>2. CASE maxed
      BY <1>4, <3>2 DEF prepare_worker_replacement, TypeOK
    <3>3. CASE ~maxed
      <4>1. replacement_attempts[s.slot] + 1 \in 0 .. max_replace_attempts
        BY <3>1, <3>3, PoolAssumption
      <4>2. replacement_attempts' =
              [replacement_attempts EXCEPT ![s.slot] = @ + 1]
        BY <1>4, <3>3 DEF prepare_worker_replacement
      <4> QED
        BY <4>1, <4>2 DEF TypeOK
    <3> QED
      BY <3>2, <3>3
  <2> QED
    BY <1>4, <2>3, <2>4, <2>5
    DEF prepare_worker_replacement, TypeOK, objs, proc, budget
<1> QED
  BY <1>1, <1>2, <1>3, <1>4
\* The ring operations keep the ids among the requests.
LEMMA MarkAbandonedTyped ==
  ASSUME NEW ring, ring.ids \subseteq Requests, NEW r \in Requests
  PROVE  mark_abandoned(ring, r).ids \subseteq Requests
<1> DEFINE big == [ids |-> ring.ids \cup {r}, order |-> Append(ring.order, r)]
<1>1. big.ids \subseteq Requests
  OBVIOUS
<1>2. EvictOldest(big).ids \subseteq big.ids
  <2> HIDE DEF big
  <2> QED
    BY DEF EvictOldest
<1> QED
  BY <1>1, <1>2 DEF mark_abandoned

\* Recovery of the old worker's requests, up to its detachment, keeps the types.
LEMMA RecoverTyped ==
  ASSUME TypeOK, ThreadLocals,
         \/ drain_pending_requests \/ recover_current_request
         \/ send_timeout_error \/ abandon_request
         \/ force_detach_flags \/ force_detach_count
         \/ enforce_detached_worker_limit
  PROVE  TypeOK'
<1> DEFINE s == th["sup"]
           o == s.old
<1>0. s \in ThreadRecord
  BY DEF TypeOK, Threads
<1>1. CASE drain_pending_requests
  <2>1. o \in Objects
    BY <1>1 DEF drain_pending_requests, ThreadLocals, RecoverPoints
  <2>2. w[o] \in WorkerRecord
    BY <2>1 DEF TypeOK
  <2>3. w[o].queue \in Seq(RequestMetadata) /\ <<>> \in Seq(RequestMetadata)
    BY <2>2 DEF WorkerRecord
  <2>4. [w[o] EXCEPT !.queue = <<>>] \in WorkerRecord
    BY <2>2, <2>3 DEF WorkerRecord
  <2>5. w' \in [Objects -> WorkerRecord]
    BY <1>1, <2>4, WorkerUpdate DEF drain_pending_requests
  <2>6. [s EXCEPT !.pc = "current", !.recovered = w[o].queue] \in ThreadRecord
    BY <1>0, <2>3 DEF ThreadRecord, ThreadPC
  <2>7. th' \in [Threads -> ThreadRecord]
    BY <1>1, <2>6, ThreadUpdate DEF drain_pending_requests
  <2> QED
    BY <1>1, <2>5, <2>7 DEF drain_pending_requests, TypeOK, pool, proc, budget
<1>2. CASE recover_current_request
  <2> DEFINE c == w[o].current
             next == IF s.force THEN "detach" ELSE "stop"
             again == Append(s.recovered, [data |-> c, retry_count |-> 0])
  <2>1. o \in Objects
    BY <1>2 DEF recover_current_request, ThreadLocals, RecoverPoints
  <2>2. w[o] \in WorkerRecord
    BY <2>1 DEF TypeOK
  <2>3. c \in Requests \cup {Nil}
    BY <2>2 DEF WorkerRecord
  <2>4. CASE c = Nil
    <3>1. [s EXCEPT !.pc = next] \in ThreadRecord
      BY <1>0 DEF ThreadRecord, ThreadPC
    <3>2. th' \in [Threads -> ThreadRecord]
      BY <1>2, <2>4, <3>1, ThreadUpdate DEF recover_current_request
    <3> QED
      BY <1>2, <3>2 DEF recover_current_request, TypeOK, pool, objs, proc, budget
  <2>5. CASE c # Nil /\ s.force
    <3>1. [s EXCEPT !.pc = "timeout_error", !.seen = c] \in ThreadRecord
      BY <1>0, <2>3 DEF ThreadRecord, ThreadPC
    <3>2. th' \in [Threads -> ThreadRecord]
      BY <1>2, <2>5, <3>1, ThreadUpdate DEF recover_current_request
    <3> QED
      BY <1>2, <3>2 DEF recover_current_request, TypeOK, pool, objs, proc, budget
  <2>6. CASE c # Nil /\ ~s.force
    <3>1. [data |-> c, retry_count |-> 0] \in RequestMetadata
      BY <2>3, <2>6 DEF RequestMetadata
    <3>2. s.recovered \in Seq(RequestMetadata)
      BY <1>0 DEF ThreadRecord
    <3>3. again \in Seq(RequestMetadata)
      BY <3>1, <3>2
    <3>4. [s EXCEPT !.pc = next, !.recovered = again] \in ThreadRecord
      <4> HIDE DEF again
      <4> QED
        BY <1>0, <3>3, ZenonT(30) DEF ThreadRecord, ThreadPC
    <3>5. th' = [th EXCEPT !["sup"] = [s EXCEPT !.pc = next, !.recovered = again]]
      BY <1>2, <2>6, Zenon DEF recover_current_request
    <3>6. th' \in [Threads -> ThreadRecord]
      BY <3>4, <3>5, ThreadUpdate
    <3> QED
      BY <1>2, <3>6 DEF recover_current_request, TypeOK, pool, objs, proc, budget
  <2> QED
    BY <2>4, <2>5, <2>6
<1>3. CASE send_timeout_error
  <2>1. [s EXCEPT !.pc = "abandon"] \in ThreadRecord
    BY <1>0 DEF ThreadRecord, ThreadPC
  <2>2. th' \in [Threads -> ThreadRecord]
    BY <1>3, <2>1, ThreadUpdate DEF send_timeout_error
  <2>3. req' \in [Requests -> RequestRecord]
    <3>1. req \in [Requests -> RequestRecord]
      BY DEF TypeOK
    <3> QED
      BY <1>3, <3>1, RequestUpdate DEF send_timeout_error
  <2> QED
    BY <1>3, <2>2, <2>3 DEF send_timeout_error, TypeOK, pool, objs, proc, budget
<1>4. CASE abandon_request
  <2>1. [s EXCEPT !.pc = "detach", !.seen = Nil] \in ThreadRecord
    BY <1>0 DEF ThreadRecord, ThreadPC
  <2>2. th' \in [Threads -> ThreadRecord]
    BY <1>4, <2>1, ThreadUpdate DEF abandon_request
  <2>3. s.seen \in Requests
    BY <1>4 DEF abandon_request, ThreadLocals
  <2>4. abandoned'.ids \subseteq Requests
    BY <1>4, <2>3, MarkAbandonedTyped DEF abandon_request, TypeOK
  <2> QED
    BY <1>4, <2>2, <2>4 DEF abandon_request, TypeOK, pool, objs, budget
<1>5. CASE force_detach_flags
  <2>1. o \in Objects
    BY <1>5 DEF force_detach_flags, ThreadLocals, RecoverPoints
  <2>2. w[o] \in WorkerRecord
    BY <2>1 DEF TypeOK
  <2>3. [w[o] EXCEPT !.stop = TRUE, !.state = "Faulted"] \in WorkerRecord
    BY <2>2 DEF WorkerRecord, WorkerState
  <2>4. w' \in [Objects -> WorkerRecord]
    BY <1>5, <2>3, NotifyTyped, WorkerUpdate DEF force_detach_flags
  <2>5. [s EXCEPT !.pc = "detach_count"] \in ThreadRecord
    BY <1>0 DEF ThreadRecord, ThreadPC
  <2>6. th' \in [Threads -> ThreadRecord]
    BY <1>5, <2>5, ThreadUpdate DEF force_detach_flags
  <2> QED
    BY <1>5, <2>4, <2>6 DEF force_detach_flags, TypeOK, pool, proc, budget
<1>6. CASE force_detach_count
  <2>1. o \in Objects
    BY <1>6 DEF force_detach_count, ThreadLocals, RecoverPoints
  <2>2. w[o] \in WorkerRecord
    BY <2>1 DEF TypeOK
  <2>3. /\ [w[o] EXCEPT !.detached = TRUE, !.stale = FALSE, !.joinable = FALSE]
             \in WorkerRecord
        /\ [w[o] EXCEPT !.stale = FALSE] \in WorkerRecord
    BY <2>2 DEF WorkerRecord
  <2>4. w' \in [Objects -> WorkerRecord]
    BY <1>6, <2>3, WorkerUpdate DEF force_detach_count
  <2>5. [s EXCEPT !.pc = "limit"] \in ThreadRecord
    BY <1>0 DEF ThreadRecord, ThreadPC
  <2>6. th' \in [Threads -> ThreadRecord]
    BY <1>6, <2>5, ThreadUpdate DEF force_detach_count
  <2>7. live_detached' \in Nat
    BY <1>6 DEF force_detach_count, TypeOK
  <2> QED
    BY <1>6, <2>4, <2>6, <2>7 DEF force_detach_count, TypeOK, pool, proc, budget
<1>7. CASE enforce_detached_worker_limit
  <2>1. [s EXCEPT !.pc = AfterRecover("sup"), !.old = Nil] \in ThreadRecord
    BY <1>0, ZenonT(30) DEF ThreadRecord, ThreadPC, AfterRecover
  <2>2. th' \in [Threads -> ThreadRecord]
    BY <1>7, <2>1, ThreadUpdate DEF enforce_detached_worker_limit
  <2>3. exited' \in BOOLEAN
    BY <1>7 DEF enforce_detached_worker_limit
  <2> QED
    BY <1>7, <2>2, <2>3
    DEF enforce_detached_worker_limit, TypeOK, pool, objs, budget
<1> QED
  BY <1>1, <1>2, <1>3, <1>4, <1>5, <1>6, <1>7

\* Spawning the replacement and redistributing keep the types.
LEMMA RespawnTyped ==
  ASSUME TypeOK, ThreadLocals, spawn_replacement_worker \/ redistribute_requests
  PROVE  TypeOK'
<1> DEFINE s == th["sup"]
<1>0. s \in ThreadRecord
  BY DEF TypeOK, Threads
<1>1. CASE spawn_replacement_worker
  <2> DEFINE n == allocated + 1
  <2>1. [s EXCEPT !.pc = "redistribute"] \in ThreadRecord
    BY <1>0 DEF ThreadRecord, ThreadPC
  <2>2. th' \in [Threads -> ThreadRecord]
    BY <1>1, <2>1, ThreadUpdate DEF spawn_replacement_worker
  <2>3. CASE is_shutting_down
    BY <1>1, <2>2, <2>3 DEF spawn_replacement_worker, TypeOK, proc, budget
  <2>4. CASE ~is_shutting_down
    <3>1. s.slot \in Slots
      BY <1>1 DEF spawn_replacement_worker, ThreadLocals, ReplacePoints
    <3>2. NewWorker(s.slot) \in WorkerRecord
      BY <3>1, NewWorkerTyped
    <3>3. n \in Objects
      BY <1>1, <2>4 DEF spawn_replacement_worker
    <3>4. w' \in [Objects -> WorkerRecord]
      BY <1>1, <2>4, <3>2, WorkerUpdate DEF spawn_replacement_worker
    <3>5. /\ workers' \in [Slots -> Objects \cup {Nil}]
          /\ ready_list' \in [Slots -> BOOLEAN]
          /\ allocated' \in Objects
      BY <1>1, <2>4, <3>3 DEF spawn_replacement_worker, TypeOK
    <3> QED
      BY <1>1, <2>2, <3>4, <3>5 DEF spawn_replacement_worker, TypeOK, proc, budget
  <2> QED
    BY <2>3, <2>4
<1>2. CASE redistribute_requests
  <2> DEFINE todo == s.recovered
  <2>1. todo \in Seq(RequestMetadata) /\ <<>> \in Seq(RequestMetadata)
    BY <1>0 DEF ThreadRecord
  <2>2. CASE todo = <<>> \/ is_shutting_down
    <3>1. [s EXCEPT !.pc = "scan", !.recovered = <<>>] \in ThreadRecord
      BY <1>0, <2>1 DEF ThreadRecord, ThreadPC
    <3>2. th' \in [Threads -> ThreadRecord]
      <4>1. th' = [th EXCEPT !["sup"] = [s EXCEPT !.pc = "scan", !.recovered = <<>>]]
        BY <1>2, <2>2, Zenon DEF redistribute_requests
      <4> QED
        BY <3>1, <4>1, ThreadUpdate
    <3>3. \A r \in Requests : [req[r] EXCEPT !.dropped = TRUE] \in RequestRecord
      BY DEF TypeOK, RequestRecord
    <3>4. req' = [r \in Requests |-> IF \E k \in DOMAIN todo : todo[k].data = r
                                     THEN [req[r] EXCEPT !.dropped = TRUE]
                                     ELSE req[r]]
      BY <1>2, <2>2, Zenon DEF redistribute_requests
    <3>5. req' \in [Requests -> RequestRecord]
      BY <3>3, <3>4 DEF TypeOK
    <3> QED
      BY <1>2, <3>2, <3>5 DEF redistribute_requests, TypeOK, pool, objs, proc, budget
  <2>3. CASE ~(todo = <<>> \/ is_shutting_down)
    <3>1. Head(todo) \in RequestMetadata /\ Tail(todo) \in Seq(RequestMetadata)
      BY <2>1, <2>3
    <3>2. CASE Head(todo).retry_count >= kMaxRequestRetries
      <4>1. [s EXCEPT !.recovered = Tail(todo)] \in ThreadRecord
        BY <1>0, <3>1 DEF ThreadRecord
      <4>0. /\ th' = [th EXCEPT !["sup"].recovered = Tail(todo)]
            /\ req' = [req EXCEPT ![Head(todo).data].dropped = TRUE]
        BY <1>2, <2>3, <3>2, Zenon DEF redistribute_requests
      <4>2. th' \in [Threads -> ThreadRecord]
        BY <4>0, <4>1, ThreadUpdate
      <4>3. req' \in [Requests -> RequestRecord]
        BY <4>0, RequestUpdate
      <4> QED
        BY <1>2, <4>2, <4>3 DEF redistribute_requests, TypeOK, pool, objs, proc, budget
    <3>3. CASE ~(Head(todo).retry_count >= kMaxRequestRetries)
      <4> DEFINE again == [Head(todo) EXCEPT !.retry_count = @ + 1]
      <4>1. again \in RequestMetadata
        BY <3>1 DEF RequestMetadata
      <4>2. [s EXCEPT !.recovered = Tail(todo), !.item = again, !.pc = "get"]
              \in ThreadRecord
        <5> HIDE DEF again
        <5> QED
          BY <1>0, <3>1, <4>1 DEF ThreadRecord, ThreadPC
      <4>3. th' \in [Threads -> ThreadRecord]
        <5>1. th' = [th EXCEPT !["sup"] = [s EXCEPT !.recovered = Tail(todo),
                                                    !.item = again, !.pc = "get"]]
          BY <1>2, <2>3, <3>3, Zenon DEF redistribute_requests
        <5> QED
          BY <4>2, <5>1, ThreadUpdate
      <4> QED
        BY <1>2, <2>3, <3>3, <4>3
        DEF redistribute_requests, TypeOK, pool, objs, proc, budget
    <3> QED
      BY <3>2, <3>3
  <2> QED
    BY <2>2, <2>3
<1> QED
  BY <1>1, <1>2
\* Reading requests, closing input, time and shutdown keep the types.
LEMMA MainTyped ==
  ASSUME TypeOK, ThreadLocals,
         \/ \E r \in Requests : ReadRequest(r)
         \/ CloseStdin \/ BeginShutdown \/ JoinThreads \/ StopNextWorker
         \/ \E i \in Slots : BackoffElapsed(i)
  PROVE  TypeOK'
<1> DEFINE m == th["main"]
<1>0. m \in ThreadRecord /\ th["sup"] \in ThreadRecord
  BY DEF TypeOK, Threads
<1>1. CASE \E r \in Requests : ReadRequest(r)
  <2>1. PICK r \in Requests : ReadRequest(r)
    BY <1>1
  <2> DEFINE md == [data |-> r, retry_count |-> 0]
  <2>2. md \in RequestMetadata
    BY DEF RequestMetadata
  <2>3. [m EXCEPT !.pc = "get", !.item = md] \in ThreadRecord
    <3> HIDE DEF md
    <3> QED
      BY <1>0, <2>2 DEF ThreadRecord, ThreadPC
  <2>4. th' \in [Threads -> ThreadRecord]
    BY <2>1, <2>3, ThreadUpdate DEF ReadRequest
  <2>5. req' \in [Requests -> RequestRecord]
    BY <2>1, RequestUpdate DEF ReadRequest
  <2> QED
    BY <2>1, <2>4, <2>5 DEF ReadRequest, TypeOK, pool, objs, proc, budget
<1>2. CASE CloseStdin
  BY <1>2 DEF CloseStdin, TypeOK, pool, objs, budget
<1>3. CASE BeginShutdown
  <2>1. /\ [m EXCEPT !.pc = "join"] \in ThreadRecord
        /\ [th["sup"] EXCEPT !.pc = "get"] \in ThreadRecord
    <3>1. \A x \in ThreadRecord, pc \in ThreadPC : [x EXCEPT !.pc = pc] \in ThreadRecord
      BY DEF ThreadRecord
    <3>2. "join" \in ThreadPC /\ "get" \in ThreadPC
      BY DEF ThreadPC
    <3> QED
      BY <1>0, <3>1, <3>2
  <2>2. th' \in [Threads -> ThreadRecord]
    <3>1. \A t \in Threads : th'[t] \in ThreadRecord
      BY <1>0, <1>3, <2>1 DEF BeginShutdown, Threads
    <3>2. th' = [t \in Threads |-> th'[t]]
      BY <1>3 DEF BeginShutdown
    <3> QED
      BY <3>1, <3>2
  <2> QED
    BY <1>3, <2>2 DEF BeginShutdown, TypeOK, pool, objs, budget
<1>4. CASE JoinThreads
  <2>0. 0 \in 0 .. NumWorkers
    BY PoolAssumption
  <2>1. [m EXCEPT !.pc = "stop_next", !.slot = 0] \in ThreadRecord
    BY <1>0, <2>0 DEF ThreadRecord, ThreadPC
  <2>2. th' \in [Threads -> ThreadRecord]
    BY <1>4, <2>1, ThreadUpdate DEF JoinThreads
  <2> QED
    BY <1>4, <2>2 DEF JoinThreads, TypeOK, pool, objs, proc, budget
<1>5. CASE StopNextWorker
  <2> DEFINE i == m.slot + 1
  <2>1. m.slot \in 0 .. NumWorkers
    BY <1>0 DEF ThreadRecord
  <2>2. CASE i > NumWorkers
    <3>1. [m EXCEPT !.pc = "done"] \in ThreadRecord
      BY <1>0 DEF ThreadRecord, ThreadPC
    <3>2. th' \in [Threads -> ThreadRecord]
      BY <1>5, <2>2, <3>1, ThreadUpdate DEF StopNextWorker
    <3> QED
      BY <1>5, <3>2 DEF StopNextWorker, TypeOK, pool, objs, proc, budget
  <2>3. CASE ~(i > NumWorkers)
    <3>1. i \in Slots /\ i \in 0 .. NumWorkers
      BY <2>1, <2>3, PoolAssumption DEF Slots
    <3>2. workers[i] \in Objects \cup {Nil}
      BY <3>1 DEF TypeOK
    <3>3. [m EXCEPT !.slot = i, !.old = workers[i],
                    !.pc = IF workers[i] = Nil THEN "stop_next" ELSE "stop"]
            \in ThreadRecord
      <4> HIDE DEF i
      <4> QED
        BY <1>0, <3>1, <3>2, ZenonT(30) DEF ThreadRecord, ThreadPC
    <3>4. th' \in [Threads -> ThreadRecord]
      BY <1>5, <2>3, <3>3, ThreadUpdate DEF StopNextWorker
    <3> QED
      BY <1>5, <3>4 DEF StopNextWorker, TypeOK, pool, objs, proc, budget
  <2> QED
    BY <2>2, <2>3
<1>6. CASE \E i \in Slots : BackoffElapsed(i)
  BY <1>6 DEF BackoffElapsed, TypeOK, objs, proc, budget
<1> QED
  BY <1>1, <1>2, <1>3, <1>4, <1>5, <1>6

\* Every step keeps the types.
LEMMA NextTyped ==
  ASSUME TypeOK, ThreadLocals, LeakCount, Next
  PROVE  TypeOK'
<1>1. CASE \E o \in Objects : WorkerLoop(o) \/ WRespond(o)
  BY <1>1, WorkerStepTyped
<1>2. CASE \E o \in Objects : initialize_worker(o) \/ InitFail(o)
  BY <1>2, InitializerTyped
<1>3. CASE Supervisor
  BY <1>3, PrepareTyped, RecoverTyped, RespawnTyped, DistributeTyped, StopTyped
  DEF Supervisor, replace_worker, Threads
<1>4. CASE MainThread
  BY <1>4, MainTyped, DistributeTyped, StopTyped
  DEF MainThread, Shutdown, Threads
<1>5. CASE Environment
  BY <1>5, WorkerStepTyped, InitializerTyped, MainTyped DEF Environment
<1>6. CASE Terminated
  BY <1>6 DEF Terminated, vars, TypeOK, pool, objs, proc, budget
<1> QED
  BY <1>1, <1>2, <1>3, <1>4, <1>5, <1>6 DEF Next
-----------------------------------------------------------------------------
(* The locals of the pool threads *)

\* What a thread's locals must hold at its program point: u is its record,
\* ws the slots.
LocalsOf(t, u, ws) ==
  /\ u.pc \in Distributing => u.item \in RequestMetadata
  /\ u.pc \in StopPoints => u.old \in Objects
  /\ t = "sup" =>
       /\ u.pc \in ReplacePoints => u.slot \in Slots
       /\ u.pc \in {"mark", "prepare"} => ws[u.slot] \in Objects
       /\ u.pc \in RecoverPoints => u.old \in Objects
       /\ u.pc \in {"timeout_error", "abandon"} => u.seen \in Requests

\* ThreadLocals is a statement about each thread's record.
LEMMA ThreadLocalsSplit ==
  ThreadLocals <=> \A t \in Threads : LocalsOf(t, th[t], workers)
BY DEF ThreadLocals, LocalsOf, Threads

\* The same after a step.
LEMMA ThreadLocalsSplitNext ==
  ThreadLocals' <=> \A t \in Threads : LocalsOf(t, th'[t], workers')
BY DEF ThreadLocals, LocalsOf, Threads

\* A step that changes one thread only, and no slot, is judged by that thread.
LEMMA OneThread ==
  ASSUME TypeOK, ThreadLocals, NEW t \in Threads, NEW u,
         th' = [th EXCEPT ![t] = u], workers' = workers,
         LocalsOf(t, u, workers)
  PROVE  ThreadLocals'
<1>1. \A v \in Threads : th'[v] = IF v = t THEN u ELSE th[v]
  BY DEF TypeOK
<1> QED
  BY <1>1, ThreadLocalsSplit, ThreadLocalsSplitNext

\* notify_one returns a thread to its wait with the same request in hand.
LEMMA NotifyOneLocals ==
  ASSUME TypeOK, ThreadLocals, th' \in NotifyOne(th), workers' = workers
  PROVE  ThreadLocals'
<1> SUFFICES ASSUME NEW t \in Threads
             PROVE  LocalsOf(t, th'[t], workers)
  BY ThreadLocalsSplitNext
<1>1. LocalsOf(t, th[t], workers) /\ th[t] \in ThreadRecord
  BY ThreadLocalsSplit DEF TypeOK
<1>2. CASE th'[t] = th[t]
  BY <1>1, <1>2
<1>3. CASE th[t].pc = "waiting" /\ th'[t] = [th[t] EXCEPT !.pc = "get"]
  BY <1>1, <1>3 DEF LocalsOf, ThreadRecord, Distributing, StopPoints,
                    RecoverPoints, ReplacePoints
<1> QED
  BY <1>2, <1>3, NotifyOneTyped
\* Distributing and stopping keep the locals of the thread that does it.
LEMMA DistributeLocals ==
  ASSUME TypeOK, ThreadLocals, NEW t \in Threads, distribute_request(t)
  PROVE  ThreadLocals'
<1> DEFINE u == th[t]
<1> USE DEF Distributing, StopPoints, RecoverPoints, ReplacePoints
<1>1. u \in ThreadRecord /\ LocalsOf(t, u, workers)
  BY ThreadLocalsSplit DEF TypeOK
<1>2. workers' = workers
  BY DEF distribute_request, get_ready_worker, WaitReady, add_request, pool
<1>3. CASE Dropped(t)
  <2> DEFINE v == [u EXCEPT !.pc = AfterDistribute(t), !.item = Nil]
  <2>1. LocalsOf(t, v, workers)
    BY <1>1 DEF LocalsOf, AfterDistribute, ThreadRecord
  <2> QED
    BY <1>2, <1>3, <2>1, OneThread DEF Dropped
<1>4. CASE get_ready_worker(t) /\ th' = [th EXCEPT ![t].pc = "blocking"]
  <2>1. LocalsOf(t, [u EXCEPT !.pc = "blocking"], workers)
    BY <1>1, <1>4 DEF LocalsOf, ThreadRecord, get_ready_worker
  <2> QED
    BY <1>2, <1>4, <2>1, OneThread
<1>5. CASE get_ready_worker(t) /\ RotateReadyQueue(t)
  <2>1. PICK k : th' = [th EXCEPT ![t] = [u EXCEPT
                          !.target = workers[ready_queue[k]], !.pc = "add"]]
    BY <1>5 DEF RotateReadyQueue
  <2>2. LocalsOf(t, [u EXCEPT !.target = workers[ready_queue[k]], !.pc = "add"],
                 workers)
    BY <1>1, <1>5 DEF LocalsOf, ThreadRecord, get_ready_worker
  <2> QED
    BY <1>2, <2>1, <2>2, OneThread
<1>6. CASE WaitReady(t)
  <2>1. LocalsOf(t, [u EXCEPT !.pc = "waiting"], workers)
    BY <1>1, <1>6 DEF LocalsOf, ThreadRecord, WaitReady
  <2> QED
    BY <1>2, <1>6, <2>1, OneThread DEF WaitReady
<1>7. CASE add_request(t)
  <2> DEFINE v == [u EXCEPT !.pc = AfterDistribute(t), !.item = Nil, !.target = Nil]
  <2>1. LocalsOf(t, v, workers)
    BY <1>1 DEF LocalsOf, AfterDistribute, ThreadRecord
  <2> QED
    BY <1>2, <1>7, <2>1, OneThread DEF add_request
<1> QED
  BY <1>3, <1>4, <1>5, <1>6, <1>7 DEF distribute_request, get_ready_worker

\* So does every step of Worker::stop.
LEMMA StopLocals ==
  ASSUME TypeOK, ThreadLocals, NEW t \in Threads, stop(t)
  PROVE  ThreadLocals'
<1> DEFINE u == th[t]
           o == u.old
<1> USE DEF Distributing, StopPoints, RecoverPoints, ReplacePoints
<1>1. u \in ThreadRecord /\ LocalsOf(t, u, workers)
  BY ThreadLocalsSplit DEF TypeOK
<1>2. workers' = workers
  BY DEF stop, StopRequest, StopNotify, StopJoin, StopTimeout, pool
<1>3. u.pc \in StopPoints
  BY DEF stop, StopRequest, StopNotify, StopJoin, StopTimeout
<1>4. LocalsOf(t, [u EXCEPT !.pc = AfterStop(t), !.old = Nil], workers)
  BY <1>1, <1>3 DEF LocalsOf, AfterStop, AfterRecover, ThreadRecord
<1>5. LocalsOf(t, [u EXCEPT !.pc = "stopping", !.seen = w[o].state], workers)
  BY <1>1, <1>3 DEF LocalsOf, ThreadRecord
<1>6. LocalsOf(t, [u EXCEPT !.pc = "joining", !.seen = Nil], workers)
  BY <1>1, <1>3 DEF LocalsOf, ThreadRecord
<1>7. \/ th' = [th EXCEPT ![t] = [u EXCEPT !.pc = AfterStop(t), !.old = Nil]]
      \/ th' = [th EXCEPT ![t] = [u EXCEPT !.pc = "stopping", !.seen = w[o].state]]
      \/ th' = [th EXCEPT ![t] = [u EXCEPT !.pc = "joining", !.seen = Nil]]
  BY DEF stop, StopRequest, StopNotify, StopJoin, StopTimeout
<1> QED
  BY <1>2, <1>4, <1>5, <1>6, <1>7, OneThread

\* Each step of replace_worker leaves what the next one relies on.
LEMMA ReplaceLocals ==
  ASSUME TypeOK, ThreadLocals,
         \/ \E i \in Slots : monitor_worker_at(i)
         \/ SupervisorEnd \/ replace_worker
  PROVE  ThreadLocals'
<1> DEFINE u == th["sup"]
           o == u.old
           c == w[o].current
<1> USE DEF Distributing, StopPoints, RecoverPoints, ReplacePoints
<1>0. "sup" \in Threads
  BY DEF Threads
<1>1. u \in ThreadRecord /\ LocalsOf("sup", u, workers)
  BY <1>0, ThreadLocalsSplit DEF TypeOK
<1>2. CASE \E i \in Slots : monitor_worker_at(i)
  <2>1. PICK i \in Slots : monitor_worker_at(i)
    BY <1>2
  <2>2. workers[i] \in Objects
    BY <2>1 DEF monitor_worker_at, TypeOK
  <2>3. LocalsOf("sup", [u EXCEPT !.pc = "mark", !.slot = i,
                           !.force = w[workers[i]].state # "Faulted"], workers)
    BY <1>1, <2>2 DEF LocalsOf, ThreadRecord
  <2> QED
    BY <1>0, <2>1, <2>3, OneThread DEF monitor_worker_at, pool
<1>3. CASE SupervisorEnd
  <2>1. LocalsOf("sup", [u EXCEPT !.pc = "done"], workers)
    BY <1>1 DEF LocalsOf, ThreadRecord
  <2> QED
    BY <1>0, <1>3, <2>1, OneThread DEF SupervisorEnd, pool
<1>4. CASE mark_worker_not_ready
  <2>1. /\ LocalsOf("sup", [u EXCEPT !.pc = "scan"], workers)
        /\ LocalsOf("sup", [u EXCEPT !.pc = "prepare"], workers)
    BY <1>1, <1>4 DEF LocalsOf, ThreadRecord, mark_worker_not_ready
  <2>2. \/ th' = [th EXCEPT !["sup"] = [u EXCEPT !.pc = "scan"]]
        \/ th' = [th EXCEPT !["sup"] = [u EXCEPT !.pc = "prepare"]]
    BY <1>4 DEF mark_worker_not_ready
  <2> QED
    BY <1>0, <1>4, <2>1, <2>2, OneThread DEF mark_worker_not_ready
<1>5. CASE prepare_worker_replacement
  <2> DEFINE v == [u EXCEPT !.pc = "drain",
                     !.maxed = replacement_attempts[u.slot] >= max_replace_attempts,
                     !.old = workers[u.slot]]
  <2>1. u.slot \in Slots /\ workers[u.slot] \in Objects
    BY <1>1, <1>5 DEF LocalsOf, prepare_worker_replacement
  <2>2. LocalsOf("sup", v, workers')
    BY <1>1, <2>1 DEF LocalsOf, ThreadRecord
  <2>3. th' = [th EXCEPT !["sup"] = v]
    BY <1>5 DEF prepare_worker_replacement
  <2>4. LocalsOf("main", th["main"], workers')
    BY ThreadLocalsSplit DEF LocalsOf, Threads
  <2>5. \A t \in Threads : th'[t] = IF t = "sup" THEN v ELSE th[t]
    BY <2>3 DEF TypeOK
  <2> QED
    BY <2>2, <2>4, <2>5, ThreadLocalsSplitNext DEF Threads
<1>6. CASE drain_pending_requests
  <2>1. LocalsOf("sup", [u EXCEPT !.pc = "current", !.recovered = w[o].queue],
                 workers)
    BY <1>1, <1>6 DEF LocalsOf, ThreadRecord, drain_pending_requests
  <2> QED
    BY <1>0, <1>6, <2>1, OneThread DEF drain_pending_requests, pool
<1>7. CASE recover_current_request
  <2>0. o \in Objects /\ u.slot \in Slots
    BY <1>1, <1>7 DEF LocalsOf, recover_current_request
  <2>1. c \in Requests \cup {Nil}
    BY <2>0 DEF TypeOK, WorkerRecord
  <2> DEFINE next == IF u.force THEN "detach" ELSE "stop"
             again == Append(u.recovered, [data |-> c, retry_count |-> 0])
  <2>2. /\ LocalsOf("sup", [u EXCEPT !.pc = next], workers)
        /\ c \in Requests => LocalsOf("sup", [u EXCEPT !.pc = "timeout_error",
                                                       !.seen = c], workers)
        /\ LocalsOf("sup", [u EXCEPT !.pc = next, !.recovered = again], workers)
    <3> HIDE DEF again
    <3> QED
      BY <1>1, <2>0 DEF LocalsOf, ThreadRecord
  <2>3. \/ th' = [th EXCEPT !["sup"] = [u EXCEPT !.pc = next]]
        \/ c # Nil /\ th' = [th EXCEPT !["sup"] =
                               [u EXCEPT !.pc = "timeout_error", !.seen = c]]
        \/ th' = [th EXCEPT !["sup"] = [u EXCEPT !.pc = next, !.recovered = again]]
    BY <1>7, Zenon DEF recover_current_request
  <2> QED
    BY <1>0, <1>7, <2>1, <2>2, <2>3, OneThread DEF recover_current_request, pool
<1>8. CASE send_timeout_error
  <2>1. LocalsOf("sup", [u EXCEPT !.pc = "abandon"], workers)
    BY <1>1, <1>8 DEF LocalsOf, ThreadRecord, send_timeout_error
  <2> QED
    BY <1>0, <1>8, <2>1, OneThread DEF send_timeout_error, pool
<1>9. CASE abandon_request
  <2>1. LocalsOf("sup", [u EXCEPT !.pc = "detach", !.seen = Nil], workers)
    BY <1>1, <1>9 DEF LocalsOf, ThreadRecord, abandon_request
  <2> QED
    BY <1>0, <1>9, <2>1, OneThread DEF abandon_request, pool
<1>10. CASE force_detach_flags
  <2>1. LocalsOf("sup", [u EXCEPT !.pc = "detach_count"], workers)
    BY <1>1, <1>10 DEF LocalsOf, ThreadRecord, force_detach_flags
  <2> QED
    BY <1>0, <1>10, <2>1, OneThread DEF force_detach_flags, pool
<1>11. CASE force_detach_count
  <2>1. LocalsOf("sup", [u EXCEPT !.pc = "limit"], workers)
    BY <1>1, <1>11 DEF LocalsOf, ThreadRecord, force_detach_count
  <2> QED
    BY <1>0, <1>11, <2>1, OneThread DEF force_detach_count, pool
<1>12. CASE enforce_detached_worker_limit
  <2>1. LocalsOf("sup", [u EXCEPT !.pc = AfterRecover("sup"), !.old = Nil], workers)
    BY <1>1, <1>12 DEF LocalsOf, ThreadRecord, AfterRecover,
                       enforce_detached_worker_limit
  <2> QED
    BY <1>0, <1>12, <2>1, OneThread DEF enforce_detached_worker_limit, pool
<1>13. CASE spawn_replacement_worker
  <2>1. th' = [th EXCEPT !["sup"] = [u EXCEPT !.pc = "redistribute"]]
    BY <1>13 DEF spawn_replacement_worker
  <2>2. LocalsOf("sup", [u EXCEPT !.pc = "redistribute"], workers')
    BY <1>1 DEF LocalsOf, ThreadRecord
  <2>3. LocalsOf("main", th["main"], workers')
    BY ThreadLocalsSplit DEF LocalsOf, Threads
  <2>4. \A t \in Threads : th'[t] = IF t = "sup"
                                    THEN [u EXCEPT !.pc = "redistribute"]
                                    ELSE th[t]
    BY <2>1 DEF TypeOK
  <2> QED
    BY <2>2, <2>3, <2>4, ThreadLocalsSplitNext DEF Threads
<1>14. CASE redistribute_requests
  <2> DEFINE todo == u.recovered
             again == [Head(todo) EXCEPT !.retry_count = @ + 1]
  <2>1. /\ LocalsOf("sup", [u EXCEPT !.pc = "scan", !.recovered = <<>>], workers)
        /\ LocalsOf("sup", [u EXCEPT !.recovered = Tail(todo)], workers)
    BY <1>1 DEF LocalsOf, ThreadRecord
  <2>2. todo # <<>> => again \in RequestMetadata
    <3> SUFFICES ASSUME todo # <<>> PROVE again \in RequestMetadata
      OBVIOUS
    <3>1. todo \in Seq(RequestMetadata)
      BY <1>1 DEF ThreadRecord
    <3>2. Head(todo) \in RequestMetadata
      BY <3>1
    <3> QED
      BY <3>2 DEF RequestMetadata
  <2>3. todo # <<>> => LocalsOf("sup", [u EXCEPT !.recovered = Tail(todo),
                                          !.item = again, !.pc = "get"], workers)
    <3> HIDE DEF again
    <3> QED
      BY <1>1, <2>2 DEF LocalsOf, ThreadRecord
  <2>4. \/ th' = [th EXCEPT !["sup"] = [u EXCEPT !.pc = "scan", !.recovered = <<>>]]
        \/ th' = [th EXCEPT !["sup"] = [u EXCEPT !.recovered = Tail(todo)]]
        \/ /\ todo # <<>>
           /\ th' = [th EXCEPT !["sup"] = [u EXCEPT !.recovered = Tail(todo),
                                             !.item = again, !.pc = "get"]]
    BY <1>14, Zenon DEF redistribute_requests
  <2> QED
    BY <1>0, <1>14, <2>1, <2>3, <2>4, OneThread DEF redistribute_requests, pool
<1> QED
  BY <1>2, <1>3, <1>4, <1>5, <1>6, <1>7, <1>8, <1>9, <1>10, <1>11, <1>12, <1>13,
     <1>14 DEF replace_worker
\* Every step keeps what the locals of the two pool threads promise.
LEMMA NextLocals ==
  ASSUME TypeOK, ThreadLocals, Next
  PROVE  ThreadLocals'
<1> USE DEF Distributing, StopPoints, RecoverPoints, ReplacePoints
<1>1. ASSUME UNCHANGED <<th, workers>> PROVE ThreadLocals'
  BY <1>1, ThreadLocalsSplit, ThreadLocalsSplitNext
<1>2. CASE \E o \in Objects : \/ WorkerLoop(o) \/ WRespond(o) \/ WHeartbeat(o)
                              \/ WFault(o) \/ Stall(o)
  BY <1>1, <1>2 DEF WorkerLoop, WLoopTop, WBlock, WWake, WClaim, WEnterRequest,
     WRespond, WHeartbeat, WFault, WClearCurrent, WExit, WUnwind, Stall, pool
<1>3. CASE \E o \in Objects : InitStart(o) \/ InitStoreIdle(o) \/ InitFail(o)
  BY <1>1, <1>3 DEF InitStart, InitStoreIdle, InitFail, pool
<1>4. CASE \E o \in Objects : set_worker_ready(o)
  BY <1>1, <1>4, NotifyOneLocals DEF set_worker_ready, pool
<1>5. CASE Supervisor
  BY <1>5, ReplaceLocals, DistributeLocals, StopLocals DEF Supervisor, Threads
<1>6. CASE \E r \in Requests : ReadRequest(r)
  <2>1. PICK r \in Requests : ReadRequest(r)
    BY <1>6
  <2> DEFINE md == [data |-> r, retry_count |-> 0]
             v == [th["main"] EXCEPT !.pc = "get", !.item = md]
  <2>2. md \in RequestMetadata
    BY DEF RequestMetadata
  <2>3. LocalsOf("main", v, workers)
    <3>1. th["main"] \in ThreadRecord
      BY DEF TypeOK, Threads
    <3> HIDE DEF md
    <3> QED
      BY <2>2, <3>1 DEF LocalsOf, ThreadRecord
  <2> QED
    BY <2>1, <2>3, OneThread DEF ReadRequest, pool, Threads
<1>7. CASE BeginShutdown
  <2>1. workers' = workers
    BY <1>7 DEF BeginShutdown, pool
  <2>2. LocalsOf("main", th'["main"], workers)
    <3>1. th["main"] \in ThreadRecord /\ th'["main"] = [th["main"] EXCEPT !.pc = "join"]
      BY <1>7 DEF TypeOK, Threads, BeginShutdown
    <3> QED
      BY <3>1 DEF LocalsOf, ThreadRecord
  <2>3. LocalsOf("sup", th'["sup"], workers)
    <3>1. th["sup"] \in ThreadRecord /\ LocalsOf("sup", th["sup"], workers)
      BY ThreadLocalsSplit DEF TypeOK, Threads
    <3>2. \/ th'["sup"] = th["sup"]
          \/ th["sup"].pc = "waiting" /\ th'["sup"] = [th["sup"] EXCEPT !.pc = "get"]
      BY <1>7 DEF BeginShutdown, Threads
    <3> QED
      BY <3>1, <3>2 DEF LocalsOf, ThreadRecord
  <2> QED
    BY <2>1, <2>2, <2>3, ThreadLocalsSplitNext DEF Threads
<1>8. CASE JoinThreads
  <2>1. LocalsOf("main", [th["main"] EXCEPT !.pc = "stop_next", !.slot = 0], workers)
    BY DEF LocalsOf, ThreadRecord, TypeOK, Threads
  <2> QED
    BY <1>8, <2>1, OneThread DEF JoinThreads, pool, Threads
<1>9. CASE StopNextWorker
  <2> DEFINE m == th["main"]
             i == m.slot + 1
             v == [m EXCEPT !.slot = i, !.old = workers[i],
                            !.pc = IF workers[i] = Nil THEN "stop_next" ELSE "stop"]
  <2>1. m \in ThreadRecord
    BY DEF TypeOK, Threads
  <2>2. LocalsOf("main", [m EXCEPT !.pc = "done"], workers)
    BY <2>1 DEF LocalsOf, ThreadRecord
  <2>3. i \in Slots => LocalsOf("main", v, workers)
    <3>1. i \in Slots => workers[i] \in Objects \cup {Nil}
      BY DEF TypeOK
    <3> HIDE DEF i
    <3> QED
      BY <2>1, <3>1 DEF LocalsOf, ThreadRecord
  <2>4. i > NumWorkers \/ i \in Slots
    BY <2>1, PoolAssumption DEF ThreadRecord, Slots
  <2>5. \/ th' = [th EXCEPT !["main"] = [m EXCEPT !.pc = "done"]]
        \/ i \in Slots /\ th' = [th EXCEPT !["main"] = v]
    BY <1>9, <2>4, Zenon DEF StopNextWorker
  <2> QED
    BY <1>9, <2>2, <2>3, <2>5, OneThread DEF StopNextWorker, pool, Threads
<1>10. CASE distribute_request("main") \/ stop("main")
  BY <1>10, DistributeLocals, StopLocals DEF Threads
<1>11. CASE CloseStdin \/ (\E i \in Slots : BackoffElapsed(i)) \/ Terminated
  BY <1>1, <1>11 DEF CloseStdin, BackoffElapsed, Terminated, pool, vars
<1> QED
  BY <1>2, <1>3, <1>4, <1>5, <1>6, <1>7, <1>8, <1>9, <1>10, <1>11
  DEF Next, initialize_worker, MainThread, Shutdown, Environment

-----------------------------------------------------------------------------
(* live_detached covers the detached threads *)

\* A step that sets no detached flag and keeps the count keeps the bound.
LEMMA LeakCountKept ==
  ASSUME LeakCount, live_detached' = live_detached, live_detached \in Nat,
         \A o \in Objects : w'[o].detached => w[o].detached
  PROVE  LeakCount'
<1>1. DetachedFlags' \subseteq DetachedFlags
  BY DEF DetachedFlags
<1>2. IsFiniteSet(DetachedFlags)
  BY ObjectsFinite, FS_Subset DEF DetachedFlags
<1>3. /\ Cardinality(DetachedFlags') \in Nat /\ Cardinality(DetachedFlags) \in Nat
      /\ Cardinality(DetachedFlags') <= Cardinality(DetachedFlags)
  BY <1>1, <1>2, FS_Subset, FS_CardinalityType
<1> QED
  BY <1>3 DEF LeakCount

\* Every step keeps the count of detached threads above their number.
LEMMA NextLeaks ==
  ASSUME TypeOK, ThreadLocals, LeakCount, Next
  PROVE  LeakCount'
<1>0. /\ live_detached \in Nat
      /\ \A o \in Objects : w[o] \in WorkerRecord
      /\ w \in [Objects -> WorkerRecord]
  BY DEF TypeOK
<1>00. IsFiniteSet(DetachedFlags) /\ Cardinality(DetachedFlags) \in Nat
  BY ObjectsFinite, FS_Subset, FS_CardinalityType DEF DetachedFlags
<1>1. ASSUME UNCHANGED <<w, live_detached>> PROVE LeakCount'
  BY <1>0, <1>1, LeakCountKept
<1>2. ASSUME NEW o \in Objects, NEW x, w' = [w EXCEPT ![o] = x],
             x.detached = w[o].detached, live_detached' = live_detached
      PROVE  LeakCount'
  BY <1>0, <1>2, LeakCountKept
<1>3. CASE \E o \in Objects : WLoopTop(o) \/ WWake(o)
  <2>1. PICK o \in Objects : WLoopTop(o) \/ WWake(o)
    BY <1>3
  <2>2. [w[o] EXCEPT !.state = "Idle", !.stale = FALSE] \in WorkerRecord
    BY <1>0 DEF WorkerRecord, WorkerState
  <2>3. [w[o] EXCEPT !.state = "Idle", !.stale = FALSE].detached = w[o].detached
    BY <1>0 DEF WorkerRecord
  <2> QED
    BY <1>0, <1>2, <2>1, <2>2, <2>3, PollQueueTyped DEF WLoopTop, WWake
<1>4. CASE \E o \in Objects : \/ WBlock(o) \/ WClaim(o) \/ WEnterRequest(o)
                              \/ WRespond(o) \/ WHeartbeat(o)
  <2>1. PICK o \in Objects : \/ WBlock(o) \/ WClaim(o) \/ WEnterRequest(o)
                             \/ WRespond(o) \/ WHeartbeat(o)
    BY <1>4
  <2>2. CASE WBlock(o) \/ WEnterRequest(o)
    <3>1. \A p \in WorkerPC : [w[o] EXCEPT !.pc = p].detached = w[o].detached
      BY <1>0 DEF WorkerRecord
    <3> QED
      BY <1>2, <2>2, <3>1 DEF WBlock, WEnterRequest, WorkerPC
  <2>3. CASE WClaim(o)
    <3>1. [w[o] EXCEPT !.stale = FALSE, !.current = w[o].hand,
                       !.pc = "claimed"].detached = w[o].detached
      BY <1>0 DEF WorkerRecord
    <3> QED
      BY <1>2, <2>3, <3>1 DEF WClaim
  <2>4. CASE WRespond(o)
    <3>1. [w[o] EXCEPT !.stale = FALSE, !.pc = "finished"].detached = w[o].detached
      BY <1>0 DEF WorkerRecord
    <3> QED
      BY <1>2, <2>4, <3>1 DEF WRespond
  <2>5. CASE WHeartbeat(o)
    <3>1. [w[o] EXCEPT !.stale = FALSE].detached = w[o].detached
      BY <1>0 DEF WorkerRecord
    <3> QED
      BY <1>2, <2>5, <3>1 DEF WHeartbeat
  <2> QED
    BY <2>1, <2>2, <2>3, <2>4, <2>5
<1>5. CASE \E o \in Objects : \/ WFault(o) \/ WClearCurrent(o) \/ WExit(o)
                              \/ Stall(o)
  <2>1. PICK o \in Objects : WFault(o) \/ WClearCurrent(o) \/ WExit(o) \/ Stall(o)
    BY <1>5
  <2>2. CASE WFault(o)
    <3>1. [w[o] EXCEPT !.state = "Faulted", !.stale = FALSE, !.stop = TRUE,
                       !.pc = "unwinding"].detached = w[o].detached
      BY <1>0 DEF WorkerRecord
    <3> QED
      BY <1>2, <2>2, <3>1 DEF WFault
  <2>3. CASE WClearCurrent(o)
    <3>1. [w[o] EXCEPT !.current = Nil, !.hand = Nil, !.pc = "top"].detached
            = w[o].detached
      BY <1>0 DEF WorkerRecord
    <3> QED
      BY <1>2, <2>3, <3>1 DEF WClearCurrent
  <2>4. CASE WExit(o)
    <3>1. [w[o] EXCEPT !.state = "Exited", !.stale = FALSE,
                       !.pc = "unwinding"].detached = w[o].detached
      BY <1>0 DEF WorkerRecord
    <3> QED
      BY <1>2, <2>4, <3>1 DEF WExit
  <2>5. CASE Stall(o)
    <3>1. [w[o] EXCEPT !.stale = TRUE].detached = w[o].detached
      BY <1>0 DEF WorkerRecord
    <3> QED
      BY <1>2, <2>5, <3>1 DEF Stall
  <2> QED
    BY <2>1, <2>2, <2>3, <2>4, <2>5
<1>6. CASE \E o \in Objects : WUnwind(o)
  <2>1. PICK o \in Objects : WUnwind(o)
    BY <1>6
  <2>2. \A v \in Objects : w'[v].detached <=> (v # o /\ w[v].detached)
    BY <1>0, <2>1 DEF WUnwind, WorkerRecord
  <2>3. DetachedFlags' = DetachedFlags \ {o}
    BY <2>2 DEF DetachedFlags
  <2>4. CASE w[o].detached
    <3>1. o \in DetachedFlags
      BY <2>4 DEF DetachedFlags
    <3>2. Cardinality(DetachedFlags') = Cardinality(DetachedFlags) - 1
      BY <1>00, <2>3, <3>1, FS_RemoveElement
    <3> QED
      BY <1>0, <1>00, <2>1, <2>4, <3>2 DEF WUnwind, LeakCount
  <2>5. CASE ~w[o].detached
    BY <1>0, <2>1, <2>2, <2>5, LeakCountKept DEF WUnwind
  <2> QED
    BY <2>4, <2>5
<1>7. CASE \E o \in Objects : InitFail(o) \/ InitStoreIdle(o) \/ set_worker_ready(o)
  <2>1. PICK o \in Objects : InitFail(o) \/ InitStoreIdle(o) \/ set_worker_ready(o)
    BY <1>7
  <2>2. CASE InitFail(o) \/ set_worker_ready(o)
    <3>1. [w[o] EXCEPT !.init = "done"].detached = w[o].detached
      BY <1>0 DEF WorkerRecord
    <3> QED
      BY <1>2, <2>2, <3>1 DEF InitFail, set_worker_ready
  <2>3. CASE InitStoreIdle(o)
    <3>1. [w[o] EXCEPT !.state = "Idle", !.stale = FALSE, !.init = "ready"].detached
            = w[o].detached
      BY <1>0 DEF WorkerRecord
    <3> QED
      BY <1>2, <2>3, <3>1 DEF InitStoreIdle
  <2> QED
    BY <2>1, <2>2, <2>3
<1>8. CASE \E o \in Objects : InitStart(o)
  <2>1. PICK o \in Objects : InitStart(o)
    BY <1>8
  <2>2. \A v \in Objects : w'[v].detached = w[v].detached
    BY <1>0, <2>1, ZenonT(30) DEF InitStart, WorkerRecord
  <2> QED
    BY <1>0, <2>1, <2>2, LeakCountKept DEF InitStart
<1>9. CASE \E t \in Threads : get_ready_worker(t) \/ WaitReady(t)
  BY <1>1, <1>9 DEF get_ready_worker, WaitReady, objs
<1>10. CASE \E t \in Threads : add_request(t)
  <2>1. PICK t \in Threads : add_request(t)
    BY <1>10
  <2>2. \A v \in Objects : w'[v].detached = w[v].detached
    BY <1>0, <2>1 DEF add_request, Notify, WorkerRecord
  <2> QED
    BY <1>0, <2>1, <2>2, LeakCountKept DEF add_request
<1>11. CASE \E t \in Threads : stop(t)
  <2>1. PICK t \in Threads : stop(t)
    BY <1>11
  <2> DEFINE o == th[t].old
  <2>2. o \in Objects
    BY <2>1 DEF stop, StopRequest, StopNotify, StopJoin, StopTimeout, ThreadLocals,
                StopPoints
  <2>3. w[o] \in WorkerRecord
    BY <1>0, <2>2
  <2>4. CASE StopRequest(t)
    <3>1. [w[o] EXCEPT !.stop = TRUE].detached = w[o].detached
      BY <2>3 DEF WorkerRecord
    <3> QED
      BY <1>1, <1>2, <2>2, <2>4, <3>1 DEF StopRequest
  <2>5. CASE StopNotify(t)
    <3> DEFINE x == IF th[t].seen = "Faulted" THEN w[o]
                    ELSE [w[o] EXCEPT !.state = "Stopping"]
    <3>1. x \in WorkerRecord /\ x.detached = w[o].detached
      BY <2>3 DEF WorkerRecord, WorkerState
    <3>2. Notify(x).detached = w[o].detached
      BY <3>1, NotifyTyped
    <3> QED
      BY <1>2, <2>2, <2>5, <3>2 DEF StopNotify
  <2>6. CASE StopJoin(t)
    <3>1. [w[o] EXCEPT !.joinable = FALSE,
                       !.state = IF w[o].state = "Faulted" THEN "Faulted"
                                 ELSE "Exited"].detached = w[o].detached
      BY <2>3 DEF WorkerRecord
    <3> QED
      BY <1>2, <2>2, <2>6, <3>1 DEF StopJoin
  <2>7. CASE StopTimeout(t)
    <3>1. [w[o] EXCEPT !.joinable = FALSE, !.state = "Faulted"].detached
            = w[o].detached
      BY <2>3 DEF WorkerRecord
    <3> QED
      BY <1>2, <2>2, <2>7, <3>1 DEF StopTimeout
  <2> QED
    BY <2>1, <2>4, <2>5, <2>6, <2>7 DEF stop
<1>12. CASE drain_pending_requests \/ force_detach_flags
  <2> DEFINE o == th["sup"].old
  <2>1. o \in Objects
    BY <1>12 DEF drain_pending_requests, force_detach_flags, ThreadLocals,
                 RecoverPoints
  <2>2. w[o] \in WorkerRecord
    BY <1>0, <2>1
  <2>3. CASE drain_pending_requests
    <3>1. [w[o] EXCEPT !.queue = <<>>].detached = w[o].detached
      BY <2>2 DEF WorkerRecord
    <3> QED
      BY <1>2, <2>1, <2>3, <3>1 DEF drain_pending_requests
  <2>4. CASE force_detach_flags
    <3> DEFINE x == [w[o] EXCEPT !.stop = TRUE, !.state = "Faulted"]
    <3>1. x \in WorkerRecord /\ x.detached = w[o].detached
      BY <2>2 DEF WorkerRecord, WorkerState
    <3>2. Notify(x).detached = w[o].detached
      BY <3>1, NotifyTyped
    <3> QED
      BY <1>2, <2>1, <2>4, <3>2 DEF force_detach_flags
  <2> QED
    BY <1>12, <2>3, <2>4
<1>13. CASE force_detach_count
  <2> DEFINE o == th["sup"].old
  <2>1. o \in Objects
    BY <1>13 DEF force_detach_count, ThreadLocals, RecoverPoints
  <2>2. CASE w[o].joinable
    <3>0. w' = [w EXCEPT ![o] = [w[o] EXCEPT !.detached = TRUE, !.stale = FALSE,
                                             !.joinable = FALSE]]
      BY <1>13, <2>2 DEF force_detach_count
    <3>1. \A v \in Objects : w'[v].detached <=> (v = o \/ w[v].detached)
      BY <1>0, <2>1, <3>0 DEF WorkerRecord
    <3>2. DetachedFlags' = DetachedFlags \cup {o}
      BY <2>1, <3>1 DEF DetachedFlags
    <3>3. Cardinality(DetachedFlags') <= Cardinality(DetachedFlags) + 1
      <4>1. CASE o \in DetachedFlags
        <5>1. DetachedFlags' = DetachedFlags
          BY <3>2, <4>1
        <5> QED
          BY <1>00, <5>1
      <4>2. CASE o \notin DetachedFlags
        BY <1>00, <3>2, <4>2, FS_AddElement
      <4> QED
        BY <4>1, <4>2
    <3>4. Cardinality(DetachedFlags') \in Nat
      BY <1>00, <3>2, FS_AddElement, FS_CardinalityType
    <3> QED
      BY <1>0, <1>00, <1>13, <2>2, <3>3, <3>4 DEF force_detach_count, LeakCount
  <2>3. CASE ~w[o].joinable
    <3>1. \A v \in Objects : w'[v].detached = w[v].detached
      BY <1>0, <1>13, <2>3 DEF force_detach_count, WorkerRecord
    <3> QED
      BY <1>0, <1>13, <2>3, <3>1, LeakCountKept DEF force_detach_count
  <2> QED
    BY <2>2, <2>3
<1>14. CASE spawn_replacement_worker
  <2>1. \A v \in Objects : w'[v].detached => w[v].detached
    BY <1>0, <1>14 DEF spawn_replacement_worker, NewWorker
  <2> QED
    BY <1>0, <1>14, <2>1, LeakCountKept DEF spawn_replacement_worker
<1>15. CASE \/ \E i \in Slots : monitor_worker_at(i) \/ BackoffElapsed(i)
            \/ SupervisorEnd \/ mark_worker_not_ready
            \/ prepare_worker_replacement \/ recover_current_request
            \/ send_timeout_error \/ abandon_request
            \/ enforce_detached_worker_limit \/ redistribute_requests
  BY <1>1, <1>15
  DEF monitor_worker_at, BackoffElapsed, SupervisorEnd, mark_worker_not_ready,
      prepare_worker_replacement, recover_current_request, send_timeout_error,
      abandon_request, enforce_detached_worker_limit, redistribute_requests, objs
<1>16. CASE \/ \E r \in Requests : ReadRequest(r)
            \/ CloseStdin \/ BeginShutdown \/ JoinThreads \/ StopNextWorker
            \/ Terminated
  BY <1>1, <1>16 DEF ReadRequest, CloseStdin, BeginShutdown, JoinThreads,
                     StopNextWorker, Terminated, objs, vars
<1> QED
  BY <1>3, <1>4, <1>5, <1>6, <1>7, <1>8, <1>9, <1>10, <1>11, <1>12, <1>13, <1>14,
     <1>15, <1>16
  DEF Next, WorkerLoop, initialize_worker, Supervisor, replace_worker, MainThread,
      Shutdown, Environment, distribute_request, Threads
-----------------------------------------------------------------------------
(* ready_count covers the slots marked ready *)

\* Every step keeps ready_count at or above the number of slots marked ready.
LEMMA NextReadyCount ==
  ASSUME TypeOK, ThreadLocals, ReadyCountCovers, Next
  PROVE  ReadyCountCovers'
<1>0. /\ ready_count \in Nat /\ ready_list \in [Slots -> BOOLEAN]
      /\ IsFiniteSet(ReadySlots) /\ Cardinality(ReadySlots) \in Nat
  BY SlotsFinite, FS_Subset, FS_CardinalityType DEF TypeOK, ReadySlots
<1>1. ASSUME UNCHANGED <<ready_list, ready_count>> PROVE ReadyCountCovers'
  BY <1>1 DEF ReadyCountCovers, ReadySlots
<1>2. CASE \E o \in Objects : set_worker_ready(o)
  <2>1. PICK o \in Objects : set_worker_ready(o)
    BY <1>2
  <2> DEFINE i == w[o].slot
  <2>2. i \in Slots
    BY DEF TypeOK, WorkerRecord
  <2>3. CASE UNCHANGED <<ready_list, ready_count>>
    BY <1>1, <2>3
  <2>4. CASE /\ ~ready_list[i]
             /\ ready_list' = [ready_list EXCEPT ![i] = TRUE]
             /\ ready_count' = ready_count + 1
    <3>1. ReadySlots' = ReadySlots \cup {i} /\ i \notin ReadySlots
      BY <1>0, <2>2, <2>4 DEF ReadySlots
    <3>2. Cardinality(ReadySlots') = Cardinality(ReadySlots) + 1
      BY <1>0, <3>1, FS_AddElement
    <3> QED
      BY <1>0, <2>4, <3>2 DEF ReadyCountCovers
  <2> QED
    BY <2>1, <2>3, <2>4 DEF set_worker_ready, pool
<1>3. CASE mark_worker_not_ready
  <2> DEFINE i == th["sup"].slot
  <2>1. i \in Slots
    BY <1>3 DEF mark_worker_not_ready, ThreadLocals, ReplacePoints
  <2>2. CASE is_shutting_down \/ ~ready_list[i]
    <3>1. ready_count' = ready_count /\ ready_list' = ready_list
      BY <1>0, <1>3, <2>1, <2>2 DEF mark_worker_not_ready
    <3> QED
      BY <1>1, <3>1
  <2>3. CASE ~is_shutting_down /\ ready_list[i]
    <3>1. i \in ReadySlots
      BY <2>1, <2>3 DEF ReadySlots
    <3>2. ReadySlots' = ReadySlots \ {i}
      BY <1>0, <1>3, <2>1, <2>3 DEF mark_worker_not_ready, ReadySlots
    <3>3. Cardinality(ReadySlots') = Cardinality(ReadySlots) - 1
      BY <1>0, <3>1, <3>2, FS_RemoveElement
    <3>4. Cardinality(ReadySlots) > 0
      BY <1>0, <3>1, FS_EmptySet
    <3>5. ready_count' = ready_count - 1
      BY <1>0, <1>3, <2>3, <3>4 DEF mark_worker_not_ready, ReadyCountCovers
    <3> QED
      BY <1>0, <3>3, <3>5 DEF ReadyCountCovers
  <2> QED
    BY <2>2, <2>3
<1>4. CASE spawn_replacement_worker
  <2>1. ready_count' = ready_count /\ ReadySlots' \subseteq ReadySlots
    BY <1>0, <1>4 DEF spawn_replacement_worker, ReadySlots
  <2>2. /\ Cardinality(ReadySlots') \in Nat
        /\ Cardinality(ReadySlots') <= Cardinality(ReadySlots)
    BY <1>0, <2>1, FS_Subset, FS_CardinalityType
  <2> QED
    BY <1>0, <2>1, <2>2 DEF ReadyCountCovers
<1>5. CASE \E o \in Objects : \/ WorkerLoop(o) \/ WRespond(o) \/ WHeartbeat(o)
                              \/ WFault(o) \/ Stall(o)
  BY <1>1, <1>5 DEF WorkerLoop, WLoopTop, WBlock, WWake, WClaim, WEnterRequest,
     WRespond, WHeartbeat, WFault, WClearCurrent, WExit, WUnwind, Stall, pool
<1>6. CASE \E o \in Objects : InitStart(o) \/ InitStoreIdle(o) \/ InitFail(o)
  BY <1>1, <1>6 DEF InitStart, InitStoreIdle, InitFail, pool
<1>7. CASE \E t \in Threads : distribute_request(t) \/ stop(t)
  BY <1>1, <1>7 DEF distribute_request, get_ready_worker, WaitReady, add_request,
     stop, StopRequest, StopNotify, StopJoin, StopTimeout, pool
<1>8. CASE \/ \E i \in Slots : monitor_worker_at(i) \/ BackoffElapsed(i)
           \/ SupervisorEnd \/ prepare_worker_replacement
           \/ drain_pending_requests \/ recover_current_request
           \/ send_timeout_error \/ abandon_request \/ force_detach_flags
           \/ force_detach_count \/ enforce_detached_worker_limit
           \/ redistribute_requests
  BY <1>1, <1>8
  DEF monitor_worker_at, BackoffElapsed, SupervisorEnd, prepare_worker_replacement,
      drain_pending_requests, recover_current_request, send_timeout_error,
      abandon_request, force_detach_flags, force_detach_count,
      enforce_detached_worker_limit, redistribute_requests, pool
<1>9. CASE \/ \E r \in Requests : ReadRequest(r)
           \/ CloseStdin \/ BeginShutdown \/ JoinThreads \/ StopNextWorker
           \/ Terminated
  BY <1>1, <1>9 DEF ReadRequest, CloseStdin, BeginShutdown, JoinThreads,
                    StopNextWorker, Terminated, pool, vars
<1> QED
  BY <1>2, <1>3, <1>4, <1>5, <1>6, <1>7, <1>8, <1>9
  DEF Next, initialize_worker, Supervisor, replace_worker, MainThread, Shutdown,
      Environment, Threads

-----------------------------------------------------------------------------
(* Who was told about a timeout *)

\* Every id in the ring, and the one about to enter it, was sent its error; and
\* DiscardOnlyAfterTimeout itself.
ToldOnTimeout ==
  /\ \A r \in Requests : r \in abandoned.ids => req[r].timeouts >= 1
  /\ th["sup"].pc = "abandon" => req[th["sup"].seen].timeouts >= 1
  /\ DiscardOnlyAfterTimeout

\* A step that lets no id into the ring, discards nothing, forgets no timeout
\* error and does not bring the supervisor to the ring keeps it.
LEMMA ToldKept ==
  ASSUME TypeOK, ThreadLocals, ToldOnTimeout,
         abandoned'.ids \subseteq abandoned.ids,
         \A r \in Requests : /\ req'[r].timeouts = req[r].timeouts
                             /\ req'[r].discarded = req[r].discarded,
         \/ th'["sup"] = th["sup"]
         \/ th'["sup"].pc # "abandon"
  PROVE  ToldOnTimeout'
<1>1. th["sup"].pc = "abandon" => th["sup"].seen \in Requests
  BY DEF ThreadLocals
<1> QED
  BY <1>1 DEF ToldOnTimeout, DiscardOnlyAfterTimeout

\* Every step keeps ToldOnTimeout.
LEMMA NextTold ==
  ASSUME TypeOK, ThreadLocals, ToldOnTimeout, Next
  PROVE  ToldOnTimeout'
<1>0. /\ req \in [Requests -> RequestRecord] /\ th["sup"] \in ThreadRecord
      /\ \A r \in Requests : req[r] \in RequestRecord /\ req[r].timeouts \in Nat
      /\ th \in [Threads -> ThreadRecord]
  BY DEF TypeOK, Threads, RequestRecord
<1>1. ASSUME UNCHANGED <<req, abandoned>>, th'["sup"] = th["sup"]
      PROVE  ToldOnTimeout'
  BY <1>1, ToldKept
<1>2. ASSUME UNCHANGED <<req, abandoned>>, th'["sup"].pc # "abandon"
      PROVE  ToldOnTimeout'
  BY <1>2, ToldKept
<1>3. CASE \E o \in Objects : WEnterRequest(o)
  <2>1. PICK o \in Objects : WEnterRequest(o)
    BY <1>3
  <2>2. abandoned'.ids \subseteq abandoned.ids
    BY <2>1 DEF WEnterRequest, clear_abandoned
  <2>3. \A r \in Requests : /\ req'[r].timeouts = req[r].timeouts
                            /\ req'[r].discarded = req[r].discarded
    BY <1>0, <2>1 DEF WEnterRequest, RequestRecord
  <2> QED
    BY <2>1, <2>2, <2>3, ToldKept DEF WEnterRequest
<1>4. CASE \E o \in Objects : WRespond(o)
  <2>1. PICK o \in Objects : WRespond(o)
    BY <1>4
  <2> DEFINE h == w[o].hand
  <2>2. CASE is_abandoned(abandoned, h)
    <3>1. \A r \in Requests : /\ req'[r].timeouts = req[r].timeouts
                              /\ req'[r].discarded => req[r].discarded \/ r = h
      BY <1>0, <2>1, <2>2 DEF WRespond, RequestRecord
    <3>2. abandoned' = abandoned /\ th' = th
      BY <2>1 DEF WRespond, proc
    <3>3. th["sup"].pc = "abandon" => th["sup"].seen \in Requests
      BY DEF ThreadLocals
    <3> QED
      BY <2>2, <3>1, <3>2, <3>3 DEF ToldOnTimeout, DiscardOnlyAfterTimeout,
                                    is_abandoned
  <2>3. CASE ~is_abandoned(abandoned, h)
    <3>1. \A r \in Requests : /\ req'[r].timeouts = req[r].timeouts
                              /\ req'[r].discarded = req[r].discarded
      BY <1>0, <2>1, <2>3 DEF WRespond, RequestRecord
    <3> QED
      BY <2>1, <3>1, ToldKept DEF WRespond, proc
  <2> QED
    BY <2>2, <2>3
<1>5. CASE send_timeout_error
  <2> DEFINE c == th["sup"].seen
  <2>1. c \in Requests
    BY <1>5 DEF send_timeout_error, ThreadLocals
  <2>2. /\ \A r \in Requests : /\ req'[r].timeouts >= req[r].timeouts
                               /\ req'[r].timeouts \in Nat
                               /\ req'[r].discarded = req[r].discarded
        /\ req'[c].timeouts >= 1
    <3>1. CASE is_abandoned(abandoned, c)
      BY <1>0, <1>5, <2>1, <3>1
      DEF send_timeout_error, ToldOnTimeout, is_abandoned
    <3>2. CASE ~is_abandoned(abandoned, c)
      BY <1>0, <1>5, <2>1, <3>2 DEF send_timeout_error, RequestRecord
    <3> QED
      BY <3>1, <3>2
  <2>3. abandoned' = abandoned /\ th'["sup"].seen = c
    BY <1>0, <1>5 DEF send_timeout_error, proc, Threads, ThreadRecord
  <2> QED
    BY <1>0, <2>2, <2>3 DEF ToldOnTimeout, DiscardOnlyAfterTimeout
<1>6. CASE abandon_request
  <2> DEFINE c == th["sup"].seen
  <2>1. c \in Requests /\ req[c].timeouts >= 1
    BY <1>6 DEF abandon_request, ThreadLocals, ToldOnTimeout
  <2>2. abandoned'.ids \subseteq abandoned.ids \cup {c}
    BY <1>6 DEF abandon_request, mark_abandoned, EvictOldest
  <2>3. req' = req /\ th'["sup"].pc = "detach"
    BY <1>0, <1>6 DEF abandon_request, Threads, ThreadRecord
  <2> QED
    BY <2>1, <2>2, <2>3 DEF ToldOnTimeout, DiscardOnlyAfterTimeout
<1>7. CASE \E t \in Threads : get_ready_worker(t)
  <2>1. PICK t \in Threads : get_ready_worker(t)
    BY <1>7
  <2>2. CASE Dropped(t)
    <3>1. \A r \in Requests : /\ req'[r].timeouts = req[r].timeouts
                              /\ req'[r].discarded = req[r].discarded
      BY <1>0, <2>2 DEF Dropped, RequestRecord
    <3>2. th'["sup"] = th["sup"] \/ th'["sup"].pc = "redistribute"
      BY <1>0, <2>2 DEF Dropped, AfterDistribute, Threads, ThreadRecord
    <3> QED
      BY <2>1, <3>1, <3>2, ToldKept DEF get_ready_worker, proc
  <2>3. CASE ~Dropped(t)
    <3>1. req' = req /\ abandoned' = abandoned
      BY <2>1, <2>3 DEF get_ready_worker, proc
    <3>2. \/ th' = [th EXCEPT ![t].pc = "blocking"]
          \/ \E x : th' = [th EXCEPT ![t] = [@ EXCEPT !.target = x, !.pc = "add"]]
      BY <2>1, <2>3 DEF get_ready_worker, RotateReadyQueue
    <3>3. th'["sup"] = th["sup"] \/ th'["sup"].pc \in {"blocking", "add"}
      <4>0. /\ [th["sup"] EXCEPT !.pc = "blocking"].pc = "blocking"
            /\ \A x : [th["sup"] EXCEPT !.target = x, !.pc = "add"].pc = "add"
        BY <1>0 DEF ThreadRecord
      <4>1. CASE t = "sup"
        <5>1. CASE th' = [th EXCEPT ![t].pc = "blocking"]
          <6>1. th'["sup"] = [th["sup"] EXCEPT !.pc = "blocking"]
            BY <1>0, <4>1, <5>1 DEF Threads
          <6> QED
            BY <4>0, <6>1
        <5>2. CASE \E x : th' = [th EXCEPT ![t] = [@ EXCEPT !.target = x, !.pc = "add"]]
          <6>1. PICK x : th' = [th EXCEPT ![t] = [@ EXCEPT !.target = x, !.pc = "add"]]
            BY <5>2
          <6>2. th'["sup"] = [th["sup"] EXCEPT !.target = x, !.pc = "add"]
            BY <1>0, <4>1, <6>1 DEF Threads
          <6> QED
            BY <4>0, <6>2
        <5> QED
          BY <3>2, <5>1, <5>2
      <4>2. CASE t # "sup"
        BY <1>0, <3>2, <4>2 DEF Threads
      <4> QED
        BY <4>1, <4>2
    <3> QED
      BY <1>1, <1>2, <3>1, <3>3
  <2> QED
    BY <2>2, <2>3
<1>8. CASE redistribute_requests
  <2>1. \A r \in Requests : /\ req'[r].timeouts = req[r].timeouts
                            /\ req'[r].discarded = req[r].discarded
    <3> DEFINE todo == th["sup"].recovered
               all == [r \in Requests |-> IF \E k \in DOMAIN todo : todo[k].data = r
                                          THEN [req[r] EXCEPT !.dropped = TRUE]
                                          ELSE req[r]]
    <3>1. \/ req' = req
          \/ req' = [req EXCEPT ![Head(todo).data].dropped = TRUE]
          \/ req' = all
      BY <1>8, Zenon DEF redistribute_requests
    <3>2. \A r \in Requests : \/ all[r] = req[r]
                              \/ all[r] = [req[r] EXCEPT !.dropped = TRUE]
      OBVIOUS
    <3>3. \A r \in Requests :
            LET d == [req[r] EXCEPT !.dropped = TRUE]
            IN  d.timeouts = req[r].timeouts /\ d.discarded = req[r].discarded
      BY <1>0 DEF RequestRecord
    <3>4. \A r \in Requests : \/ req'[r] = req[r]
                              \/ req'[r] = [req[r] EXCEPT !.dropped = TRUE]
      <4> HIDE DEF all
      <4> QED
        BY <1>0, <3>1, <3>2
    <3> QED
      BY <3>3, <3>4
  <2>2. th'["sup"].pc # "abandon"
    <3> DEFINE u == th["sup"]
               todo == u.recovered
               again == [Head(todo) EXCEPT !.retry_count = @ + 1]
    <3>1. \/ th' = [th EXCEPT !["sup"] = [u EXCEPT !.pc = "scan", !.recovered = <<>>]]
          \/ th' = [th EXCEPT !["sup"] = [u EXCEPT !.recovered = Tail(todo)]]
          \/ th' = [th EXCEPT !["sup"] = [u EXCEPT !.recovered = Tail(todo),
                                           !.item = again, !.pc = "get"]]
      BY <1>8, Zenon DEF redistribute_requests
    <3>2. u.pc = "redistribute"
      BY <1>8 DEF redistribute_requests
    <3> HIDE DEF again
    <3> QED
      BY <1>0, <3>1, <3>2 DEF Threads, ThreadRecord
  <2> QED
    BY <1>8, <2>1, <2>2, ToldKept DEF redistribute_requests, proc
<1>9. CASE \E r \in Requests : ReadRequest(r)
  <2>1. PICK r \in Requests : ReadRequest(r)
    BY <1>9
  <2>2. \A q \in Requests : /\ req'[q].timeouts = req[q].timeouts
                            /\ req'[q].discarded = req[q].discarded
    BY <1>0, <2>1 DEF ReadRequest, RequestRecord
  <2>3. th'["sup"] = th["sup"]
    BY <1>0, <2>1 DEF ReadRequest, Threads
  <2> QED
    BY <2>1, <2>2, <2>3, ToldKept DEF ReadRequest, proc
<1>10. CASE \E o \in Objects :
              \/ WLoopTop(o) \/ WBlock(o) \/ WWake(o) \/ WClaim(o)
              \/ WClearCurrent(o) \/ WExit(o) \/ WUnwind(o) \/ WHeartbeat(o)
              \/ WFault(o) \/ Stall(o) \/ InitStart(o) \/ InitStoreIdle(o)
              \/ InitFail(o)
  BY <1>1, <1>10 DEF WLoopTop, WBlock, WWake, WClaim, WClearCurrent, WExit, WUnwind,
     WHeartbeat, WFault, Stall, InitStart, InitStoreIdle, InitFail, proc
<1>11. CASE \E o \in Objects : set_worker_ready(o)
  <2>1. UNCHANGED <<req, abandoned>>
    BY <1>11 DEF set_worker_ready, proc
  <2>2. th' = th \/ th' \in NotifyOne(th)
    BY <1>11 DEF set_worker_ready
  <2>3. th'["sup"] = th["sup"] \/ th'["sup"].pc = "get"
    BY <1>0, <2>2, NotifyOneTyped DEF ThreadRecord, Threads
  <2> QED
    BY <1>1, <1>2, <2>1, <2>3
<1>12. CASE \E t \in Threads : WaitReady(t) \/ add_request(t) \/ stop(t)
  <2>1. PICK t \in Threads : WaitReady(t) \/ add_request(t) \/ stop(t)
    BY <1>12
  <2>2. UNCHANGED <<req, abandoned>>
    BY <2>1 DEF WaitReady, add_request, stop, StopRequest, StopNotify, StopJoin,
                StopTimeout, proc
  <2> DEFINE u == th[t]
             o == u.old
  <2>3. \/ th' = [th EXCEPT ![t] = [u EXCEPT !.pc = "waiting"]]
        \/ th' = [th EXCEPT ![t] = [u EXCEPT !.pc = AfterDistribute(t),
                                             !.item = Nil, !.target = Nil]]
        \/ th' = [th EXCEPT ![t] = [u EXCEPT !.pc = AfterStop(t), !.old = Nil]]
        \/ th' = [th EXCEPT ![t] = [u EXCEPT !.pc = "stopping", !.seen = w[o].state]]
        \/ th' = [th EXCEPT ![t] = [u EXCEPT !.pc = "joining", !.seen = Nil]]
    BY <2>1 DEF WaitReady, add_request, stop, StopRequest, StopNotify, StopJoin,
                StopTimeout
  <2>4. AfterDistribute(t) # "abandon" /\ AfterStop(t) # "abandon"
    BY DEF AfterDistribute, AfterStop, AfterRecover
  <2>5. \E v : th' = [th EXCEPT ![t] = v] /\ v.pc # "abandon"
    <3>1. /\ [u EXCEPT !.pc = "waiting"].pc = "waiting"
          /\ [u EXCEPT !.pc = AfterDistribute(t), !.item = Nil, !.target = Nil].pc
               = AfterDistribute(t)
          /\ [u EXCEPT !.pc = AfterStop(t), !.old = Nil].pc = AfterStop(t)
          /\ [u EXCEPT !.pc = "stopping", !.seen = w[o].state].pc = "stopping"
          /\ [u EXCEPT !.pc = "joining", !.seen = Nil].pc = "joining"
      BY <1>0 DEF ThreadRecord
    <3> QED
      BY <2>3, <2>4, <3>1
  <2>6. th'["sup"] = th["sup"] \/ th'["sup"].pc # "abandon"
    BY <1>0, <2>5 DEF Threads
  <2> QED
    BY <1>1, <1>2, <2>2, <2>6
<1>13. CASE \/ \E i \in Slots : monitor_worker_at(i)
            \/ SupervisorEnd \/ mark_worker_not_ready
            \/ prepare_worker_replacement \/ drain_pending_requests
            \/ recover_current_request \/ force_detach_flags
            \/ force_detach_count \/ enforce_detached_worker_limit
            \/ spawn_replacement_worker
  <2>1. UNCHANGED <<req, abandoned>>
    BY <1>13 DEF monitor_worker_at, SupervisorEnd, mark_worker_not_ready,
       prepare_worker_replacement, drain_pending_requests, recover_current_request,
       force_detach_flags, force_detach_count, enforce_detached_worker_limit,
       spawn_replacement_worker, proc
  <2> DEFINE u == th["sup"]
  <2>3. th'["sup"].pc # "abandon"
    <3>1. CASE \E i \in Slots : monitor_worker_at(i)
      BY <1>0, <3>1 DEF monitor_worker_at, Threads, ThreadRecord
    <3>2. CASE SupervisorEnd \/ mark_worker_not_ready
      BY <1>0, <3>2 DEF SupervisorEnd, mark_worker_not_ready, Threads, ThreadRecord
    <3>3. CASE prepare_worker_replacement
      BY <1>0, <3>3 DEF prepare_worker_replacement, Threads, ThreadRecord
    <3>4. CASE drain_pending_requests
      BY <1>0, <3>4 DEF drain_pending_requests, Threads, ThreadRecord
    <3>5. CASE recover_current_request
      <4> DEFINE c == w[u.old].current
                 next == IF u.force THEN "detach" ELSE "stop"
                 again == Append(u.recovered, [data |-> c, retry_count |-> 0])
      <4>1. \/ th' = [th EXCEPT !["sup"] = [u EXCEPT !.pc = next]]
            \/ th' = [th EXCEPT !["sup"] = [u EXCEPT !.pc = "timeout_error", !.seen = c]]
            \/ th' = [th EXCEPT !["sup"] = [u EXCEPT !.pc = next, !.recovered = again]]
        BY <3>5, Zenon DEF recover_current_request
      <4>2. /\ [u EXCEPT !.pc = next].pc = next
            /\ [u EXCEPT !.pc = "timeout_error", !.seen = c].pc = "timeout_error"
            /\ [u EXCEPT !.pc = next, !.recovered = again].pc = next
        BY <1>0 DEF ThreadRecord
      <4>3. next # "abandon"
        OBVIOUS
      <4>4. \E v : th' = [th EXCEPT !["sup"] = v] /\ v.pc # "abandon"
        <5> HIDE DEF next, again, c
        <5> QED
          BY <4>1, <4>2, <4>3, Zenon
      <4> QED
        BY <1>0, <4>4 DEF Threads
    <3>6. CASE force_detach_flags \/ force_detach_count
      BY <1>0, <3>6 DEF force_detach_flags, force_detach_count, Threads, ThreadRecord
    <3>7. CASE enforce_detached_worker_limit
      BY <1>0, <3>7 DEF enforce_detached_worker_limit, AfterRecover, Threads,
                        ThreadRecord
    <3>8. CASE spawn_replacement_worker
      BY <1>0, <3>8 DEF spawn_replacement_worker, Threads, ThreadRecord
    <3> QED
      BY <1>13, <3>1, <3>2, <3>3, <3>4, <3>5, <3>6, <3>7, <3>8
  <2> QED
    BY <1>2, <2>1, <2>3
<1>14. CASE \/ CloseStdin \/ JoinThreads \/ StopNextWorker \/ Terminated
            \/ \E i \in Slots : BackoffElapsed(i)
  <2>1. UNCHANGED <<req, abandoned>> /\ th'["sup"] = th["sup"]
    BY <1>0, <1>14 DEF CloseStdin, JoinThreads, StopNextWorker, Terminated,
       BackoffElapsed, proc, vars, Threads
  <2> QED
    BY <1>1, <2>1
<1>15. CASE BeginShutdown
  <2>1. UNCHANGED <<req, abandoned>>
    BY <1>15 DEF BeginShutdown
  <2>2. th'["sup"] = th["sup"] \/ th'["sup"].pc = "get"
    BY <1>0, <1>15 DEF BeginShutdown, Threads, ThreadRecord
  <2> QED
    BY <1>1, <1>2, <2>1, <2>2
<1> QED
  BY <1>3, <1>4, <1>5, <1>6, <1>7, <1>8, <1>9, <1>10, <1>11, <1>12, <1>13, <1>14,
     <1>15
  DEF Next, WorkerLoop, initialize_worker, Supervisor, replace_worker, MainThread,
      Shutdown, Environment, distribute_request, Threads
-----------------------------------------------------------------------------
(* The theorems *)

\* The inductive invariant.
Inductive ==
  TypeOK /\ ThreadLocals /\ LeakCount /\ ReadyCountCovers /\ ToldOnTimeout

\* The pool as its constructor leaves it satisfies the inductive invariant.
LEMMA InitInductive == Init => Inductive
<1> SUFFICES ASSUME Init PROVE Inductive
  OBVIOUS
<1>1. TypeOK
  <2>1. /\ workers \in [Slots -> Objects \cup {Nil}]
        /\ ready_list \in [Slots -> BOOLEAN] /\ backoff \in [Slots -> BOOLEAN]
        /\ ready_count \in Nat
    BY SlotsAreObjects DEF Init
  <2>2. replacement_attempts \in [Slots -> 0 .. max_replace_attempts]
    BY PoolAssumption DEF Init
  <2>3. ready_queue \in Seq(Slots)
    BY DEF Init
  <2>4. w \in [Objects -> WorkerRecord]
    <3>1. 1 \in Slots
      BY PoolAssumption DEF Slots
    <3>2. /\ \A o \in Slots : NewWorker(o) \in WorkerRecord
          /\ NewWorker(1) \in WorkerRecord
      BY <3>1, NewWorkerTyped
    <3>3. [NewWorker(1) EXCEPT !.init = "none"] \in WorkerRecord
      BY <3>2 DEF WorkerRecord
    <3> QED
      BY <3>2, <3>3 DEF Init
  <2>5. allocated \in Objects /\ live_detached \in Nat
    BY PoolAssumption DEF Init, Objects
  <2>6. th \in [Threads -> ThreadRecord]
    <3>1. 0 \in 0 .. NumWorkers /\ <<>> \in Seq(RequestMetadata)
      BY PoolAssumption
    <3>2. Idling \in ThreadRecord
      BY <3>1 DEF Idling, ThreadRecord, ThreadPC
    <3>3. [Idling EXCEPT !.pc = "read"] \in ThreadRecord
      BY <3>2 DEF ThreadRecord, ThreadPC
    <3> QED
      BY <3>2, <3>3 DEF Init
  <2>7. /\ is_shutting_down \in BOOLEAN /\ stdin_closed \in BOOLEAN
        /\ exited \in BOOLEAN /\ abandoned.ids \subseteq Requests
    BY DEF Init, EmptyRing
  <2>8. req \in [Requests -> RequestRecord]
    BY DEF Init, RequestRecord
  <2>9. /\ faults \in 0 .. MaxFaults /\ stalls \in 0 .. MaxStalls
        /\ init_failures \in 0 .. MaxInitFailures
    BY PoolAssumption DEF Init
  <2> QED
    BY <2>1, <2>2, <2>3, <2>4, <2>5, <2>6, <2>7, <2>8, <2>9 DEF TypeOK
<1>2. ThreadLocals
  <2>1. th["main"].pc = "read" /\ th["sup"].pc = "scan"
    BY DEF Init, Idling, Threads
  <2> QED
    BY <2>1 DEF ThreadLocals, Threads, Distributing, StopPoints, RecoverPoints,
                ReplacePoints
<1>3. LeakCount
  <2>1. \A o \in Objects : ~w[o].detached
    BY DEF Init, NewWorker
  <2>2. DetachedFlags = {}
    BY <2>1 DEF DetachedFlags
  <2> QED
    BY <2>2, FS_EmptySet DEF LeakCount, Init
<1>4. ReadyCountCovers
  <2>1. ReadySlots = {}
    BY DEF Init, ReadySlots
  <2> QED
    BY <2>1, FS_EmptySet DEF ReadyCountCovers, Init
<1>5. ToldOnTimeout
  BY DEF Init, Idling, Threads, EmptyRing, ToldOnTimeout, DiscardOnlyAfterTimeout
<1> QED
  BY <1>1, <1>2, <1>3, <1>4, <1>5 DEF Inductive

\* Every step of the pool, of its environment or none at all keeps it.
LEMMA NextInductive == Inductive /\ [Next]_vars => Inductive'
<1>1. ASSUME Inductive, Next PROVE Inductive'
  BY <1>1, NextTyped, NextLocals, NextLeaks, NextReadyCount, NextTold DEF Inductive
<1>2. ASSUME Inductive, UNCHANGED vars PROVE Inductive'
  BY <1>2 DEF Inductive, vars, pool, objs, proc, budget, TypeOK, ThreadLocals,
     LeakCount, DetachedFlags, ReadyCountCovers, ReadySlots, ToldOnTimeout,
     DiscardOnlyAfterTimeout
<1> QED
  BY <1>1, <1>2

\* The inductive invariant holds in every reachable state.
THEOREM PoolInductive == Spec => []Inductive
BY InitInductive, NextInductive, PTL DEF Spec

\* Type correctness of the worker pool.
THEOREM PoolTypeCorrect == Spec => []TypeOK
<1>1. Inductive => TypeOK
  BY DEF Inductive
<1> QED
  BY <1>1, PoolInductive, PTL

\* ready_count never falls below the number of slots marked ready, whatever the
\* interleaving of set_worker_ready, mark_worker_not_ready and the spawning of
\* replacements: no thread blocks in get_ready_worker while a slot is marked
\* ready, and mark_worker_not_ready never meets its inconsistency.
THEOREM PoolReadyCount == Spec => []ReadyCountCovers
<1>1. Inductive => ReadyCountCovers
  BY DEF Inductive
<1> QED
  BY <1>1, PoolInductive, PTL

\* Every thread abandoned by force_detach that is still alive is counted in
\* live_detached, so enforce_detached_worker_limit sees all of them.
THEOREM PoolLeaksCounted == Spec => []LeaksAreCounted
<1>1. Inductive => LeaksAreCounted
  <2> SUFFICES ASSUME Inductive PROVE LeaksAreCounted
    OBVIOUS
  <2> DEFINE alive == {o \in Objects : ForceDetached(o)}
  <2>1. alive \subseteq DetachedFlags
    BY DEF ForceDetached, DetachedFlags
  <2>2. IsFiniteSet(DetachedFlags)
    BY ObjectsFinite, FS_Subset DEF DetachedFlags
  <2>3. /\ Cardinality(alive) \in Nat /\ Cardinality(DetachedFlags) \in Nat
        /\ Cardinality(alive) <= Cardinality(DetachedFlags)
    BY <2>1, <2>2, FS_Subset, FS_CardinalityType
  <2>4. live_detached \in Nat /\ live_detached >= Cardinality(DetachedFlags)
    BY DEF Inductive, TypeOK, LeakCount
  <2> HIDE DEF alive
  <2>5. live_detached >= Cardinality(alive)
    BY <2>3, <2>4
  <2> QED
    BY <2>5 DEF LeaksAreCounted, alive
<1> QED
  BY <1>1, PoolInductive, PTL

\* print_response discards a worker's answer only when the supervisor has sent
\* the client the timeout error of that request before.
THEOREM PoolDiscards == Spec => []DiscardOnlyAfterTimeout
<1>1. Inductive => DiscardOnlyAfterTimeout
  BY DEF Inductive, ToldOnTimeout
<1> QED
  BY <1>1, PoolInductive, PTL
=============================================================================
