----------------------------- MODULE WorkerPool -----------------------------
(***************************************************************************)
(* The request engine of the zowex server: native/c/server/worker.cpp      *)
(* (Worker, WorkerPool), the main input loop that feeds it                 *)
(* (native/c/commands/server.cpp, ZServer::run) and the parts of           *)
(* rpc_server.cpp that decide which responses reach the client.            *)
(*                                                                         *)
(* Threads: "main" (reads stdin, distributes, shuts down), "sup" (the      *)
(* supervisor, monitor_workers), one worker_loop thread per Worker object  *)
(* and one initializer thread per Worker object (spawn_initializer).  An   *)
(* action is a stretch of one thread between two points where another      *)
(* thread can see or change what it uses: a critical section, an atomic    *)
(* access, a write to the wire.                                            *)
(*                                                                         *)
(* Time is abstracted to two facts: a worker's heartbeat is older than     *)
(* request_timeout ("stale"), and a slot is still inside its replacement   *)
(* backoff.                                                                *)
(***************************************************************************)
EXTENDS Integers, Sequences, FiniteSets, SequencesExt, AbandonedRing

CONSTANTS
  NumWorkers,           \* num_workers, > 0 (handle_server rejects the rest)
  Requests,             \* the requests the client sends, each once
  max_replace_attempts, \* WorkerPool constructor argument (3 by default)
  kMaxRequestRetries,   \* 2 in worker.hpp
  Nil,                  \* null pointer, empty string
  MaxFaults,            \* bound: exceptions that escape a request handler
  MaxStalls,            \* bound: times a heartbeat grows older than the timeout
  MaxInitFailures       \* bound: std::system_error from std::thread in start()

ASSUME PoolAssumption ==
  /\ NumWorkers \in Nat \ {0}
  /\ max_replace_attempts \in Nat
  /\ kMaxRequestRetries \in Nat
  /\ MaxFaults \in Nat /\ MaxStalls \in Nat /\ MaxInitFailures \in Nat
  /\ Nil \notin Requests /\ Nil \notin Int
  /\ Nil \notin [data : Requests, retry_count : Nat]

Slots   == 1 .. NumWorkers      \* indices into workers, ready_list, ...
\* Worker objects.  A slot's object is replaced only after a fault or a stall.
Objects == 1 .. (NumWorkers + MaxFaults + MaxStalls)
Threads == {"main", "sup"}

VARIABLES
  \* --- WorkerPool members, guarded by ready_mutex
  workers,              \* [Slots -> object or Nil]
  ready_list,           \* [Slots -> BOOLEAN]
  ready_count,          \* atomic<int32_t>
  ready_queue,          \* deque of slot indices
  replacement_attempts, \* [Slots -> Nat]
  backoff,              \* [Slots -> BOOLEAN]: now < next_replacement_allowed
  \* --- Worker objects and their threads
  w,                    \* [Objects -> worker record]
  allocated,            \* objects constructed so far are 1 .. allocated
  live_detached,        \* live_detached_workers()
  \* --- threads main and sup, and process-wide flags
  th,                   \* [Threads -> program counter and locals]
  is_shutting_down,
  stdin_closed,         \* end of input, or closed by the signal handler
  exited,               \* the process ended through _exit()
  abandoned,            \* RpcServer's ring of timed-out ids
  \* --- the client's view of its requests, and the failure budgets
  req,                  \* [Requests -> what happened to the request]
  faults, stalls, init_failures

pool == <<workers, ready_list, ready_count, ready_queue,
          replacement_attempts, backoff>>
objs == <<w, allocated, live_detached>>
proc == <<is_shutting_down, stdin_closed, exited, abandoned>>
budget == <<faults, stalls, init_failures>>
vars == <<pool, objs, th, proc, req, budget>>

-----------------------------------------------------------------------------
(* Worker records *)

RequestMetadata == [data : Requests, retry_count : Nat]

WorkerState == {"Starting", "Idle", "Running", "Stopping", "Faulted", "Exited"}

NewWorker(slot) ==
  [slot      |-> slot,
   state     |-> "Starting",
   stop      |-> FALSE,      \* stop_requested
   queue     |-> <<>>,       \* request_queue
   hand      |-> Nil,        \* the request popped by worker_loop
   current   |-> Nil,        \* current_request_data
   pc        |-> "none",     \* worker_loop's thread
   stale     |-> FALSE,      \* heartbeat older than request_timeout
   detached  |-> FALSE,
   joinable  |-> FALSE,      \* worker_thread.joinable()
   init      |-> "start"]    \* the initializer thread of this object

\* Points of worker_loop.  "blocking" has seen the wait predicate false and
\* still holds queue_mutex; "waiting" is inside queue_condition.wait.
WorkerPC == {"none", "top", "blocking", "waiting", "woken", "popped", "claimed",
             "running", "finished", "exiting", "unwinding", "gone"}

is_ready(o) == w[o].state \in {"Idle", "Running"}

QueueMutexFree(o) == w[o].pc # "blocking"

\* queue_condition.notify_one / notify_all: only worker_loop waits on it.
Notify(x) == IF x.pc = "waiting" THEN [x EXCEPT !.pc = "woken"] ELSE x

\* worker_loop lines 159-178, from the wait predicate to the pop.
PollQueue(x) ==
  IF x.stop
  THEN [x EXCEPT !.state = "Stopping", !.stale = FALSE, !.pc = "exiting"]
  ELSE IF x.queue # <<>>
  THEN [x EXCEPT !.hand = Head(x.queue).data, !.queue = Tail(x.queue),
                 !.state = "Running", !.pc = "popped"]
  ELSE [x EXCEPT !.pc = "blocking"]

-----------------------------------------------------------------------------
(* worker_loop *)

WLoopTop(o) ==
  /\ w[o].pc = "top"
  /\ w' = [w EXCEPT ![o] =
             PollQueue([w[o] EXCEPT !.state = "Idle", !.stale = FALSE])]
  /\ UNCHANGED <<pool, allocated, live_detached, th, proc, req, budget>>

WBlock(o) ==
  /\ w[o].pc = "blocking"
  /\ w' = [w EXCEPT ![o].pc = "waiting"]
  /\ UNCHANGED <<pool, allocated, live_detached, th, proc, req, budget>>

WWake(o) ==
  /\ w[o].pc = "woken"
  /\ w' = [w EXCEPT ![o] = PollQueue(w[o])]
  /\ UNCHANGED <<pool, allocated, live_detached, th, proc, req, budget>>

\* The heartbeat of line 179, then current_request_data = the popped request.
WClaim(o) ==
  /\ w[o].pc = "popped"
  /\ w' = [w EXCEPT ![o] = [@ EXCEPT !.stale = FALSE, !.current = w[o].hand,
                                     !.pc = "claimed"]]
  /\ UNCHANGED <<pool, allocated, live_detached, th, proc, req, budget>>

\* process_request enters: a received id is no longer an abandoned one.
WEnterRequest(o) ==
  /\ w[o].pc = "claimed"
  /\ w' = [w EXCEPT ![o].pc = "running"]
  /\ abandoned' = clear_abandoned(abandoned, w[o].hand)
  /\ req' = [req EXCEPT ![w[o].hand].runs = @ + 1]
  /\ UNCHANGED <<pool, allocated, live_detached, th, is_shutting_down,
                 stdin_closed, exited, budget>>

\* A streaming handler reports progress through the heartbeat callback.
WHeartbeat(o) ==
  /\ w[o].pc = "running" /\ w[o].stale
  /\ w' = [w EXCEPT ![o].stale = FALSE]
  /\ UNCHANGED <<pool, allocated, live_detached, th, proc, req, budget>>

\* The handler returns: print_response drops the answer of an abandoned id.
WRespond(o) ==
  /\ w[o].pc = "running"
  /\ w' = [w EXCEPT ![o] = [@ EXCEPT !.stale = FALSE, !.pc = "finished"]]
  /\ req' = IF is_abandoned(abandoned, w[o].hand)
            THEN [req EXCEPT ![w[o].hand].discarded = TRUE]
            ELSE [req EXCEPT ![w[o].hand].responses = @ + 1]
  /\ UNCHANGED <<pool, allocated, live_detached, th, proc, budget>>

\* An exception ends worker_loop.  RpcServer::process_request reports those of
\* a handler itself; what escapes is thrown while reporting (out of memory).
WFault(o) ==
  /\ w[o].pc = "running"
  /\ faults < MaxFaults
  /\ faults' = faults + 1
  /\ w' = [w EXCEPT ![o] = [@ EXCEPT !.state = "Faulted", !.stale = FALSE,
                                     !.stop = TRUE, !.pc = "unwinding"]]
  /\ UNCHANGED <<pool, allocated, live_detached, th, proc, req, stalls,
                 init_failures>>

WClearCurrent(o) ==
  /\ w[o].pc = "finished"
  /\ w' = [w EXCEPT ![o] = [@ EXCEPT !.current = Nil, !.hand = Nil,
                                     !.pc = "top"]]
  /\ UNCHANGED <<pool, allocated, live_detached, th, proc, req, budget>>

WExit(o) ==
  /\ w[o].pc = "exiting"
  /\ w' = [w EXCEPT ![o] = [@ EXCEPT !.state = "Exited", !.stale = FALSE,
                                     !.pc = "unwinding"]]
  /\ UNCHANGED <<pool, allocated, live_detached, th, proc, req, budget>>

\* Mutant: the exchange is ignored, every thread that ends is subtracted.
UnwindAlwaysCounts(o) ==
  /\ w[o].pc = "unwinding"
  /\ w' = [w EXCEPT ![o] = [@ EXCEPT !.detached = FALSE, !.pc = "gone"]]
  /\ live_detached' = live_detached - 1
  /\ UNCHANGED <<pool, allocated, th, proc, req, budget>>

\* detached.exchange(false), then the exit notification.
WUnwind(o) ==
  /\ w[o].pc = "unwinding"
  /\ w' = [w EXCEPT ![o] = [@ EXCEPT !.detached = FALSE, !.pc = "gone"]]
  /\ live_detached' = IF w[o].detached THEN live_detached - 1
                                       ELSE live_detached
  /\ UNCHANGED <<pool, allocated, th, proc, req, budget>>

\* Time passes without a heartbeat: an idle worker, or a handler that is slow
\* or stuck in a system service.
Stall(o) ==
  /\ w[o].pc \in {"waiting", "running"} /\ ~w[o].stale
  /\ stalls < MaxStalls
  /\ stalls' = stalls + 1
  /\ w' = [w EXCEPT ![o].stale = TRUE]
  /\ UNCHANGED <<pool, allocated, live_detached, th, proc, req, faults,
                 init_failures>>

-----------------------------------------------------------------------------
(* Initializer threads: initialize_worker = start(), then set_worker_ready. *)
(* Both find the worker through its slot, without a lock in the first case; *)
(* InitializerOwnsWorker shows that start() runs on the initializer's own.  *)

\* start() up to the creation of the thread.
InitStart(o) ==
  LET x == workers[w[o].slot] IN
  /\ w[o].init = "start" /\ x # Nil
  /\ w' = [w EXCEPT ![x] = [@ EXCEPT !.stop = FALSE, !.state = "Starting",
                                     !.stale = FALSE, !.joinable = TRUE,
                                     !.pc = "top"],
                    ![o].init = "store"]
  /\ UNCHANGED <<pool, allocated, live_detached, th, proc, req, budget>>

\* std::thread throws std::system_error; the initializer logs it and ends.
InitFail(o) ==
  /\ w[o].init = "start"
  /\ init_failures < MaxInitFailures
  /\ init_failures' = init_failures + 1
  /\ w' = [w EXCEPT ![o].init = "done"]
  /\ UNCHANGED <<pool, allocated, live_detached, th, proc, req, faults, stalls>>

\* start() stores Idle although the new thread may already be further on.
InitStoreIdle(o) ==
  /\ w[o].init = "store"
  /\ w' = [w EXCEPT ![o] = [@ EXCEPT !.state = "Idle", !.stale = FALSE,
                                     !.init = "ready"]]
  /\ UNCHANGED <<pool, allocated, live_detached, th, proc, req, budget>>

ReadyMutexFree == \A t \in Threads : th[t].pc # "blocking"

\* ready_condition.notify_one wakes any one of the waiting threads.
NotifyOne(ths) ==
  LET waiting == {t \in Threads : ths[t].pc = "waiting"}
  IN  IF waiting = {} THEN {ths}
      ELSE {[ths EXCEPT ![t].pc = "get"] : t \in waiting}

set_worker_ready(o) ==
  LET i == w[o].slot IN
  /\ w[o].init = "ready" /\ ReadyMutexFree
  /\ w' = [w EXCEPT ![o].init = "done"]
  /\ IF workers[i] # Nil /\ ~ready_list[i] /\ is_ready(workers[i])
     THEN /\ ready_list' = [ready_list EXCEPT ![i] = TRUE]
          /\ ready_count' = ready_count + 1
          /\ replacement_attempts' = [replacement_attempts EXCEPT ![i] = 0]
          /\ backoff' = [backoff EXCEPT ![i] = FALSE]
          /\ ready_queue' = Append(ready_queue, i)
          /\ th' \in NotifyOne(th)
          /\ UNCHANGED workers
     ELSE UNCHANGED <<pool, th>>
  /\ UNCHANGED <<allocated, live_detached, proc, req, budget>>

-----------------------------------------------------------------------------
(* distribute_request_internal, by main and by the supervisor.  A thread    *)
(* holds its request in th[t].item; where it goes on afterwards:            *)

AfterDistribute(t) == IF t = "main" THEN "read" ELSE "redistribute"

\* nullptr from get_ready_worker, or a pool that shuts down: the request is
\* not distributed and nothing tells the client.
Dropped(t) ==
  /\ req' = [req EXCEPT ![th[t].item.data].dropped = TRUE]
  /\ th' = [th EXCEPT ![t] = [@ EXCEPT !.pc = AfterDistribute(t),
                                       !.item = Nil]]

\* Positions of ready_queue whose slot holds a ready worker.
ReadyPositions ==
  {k \in 1 .. Len(ready_queue) : /\ workers[ready_queue[k]] # Nil
                                 /\ is_ready(workers[ready_queue[k]])}

\* Mutant: the chosen worker is not put back.
RotateWithoutPush(t) ==
  \E k \in ReadyPositions :
    /\ \A j \in ReadyPositions : k <= j
    /\ ready_queue' = SubSeq(ready_queue, k + 1, Len(ready_queue))
    /\ th' = [th EXCEPT ![t] = [@ EXCEPT !.target = workers[ready_queue[k]],
                                         !.pc = "add"]]

\* Pop entries until one names a ready worker, and move that one to the back.
RotateReadyQueue(t) ==
  \E k \in ReadyPositions :
    /\ \A j \in ReadyPositions : k <= j
    /\ ready_queue' = Append(SubSeq(ready_queue, k + 1, Len(ready_queue)),
                             ready_queue[k])
    /\ th' = [th EXCEPT ![t] = [@ EXCEPT !.target = workers[ready_queue[k]],
                                         !.pc = "add"]]

get_ready_worker(t) ==
  /\ th[t].pc = "get" /\ ReadyMutexFree
  /\ \/ is_shutting_down /\ Dropped(t) /\ UNCHANGED ready_queue
     \/ /\ ~is_shutting_down /\ ready_count <= 0
        /\ th' = [th EXCEPT ![t].pc = "blocking"]
        /\ UNCHANGED <<ready_queue, req>>
     \/ /\ ~is_shutting_down /\ ready_count > 0
        /\ RotateReadyQueue(t) /\ UNCHANGED req
     \/ /\ ~is_shutting_down /\ ready_count > 0
        /\ ReadyPositions = {}
        /\ ready_queue' = <<>> /\ Dropped(t)
  /\ UNCHANGED <<workers, ready_list, ready_count, replacement_attempts, backoff,
                 objs, proc, budget>>

\* The predicate was false; only now does the thread wait on ready_condition.
WaitReady(t) ==
  /\ th[t].pc = "blocking"
  /\ th' = [th EXCEPT ![t].pc = "waiting"]
  /\ UNCHANGED <<pool, objs, proc, req, budget>>


\* add_request on the raw pointer obtained under a mutex released since.
add_request(t) ==
  LET x == th[t].target IN
  /\ th[t].pc = "add" /\ QueueMutexFree(x)
  /\ w' = [w EXCEPT ![x] = Notify([w[x] EXCEPT !.queue = Append(@, th[t].item)])]
  /\ th' = [th EXCEPT ![t] = [@ EXCEPT !.pc = AfterDistribute(t),
                                       !.item = Nil, !.target = Nil]]
  /\ UNCHANGED <<pool, allocated, live_detached, proc, req, budget>>

-----------------------------------------------------------------------------
(* Worker::stop, by main (shutdown) and by the supervisor (recovery), on    *)
(* the object th[t].old                                                     *)

\* Where a thread goes on after stop(): the next worker of shutdown, or the
\* rest of replace_worker.
AfterRecover(t) == IF th[t].maxed THEN "redistribute" ELSE "spawn"
AfterStop(t) == IF t = "main" THEN "stop_next" ELSE AfterRecover(t)

StopRequest(t) ==
  LET o == th[t].old IN
  /\ th[t].pc = "stop"
  /\ IF w[o].state = "Exited"
     THEN /\ th' = [th EXCEPT ![t] = [@ EXCEPT !.pc = AfterStop(t),
                                               !.old = Nil]]
          /\ UNCHANGED w
     ELSE /\ th' = [th EXCEPT ![t] = [@ EXCEPT !.pc = "stopping",
                                               !.seen = w[o].state]]
          /\ w' = [w EXCEPT ![o].stop = TRUE]
  /\ UNCHANGED <<pool, allocated, live_detached, proc, req, budget>>

\* notify_all without queue_mutex: a worker that is "blocking" misses it.
StopNotify(t) ==
  LET o == th[t].old IN
  /\ th[t].pc = "stopping"
  /\ w' = [w EXCEPT ![o] = Notify(
             IF th[t].seen = "Faulted" THEN w[o]
             ELSE [w[o] EXCEPT !.state = "Stopping"])]
  /\ th' = [th EXCEPT ![t] = [@ EXCEPT !.pc = "joining", !.seen = Nil]]
  /\ UNCHANGED <<pool, allocated, live_detached, proc, req, budget>>

StopJoin(t) ==
  LET o == th[t].old IN
  /\ th[t].pc = "joining"
  /\ w[o].joinable => w[o].state \in {"Exited", "Faulted"} /\ w[o].pc = "gone"
  /\ w' = [w EXCEPT ![o] =
             [@ EXCEPT !.joinable = FALSE,
                       !.state = IF w[o].state = "Faulted" THEN "Faulted"
                                 ELSE "Exited"]]
  /\ th' = [th EXCEPT ![t] = [@ EXCEPT !.pc = AfterStop(t), !.old = Nil]]
  /\ UNCHANGED <<pool, allocated, live_detached, proc, req, budget>>

\* Mutant: the wait for the exit has no limit.
StopWaitsForever(t) ==
  LET o == th[t].old IN
  /\ th[t].pc = "joining" /\ w[o].joinable /\ w[o].pc = "gone"
  /\ w' = [w EXCEPT ![o] = [@ EXCEPT !.joinable = FALSE, !.state = "Faulted"]]
  /\ th' = [th EXCEPT ![t] = [@ EXCEPT !.pc = AfterStop(t), !.old = Nil]]
  /\ UNCHANGED <<pool, allocated, live_detached, proc, req, budget>>

\* No exit within 5 seconds: detach (the thread is not counted as a leak).
StopTimeout(t) ==
  LET o == th[t].old IN
  /\ th[t].pc = "joining" /\ w[o].joinable
  /\ w[o].state \notin {"Exited", "Faulted"}
  /\ w' = [w EXCEPT ![o] = [@ EXCEPT !.joinable = FALSE, !.state = "Faulted"]]
  /\ th' = [th EXCEPT ![t] = [@ EXCEPT !.pc = AfterStop(t), !.old = Nil]]
  /\ UNCHANGED <<pool, allocated, live_detached, proc, req, budget>>

-----------------------------------------------------------------------------
(* The supervisor: monitor_workers and replace_worker.  Each lock region of *)
(* replace_worker is a step; main and the workers run in between.           *)

\* Mutant: a worker that has not started yet is taken for a dead one.
NotRunningNeedsReplacement(o) ==
  \/ w[o].state \in {"Faulted", "Starting"}
  \/ w[o].state = "Running" /\ w[o].stale

NeedsReplacement(o) ==
  \/ w[o].state = "Faulted"
  \/ w[o].state = "Running" /\ w[o].stale

\* monitor_worker_at finds a slot to replace.  (Its "unexpected exit" branch
\* cannot be taken: is_stop_requested() is true of every Exited worker.)
monitor_worker_at(i) ==
  /\ th["sup"].pc = "scan" /\ ReadyMutexFree
  /\ ~is_shutting_down /\ ~backoff[i]
  /\ workers[i] # Nil /\ NeedsReplacement(workers[i])
  /\ th' = [th EXCEPT !["sup"] =
              [@ EXCEPT !.pc = "mark", !.slot = i,
                        !.force = w[workers[i]].state # "Faulted"]]
  /\ UNCHANGED <<pool, objs, proc, req, budget>>

SupervisorEnd ==
  /\ th["sup"].pc = "scan" /\ is_shutting_down
  /\ th' = [th EXCEPT !["sup"].pc = "done"]
  /\ UNCHANGED <<pool, objs, proc, req, budget>>

BackoffElapsed(i) ==
  /\ backoff[i]
  /\ backoff' = [backoff EXCEPT ![i] = FALSE]
  /\ UNCHANGED <<workers, ready_list, ready_count, ready_queue,
                 replacement_attempts, objs, th, proc, req, budget>>

\* Mutant: the count goes down but the slot stays marked.
MarkLeavesSlotReady ==
  LET i == th["sup"].slot IN
  /\ th["sup"].pc = "mark" /\ ReadyMutexFree
  /\ ready_count' = IF is_shutting_down \/ ~ready_list[i] THEN ready_count
                    ELSE ready_count - 1
  /\ th' = [th EXCEPT !["sup"].pc = IF is_shutting_down THEN "scan"
                                    ELSE "prepare"]
  /\ UNCHANGED <<workers, ready_list, ready_queue, replacement_attempts, backoff,
                 objs, proc, req, budget>>

\* A count that was not positive means corruption: reset it and give up.
mark_worker_not_ready ==
  LET i == th["sup"].slot IN
  /\ th["sup"].pc = "mark" /\ ReadyMutexFree
  /\ ready_list' = IF is_shutting_down THEN ready_list
                   ELSE [ready_list EXCEPT ![i] = FALSE]
  /\ ready_count' = IF is_shutting_down \/ ~ready_list[i] THEN ready_count
                    ELSE IF ready_count <= 0 THEN 0
                    ELSE ready_count - 1
  /\ th' = [th EXCEPT !["sup"].pc =
              IF is_shutting_down \/ (ready_list[i] /\ ready_count <= 0)
              THEN "scan" ELSE "prepare"]
  /\ UNCHANGED <<workers, ready_queue, replacement_attempts, backoff, objs,
                 proc, req, budget>>

prepare_worker_replacement ==
  LET i == th["sup"].slot
      maxed == replacement_attempts[i] >= max_replace_attempts IN
  /\ th["sup"].pc = "prepare" /\ ReadyMutexFree
  /\ IF maxed THEN UNCHANGED <<replacement_attempts, backoff>>
     ELSE /\ replacement_attempts' = [replacement_attempts EXCEPT ![i] = @ + 1]
          /\ backoff' = [backoff EXCEPT ![i] = TRUE]
  /\ workers' = [workers EXCEPT ![i] = Nil]
  /\ th' = [th EXCEPT !["sup"] = [@ EXCEPT !.pc = "drain", !.maxed = maxed,
                                           !.old = workers[i]]]
  /\ UNCHANGED <<ready_list, ready_count, ready_queue, objs, proc, req, budget>>

\* Mutant: the queue is copied, not drained.
DrainCopies ==
  LET o == th["sup"].old IN
  /\ th["sup"].pc = "drain" /\ QueueMutexFree(o)
  /\ th' = [th EXCEPT !["sup"] = [@ EXCEPT !.pc = "current",
                                           !.recovered = w[o].queue]]
  /\ UNCHANGED <<pool, objs, proc, req, budget>>

drain_pending_requests ==
  LET o == th["sup"].old IN
  /\ th["sup"].pc = "drain" /\ QueueMutexFree(o)
  /\ th' = [th EXCEPT !["sup"] = [@ EXCEPT !.pc = "current",
                                           !.recovered = w[o].queue]]
  /\ w' = [w EXCEPT ![o].queue = <<>>]
  /\ UNCHANGED <<pool, allocated, live_detached, proc, req, budget>>

\* Mutant: the in-flight request is retried after a hang as well.
RecoverAlsoAfterHang ==
  LET c == w[th["sup"].old].current
      next == IF th["sup"].force THEN "detach" ELSE "stop" IN
  /\ th["sup"].pc = "current"
  /\ th' = [th EXCEPT !["sup"] =
              [@ EXCEPT !.pc = next,
                        !.recovered = IF c = Nil THEN @
                          ELSE Append(@, [data |-> c, retry_count |-> 0])]]
  /\ UNCHANGED <<pool, objs, proc, req, budget>>

\* What becomes of the in-flight request: recovered (as a new request, with
\* retry_count 0) after a fault, reported as timed out after a hang.
recover_current_request ==
  LET c == w[th["sup"].old].current
      next == IF th["sup"].force THEN "detach" ELSE "stop" IN
  /\ th["sup"].pc = "current"
  /\ th' = IF c = Nil THEN [th EXCEPT !["sup"].pc = next]
           ELSE IF th["sup"].force
           THEN [th EXCEPT !["sup"] = [@ EXCEPT !.pc = "timeout_error",
                                                !.seen = c]]
           ELSE [th EXCEPT !["sup"] =
                   [@ EXCEPT !.pc = next,
                             !.recovered = Append(th["sup"].recovered,
                                 [data |-> c, retry_count |-> 0])]]
  /\ UNCHANGED <<pool, objs, proc, req, budget>>

\* Mutant: the id is marked first, so that the error filters itself.
MarkBeforeSending ==
  LET c == th["sup"].seen IN
  /\ th["sup"].pc = "timeout_error"
  /\ abandoned' = mark_abandoned(abandoned, c)
  /\ th' = [th EXCEPT !["sup"].pc = "abandon"]
  /\ UNCHANGED <<pool, objs, is_shutting_down, stdin_closed, exited, req, budget>>

\* send_timeout_error, the message (print_response filters it like any other).
send_timeout_error ==
  LET c == th["sup"].seen IN
  /\ th["sup"].pc = "timeout_error"
  /\ req' = IF is_abandoned(abandoned, c) THEN req
            ELSE [req EXCEPT ![c].timeouts = @ + 1]
  /\ th' = [th EXCEPT !["sup"].pc = "abandon"]
  /\ UNCHANGED <<pool, objs, proc, budget>>

\* send_timeout_error, the ring: only after the message, or it would be
\* filtered itself.
abandon_request ==
  /\ th["sup"].pc = "abandon"
  /\ abandoned' = mark_abandoned(abandoned, th["sup"].seen)
  /\ th' = [th EXCEPT !["sup"] = [@ EXCEPT !.pc = "detach", !.seen = Nil]]
  /\ UNCHANGED <<pool, objs, is_shutting_down, stdin_closed, exited, req, budget>>

\* force_detach, first half: the flags the stuck thread will see.
force_detach_flags ==
  LET o == th["sup"].old IN
  /\ th["sup"].pc = "detach"
  /\ w' = [w EXCEPT ![o] =
             Notify([w[o] EXCEPT !.stop = TRUE, !.state = "Faulted"])]
  /\ th' = [th EXCEPT !["sup"].pc = "detach_count"]
  /\ UNCHANGED <<pool, allocated, live_detached, proc, req, budget>>

\* Mutant: the leak is flagged but not counted.
DetachWithoutCount ==
  LET o == th["sup"].old IN
  /\ th["sup"].pc = "detach_count"
  /\ w' = [w EXCEPT ![o] = [@ EXCEPT !.detached = w[o].joinable, !.stale = FALSE,
                                     !.joinable = FALSE]]
  /\ th' = [th EXCEPT !["sup"].pc = "limit"]
  /\ UNCHANGED <<pool, allocated, live_detached, proc, req, budget>>

\* force_detach, second half: count the thread as a leak and let go of it.
\* The thread may have unwound since the flags were set.
force_detach_count ==
  LET o == th["sup"].old IN
  /\ th["sup"].pc = "detach_count"
  /\ IF w[o].joinable
     THEN /\ w' = [w EXCEPT ![o] = [@ EXCEPT !.detached = TRUE, !.stale = FALSE,
                                             !.joinable = FALSE]]
          /\ live_detached' = live_detached + 1
     ELSE /\ w' = [w EXCEPT ![o].stale = FALSE]
          /\ UNCHANGED live_detached
  /\ th' = [th EXCEPT !["sup"].pc = "limit"]
  /\ UNCHANGED <<pool, allocated, proc, req, budget>>

max_live_detached == IF NumWorkers > 2 THEN NumWorkers ELSE 2

enforce_detached_worker_limit ==
  /\ th["sup"].pc = "limit"
  /\ exited' = (live_detached > max_live_detached)
  /\ th' = [th EXCEPT !["sup"] = [@ EXCEPT !.pc = AfterRecover("sup"),
                                           !.old = Nil]]
  /\ UNCHANGED <<pool, objs, is_shutting_down, stdin_closed, abandoned, req,
                 budget>>

spawn_replacement_worker ==
  LET i == th["sup"].slot IN
  /\ th["sup"].pc = "spawn" /\ ReadyMutexFree
  /\ IF is_shutting_down THEN UNCHANGED <<workers, ready_list, w, allocated>>
     ELSE /\ allocated + 1 \in Objects   \* bound: never reached within budget
          /\ allocated' = allocated + 1
          /\ w' = [w EXCEPT ![allocated + 1] = NewWorker(i)]
          /\ workers' = [workers EXCEPT ![i] = allocated + 1]
          /\ ready_list' = [ready_list EXCEPT ![i] = FALSE]
  /\ th' = [th EXCEPT !["sup"].pc = "redistribute"]
  /\ UNCHANGED <<ready_count, ready_queue, replacement_attempts, backoff,
                 live_detached, proc, req, budget>>

\* One iteration of redistribute_requests.  When the pool shuts down the rest
\* is dropped; a request out of retries is discarded (poison pill).
redistribute_requests ==
  LET todo == th["sup"].recovered IN
  /\ th["sup"].pc = "redistribute"
  /\ IF todo = <<>> \/ is_shutting_down
     THEN /\ th' = [th EXCEPT !["sup"] = [@ EXCEPT !.pc = "scan",
                                                   !.recovered = <<>>]]
          /\ req' = [r \in Requests |->
                      IF \E k \in DOMAIN todo : todo[k].data = r
                      THEN [req[r] EXCEPT !.dropped = TRUE] ELSE req[r]]
     ELSE IF Head(todo).retry_count >= kMaxRequestRetries
     THEN /\ th' = [th EXCEPT !["sup"].recovered = Tail(todo)]
          /\ req' = [req EXCEPT ![Head(todo).data].dropped = TRUE]
     ELSE /\ th' = [th EXCEPT !["sup"] =
                      [@ EXCEPT !.recovered = Tail(todo),
                                !.item = [Head(todo) EXCEPT !.retry_count = @ + 1],
                                !.pc = "get"]]
          /\ UNCHANGED req
  /\ UNCHANGED <<pool, objs, proc, budget>>

-----------------------------------------------------------------------------
(* The main thread: ZServer::run, then request_shutdown.                    *)

\* The client closes the stream, or a signal handler closes stdin.
CloseStdin ==
  /\ ~stdin_closed
  /\ stdin_closed' = TRUE
  /\ UNCHANGED <<pool, objs, th, is_shutting_down, exited, abandoned, req, budget>>

\* getline returns a request: distribute_request wraps it with retry_count 0.
ReadRequest(r) ==
  /\ th["main"].pc = "read" /\ ~stdin_closed
  /\ ~req[r].received
  /\ req' = [req EXCEPT ![r].received = TRUE]
  /\ th' = [th EXCEPT !["main"] =
              [@ EXCEPT !.pc = "get", !.item = [data |-> r, retry_count |-> 0]]]
  /\ UNCHANGED <<pool, objs, proc, budget>>

\* WorkerPool::shutdown sets its flag and notifies, without ready_mutex.
BeginShutdown ==
  /\ th["main"].pc = "read" /\ stdin_closed
  /\ is_shutting_down' = TRUE
  /\ th' = [t \in Threads |->
              IF t = "main" THEN [th[t] EXCEPT !.pc = "join"]
              ELSE IF th[t].pc = "waiting" THEN [th[t] EXCEPT !.pc = "get"]
              ELSE th[t]]
  /\ UNCHANGED <<pool, objs, stdin_closed, exited, abandoned, req, budget>>

\* supervisor_thread.join(), then every initializer thread.
JoinThreads ==
  /\ th["main"].pc = "join"
  /\ th["sup"].pc = "done"
  /\ \A o \in 1 .. allocated : w[o].init = "done"
  /\ th' = [th EXCEPT !["main"] = [@ EXCEPT !.pc = "stop_next", !.slot = 0]]
  /\ UNCHANGED <<pool, objs, proc, req, budget>>

\* The loop over workers at the end of shutdown.
StopNextWorker ==
  LET i == th["main"].slot + 1 IN
  /\ th["main"].pc = "stop_next"
  /\ th' = IF i > NumWorkers THEN [th EXCEPT !["main"].pc = "done"]
           ELSE [th EXCEPT !["main"] =
                   [@ EXCEPT !.slot = i, !.old = workers[i],
                             !.pc = IF workers[i] = Nil THEN "stop_next"
                                    ELSE "stop"]]
  /\ UNCHANGED <<pool, objs, proc, req, budget>>

-----------------------------------------------------------------------------
Idling == [pc |-> "scan", slot |-> 0, force |-> FALSE, maxed |-> FALSE,
           old |-> Nil, recovered |-> <<>>, item |-> Nil, target |-> Nil,
           seen |-> Nil]

\* The constructor has made one worker and one initializer per slot; the other
\* objects do not exist yet.
Init ==
  /\ workers = [i \in Slots |-> i]
  /\ ready_list = [i \in Slots |-> FALSE]
  /\ ready_count = 0
  /\ ready_queue = <<>>
  /\ replacement_attempts = [i \in Slots |-> 0]
  /\ backoff = [i \in Slots |-> FALSE]
  /\ w = [o \in Objects |-> IF o \in Slots THEN NewWorker(o)
                            ELSE [NewWorker(1) EXCEPT !.init = "none"]]
  /\ allocated = NumWorkers
  /\ live_detached = 0
  /\ th = [t \in Threads |-> IF t = "main" THEN [Idling EXCEPT !.pc = "read"]
                             ELSE Idling]
  /\ is_shutting_down = FALSE /\ stdin_closed = FALSE /\ exited = FALSE
  /\ abandoned = EmptyRing
  /\ req = [r \in Requests |->
             [received |-> FALSE, runs |-> 0, responses |-> 0, timeouts |-> 0,
              discarded |-> FALSE, dropped |-> FALSE]]
  /\ faults = 0 /\ stalls = 0 /\ init_failures = 0

WorkerLoop(o) ==
  \/ WLoopTop(o) \/ WBlock(o) \/ WWake(o) \/ WClaim(o) \/ WEnterRequest(o)
  \/ WClearCurrent(o) \/ WExit(o) \/ WUnwind(o)

initialize_worker(o) == InitStart(o) \/ InitStoreIdle(o) \/ set_worker_ready(o)

distribute_request(t) == get_ready_worker(t) \/ WaitReady(t) \/ add_request(t)

stop(t) == StopRequest(t) \/ StopNotify(t) \/ StopJoin(t) \/ StopTimeout(t)

replace_worker ==
  \/ mark_worker_not_ready \/ prepare_worker_replacement
  \/ drain_pending_requests \/ recover_current_request \/ send_timeout_error
  \/ abandon_request \/ force_detach_flags \/ force_detach_count
  \/ enforce_detached_worker_limit \/ spawn_replacement_worker
  \/ redistribute_requests

Supervisor ==
  \/ \E i \in Slots : monitor_worker_at(i)
  \/ SupervisorEnd \/ replace_worker \/ distribute_request("sup") \/ stop("sup")

Shutdown == BeginShutdown \/ JoinThreads \/ StopNextWorker \/ stop("main")

MainThread ==
  \/ \E r \in Requests : ReadRequest(r)
  \/ distribute_request("main") \/ Shutdown

\* What the threads do not control: failures, time, the end of input.
Environment ==
  \/ \E o \in Objects : \/ WHeartbeat(o) \/ WFault(o) \/ Stall(o) \/ InitFail(o)
  \/ \E i \in Slots : BackoffElapsed(i)
  \/ CloseStdin

Running == ~exited /\ th["main"].pc # "done"

\* The process is over: it left through _exit() or main returned.
Terminated == ~Running /\ UNCHANGED vars

Next ==
  \/ /\ Running
     /\ \/ \E o \in Objects : WorkerLoop(o) \/ WRespond(o) \/ initialize_worker(o)
        \/ Supervisor \/ MainThread \/ Environment
  \/ Terminated

Spec == Init /\ [][Next]_vars

(* Fairness.  Every thread keeps being scheduled and time passes, but a     *)
(* request handler may hang for ever, the client may never send or close    *)
(* anything, and nothing ever has to fail.                                  *)
ThreadsRun ==
  /\ \A o \in Objects : /\ WF_vars(Running /\ WorkerLoop(o))
                        /\ WF_vars(Running /\ initialize_worker(o))
  /\ WF_vars(Running /\ Supervisor)
  /\ WF_vars(Running /\ (distribute_request("main") \/ Shutdown))
  /\ \A i \in Slots : WF_vars(Running /\ BackoffElapsed(i))

\* No handler hangs: used only where the question is whether the pool itself
\* loses a request.
HandlersReturn == \A o \in Objects : WF_vars(Running /\ WRespond(o))

FairSpec    == Spec /\ ThreadsRun
HealthySpec == FairSpec /\ HandlersReturn

-----------------------------------------------------------------------------
(* Properties *)

ThreadPC == {"read", "get", "blocking", "waiting", "add", "join", "stop_next",
             "stop", "stopping", "joining", "done", "scan", "mark", "prepare",
             "drain", "current", "timeout_error", "abandon", "detach",
             "detach_count", "limit", "spawn", "redistribute"}

WorkerRecord ==
  [slot : Slots, state : WorkerState, stop : BOOLEAN,
   queue : Seq(RequestMetadata), hand : Requests \cup {Nil},
   current : Requests \cup {Nil}, pc : WorkerPC, stale : BOOLEAN,
   detached : BOOLEAN, joinable : BOOLEAN,
   init : {"none", "start", "store", "ready", "done"}]

ThreadRecord ==
  [pc : ThreadPC, slot : 0 .. NumWorkers, force : BOOLEAN, maxed : BOOLEAN,
   old : Objects \cup {Nil}, recovered : Seq(RequestMetadata),
   item : RequestMetadata \cup {Nil}, target : Objects \cup {Nil},
   seen : WorkerState \cup Requests \cup {Nil}]

RequestRecord ==
  [received : BOOLEAN, runs : Nat, responses : Nat, timeouts : Nat,
   discarded : BOOLEAN, dropped : BOOLEAN]

\* Every variable of the pool keeps its type.
TypeOK ==
  /\ workers \in [Slots -> Objects \cup {Nil}]
  /\ ready_list \in [Slots -> BOOLEAN]
  /\ ready_count \in Nat
  /\ ready_queue \in Seq(Slots)
  /\ replacement_attempts \in [Slots -> 0 .. max_replace_attempts]
  /\ backoff \in [Slots -> BOOLEAN]
  /\ w \in [Objects -> WorkerRecord]
  /\ allocated \in Objects
  /\ live_detached \in Nat
  /\ th \in [Threads -> ThreadRecord]
  /\ is_shutting_down \in BOOLEAN /\ stdin_closed \in BOOLEAN
  /\ exited \in BOOLEAN
  /\ abandoned.ids \subseteq Requests
  /\ req \in [Requests -> RequestRecord]
  /\ faults \in 0 .. MaxFaults /\ stalls \in 0 .. MaxStalls
  /\ init_failures \in 0 .. MaxInitFailures

\* ready_count never falls below the number of slots marked ready, so that
\* get_ready_worker never blocks while a slot is marked ready, and the
\* "Ready count inconsistency" abort of mark_worker_not_ready is unreachable.
ReadySlots == {i \in Slots : ready_list[i]}
ReadyCountCovers == ready_count >= Cardinality(ReadySlots)

\* A worker thread that is alive, ready and marked ready is still in
\* ready_queue: discarding stale entries never takes a live worker out of the
\* round-robin for good.
ThreadAlive(o) == w[o].pc \notin {"none", "unwinding", "gone"}
ReadyWorkerInRotation ==
  \A i \in Slots :
    (ready_list[i] /\ workers[i] # Nil)
      => ((is_ready(workers[i]) /\ ThreadAlive(workers[i]))
            => i \in ToSet(ready_queue))

\* The places a request can be waiting in or executing from.
Executing(o, r) == w[o].pc \in {"popped", "claimed", "running"} /\ w[o].hand = r
Copies(r) ==
  Cardinality(UNION {{<<o, k>> : k \in {j \in DOMAIN w[o].queue :
                                          w[o].queue[j].data = r}} : o \in Objects})
  + Cardinality({o \in Objects : Executing(o, r)})
  + Cardinality({t \in Threads : th[t].item # Nil /\ th[t].item.data = r})
  + Cardinality({k \in DOMAIN th["sup"].recovered :
                   th["sup"].recovered[k].data = r})

\* No request is ever held twice: recovery moves a request from the failed
\* worker to the supervisor and on to one worker, it never copies it, so two
\* workers can never execute the same request.
NeverHeldTwice == \A r \in Requests : Copies(r) <= 1

\* A worker's response is discarded only if the client was already sent the
\* timeout error for that request.
DiscardOnlyAfterTimeout ==
  \A r \in Requests : req[r].discarded => req[r].timeouts >= 1

\* Every force-detached thread that has not unwound is in live_detached, so
\* the limit that ends the process cannot be passed unnoticed.
ForceDetached(o) == w[o].detached /\ w[o].pc # "gone"
LeaksAreCounted ==
  live_detached >= Cardinality({o \in Objects : ForceDetached(o)})

\* start() is never called on an empty slot or on another initializer's
\* worker, although initialize_worker reads workers[worker_id] without a lock.
InitializerOwnsWorker ==
  \A o \in Objects : w[o].init = "start" => workers[w[o].slot] = o

\* The supervisor saw no ready worker, released ready_mutex only after the one
\* notification of shutdown (worker.cpp:526) and waits for it in vain; no worker
\* becomes ready.
ShutdownMissed == th["sup"].pc = "waiting" /\ ready_count = 0

\* Once shutdown has begun the process ends, whatever the workers are doing (stuck
\* handlers, faults, slots given up, threads that never started), or the
\* supervisor missed the notification while no slot is ready and the join of
\* worker.cpp:530 never returns: there is no other way for shutdown to hang.
ShutdownCompletes == is_shutting_down ~> (~Running \/ []ShutdownMissed)

Answered(r) == req[r].responses = 1 \/ req[r].timeouts = 1

\* A worker has r but will not run it and nobody will take it away: r was added
\* after the supervisor had drained the queue (worker.cpp:418), or start() hid
\* with Idle that the thread had ended (worker.cpp:84).
HeldBy(o, r) == \/ w[o].current = r
                \/ \E k \in DOMAIN w[o].queue : w[o].queue[k].data = r
Forgotten(o, r) ==
  /\ HeldBy(o, r)
  /\ \/ workers[w[o].slot] # o
     \/ ~ThreadAlive(o) /\ w[o].state = "Idle"

\* r waits for a ready worker with thread t, or for the supervisor t, who is the
\* one to recover r from a thread that has ended.
WaitsWith(t, r) ==
  /\ th[t].pc = "waiting"
  /\ \/ th[t].item.data = r
     \/ \E k \in DOMAIN th[t].recovered : th[t].recovered[k].data = r
     \/ t = "sup" /\ \E o \in Objects : HeldBy(o, r) /\ ~ThreadAlive(o)

\* The ways in which the pool loses a request: get_ready_worker found only stale
\* entries, or the retries ran out (worker.cpp:455, 850); a worker forgot it; or
\* it waits with a thread for a ready worker.
Lost(r) ==
  \/ req[r].dropped
  \/ \E o \in Objects : Forgotten(o, r)
  \/ \E t \in Threads : WaitsWith(t, r)


\* A thread waiting for a ready worker gets on once there is one.
WaiterIsWoken ==
  \A t \in Threads :
    (th[t].pc = "waiting" /\ ready_count > 0) ~> (th[t].pc # "waiting" \/ ~Running)

\* kMaxRequestRetries bounds how often one request is attempted.
PoisonPillBound ==
  \A r \in Requests : req[r].runs <= kMaxRequestRetries + 1
=============================================================================
