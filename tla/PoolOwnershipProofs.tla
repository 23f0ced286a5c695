------------------------ MODULE PoolOwnershipProofs -------------------------
(***************************************************************************)
(* Proofs, for every value of the constants, of who owns a worker object   *)
(* of WorkerPool.tla: its initializer, its slot, or the supervisor that    *)
(* replaces it.                                                            *)
(***************************************************************************)
EXTENDS WorkerPoolProofs

(* Points of replace_worker where the slot is empty and the old worker is  *)
(* the supervisor's alone, and the last phase of shutdown().               *)
HoldingOld == RecoverPoints \cup StopPoints
SlotEmpty  == HoldingOld \cup {"limit", "spawn"}
StopPhase  == {"stop_next", "stop", "stopping", "joining", "done"}
Stopped == th["main"].pc \in StopPhase

(* A worker that has not been started is in its slot and at rest; the slot *)
(* of a worker is its own.                                                 *)
Ownership ==
  /\ \A o \in Objects : w[o].init = "start" =>
       workers[w[o].slot] = o /\ w[o].state = "Starting" /\ w[o].pc = "none"
  /\ \A o \in Objects : o > allocated => w[o].init = "none"
  /\ \A i \in Slots : workers[i] # Nil => w[workers[i]].slot = i /\ workers[i] <= allocated

(* What the supervisor and the shutdown rely on.                           *)
Replacing ==
  /\ th["sup"].pc \in {"mark", "prepare"} => w[workers[th["sup"].slot]].init # "start"
  /\ th["sup"].pc \in HoldingOld =>
       w[th["sup"].old].init # "start" /\ \A i \in Slots : workers[i] # th["sup"].old
  /\ th["sup"].pc \in SlotEmpty => workers[th["sup"].slot] = Nil
  /\ Stopped => th["sup"].pc = "done" /\ \A o \in Objects : w[o].init \in {"none", "done"}

(* A slot marked ready whose thread is alive is in the rotation, and the   *)
(* thread can take requests until shutdown stops it.                       *)
InRotation ==
  \A i \in Slots : workers[i] # Nil =>
    /\ w[workers[i]].stop => Stopped \/ ~ThreadAlive(workers[i])
    /\ ready_list[i] =>
         /\ w[workers[i]].init # "start"
         /\ ThreadAlive(workers[i]) =>
              /\ i \in ToSet(ready_queue)
              /\ Stopped \/ is_ready(workers[i])

-----------------------------------------------------------------------------
(* Steps that move no worker between slots *)

Alive(x) == x.pc \notin {"none", "unwinding", "gone"}

(* What a step may do to a worker record x, making it y.  SameOwner: an    *)
(* initializer that has not started its worker finds it as it was.  Quiet: *)
(* no thread comes to life, and a live thread that was not told to stop    *)
(* stays ready.                                                            *)
SameOwner(x, y) ==
  /\ y.slot = x.slot
  /\ y.init = "start" => x.init = "start" /\ y.state = x.state /\ y.pc = x.pc
  /\ x.init \in {"none", "done"} => y.init = x.init
Quiet(x, y) ==
  /\ y.stop => x.stop \/ ~Alive(y)
  /\ (Alive(y) /\ ~x.stop /\ x.state \in {"Idle", "Running"})
       => y.state \in {"Idle", "Running"}

(* The supervisor neither takes up nor goes on with a replacement, except  *)
(* within the points where what it relies on stays the same.               *)
SameReplacement(u, v) ==
  /\ v.pc \in {"mark", "prepare"} => u.pc \in {"mark", "prepare"} /\ v.slot = u.slot
  /\ v.pc \in HoldingOld => u.pc \in HoldingOld /\ v.old = u.old
  /\ v.pc \in SlotEmpty => u.pc \in SlotEmpty /\ v.slot = u.slot
  /\ u.pc = "done" => v.pc = "done"

\* Such a step keeps who owns what.
LEMMA OwnershipFrame ==
  ASSUME TypeOK, ThreadLocals, ThreadLocals', Ownership, Replacing,
         workers' = workers, allocated' = allocated,
         \A o \in Objects : SameOwner(w[o], w'[o]),
         SameReplacement(th["sup"], th'["sup"]),
         Stopped' <=> Stopped
  PROVE  Ownership' /\ Replacing'
<1>0. workers \in [Slots -> Objects \cup {Nil}]
  BY DEF TypeOK
<1>1. Ownership'
  <2>1. ASSUME NEW o \in Objects, w'[o].init = "start"
        PROVE  workers'[w'[o].slot] = o /\ w'[o].state = "Starting" /\ w'[o].pc = "none"
    BY <2>1 DEF Ownership, SameOwner
  <2>2. ASSUME NEW o \in Objects, o > allocated' PROVE w'[o].init = "none"
    BY <2>2 DEF Ownership, SameOwner
  <2>3. ASSUME NEW i \in Slots, workers'[i] # Nil
        PROVE  w'[workers'[i]].slot = i /\ workers'[i] <= allocated'
    BY <1>0, <2>3 DEF Ownership, SameOwner
  <2> QED
    BY <2>1, <2>2, <2>3 DEF Ownership
<1>2. ASSUME th'["sup"].pc \in {"mark", "prepare"}
      PROVE  w'[workers'[th'["sup"].slot]].init # "start"
  <2>1. th["sup"].pc \in {"mark", "prepare"} /\ th'["sup"].slot = th["sup"].slot
    BY <1>2 DEF SameReplacement
  <2>2. /\ workers[th["sup"].slot] \in Objects
        /\ w[workers[th["sup"].slot]].init # "start"
    BY <2>1 DEF ThreadLocals, Replacing
  <2> QED
    BY <2>1, <2>2 DEF SameOwner
<1>3. ASSUME th'["sup"].pc \in HoldingOld
      PROVE  /\ w'[th'["sup"].old].init # "start"
             /\ \A i \in Slots : workers'[i] # th'["sup"].old
  <2>1. th["sup"].pc \in HoldingOld /\ th'["sup"].old = th["sup"].old
    BY <1>3 DEF SameReplacement
  <2>2. th["sup"].old \in Objects
    BY <2>1 DEF ThreadLocals, HoldingOld, Threads
  <2>3. /\ w[th["sup"].old].init # "start"
        /\ \A i \in Slots : workers[i] # th["sup"].old
    BY <2>1 DEF Replacing
  <2> QED
    BY <2>1, <2>2, <2>3 DEF SameOwner
<1>4. ASSUME th'["sup"].pc \in SlotEmpty PROVE workers'[th'["sup"].slot] = Nil
  BY <1>4 DEF Replacing, SameReplacement
<1>5. ASSUME Stopped'
      PROVE  th'["sup"].pc = "done" /\ \A o \in Objects : w'[o].init \in {"none", "done"}
  BY <1>5 DEF Replacing, SameReplacement, SameOwner
<1> QED
  BY <1>1, <1>2, <1>3, <1>4, <1>5 DEF Replacing

\* Such a step keeps the live ready workers in the rotation.
LEMMA RotationFrame ==
  ASSUME TypeOK, InRotation,
         workers' = workers, ready_list' = ready_list, ready_queue' = ready_queue,
         Stopped => Stopped',
         \A i \in Slots : workers[i] # Nil =>
           /\ SameOwner(w[workers[i]], w'[workers[i]])
           /\ Alive(w'[workers[i]]) => Alive(w[workers[i]])
           /\ Stopped' \/ Quiet(w[workers[i]], w'[workers[i]])
  PROVE  InRotation'
<1> SUFFICES ASSUME NEW i \in Slots, workers[i] # Nil
             PROVE  /\ w'[workers[i]].stop => Stopped' \/ ~Alive(w'[workers[i]])
                    /\ ready_list[i] =>
                         /\ w'[workers[i]].init # "start"
                         /\ Alive(w'[workers[i]]) =>
                              /\ i \in ToSet(ready_queue)
                              /\ Stopped' \/ w'[workers[i]].state \in {"Idle", "Running"}
  BY DEF InRotation, ThreadAlive, is_ready, Alive
<1> DEFINE x == w[workers[i]]
           y == w'[workers[i]]
<1>1. /\ x.stop => Stopped \/ ~Alive(x)
      /\ ready_list[i] =>
           /\ x.init # "start"
           /\ Alive(x) => /\ i \in ToSet(ready_queue)
                          /\ Stopped \/ x.state \in {"Idle", "Running"}
  BY DEF InRotation, ThreadAlive, is_ready, Alive
<1>2. SameOwner(x, y) /\ (Alive(y) => Alive(x)) /\ (Stopped' \/ Quiet(x, y))
  OBVIOUS
<1> HIDE DEF x, y
<1>3. /\ y.stop => Stopped' \/ ~Alive(y)
      /\ ready_list[i] =>
           /\ y.init # "start"
           /\ Alive(y) => /\ i \in ToSet(ready_queue)
                          /\ Stopped' \/ y.state \in {"Idle", "Running"}
  BY <1>1, <1>2 DEF SameOwner, Quiet
<1> QED
  BY <1>3 DEF x, y

\* A step that changes one worker record is judged by that record.
LEMMA OneWorker ==
  ASSUME TypeOK, Ownership, Replacing, InRotation, ThreadLocals, ThreadLocals',
         NEW o, NEW y, w' = [w EXCEPT ![o] = y],
         workers' = workers, allocated' = allocated,
         ready_list' = ready_list, ready_queue' = ready_queue,
         SameReplacement(th["sup"], th'["sup"]), Stopped' <=> Stopped,
         o \in Objects =>
           /\ SameOwner(w[o], y)
           /\ (\E i \in Slots : workers[i] = o) =>
                /\ Alive(y) => Alive(w[o])
                /\ Stopped \/ Quiet(w[o], y)
  PROVE  Ownership' /\ Replacing' /\ InRotation'
<1>0. workers \in [Slots -> Objects \cup {Nil}] /\ Nil \notin Objects
  BY PoolAssumption DEF TypeOK, Objects
<1>1. \A p \in Objects : w'[p] = IF p = o THEN y ELSE w[p]
  BY DEF TypeOK
<1>2. \A p \in Objects : SameOwner(w[p], w'[p])
  BY <1>1 DEF SameOwner
<1>3. ASSUME NEW i \in Slots, workers[i] # Nil
      PROVE  /\ Alive(w'[workers[i]]) => Alive(w[workers[i]])
             /\ Stopped \/ Quiet(w[workers[i]], w'[workers[i]])
  <2>1. workers[i] \in Objects
    BY <1>0, <1>3
  <2>2. CASE workers[i] = o
    BY <1>1, <2>1, <2>2
  <2>3. CASE workers[i] # o
    <3>1. w'[workers[i]] = w[workers[i]]
      BY <1>1, <2>1, <2>3
    <3> QED
      BY <3>1 DEF Quiet
  <2> QED
    BY <2>2, <2>3
<1>4. Ownership' /\ Replacing'
  BY <1>2, OwnershipFrame
<1>5. \A i \in Slots : workers[i] # Nil => SameOwner(w[workers[i]], w'[workers[i]])
  BY <1>0, <1>2
<1>6. InRotation'
  BY <1>3, <1>5, RotationFrame
<1> QED
  BY <1>4, <1>6

\* A step that changes no worker record, and of the threads only what no
\* replacement relies on.
LEMMA NoWorker ==
  ASSUME TypeOK, Ownership, Replacing, InRotation, ThreadLocals, ThreadLocals',
         w' = w, workers' = workers, allocated' = allocated,
         ready_list' = ready_list, ready_queue' = ready_queue,
         SameReplacement(th["sup"], th'["sup"]), Stopped' <=> Stopped
  PROVE  Ownership' /\ Replacing' /\ InRotation'
<1>1. \A p : SameOwner(w[p], w'[p]) /\ Quiet(w[p], w'[p])
  BY DEF SameOwner, Quiet
<1>2. Ownership' /\ Replacing'
  BY <1>1, OwnershipFrame
<1>3. InRotation'
  BY <1>1, RotationFrame
<1> QED
  BY <1>2, <1>3

-----------------------------------------------------------------------------
(* Worker threads, and time *)

\* The supervisor's thread as it was: nothing it relies on has changed.
LEMMA SameThreads ==
  ASSUME th' = th
  PROVE  SameReplacement(th["sup"], th'["sup"]) /\ (Stopped' <=> Stopped)
BY DEF SameReplacement, Stopped

\* From the wait predicate on, a thread that was not told to stop is ready.
LEMMA PollQueueQuiet ==
  ASSUME NEW x \in WorkerRecord, x.init # "start"
  PROVE  SameOwner(x, PollQueue(x)) /\ Quiet(x, PollQueue(x))
<1>1. CASE x.stop
  BY <1>1 DEF PollQueue, WorkerRecord, SameOwner, Quiet
<1>2. CASE ~x.stop /\ x.queue # <<>>
  BY <1>2 DEF PollQueue, WorkerRecord, SameOwner, Quiet
<1>3. CASE ~x.stop /\ x.queue = <<>>
  BY <1>3 DEF PollQueue, WorkerRecord, SameOwner, Quiet
<1> QED
  BY <1>1, <1>2, <1>3

\* A worker thread's own steps, its handler's and those of time.
LEMMA WorkerStepOwned ==
  ASSUME TypeOK, Ownership, Replacing, InRotation, ThreadLocals, ThreadLocals',
         NEW o \in Objects,
         \/ WorkerLoop(o) \/ WRespond(o)
         \/ WHeartbeat(o) \/ WFault(o) \/ Stall(o)
  PROVE  Ownership' /\ Replacing' /\ InRotation'
<1> DEFINE x == w[o]
<1>0. x \in WorkerRecord
  BY DEF TypeOK
<1>a. /\ workers' = workers /\ allocated' = allocated /\ th' = th
      /\ ready_list' = ready_list /\ ready_queue' = ready_queue
  BY DEF WorkerLoop, WLoopTop, WBlock, WWake, WClaim, WEnterRequest, WClearCurrent,
         WExit, WUnwind, WRespond, WHeartbeat, WFault, Stall, pool
<1>b. Alive(x) \/ x.pc = "unwinding"
  BY DEF WorkerLoop, WLoopTop, WBlock, WWake, WClaim, WEnterRequest, WClearCurrent,
         WExit, WUnwind, WRespond, WHeartbeat, WFault, Stall, Alive
<1>c. x.init # "start"
  BY <1>b DEF Ownership, Alive
<1>1. SUFFICES \E y : /\ w' = [w EXCEPT ![o] = y]
                      /\ SameOwner(x, y) /\ Quiet(x, y)
                      /\ Alive(y) => Alive(x)
  BY <1>a, SameThreads, OneWorker
<1>2. CASE WLoopTop(o)
  <2> DEFINE z == [x EXCEPT !.state = "Idle", !.stale = FALSE]
  <2>1. /\ z \in WorkerRecord /\ z.init # "start" /\ z.slot = x.slot
        /\ z.init = x.init /\ z.stop = x.stop /\ z.pc = x.pc
        /\ z.state = "Idle"
    BY <1>0, <1>c DEF WorkerRecord, WorkerState
  <2>2. SameOwner(z, PollQueue(z)) /\ Quiet(z, PollQueue(z))
    BY <2>1, PollQueueQuiet
  <2>3. w' = [w EXCEPT ![o] = PollQueue(z)] /\ Alive(x)
    BY <1>2 DEF WLoopTop, Alive
  <2> HIDE DEF z
  <2>4. SameOwner(x, PollQueue(z)) /\ Quiet(x, PollQueue(z))
    BY <2>1, <2>2, <1>c DEF SameOwner, Quiet
  <2> QED
    BY <2>3, <2>4
<1>3. CASE WWake(o)
  <2>1. w' = [w EXCEPT ![o] = PollQueue(x)] /\ Alive(x)
    BY <1>3 DEF WWake, Alive
  <2> QED
    BY <2>1, <1>0, <1>c, PollQueueQuiet
<1>4. CASE WBlock(o)
  <2> DEFINE y == [x EXCEPT !.pc = "waiting"]
  <2>1. w' = [w EXCEPT ![o] = y] /\ Alive(x)
    BY <1>4 DEF WBlock, Alive
  <2>2. SameOwner(x, y) /\ Quiet(x, y)
    BY <1>0, <1>c DEF WorkerRecord, SameOwner, Quiet
  <2> QED
    BY <2>1, <2>2
<1>5. CASE WClaim(o)
  <2> DEFINE y == [x EXCEPT !.stale = FALSE, !.current = x.hand, !.pc = "claimed"]
  <2>1. w' = [w EXCEPT ![o] = y] /\ Alive(x)
    BY <1>5 DEF WClaim, Alive
  <2>2. SameOwner(x, y) /\ Quiet(x, y)
    BY <1>0, <1>c DEF WorkerRecord, SameOwner, Quiet
  <2> QED
    BY <2>1, <2>2
<1>6. CASE WEnterRequest(o)
  <2> DEFINE y == [x EXCEPT !.pc = "running"]
  <2>1. w' = [w EXCEPT ![o] = y] /\ Alive(x)
    BY <1>6 DEF WEnterRequest, Alive
  <2>2. SameOwner(x, y) /\ Quiet(x, y)
    BY <1>0, <1>c DEF WorkerRecord, SameOwner, Quiet
  <2> QED
    BY <2>1, <2>2
<1>7. CASE WClearCurrent(o)
  <2> DEFINE y == [x EXCEPT !.current = Nil, !.hand = Nil, !.pc = "top"]
  <2>1. w' = [w EXCEPT ![o] = y] /\ Alive(x)
    BY <1>7 DEF WClearCurrent, Alive
  <2>2. SameOwner(x, y) /\ Quiet(x, y)
    BY <1>0, <1>c DEF WorkerRecord, SameOwner, Quiet
  <2> QED
    BY <2>1, <2>2
<1>8. CASE WExit(o)
  <2> DEFINE y == [x EXCEPT !.state = "Exited", !.stale = FALSE, !.pc = "unwinding"]
  <2>1. w' = [w EXCEPT ![o] = y] /\ Alive(x)
    BY <1>8 DEF WExit, Alive
  <2>2. SameOwner(x, y) /\ Quiet(x, y)
    BY <1>0, <1>c DEF WorkerRecord, SameOwner, Quiet, Alive
  <2> QED
    BY <2>1, <2>2
<1>9. CASE WUnwind(o)
  <2> DEFINE y == [x EXCEPT !.detached = FALSE, !.pc = "gone"]
  <2>1. w' = [w EXCEPT ![o] = y]
    BY <1>9 DEF WUnwind
  <2>2. SameOwner(x, y) /\ Quiet(x, y) /\ ~Alive(y)
    BY <1>0, <1>c DEF WorkerRecord, SameOwner, Quiet, Alive
  <2> QED
    BY <2>1, <2>2
<1>10. CASE WRespond(o)
  <2> DEFINE y == [x EXCEPT !.stale = FALSE, !.pc = "finished"]
  <2>1. w' = [w EXCEPT ![o] = y] /\ Alive(x)
    BY <1>10 DEF WRespond, Alive
  <2>2. SameOwner(x, y) /\ Quiet(x, y)
    BY <1>0, <1>c DEF WorkerRecord, SameOwner, Quiet
  <2> QED
    BY <2>1, <2>2
<1>11. CASE WHeartbeat(o)
  <2> DEFINE y == [x EXCEPT !.stale = FALSE]
  <2>1. w' = [w EXCEPT ![o] = y] /\ Alive(x)
    BY <1>11 DEF WHeartbeat, Alive
  <2>2. SameOwner(x, y) /\ Quiet(x, y)
    BY <1>0, <1>c DEF WorkerRecord, SameOwner, Quiet
  <2> QED
    BY <2>1, <2>2
<1>12. CASE WFault(o)
  <2> DEFINE y == [x EXCEPT !.state = "Faulted", !.stale = FALSE, !.stop = TRUE,
                            !.pc = "unwinding"]
  <2>1. w' = [w EXCEPT ![o] = y] /\ Alive(x)
    BY <1>12 DEF WFault, Alive
  <2>2. SameOwner(x, y) /\ Quiet(x, y)
    BY <1>0, <1>c DEF WorkerRecord, SameOwner, Quiet, Alive
  <2> QED
    BY <2>1, <2>2
<1>13. CASE Stall(o)
  <2> DEFINE y == [x EXCEPT !.stale = TRUE]
  <2>1. w' = [w EXCEPT ![o] = y] /\ Alive(x)
    BY <1>13 DEF Stall, Alive
  <2>2. SameOwner(x, y) /\ Quiet(x, y)
    BY <1>0, <1>c DEF WorkerRecord, SameOwner, Quiet
  <2> QED
    BY <2>1, <2>2
<1> QED
  BY <1>2, <1>3, <1>4, <1>5, <1>6, <1>7, <1>8, <1>9, <1>10, <1>11, <1>12, <1>13
  DEF WorkerLoop

-----------------------------------------------------------------------------
(* Initializer threads *)

\* start() runs on the initializer's own worker, whose slot is not marked
\* ready yet.
LEMMA InitStartOwned ==
  ASSUME TypeOK, Ownership, Replacing, InRotation, ThreadLocals, ThreadLocals',
         NEW o \in Objects, InitStart(o)
  PROVE  Ownership' /\ Replacing' /\ InRotation'
<1> DEFINE x == w[o]
           y == [x EXCEPT !.stop = FALSE, !.state = "Starting", !.stale = FALSE,
                          !.joinable = TRUE, !.pc = "top", !.init = "store"]
<1>0. x \in WorkerRecord /\ workers \in [Slots -> Objects \cup {Nil}] /\ Nil \notin Objects
  <2>1. Nil \notin Objects
    BY PoolAssumption DEF Objects
  <2> QED
    BY <2>1 DEF TypeOK
<1>1. /\ workers' = workers /\ allocated' = allocated /\ th' = th
      /\ ready_list' = ready_list /\ ready_queue' = ready_queue
      /\ x.init = "start"
  BY DEF InitStart, pool
<1>2. workers[x.slot] = o
  BY <1>1 DEF Ownership
<1>3. \A p \in Objects : w'[p] = IF p = o THEN y ELSE w[p]
  <2>1. w' = [w EXCEPT ![o] = [w[o] EXCEPT !.stop = FALSE, !.state = "Starting",
                                           !.stale = FALSE, !.joinable = TRUE,
                                           !.pc = "top"],
                       ![o].init = "store"]
    BY <1>2 DEF InitStart
  <2> QED
    BY <2>1, <1>0 DEF TypeOK, WorkerRecord
<1>4. y.slot = x.slot /\ y.init = "store" /\ y.stop = FALSE
  BY <1>0 DEF WorkerRecord
<1>5. \A p \in Objects : SameOwner(w[p], w'[p])
  BY <1>1, <1>3, <1>4 DEF SameOwner
<1>6. Ownership' /\ Replacing'
  BY <1>1, <1>5, SameThreads, OwnershipFrame
<1>7. InRotation'
  <2> SUFFICES ASSUME NEW i \in Slots, workers[i] # Nil
               PROVE  /\ w'[workers[i]].stop => Stopped' \/ ~Alive(w'[workers[i]])
                      /\ ready_list[i] =>
                           /\ w'[workers[i]].init # "start"
                           /\ Alive(w'[workers[i]]) =>
                                /\ i \in ToSet(ready_queue)
                                /\ Stopped' \/ w'[workers[i]].state \in {"Idle", "Running"}
    BY <1>1 DEF InRotation, ThreadAlive, is_ready, Alive
  <2>1. workers[i] \in Objects
    BY <1>0
  <2>2. CASE workers[i] = o
    <3>1. ~ready_list[i]
      BY <1>1, <2>2 DEF InRotation
    <3> QED
      BY <1>3, <1>4, <2>1, <2>2, <3>1
  <2>3. CASE workers[i] # o
    <3>1. w'[workers[i]] = w[workers[i]]
      BY <1>3, <2>1, <2>3
    <3> QED
      BY <1>1, <3>1, SameThreads DEF InRotation, ThreadAlive, is_ready, Alive
  <2> QED
    BY <2>2, <2>3
<1> QED
  BY <1>6, <1>7

\* notify_one touches the program counter of a waiting thread only.
LEMMA NotifyOneOwned ==
  ASSUME TypeOK, th' \in NotifyOne(th)
  PROVE  SameReplacement(th["sup"], th'["sup"]) /\ (Stopped' <=> Stopped)
<1>1. \A t \in Threads : th[t] \in ThreadRecord
  BY DEF TypeOK
<1>2. ASSUME NEW t \in Threads
      PROVE  \/ th'[t] = th[t]
             \/ th[t].pc = "waiting" /\ th'[t].pc = "get"
  <2>1. CASE th'[t] = th[t]
    BY <2>1
  <2>2. CASE th[t].pc = "waiting" /\ th'[t] = [th[t] EXCEPT !.pc = "get"]
    BY <1>1, <2>2 DEF ThreadRecord
  <2> QED
    BY <2>1, <2>2, NotifyOneTyped
<1>3. \/ th'["sup"] = th["sup"]
      \/ th["sup"].pc = "waiting" /\ th'["sup"].pc = "get"
  BY <1>2 DEF Threads
<1>4. \/ th'["main"] = th["main"]
      \/ th["main"].pc = "waiting" /\ th'["main"].pc = "get"
  BY <1>2 DEF Threads
<1>5. SameReplacement(th["sup"], th'["sup"])
  BY <1>3 DEF SameReplacement, HoldingOld, SlotEmpty, RecoverPoints, StopPoints
<1>6. Stopped' <=> Stopped
  BY <1>4 DEF Stopped, StopPhase
<1> QED
  BY <1>5, <1>6

\* set_worker_ready puts a slot in the rotation when it marks it ready, and
\* only if its worker is.
LEMMA SetReadyOwned ==
  ASSUME TypeOK, Ownership, Replacing, InRotation, ThreadLocals, ThreadLocals',
         NEW o \in Objects, set_worker_ready(o)
  PROVE  Ownership' /\ Replacing' /\ InRotation'
<1> DEFINE x == w[o]
           y == [x EXCEPT !.init = "done"]
           j == x.slot
<1>0. x \in WorkerRecord /\ workers \in [Slots -> Objects \cup {Nil}] /\ Nil \notin Objects
  <2>1. Nil \notin Objects
    BY PoolAssumption DEF Objects
  <2> QED
    BY <2>1 DEF TypeOK
<1>1. /\ allocated' = allocated /\ w' = [w EXCEPT ![o] = y] /\ x.init = "ready"
      /\ workers' = workers
  BY DEF set_worker_ready, pool
<1>2. SameOwner(x, y) /\ Quiet(x, y) /\ (Alive(y) <=> Alive(x))
  BY <1>0, <1>1 DEF WorkerRecord, SameOwner, Quiet, Alive
<1>3. SameReplacement(th["sup"], th'["sup"]) /\ (Stopped' <=> Stopped)
  BY SameThreads, NotifyOneOwned DEF set_worker_ready
<1>4. CASE UNCHANGED <<pool, th>>
  BY <1>1, <1>2, <1>3, <1>4, OneWorker DEF pool
<1>5. CASE /\ workers[j] # Nil /\ is_ready(workers[j])
           /\ ready_list' = [ready_list EXCEPT ![j] = TRUE]
           /\ ready_queue' = Append(ready_queue, j)
  <2>0. j \in Slots /\ ready_queue \in Seq(Slots)
    BY <1>0 DEF WorkerRecord, TypeOK
  <2>1. \A p \in Objects : w'[p] = IF p = o THEN y ELSE w[p]
    BY <1>1 DEF TypeOK
  <2>2. y.state = x.state /\ y.stop = x.stop /\ y.init = "done" /\ y.slot = x.slot
    BY <1>0 DEF WorkerRecord
  <2> HIDE DEF y
  <2>3. \A p \in Objects : SameOwner(w[p], w'[p])
    BY <1>2, <2>1 DEF SameOwner
  <2>4. Ownership' /\ Replacing'
    BY <1>1, <1>3, <2>3, OwnershipFrame
  <2>5. ToSet(ready_queue') = ToSet(ready_queue) \cup {j}
    <3>1. /\ Len(ready_queue') = Len(ready_queue) + 1
          /\ \A k \in 1 .. Len(ready_queue) : ready_queue'[k] = ready_queue[k]
          /\ ready_queue'[Len(ready_queue) + 1] = j
          /\ Len(ready_queue) \in Nat
      BY <1>5, <2>0
    <3>2. /\ DOMAIN ready_queue = 1 .. Len(ready_queue)
          /\ DOMAIN ready_queue' = 1 .. Len(ready_queue')
      BY <1>5, <2>0
    <3> QED
      BY <3>1, <3>2 DEF ToSet
  <2>6. InRotation'
    <3> SUFFICES ASSUME NEW i \in Slots, workers[i] # Nil
                 PROVE  /\ w'[workers[i]].stop => Stopped' \/ ~Alive(w'[workers[i]])
                        /\ ready_list'[i] =>
                             /\ w'[workers[i]].init # "start"
                             /\ Alive(w'[workers[i]]) =>
                                  /\ i \in ToSet(ready_queue')
                                  /\ Stopped' \/ w'[workers[i]].state \in {"Idle", "Running"}
      BY <1>1 DEF InRotation, ThreadAlive, is_ready, Alive
    <3> DEFINE p == workers[i]
    <3>1. p \in Objects
      BY <1>0
    <3>2. /\ w'[p].stop = w[p].stop /\ w'[p].state = w[p].state
          /\ Alive(w'[p]) <=> Alive(w[p])
          /\ w'[p].init = "start" => w[p].init = "start"
      BY <1>2, <2>1, <2>2, <3>1
    <3>3. /\ w[p].stop => Stopped \/ ~Alive(w[p])
          /\ ready_list[i] =>
               /\ w[p].init # "start"
               /\ Alive(w[p]) =>
                    /\ i \in ToSet(ready_queue)
                    /\ Stopped \/ w[p].state \in {"Idle", "Running"}
      BY DEF InRotation, ThreadAlive, is_ready, Alive
    <3>4. CASE i = j
      <4>1. w[p].state \in {"Idle", "Running"}
        BY <1>5, <3>4 DEF is_ready
      <4>2. w[p].init # "start"
        BY <3>1, <4>1 DEF Ownership
      <4> QED
        BY <1>3, <2>5, <3>2, <3>3, <3>4, <4>1, <4>2
    <3>5. CASE i # j
      <4>1. ready_list'[i] = ready_list[i]
        BY <1>5, <3>5 DEF TypeOK
      <4> QED
        BY <1>3, <2>5, <3>2, <3>3, <4>1
    <3> QED
      BY <3>4, <3>5
  <2> QED
    BY <2>4, <2>6
<1> QED
  BY <1>4, <1>5 DEF set_worker_ready, pool

\* Every step of an initializer thread.
LEMMA InitializerOwned ==
  ASSUME TypeOK, Ownership, Replacing, InRotation, ThreadLocals, ThreadLocals',
         NEW o \in Objects, initialize_worker(o) \/ InitFail(o)
  PROVE  Ownership' /\ Replacing' /\ InRotation'
<1> DEFINE x == w[o]
<1>0. x \in WorkerRecord
  BY DEF TypeOK
<1>1. CASE InitFail(o)
  <2> DEFINE y == [x EXCEPT !.init = "done"]
  <2>1. /\ w' = [w EXCEPT ![o] = y] /\ x.init = "start"
        /\ workers' = workers /\ allocated' = allocated /\ th' = th
        /\ ready_list' = ready_list /\ ready_queue' = ready_queue
    BY <1>1 DEF InitFail, pool
  <2>2. SameOwner(x, y) /\ Quiet(x, y) /\ (Alive(y) => Alive(x))
    BY <1>0, <2>1 DEF WorkerRecord, SameOwner, Quiet, Alive
  <2> QED
    BY <2>1, <2>2, SameThreads, OneWorker
<1>2. CASE InitStoreIdle(o)
  <2> DEFINE y == [x EXCEPT !.state = "Idle", !.stale = FALSE, !.init = "ready"]
  <2>1. /\ w' = [w EXCEPT ![o] = y] /\ x.init = "store"
        /\ workers' = workers /\ allocated' = allocated /\ th' = th
        /\ ready_list' = ready_list /\ ready_queue' = ready_queue
    BY <1>2 DEF InitStoreIdle, pool
  <2>2. SameOwner(x, y) /\ Quiet(x, y) /\ (Alive(y) => Alive(x))
    BY <1>0, <2>1 DEF WorkerRecord, SameOwner, Quiet, Alive
  <2> QED
    BY <2>1, <2>2, SameThreads, OneWorker
<1> QED
  BY <1>1, <1>2, InitStartOwned, SetReadyOwned DEF initialize_worker

-----------------------------------------------------------------------------
(* Distribution *)

\* A thread that distributes does not hold a worker, before or after, and the
\* pool is not being stopped.
LEMMA DistributingThread ==
  ASSUME TypeOK, Replacing, NEW t \in Threads, NEW u,
         th[t].pc \in Distributing,
         u.pc \in Distributing \cup {"read", "redistribute"},
         th' = [th EXCEPT ![t] = u]
  PROVE  /\ SameReplacement(th["sup"], th'["sup"])
         /\ Stopped' <=> Stopped
         /\ ~Stopped
<1>1. \A v \in Threads : th'[v] = IF v = t THEN u ELSE th[v]
  BY DEF TypeOK
<1>2. CASE t = "main"
  <2>1. th'["sup"] = th["sup"] /\ th'["main"] = u
    BY <1>1, <1>2 DEF Threads
  <2> QED
    BY <1>2, <2>1 DEF SameReplacement, Stopped, StopPhase, Distributing
<1>3. CASE t = "sup"
  <2>1. th'["sup"] = u /\ th'["main"] = th["main"]
    BY <1>1, <1>3 DEF Threads
  <2>2. ~Stopped
    BY <1>3 DEF Replacing, Distributing
  <2>3. SameReplacement(th["sup"], u)
    BY <1>3 DEF SameReplacement, HoldingOld, SlotEmpty, RecoverPoints, StopPoints,
                Distributing
  <2> QED
    BY <2>1, <2>2, <2>3 DEF Stopped
<1> QED
  BY <1>2, <1>3 DEF Threads

\* Leaving out entries of slots that hold no live ready worker keeps the
\* rotation.
LEMMA RotationKept ==
  ASSUME TypeOK, Ownership, Replacing, InRotation, ThreadLocals, ThreadLocals',
         w' = w, workers' = workers, allocated' = allocated,
         ready_list' = ready_list,
         SameReplacement(th["sup"], th'["sup"]), Stopped' <=> Stopped,
         \A i \in Slots : (/\ workers[i] # Nil
                           /\ i \in ToSet(ready_queue)
                           /\ is_ready(workers[i])) => i \in ToSet(ready_queue'),
         ~Stopped
  PROVE  Ownership' /\ Replacing' /\ InRotation'
<1>1. \A p : SameOwner(w[p], w'[p])
  BY DEF SameOwner
<1>2. Ownership' /\ Replacing'
  BY <1>1, OwnershipFrame
<1>3. InRotation'
  BY DEF InRotation, ThreadAlive, is_ready
<1> QED
  BY <1>2, <1>3

\* What popping up to the first ready entry leaves in the queue.
LEMMA RotateKeeps ==
  ASSUME NEW q \in Seq(Slots), NEW k \in 1 .. Len(q),
         NEW n \in 1 .. Len(q), k <= n
  PROVE  q[n] \in ToSet(Append(SubSeq(q, k + 1, Len(q)), q[k]))
<1> DEFINE m == Len(q)
           s == SubSeq(q, k + 1, m)
           e == Append(s, q[k])
<1>1. m \in Nat /\ k \in Nat /\ n \in Nat /\ k <= m /\ n <= m /\ q[k] \in Slots
  OBVIOUS
<1>2. /\ s \in Seq(Slots) /\ Len(s) = m - k
      /\ \A j \in 1 .. (m - k) : s[j] = q[k + j]
  <2>1. s \in Seq(Slots)
    BY <1>1
  <2>2. Len(s) = m - k
    BY <1>1
  <2>3. ASSUME NEW j \in 1 .. (m - k) PROVE s[j] = q[k + j]
    BY <1>1, <2>3
  <2> QED
    BY <2>1, <2>2, <2>3
<1> HIDE DEF s
<1>3. /\ DOMAIN e = 1 .. (m - k + 1)
      /\ \A j \in 1 .. (m - k) : e[j] = s[j]
      /\ e[m - k + 1] = q[k]
  BY <1>1, <1>2
<1> HIDE DEF e, m
<1>4. CASE n = k
  <2>1. m - k + 1 \in DOMAIN e
    BY <1>1, <1>3
  <2> QED
    BY <1>3, <1>4, <2>1 DEF ToSet, e, s, m
<1>5. CASE n # k
  <2>1. n - k \in 1 .. (m - k) /\ k + (n - k) = n
    BY <1>1, <1>5
  <2>2. e[n - k] = q[n] /\ n - k \in DOMAIN e
    BY <1>1, <1>2, <1>3, <2>1
  <2> QED
    BY <2>2 DEF ToSet, e, s, m
<1> QED
  BY <1>4, <1>5

\* Every step of distribute_request_internal.
LEMMA DistributeOwned ==
  ASSUME TypeOK, Ownership, Replacing, InRotation, ThreadLocals, ThreadLocals',
         NEW t \in Threads, distribute_request(t)
  PROVE  Ownership' /\ Replacing' /\ InRotation'
<1> DEFINE u == th[t]
<1>0. u \in ThreadRecord /\ ready_queue \in Seq(Slots)
  BY DEF TypeOK
<1>1. u.pc \in Distributing
  BY DEF distribute_request, get_ready_worker, WaitReady, add_request, Distributing
<1>2. CASE get_ready_worker(t)
  <2>0. /\ w' = w /\ workers' = workers /\ allocated' = allocated
        /\ ready_list' = ready_list
    BY <1>2 DEF get_ready_worker, objs
  <2>1. CASE Dropped(t) /\ ready_queue' = ready_queue
    <3> DEFINE v == [u EXCEPT !.pc = AfterDistribute(t), !.item = Nil]
    <3>1. v.pc \in {"read", "redistribute"} /\ th' = [th EXCEPT ![t] = v]
      BY <1>0, <2>1 DEF ThreadRecord, AfterDistribute, Dropped
    <3> HIDE DEF v
    <3>2. SameReplacement(th["sup"], th'["sup"]) /\ (Stopped' <=> Stopped)
      BY <1>1, <3>1, DistributingThread
    <3> QED
      BY <2>0, <2>1, <3>2, NoWorker
  <2>2. CASE th' = [th EXCEPT ![t].pc = "blocking"] /\ ready_queue' = ready_queue
    <3> DEFINE v == [u EXCEPT !.pc = "blocking"]
    <3>1. v.pc \in Distributing /\ th' = [th EXCEPT ![t] = v]
      BY <1>0, <2>2 DEF ThreadRecord, Distributing
    <3> HIDE DEF v
    <3>2. SameReplacement(th["sup"], th'["sup"]) /\ (Stopped' <=> Stopped)
      BY <1>1, <3>1, DistributingThread
    <3> QED
      BY <2>0, <2>2, <3>2, NoWorker
  <2>3. CASE RotateReadyQueue(t)
    <3>1. PICK k \in ReadyPositions :
            /\ \A n \in ReadyPositions : k <= n
            /\ ready_queue' = Append(SubSeq(ready_queue, k + 1, Len(ready_queue)),
                                     ready_queue[k])
            /\ th' = [th EXCEPT ![t] = [u EXCEPT !.target = workers[ready_queue[k]],
                                                 !.pc = "add"]]
      BY <2>3 DEF RotateReadyQueue
    <3> DEFINE v == [u EXCEPT !.target = workers[ready_queue[k]], !.pc = "add"]
    <3>2. v.pc \in Distributing /\ th' = [th EXCEPT ![t] = v]
      BY <1>0, <3>1 DEF ThreadRecord, Distributing
    <3> HIDE DEF v
    <3>3. SameReplacement(th["sup"], th'["sup"]) /\ (Stopped' <=> Stopped) /\ ~Stopped
      BY <1>1, <3>2, DistributingThread
    <3>4. k \in 1 .. Len(ready_queue)
      BY DEF ReadyPositions
    <3>5. ASSUME NEW i \in Slots, workers[i] # Nil, i \in ToSet(ready_queue),
                 is_ready(workers[i])
          PROVE  i \in ToSet(ready_queue')
      <4>1. PICK n \in 1 .. Len(ready_queue) : ready_queue[n] = i
        BY <1>0, <3>5 DEF ToSet
      <4>2. n \in ReadyPositions
        BY <3>5, <4>1 DEF ReadyPositions
      <4>3. k <= n
        BY <3>1, <4>2
      <4> QED
        BY <1>0, <3>1, <3>4, <4>1, <4>3, RotateKeeps
    <3> QED
      BY <2>0, <3>3, <3>5, RotationKept
  <2>4. CASE ReadyPositions = {} /\ ready_queue' = <<>> /\ Dropped(t)
    <3> DEFINE v == [u EXCEPT !.pc = AfterDistribute(t), !.item = Nil]
    <3>1. v.pc \in {"read", "redistribute"} /\ th' = [th EXCEPT ![t] = v]
      BY <1>0, <2>4 DEF ThreadRecord, AfterDistribute, Dropped
    <3> HIDE DEF v
    <3>2. SameReplacement(th["sup"], th'["sup"]) /\ (Stopped' <=> Stopped) /\ ~Stopped
      BY <1>1, <3>1, DistributingThread
    <3>3. ASSUME NEW i \in Slots, workers[i] # Nil, i \in ToSet(ready_queue),
                 is_ready(workers[i])
          PROVE  FALSE
      <4>1. PICK n \in 1 .. Len(ready_queue) : ready_queue[n] = i
        BY <1>0, <3>3 DEF ToSet
      <4>2. n \in ReadyPositions
        BY <3>3, <4>1 DEF ReadyPositions
      <4> QED
        BY <2>4, <4>2
    <3> QED
      BY <2>0, <3>2, <3>3, RotationKept
  <2> QED
    BY <1>2, <2>1, <2>2, <2>3, <2>4 DEF get_ready_worker
<1>3. CASE WaitReady(t)
  <2> DEFINE v == [u EXCEPT !.pc = "waiting"]
  <2>1. v.pc \in Distributing /\ th' = [th EXCEPT ![t] = v]
    BY <1>0, <1>3 DEF ThreadRecord, Distributing, WaitReady
  <2> HIDE DEF v
  <2>2. SameReplacement(th["sup"], th'["sup"]) /\ (Stopped' <=> Stopped)
    BY <1>1, <2>1, DistributingThread
  <2>3. /\ w' = w /\ workers' = workers /\ allocated' = allocated
        /\ ready_list' = ready_list /\ ready_queue' = ready_queue
    BY <1>3 DEF WaitReady, pool, objs
  <2> QED
    BY <2>2, <2>3, NoWorker
<1>4. CASE add_request(t)
  <2> DEFINE v == [u EXCEPT !.pc = AfterDistribute(t), !.item = Nil, !.target = Nil]
             o == u.target
             x == w[o]
             z == [x EXCEPT !.queue = Append(@, u.item)]
             y == Notify(z)
  <2>1. v.pc \in {"read", "redistribute"} /\ th' = [th EXCEPT ![t] = v]
    BY <1>0, <1>4 DEF ThreadRecord, AfterDistribute, add_request
  <2>2. /\ w' = [w EXCEPT ![o] = y]
        /\ workers' = workers /\ allocated' = allocated
        /\ ready_list' = ready_list /\ ready_queue' = ready_queue
    BY <1>4 DEF add_request, pool
  <2>3. o \in Objects => x \in WorkerRecord
    BY DEF TypeOK
  <2>4. ASSUME o \in Objects
        PROVE  SameOwner(x, y) /\ Quiet(x, y) /\ (Alive(y) => Alive(x))
    <3>1. /\ z.slot = x.slot /\ z.init = x.init /\ z.state = x.state
          /\ z.stop = x.stop /\ z.pc = x.pc
      BY <2>3, <2>4 DEF WorkerRecord
    <3>2. y = z \/ (x.pc = "waiting" /\ y = [z EXCEPT !.pc = "woken"])
      BY <3>1 DEF Notify
    <3>3. /\ y.slot = x.slot /\ y.init = x.init /\ y.state = x.state
          /\ y.stop = x.stop
          /\ y.pc = x.pc \/ (x.pc = "waiting" /\ y.pc = "woken")
      BY <2>3, <2>4, <3>1, <3>2 DEF WorkerRecord
    <3>4. x.init = "start" => x.pc = "none"
      BY <2>4 DEF Ownership
    <3> HIDE DEF y, z
    <3> QED
      BY <3>3, <3>4 DEF SameOwner, Quiet, Alive
  <2> HIDE DEF v, y
  <2>5. SameReplacement(th["sup"], th'["sup"]) /\ (Stopped' <=> Stopped)
    BY <1>1, <2>1, DistributingThread
  <2> QED
    BY <2>2, <2>4, <2>5, OneWorker
<1> QED
  BY <1>2, <1>3, <1>4 DEF distribute_request

-----------------------------------------------------------------------------
(* Worker::stop and the recovery of a worker's requests *)

\* The worker a thread stops or detaches is started, is out of its slot
\* (the supervisor) or belongs to a pool that takes no requests any more
\* (shutdown).
LEMMA HeldWorker ==
  ASSUME TypeOK, Ownership, Replacing, InRotation, ThreadLocals, ThreadLocals',
         NEW t \in Threads, NEW y,
         \/ t = "main" /\ th["main"].pc \in StopPhase
         \/ t = "sup" /\ th["sup"].pc \in HoldingOld,
         w' = [w EXCEPT ![th[t].old] = y],
         th[t].old \in Objects =>
           /\ y.slot = w[th[t].old].slot /\ y.init = w[th[t].old].init
           /\ Alive(y) => Alive(w[th[t].old]),
         workers' = workers, allocated' = allocated,
         ready_list' = ready_list, ready_queue' = ready_queue,
         SameReplacement(th["sup"], th'["sup"]), Stopped' <=> Stopped
  PROVE  Ownership' /\ Replacing' /\ InRotation'
<1> DEFINE o == th[t].old
<1>1. CASE o \notin Objects
  BY <1>1, OneWorker
<1>2. CASE o \in Objects
  <2>1. w[o].init # "start"
    BY <1>2 DEF Replacing, Stopped
  <2>2. SameOwner(w[o], y)
    BY <1>2, <2>1 DEF SameOwner
  <2>3. Stopped \/ ~\E i \in Slots : workers[i] = o
    BY DEF Replacing, Stopped
  <2> QED
    BY <1>2, <2>2, <2>3, OneWorker
<1> QED
  BY <1>1, <1>2

\* Every step of Worker::stop.
LEMMA StopOwned ==
  ASSUME TypeOK, Ownership, Replacing, InRotation, ThreadLocals, ThreadLocals',
         NEW t \in Threads, stop(t)
  PROVE  Ownership' /\ Replacing' /\ InRotation'
<1> DEFINE u == th[t]
           o == u.old
           x == w[o]
<1>0. u \in ThreadRecord /\ u.pc \in StopPoints
  BY DEF TypeOK, stop, StopRequest, StopNotify, StopJoin, StopTimeout, StopPoints
<1>1. x \in WorkerRecord /\ o \in Objects
  BY <1>0 DEF TypeOK, ThreadLocals
<1>2. /\ workers' = workers /\ allocated' = allocated
      /\ ready_list' = ready_list /\ ready_queue' = ready_queue
  BY DEF stop, StopRequest, StopNotify, StopJoin, StopTimeout, pool
<1>3. \E v : /\ th' = [th EXCEPT ![t] = v] /\ v.slot = u.slot
             /\ \/ v.pc \in StopPoints /\ v.old = u.old
                \/ v.pc = AfterStop(t)
  <2>1. \/ th' = [th EXCEPT ![t] = [u EXCEPT !.pc = AfterStop(t), !.old = Nil]]
        \/ th' = [th EXCEPT ![t] = [u EXCEPT !.pc = "stopping", !.seen = w[o].state]]
        \/ th' = [th EXCEPT ![t] = [u EXCEPT !.pc = "joining", !.seen = Nil]]
    BY DEF stop, StopRequest, StopNotify, StopJoin, StopTimeout
  <2>2. CASE th' = [th EXCEPT ![t] = [u EXCEPT !.pc = AfterStop(t), !.old = Nil]]
    <3>1. /\ [u EXCEPT !.pc = AfterStop(t), !.old = Nil].slot = u.slot
          /\ [u EXCEPT !.pc = AfterStop(t), !.old = Nil].pc = AfterStop(t)
      BY <1>0 DEF ThreadRecord
    <3> QED
      BY <2>2, <3>1
  <2>3. CASE th' = [th EXCEPT ![t] = [u EXCEPT !.pc = "stopping", !.seen = w[o].state]]
    <3> DEFINE v == [u EXCEPT !.pc = "stopping", !.seen = w[o].state]
    <3>1. v.slot = u.slot /\ v.pc \in StopPoints /\ v.old = u.old
      BY <1>0 DEF ThreadRecord, StopPoints
    <3> QED
      BY <2>3, <3>1
  <2>4. CASE th' = [th EXCEPT ![t] = [u EXCEPT !.pc = "joining", !.seen = Nil]]
    <3> DEFINE v == [u EXCEPT !.pc = "joining", !.seen = Nil]
    <3>1. v.slot = u.slot /\ v.pc \in StopPoints /\ v.old = u.old
      BY <1>0 DEF ThreadRecord, StopPoints
    <3> QED
      BY <2>4, <3>1
  <2> QED
    BY <2>1, <2>2, <2>3, <2>4
<1>4. PICK v : /\ th' = [th EXCEPT ![t] = v] /\ v.slot = u.slot
               /\ \/ v.pc \in StopPoints /\ v.old = u.old
                  \/ v.pc = AfterStop(t)
  BY <1>3
<1>5. \A s \in Threads : th'[s] = IF s = t THEN v ELSE th[s]
  BY <1>4 DEF TypeOK
<1>6. SameReplacement(th["sup"], th'["sup"]) /\ (Stopped' <=> Stopped)
  <2>1. CASE t = "main"
    <3>1. th'["sup"] = th["sup"] /\ th'["main"] = v
      BY <1>5, <2>1 DEF Threads
    <3>2. v.pc \in StopPhase /\ u.pc \in StopPhase
      BY <1>0, <1>4, <2>1 DEF StopPhase, StopPoints, AfterStop
    <3> QED
      BY <2>1, <3>1, <3>2 DEF SameReplacement, Stopped
  <2>2. CASE t = "sup"
    <3>1. th'["sup"] = v /\ th'["main"] = th["main"]
      BY <1>5, <2>2 DEF Threads
    <3>2. \/ v.pc \in StopPoints /\ v.old = u.old
          \/ v.pc \in {"redistribute", "spawn"}
      BY <1>4, <2>2 DEF AfterStop, AfterRecover
    <3>3. SameReplacement(u, v)
      BY <1>0, <1>4, <3>2 DEF SameReplacement, HoldingOld, SlotEmpty, RecoverPoints,
                              StopPoints
    <3> QED
      BY <2>2, <3>1, <3>3 DEF Stopped
  <2> QED
    BY <2>1, <2>2 DEF Threads
<1>7. \/ t = "main" /\ th["main"].pc \in StopPhase
      \/ t = "sup" /\ th["sup"].pc \in HoldingOld
  BY <1>0 DEF Threads, StopPhase, StopPoints, HoldingOld
<1>8. SUFFICES \E y : /\ w' = [w EXCEPT ![o] = y]
                      /\ y.slot = x.slot /\ y.init = x.init
                      /\ Alive(y) => Alive(x)
  BY <1>2, <1>6, <1>7, HeldWorker
<1>9. CASE w' = w
  <2>1. w' = [w EXCEPT ![o] = x]
    BY <1>9 DEF TypeOK
  <2> QED
    BY <2>1
<1>10. CASE w' = [w EXCEPT ![o].stop = TRUE]
  <2> DEFINE y == [x EXCEPT !.stop = TRUE]
  <2>1. w' = [w EXCEPT ![o] = y]
    BY <1>10
  <2>2. y.slot = x.slot /\ y.init = x.init /\ y.pc = x.pc
    BY <1>1 DEF WorkerRecord
  <2> QED
    BY <2>1, <2>2 DEF Alive
<1>11. CASE StopNotify(t)
  <2> DEFINE z == IF u.seen = "Faulted" THEN x ELSE [x EXCEPT !.state = "Stopping"]
             y == Notify(z)
  <2>1. w' = [w EXCEPT ![o] = y]
    BY <1>11 DEF StopNotify
  <2>2. z.slot = x.slot /\ z.init = x.init /\ z.pc = x.pc /\ z \in WorkerRecord
    BY <1>1 DEF WorkerRecord, WorkerState
  <2> HIDE DEF z
  <2>3. /\ y.slot = z.slot /\ y.init = z.init
        /\ y.pc = z.pc \/ (z.pc = "waiting" /\ y.pc = "woken")
    BY <2>2 DEF Notify, WorkerRecord
  <2> QED
    BY <2>1, <2>2, <2>3 DEF Alive
<1>12. CASE StopJoin(t)
  <2> DEFINE y == [x EXCEPT !.joinable = FALSE,
                            !.state = IF x.state = "Faulted" THEN "Faulted"
                                      ELSE "Exited"]
  <2>1. w' = [w EXCEPT ![o] = y]
    BY <1>12 DEF StopJoin
  <2>2. y.slot = x.slot /\ y.init = x.init /\ y.pc = x.pc
    BY <1>1 DEF WorkerRecord
  <2> QED
    BY <2>1, <2>2 DEF Alive
<1>13. CASE StopTimeout(t)
  <2> DEFINE y == [x EXCEPT !.joinable = FALSE, !.state = "Faulted"]
  <2>1. w' = [w EXCEPT ![o] = y]
    BY <1>13 DEF StopTimeout
  <2>2. y.slot = x.slot /\ y.init = x.init /\ y.pc = x.pc
    BY <1>1 DEF WorkerRecord
  <2> QED
    BY <2>1, <2>2 DEF Alive
<1> QED
  BY <1>9, <1>10, <1>11, <1>12, <1>13 DEF stop, StopRequest

\* A step of the supervisor alone: what is asked of its record.
LEMMA SupervisorThread ==
  ASSUME TypeOK, NEW u, th' = [th EXCEPT !["sup"] = u],
         SameReplacement(th["sup"], u)
  PROVE  SameReplacement(th["sup"], th'["sup"]) /\ (Stopped' <=> Stopped)
<1>1. th'["sup"] = u /\ th'["main"] = th["main"]
  BY DEF TypeOK, Threads
<1> QED
  BY <1>1 DEF Stopped

\* The steps of replace_worker between taking the worker out of its slot and
\* spawning its replacement, and the redistribution.
LEMMA RecoverOwned ==
  ASSUME TypeOK, Ownership, Replacing, InRotation, ThreadLocals, ThreadLocals',
         \/ drain_pending_requests \/ recover_current_request
         \/ send_timeout_error \/ abandon_request
         \/ force_detach_flags \/ force_detach_count
         \/ enforce_detached_worker_limit \/ redistribute_requests
  PROVE  Ownership' /\ Replacing' /\ InRotation'
<1> DEFINE u == th["sup"]
           o == u.old
           x == w[o]
<1> USE DEF SameReplacement, HoldingOld, SlotEmpty, RecoverPoints, StopPoints
<1>0. u \in ThreadRecord
  BY DEF TypeOK, Threads
<1>1. /\ workers' = workers /\ allocated' = allocated
      /\ ready_list' = ready_list /\ ready_queue' = ready_queue
  BY DEF drain_pending_requests, recover_current_request, send_timeout_error,
         abandon_request, force_detach_flags, force_detach_count,
         enforce_detached_worker_limit, redistribute_requests, pool, objs
<1>2. u.pc \in RecoverPoints => o \in Objects /\ x \in WorkerRecord
  BY DEF ThreadLocals, TypeOK
<1>3. CASE drain_pending_requests
  <2> DEFINE v == [u EXCEPT !.pc = "current", !.recovered = x.queue]
             y == [x EXCEPT !.queue = <<>>]
  <2>1. /\ th' = [th EXCEPT !["sup"] = v] /\ w' = [w EXCEPT ![o] = y]
        /\ u.pc = "drain"
    BY <1>3 DEF drain_pending_requests
  <2>2. v.pc = "current" /\ v.old = u.old /\ v.slot = u.slot
    BY <1>0 DEF ThreadRecord
  <2>3. y.slot = x.slot /\ y.init = x.init /\ y.pc = x.pc
    BY <1>2, <2>1 DEF WorkerRecord
  <2> HIDE DEF v, y
  <2>4. SameReplacement(u, v)
    BY <2>1, <2>2
  <2>5. SameReplacement(u, th'["sup"]) /\ (Stopped' <=> Stopped)
    BY <2>1, <2>4, SupervisorThread
  <2> QED
    BY <1>1, <2>1, <2>3, <2>5, HeldWorker DEF Alive, Threads
<1>4. CASE recover_current_request
  <2> DEFINE next == IF u.force THEN "detach" ELSE "stop"
             c == x.current
  <2>1. /\ w' = w /\ u.pc = "current"
        /\ \/ th' = [th EXCEPT !["sup"] = [u EXCEPT !.pc = next]]
           \/ th' = [th EXCEPT !["sup"] = [u EXCEPT !.pc = "timeout_error", !.seen = c]]
           \/ th' = [th EXCEPT !["sup"] =
                [u EXCEPT !.pc = next,
                          !.recovered = Append(u.recovered, [data |-> c, retry_count |-> 0])]]
    BY <1>4 DEF recover_current_request, objs
  <2>2. SameReplacement(u, [u EXCEPT !.pc = next])
    BY <1>0, <2>1 DEF ThreadRecord
  <2>3. SameReplacement(u, [u EXCEPT !.pc = "timeout_error", !.seen = c])
    BY <1>0, <2>1 DEF ThreadRecord
  <2>4. SameReplacement(u, [u EXCEPT !.pc = next,
                 !.recovered = Append(u.recovered, [data |-> c, retry_count |-> 0])])
    BY <1>0, <2>1 DEF ThreadRecord
  <2>5. SameReplacement(u, th'["sup"]) /\ (Stopped' <=> Stopped)
    BY <2>1, <2>2, <2>3, <2>4, SupervisorThread, ZenonT(30)
  <2> QED
    BY <1>1, <2>1, <2>5, NoWorker
<1>5. CASE send_timeout_error
  <2> DEFINE v == [u EXCEPT !.pc = "abandon"]
  <2>1. th' = [th EXCEPT !["sup"] = v] /\ w' = w /\ u.pc = "timeout_error"
    BY <1>5 DEF send_timeout_error, objs
  <2>2. v.pc = "abandon" /\ v.old = u.old /\ v.slot = u.slot
    BY <1>0 DEF ThreadRecord
  <2> HIDE DEF v
  <2>3. SameReplacement(u, th'["sup"]) /\ (Stopped' <=> Stopped)
    BY <2>1, <2>2, SupervisorThread
  <2> QED
    BY <1>1, <2>1, <2>3, NoWorker
<1>6. CASE abandon_request
  <2> DEFINE v == [u EXCEPT !.pc = "detach", !.seen = Nil]
  <2>1. th' = [th EXCEPT !["sup"] = v] /\ w' = w /\ u.pc = "abandon"
    BY <1>6 DEF abandon_request, objs
  <2>2. v.pc = "detach" /\ v.old = u.old /\ v.slot = u.slot
    BY <1>0 DEF ThreadRecord
  <2> HIDE DEF v
  <2>3. SameReplacement(u, th'["sup"]) /\ (Stopped' <=> Stopped)
    BY <2>1, <2>2, SupervisorThread
  <2> QED
    BY <1>1, <2>1, <2>3, NoWorker
<1>7. CASE force_detach_flags
  <2> DEFINE v == [u EXCEPT !.pc = "detach_count"]
             z == [x EXCEPT !.stop = TRUE, !.state = "Faulted"]
             y == Notify(z)
  <2>1. /\ th' = [th EXCEPT !["sup"] = v] /\ w' = [w EXCEPT ![o] = y]
        /\ u.pc = "detach"
    BY <1>7 DEF force_detach_flags
  <2>2. v.pc = "detach_count" /\ v.old = u.old /\ v.slot = u.slot
    BY <1>0 DEF ThreadRecord
  <2>3. z.slot = x.slot /\ z.init = x.init /\ z.pc = x.pc /\ z \in WorkerRecord
    BY <1>2, <2>1 DEF WorkerRecord, WorkerState
  <2> HIDE DEF z
  <2>4. /\ y.slot = z.slot /\ y.init = z.init
        /\ y.pc = z.pc \/ (z.pc = "waiting" /\ y.pc = "woken")
    BY <2>3 DEF Notify, WorkerRecord
  <2> HIDE DEF v, y
  <2>5. SameReplacement(u, th'["sup"]) /\ (Stopped' <=> Stopped)
    BY <2>1, <2>2, SupervisorThread
  <2> QED
    BY <1>1, <2>1, <2>3, <2>4, <2>5, HeldWorker DEF Alive, Threads
<1>8. CASE force_detach_count
  <2> DEFINE v == [u EXCEPT !.pc = "limit"]
             y == IF x.joinable
                  THEN [x EXCEPT !.detached = TRUE, !.stale = FALSE, !.joinable = FALSE]
                  ELSE [x EXCEPT !.stale = FALSE]
  <2>1. /\ th' = [th EXCEPT !["sup"] = v] /\ w' = [w EXCEPT ![o] = y]
        /\ u.pc = "detach_count"
    BY <1>8 DEF force_detach_count
  <2>2. v.pc = "limit" /\ v.old = u.old /\ v.slot = u.slot
    BY <1>0 DEF ThreadRecord
  <2>3. y.slot = x.slot /\ y.init = x.init /\ y.pc = x.pc
    BY <1>2, <2>1 DEF WorkerRecord
  <2> HIDE DEF v, y
  <2>4. SameReplacement(u, th'["sup"]) /\ (Stopped' <=> Stopped)
    BY <2>1, <2>2, SupervisorThread
  <2> QED
    BY <1>1, <2>1, <2>3, <2>4, HeldWorker DEF Alive, Threads
<1>9. CASE enforce_detached_worker_limit
  <2> DEFINE v == [u EXCEPT !.pc = AfterRecover("sup"), !.old = Nil]
  <2>1. th' = [th EXCEPT !["sup"] = v] /\ w' = w /\ u.pc = "limit"
    BY <1>9 DEF enforce_detached_worker_limit, objs
  <2>2. v.pc \in {"redistribute", "spawn"} /\ v.slot = u.slot
    BY <1>0 DEF ThreadRecord, AfterRecover
  <2> HIDE DEF v
  <2>3. SameReplacement(u, th'["sup"]) /\ (Stopped' <=> Stopped)
    BY <2>1, <2>2, SupervisorThread
  <2> QED
    BY <1>1, <2>1, <2>3, NoWorker
<1>10. CASE redistribute_requests
  <2>1. PICK v : /\ th' = [th EXCEPT !["sup"] = v]
                 /\ v.pc \in {"scan", "redistribute", "get"}
    <3> DEFINE todo == u.recovered
    <3>1. u.pc = "redistribute"
      BY <1>10 DEF redistribute_requests
    <3>2. \/ th' = [th EXCEPT !["sup"] = [u EXCEPT !.pc = "scan", !.recovered = <<>>]]
          \/ th' = [th EXCEPT !["sup"] = [u EXCEPT !.recovered = Tail(todo)]]
          \/ th' = [th EXCEPT !["sup"] =
                      [u EXCEPT !.recovered = Tail(todo),
                                !.item = [Head(todo) EXCEPT !.retry_count = @ + 1],
                                !.pc = "get"]]
      BY <1>10 DEF redistribute_requests
    <3>3. /\ [u EXCEPT !.pc = "scan", !.recovered = <<>>].pc = "scan"
          /\ [u EXCEPT !.recovered = Tail(todo)].pc = u.pc
          /\ [u EXCEPT !.recovered = Tail(todo),
                       !.item = [Head(todo) EXCEPT !.retry_count = @ + 1],
                       !.pc = "get"].pc = "get"
      BY <1>0 DEF ThreadRecord
    <3> QED
      BY <3>1, <3>2, <3>3
  <2>2. w' = w /\ u.pc = "redistribute"
    BY <1>10 DEF redistribute_requests, objs
  <2>3. SameReplacement(u, th'["sup"]) /\ (Stopped' <=> Stopped)
    BY <2>1, <2>2, SupervisorThread
  <2> QED
    BY <1>1, <2>2, <2>3, NoWorker
<1> QED
  BY <1>3, <1>4, <1>5, <1>6, <1>7, <1>8, <1>9, <1>10

-----------------------------------------------------------------------------
(* The supervisor takes a worker out of its slot and puts another one there *)

\* A slot is only ever replaced when its worker has run: monitor_worker_at.
LEMMA MonitorOwned ==
  ASSUME TypeOK, Ownership, Replacing, InRotation, ThreadLocals, ThreadLocals',
         (\E i \in Slots : monitor_worker_at(i)) \/ SupervisorEnd
  PROVE  Ownership' /\ Replacing' /\ InRotation'
<1> DEFINE u == th["sup"]
<1>0. u \in ThreadRecord /\ workers \in [Slots -> Objects \cup {Nil}]
  BY DEF TypeOK, Threads
<1>1. /\ w' = w /\ workers' = workers /\ allocated' = allocated
      /\ ready_list' = ready_list /\ ready_queue' = ready_queue
      /\ u.pc = "scan"
  BY DEF monitor_worker_at, SupervisorEnd, pool, objs
<1>2. CASE SupervisorEnd
  <2> DEFINE v == [u EXCEPT !.pc = "done"]
  <2>1. th' = [th EXCEPT !["sup"] = v] /\ v.pc = "done"
    BY <1>0, <1>2 DEF SupervisorEnd, ThreadRecord
  <2> HIDE DEF v
  <2>2. SameReplacement(u, v)
    BY <2>1 DEF SameReplacement, HoldingOld, SlotEmpty, RecoverPoints, StopPoints
  <2> QED
    BY <1>1, <2>1, <2>2, SupervisorThread, NoWorker
<1>3. CASE \E i \in Slots : monitor_worker_at(i)
  <2>1. PICK i \in Slots : monitor_worker_at(i)
    BY <1>3
  <2> DEFINE v == [u EXCEPT !.pc = "mark", !.slot = i,
                            !.force = w[workers[i]].state # "Faulted"]
  <2>2. /\ th' = [th EXCEPT !["sup"] = v]
        /\ workers[i] # Nil /\ NeedsReplacement(workers[i])
    BY <2>1 DEF monitor_worker_at
  <2>3. v.pc = "mark" /\ v.slot = i
    BY <1>0 DEF ThreadRecord
  <2> HIDE DEF v
  <2>4. th'["sup"] = v /\ th'["main"] = th["main"]
    BY <2>2 DEF TypeOK, Threads
  <2>5. w[workers[i]].init # "start"
    <3>1. workers[i] \in Objects /\ w[workers[i]].state \in {"Faulted", "Running"}
      BY <1>0, <2>2 DEF NeedsReplacement
    <3> QED
      BY <3>1 DEF Ownership
  <2>6. ~Stopped
    BY <1>1 DEF Replacing
  <2>7. Replacing'
    BY <1>1, <2>3, <2>4, <2>5, <2>6
    DEF Replacing, Stopped, HoldingOld, SlotEmpty, RecoverPoints, StopPoints
  <2>8. Ownership' /\ InRotation'
    BY <1>1, <2>4 DEF Ownership, InRotation, Stopped, ThreadAlive, is_ready
  <2> QED
    BY <2>7, <2>8
<1> QED
  BY <1>2, <1>3

\* Unmarking the slot takes nothing away from the others.
LEMMA MarkOwned ==
  ASSUME TypeOK, Ownership, Replacing, InRotation, ThreadLocals, ThreadLocals',
         mark_worker_not_ready
  PROVE  Ownership' /\ Replacing' /\ InRotation'
<1> DEFINE u == th["sup"]
           v == th'["sup"]
<1>0. u \in ThreadRecord
  BY DEF TypeOK, Threads
<1>1. /\ w' = w /\ workers' = workers /\ allocated' = allocated
      /\ ready_queue' = ready_queue /\ u.pc = "mark"
      /\ \/ ready_list' = ready_list
         \/ ready_list' = [ready_list EXCEPT ![u.slot] = FALSE]
  BY DEF mark_worker_not_ready, objs
<1>2. PICK c \in {"scan", "prepare"} : th' = [th EXCEPT !["sup"].pc = c]
  BY DEF mark_worker_not_ready
<1>3. th'["main"] = th["main"] /\ v = [u EXCEPT !.pc = c]
  BY <1>2 DEF TypeOK, Threads
<1>4. v.pc = c /\ v.slot = u.slot
  BY <1>0, <1>3 DEF ThreadRecord
<1> HIDE DEF v
<1>5. SameReplacement(u, v)
  BY <1>1, <1>4
  DEF SameReplacement, HoldingOld, SlotEmpty, RecoverPoints, StopPoints
<1>6. Stopped' <=> Stopped
  BY <1>3 DEF Stopped
<1>7. \A p : SameOwner(w[p], w'[p])
  BY <1>1 DEF SameOwner
<1>8. Ownership' /\ Replacing'
  BY <1>1, <1>5, <1>6, <1>7, OwnershipFrame DEF v
<1>9. \A i \in Slots : ready_list'[i] => ready_list[i]
  BY <1>1 DEF TypeOK
<1>10. InRotation'
  BY <1>1, <1>6, <1>9 DEF InRotation, ThreadAlive, is_ready
<1> QED
  BY <1>8, <1>10

\* prepare_worker_replacement takes a started worker out of its slot, and out
\* of that slot only.
LEMMA PrepareOwned ==
  ASSUME TypeOK, Ownership, Replacing, InRotation, ThreadLocals, ThreadLocals',
         prepare_worker_replacement
  PROVE  Ownership' /\ Replacing' /\ InRotation'
<1> DEFINE u == th["sup"]
           v == th'["sup"]
           i == u.slot
           o == workers[i]
<1>0. u \in ThreadRecord /\ workers \in [Slots -> Objects \cup {Nil}] /\ Nil \notin Objects
  BY PoolAssumption DEF TypeOK, Threads, Objects
<1>1. /\ w' = w /\ workers' = [workers EXCEPT ![i] = Nil] /\ allocated' = allocated
      /\ ready_list' = ready_list /\ ready_queue' = ready_queue
      /\ u.pc = "prepare"
  BY DEF prepare_worker_replacement, objs
<1>2. i \in Slots /\ o \in Objects /\ w[o].init # "start"
  BY <1>1 DEF ThreadLocals, Replacing, ReplacePoints
<1>3. th'["main"] = th["main"] /\ v.pc = "drain" /\ v.old = o /\ v.slot = i
  <2> DEFINE m == replacement_attempts[i] >= max_replace_attempts
  <2>1. th' = [th EXCEPT !["sup"] = [u EXCEPT !.pc = "drain", !.maxed = m, !.old = o]]
    BY DEF prepare_worker_replacement
  <2>2. th'["main"] = th["main"] /\ v = [u EXCEPT !.pc = "drain", !.maxed = m, !.old = o]
    BY <2>1 DEF TypeOK, Threads
  <2> HIDE DEF m
  <2> QED
    BY <1>0, <2>2 DEF ThreadRecord
<1> HIDE DEF v
<1>4. \A j \in Slots : workers'[j] = IF j = i THEN Nil ELSE workers[j]
  BY <1>0, <1>1
<1>5. \A j \in Slots : workers[j] = o => j = i
  BY <1>0, <1>2 DEF Ownership
<1>6. Ownership'
  <2>1. ASSUME NEW p \in Objects, w'[p].init = "start"
        PROVE  workers'[w'[p].slot] = p /\ w'[p].state = "Starting" /\ w'[p].pc = "none"
    <3>1. workers[w[p].slot] = p /\ w[p].state = "Starting" /\ w[p].pc = "none"
      BY <1>1, <2>1 DEF Ownership
    <3>2. w[p].slot \in Slots /\ w[p].slot # i
      BY <1>1, <1>2, <2>1, <3>1 DEF TypeOK, WorkerRecord
    <3> QED
      BY <1>1, <1>4, <3>1, <3>2
  <2>2. ASSUME NEW p \in Objects, p > allocated' PROVE w'[p].init = "none"
    BY <1>1, <2>2 DEF Ownership
  <2>3. ASSUME NEW j \in Slots, workers'[j] # Nil
        PROVE  w'[workers'[j]].slot = j /\ workers'[j] <= allocated'
    BY <1>1, <1>4, <2>3 DEF Ownership
  <2> QED
    BY <2>1, <2>2, <2>3 DEF Ownership
<1>7. \A j \in Slots : workers'[j] # o
  BY <1>0, <1>2, <1>4, <1>5
<1>8. ~Stopped /\ ~Stopped'
  BY <1>1, <1>3 DEF Replacing, Stopped
<1>9. Replacing'
  BY <1>1, <1>2, <1>3, <1>4, <1>7, <1>8
  DEF Replacing, v, HoldingOld, SlotEmpty, RecoverPoints, StopPoints
<1>10. InRotation'
  <2> SUFFICES ASSUME NEW j \in Slots, workers'[j] # Nil
               PROVE  /\ w'[workers'[j]].stop => Stopped' \/ ~Alive(w'[workers'[j]])
                      /\ ready_list'[j] =>
                           /\ w'[workers'[j]].init # "start"
                           /\ Alive(w'[workers'[j]]) =>
                                /\ j \in ToSet(ready_queue')
                                /\ Stopped' \/ w'[workers'[j]].state \in {"Idle", "Running"}
    BY DEF InRotation, ThreadAlive, is_ready, Alive
  <2>1. workers'[j] = workers[j] /\ workers[j] # Nil
    BY <1>4
  <2> QED
    BY <1>1, <1>8, <2>1 DEF InRotation, ThreadAlive, is_ready, Alive
<1> QED
  BY <1>6, <1>9, <1>10

\* The replacement is a new object in the slot left empty; its initializer has
\* not run.
LEMMA SpawnOwned ==
  ASSUME TypeOK, Ownership, Replacing, InRotation, ThreadLocals, ThreadLocals',
         spawn_replacement_worker
  PROVE  Ownership' /\ Replacing' /\ InRotation'
<1> DEFINE u == th["sup"]
           v == th'["sup"]
           i == u.slot
           n == allocated + 1
           y == NewWorker(i)
<1>0. /\ u \in ThreadRecord /\ workers \in [Slots -> Objects \cup {Nil}]
      /\ Nil \notin Objects /\ allocated \in Nat
      /\ \A p \in Objects : p \in Nat
  BY PoolAssumption DEF TypeOK, Threads, Objects
<1>1. /\ ready_queue' = ready_queue /\ u.pc = "spawn"
      /\ th' = [th EXCEPT !["sup"].pc = "redistribute"]
  BY DEF spawn_replacement_worker
<1>2. i \in Slots /\ workers[i] = Nil
  BY <1>1 DEF ThreadLocals, Replacing, ReplacePoints, SlotEmpty
<1>3. th'["main"] = th["main"] /\ v.pc = "redistribute"
  BY <1>0, <1>1 DEF TypeOK, Threads, ThreadRecord
<1>4. ~Stopped /\ ~Stopped'
  BY <1>1, <1>3 DEF Replacing, Stopped
<1>5. SameReplacement(u, v)
  BY <1>3, <1>1
  DEF SameReplacement, HoldingOld, SlotEmpty, RecoverPoints, StopPoints
<1>6. CASE UNCHANGED <<workers, ready_list, w, allocated>>
  BY <1>1, <1>4, <1>5, <1>6, NoWorker
<1>7. CASE /\ n \in Objects /\ allocated' = n /\ w' = [w EXCEPT ![n] = y]
           /\ workers' = [workers EXCEPT ![i] = n]
           /\ ready_list' = [ready_list EXCEPT ![i] = FALSE]
  <2>1. /\ y.slot = i /\ y.state = "Starting" /\ y.pc = "none" /\ y.init = "start"
        /\ y.stop = FALSE
    BY DEF NewWorker
  <2> HIDE DEF y, v
  <2>2. /\ \A p \in Objects : w'[p] = IF p = n THEN y ELSE w[p]
        /\ \A j \in Slots : workers'[j] = IF j = i THEN n ELSE workers[j]
        /\ \A j \in Slots : ready_list'[j] = IF j = i THEN FALSE ELSE ready_list[j]
    BY <1>0, <1>2, <1>7 DEF TypeOK
  <2>3. \A j \in Slots : workers[j] # Nil =>
          workers[j] \in Objects /\ workers[j] # n /\ workers[j] <= allocated
    BY <1>0 DEF Ownership
  <2>4. Ownership'
    <3>1. ASSUME NEW p \in Objects, w'[p].init = "start"
          PROVE  workers'[w'[p].slot] = p /\ w'[p].state = "Starting" /\ w'[p].pc = "none"
      <4>1. CASE p = n
        BY <1>2, <2>1, <2>2, <4>1
      <4>2. CASE p # n
        <5>1. w'[p] = w[p]
          BY <2>2, <4>2
        <5>2. workers[w[p].slot] = p /\ w[p].state = "Starting" /\ w[p].pc = "none"
          BY <3>1, <5>1 DEF Ownership
        <5>3. w[p].slot \in Slots /\ w[p].slot # i
          BY <1>0, <1>2, <5>2 DEF TypeOK, WorkerRecord
        <5> QED
          BY <2>2, <5>1, <5>2, <5>3
      <4> QED
        BY <4>1, <4>2
    <3>2. ASSUME NEW p \in Objects, p > allocated' PROVE w'[p].init = "none"
      <4>1. p > allocated /\ p # n
        BY <1>0, <1>7, <3>2
      <4> QED
        BY <2>2, <4>1 DEF Ownership
    <3>3. ASSUME NEW j \in Slots, workers'[j] # Nil
          PROVE  w'[workers'[j]].slot = j /\ workers'[j] <= allocated'
      <4>1. CASE j = i
        BY <1>0, <1>7, <2>1, <2>2, <4>1
      <4>2. CASE j # i
        <5>1. /\ workers'[j] = workers[j] /\ workers[j] \in Objects
              /\ workers[j] # n /\ workers[j] <= allocated
          BY <2>2, <2>3, <3>3, <4>2
        <5>2. w'[workers[j]] = w[workers[j]] /\ w[workers[j]].slot = j
          BY <2>2, <3>3, <5>1 DEF Ownership
        <5>3. workers[j] \in Nat /\ allocated \in Nat
          BY <1>0, <5>1
        <5>4. workers[j] <= allocated + 1
          BY <5>1, <5>3
        <5> QED
          BY <1>7, <5>1, <5>2, <5>4
      <4> QED
        BY <4>1, <4>2
    <3> QED
      BY <3>1, <3>2, <3>3 DEF Ownership
  <2>5. Replacing'
    BY <1>3, <1>4 DEF Replacing, v, HoldingOld, SlotEmpty, RecoverPoints, StopPoints
  <2>6. InRotation'
    <3> SUFFICES ASSUME NEW j \in Slots, workers'[j] # Nil
                 PROVE  /\ w'[workers'[j]].stop => Stopped' \/ ~Alive(w'[workers'[j]])
                        /\ ready_list'[j] =>
                             /\ w'[workers'[j]].init # "start"
                             /\ Alive(w'[workers'[j]]) =>
                                  /\ j \in ToSet(ready_queue')
                                  /\ Stopped' \/ w'[workers'[j]].state \in {"Idle", "Running"}
      BY DEF InRotation, ThreadAlive, is_ready, Alive
    <3>1. CASE j = i
      <4>1. workers'[j] = n /\ w'[n] = y /\ ready_list'[j] = FALSE
        BY <1>7, <2>2, <3>1
      <4> QED
        BY <2>1, <4>1
    <3>2. CASE j # i
      <4>1. /\ workers'[j] = workers[j] /\ w'[workers[j]] = w[workers[j]]
            /\ ready_list'[j] = ready_list[j] /\ workers[j] # Nil
        BY <2>2, <2>3, <3>2
      <4> QED
        BY <1>1, <1>4, <4>1 DEF InRotation, ThreadAlive, is_ready, Alive
    <3> QED
      BY <3>1, <3>2
  <2> QED
    BY <2>4, <2>5, <2>6
<1> QED
  BY <1>6, <1>7 DEF spawn_replacement_worker

-----------------------------------------------------------------------------
(* The main thread *)

\* Reading, and the phases of shutdown() around the calls of stop().
LEMMA MainOwned ==
  ASSUME TypeOK, Ownership, Replacing, InRotation, ThreadLocals, ThreadLocals',
         \/ \E r \in Requests : ReadRequest(r)
         \/ BeginShutdown \/ JoinThreads \/ StopNextWorker
  PROVE  Ownership' /\ Replacing' /\ InRotation'
<1> DEFINE u == th["main"]
<1>0. u \in ThreadRecord
  BY DEF TypeOK, Threads
<1>1. /\ w' = w /\ workers' = workers /\ allocated' = allocated
      /\ ready_list' = ready_list /\ ready_queue' = ready_queue
  BY DEF ReadRequest, BeginShutdown, JoinThreads, StopNextWorker, pool, objs
<1>2. SameReplacement(th["sup"], th["sup"])
  BY DEF SameReplacement
<1>3. CASE \E r \in Requests : ReadRequest(r)
  <2>1. PICK r \in Requests : ReadRequest(r)
    BY <1>3
  <2> DEFINE v == [u EXCEPT !.pc = "get", !.item = [data |-> r, retry_count |-> 0]]
  <2>2. th' = [th EXCEPT !["main"] = v] /\ v.pc = "get" /\ u.pc = "read"
    BY <1>0, <2>1 DEF ReadRequest, ThreadRecord
  <2> HIDE DEF v
  <2>3. th'["sup"] = th["sup"] /\ th'["main"] = v
    BY <2>2 DEF TypeOK, Threads
  <2>4. Stopped' <=> Stopped
    BY <2>2, <2>3 DEF Stopped, StopPhase
  <2> QED
    BY <1>1, <1>2, <2>3, <2>4, NoWorker
<1>4. CASE BeginShutdown
  <2>1. /\ th'["main"] = [u EXCEPT !.pc = "join"] /\ u.pc = "read"
        /\ \/ th'["sup"] = th["sup"]
           \/ th["sup"].pc = "waiting" /\ th'["sup"] = [th["sup"] EXCEPT !.pc = "get"]
    BY <1>4 DEF BeginShutdown, Threads
  <2>2. th'["main"].pc = "join"
    BY <1>0, <2>1 DEF ThreadRecord
  <2>3. Stopped' <=> Stopped
    BY <2>1, <2>2 DEF Stopped, StopPhase
  <2>4. SameReplacement(th["sup"], th'["sup"])
    <3>1. CASE th'["sup"] = th["sup"]
      BY <1>2, <3>1
    <3>2. CASE th["sup"].pc = "waiting" /\ th'["sup"] = [th["sup"] EXCEPT !.pc = "get"]
      <4>1. th'["sup"].pc = "get"
        BY <3>2 DEF TypeOK, Threads, ThreadRecord
      <4> QED
        BY <3>2, <4>1 DEF SameReplacement, HoldingOld, SlotEmpty, RecoverPoints,
                          StopPoints
    <3> QED
      BY <2>1, <3>1, <3>2
  <2> QED
    BY <1>1, <2>3, <2>4, NoWorker
<1>5. CASE JoinThreads
  <2>1. /\ th["sup"].pc = "done" /\ th'["sup"] = th["sup"]
        /\ \A o \in 1 .. allocated : w[o].init = "done"
    BY <1>5 DEF JoinThreads, TypeOK, Threads
  <2>2. ASSUME NEW o \in Objects PROVE w'[o].init \in {"none", "done"}
    <3>1. o \in Nat \ {0} /\ allocated \in Nat
      BY PoolAssumption DEF TypeOK, Objects
    <3>2. o > allocated \/ o \in 1 .. allocated
      BY <3>1
    <3> QED
      BY <1>1, <2>1, <3>2 DEF Ownership
  <2>3. Replacing'
    BY <1>1, <2>1, <2>2
    DEF Replacing, HoldingOld, SlotEmpty, RecoverPoints, StopPoints
  <2>4. Ownership'
    BY <1>1 DEF Ownership
  <2>5. Stopped'
    <3>1. th'["main"].pc = "stop_next"
      BY <1>0, <1>5 DEF JoinThreads, TypeOK, Threads, ThreadRecord
    <3> QED
      BY <3>1 DEF Stopped, StopPhase
  <2>6. InRotation'
    BY <1>1, <2>5 DEF InRotation, ThreadAlive, is_ready
  <2> QED
    BY <2>3, <2>4, <2>6
<1>6. CASE StopNextWorker
  <2>1. PICK v : /\ th' = [th EXCEPT !["main"] = v]
                 /\ v.pc \in StopPhase
    <3> DEFINE i == u.slot + 1
               a == [u EXCEPT !.pc = "done"]
               b == [u EXCEPT !.slot = i, !.old = workers[i],
                              !.pc = IF workers[i] = Nil THEN "stop_next" ELSE "stop"]
    <3>1. th' = [th EXCEPT !["main"] = a] \/ th' = [th EXCEPT !["main"] = b]
      BY <1>6 DEF StopNextWorker
    <3>2. a.pc = "done" /\ b.pc \in {"stop_next", "stop"}
      BY <1>0 DEF ThreadRecord
    <3> HIDE DEF a, b
    <3> QED
      BY <3>1, <3>2 DEF StopPhase
  <2>2. th'["sup"] = th["sup"] /\ th'["main"] = v
    BY <2>1 DEF TypeOK, Threads
  <2>3. Stopped' <=> Stopped
    BY <1>6, <2>1, <2>2 DEF Stopped, StopPhase, StopNextWorker
  <2> QED
    BY <1>1, <1>2, <2>2, <2>3, NoWorker
<1> QED
  BY <1>3, <1>4, <1>5, <1>6

-----------------------------------------------------------------------------
(* Together *)

\* The inductive invariant of worker ownership.
OwnershipInv == Ownership /\ Replacing /\ InRotation

\* Steps that touch neither a worker, nor a slot's place, nor a thread.
LEMMA AsideOwned ==
  ASSUME TypeOK, OwnershipInv, ThreadLocals, ThreadLocals', th' = th, w' = w,
         workers' = workers, allocated' = allocated, ready_list' = ready_list,
         ready_queue' = ready_queue
  PROVE  OwnershipInv'
BY SameThreads, NoWorker DEF OwnershipInv

\* Every step keeps it.
LEMMA NextOwned ==
  ASSUME Inductive, Inductive', OwnershipInv, [Next]_vars
  PROVE  OwnershipInv'
<1>0. /\ TypeOK /\ ThreadLocals /\ ThreadLocals'
      /\ Ownership /\ Replacing /\ InRotation
  BY DEF Inductive, OwnershipInv
<1>1. CASE \E o \in Objects : WorkerLoop(o) \/ WRespond(o)
  BY <1>0, <1>1, WorkerStepOwned DEF OwnershipInv
<1>2. CASE \E o \in Objects : initialize_worker(o) \/ InitFail(o)
  BY <1>0, <1>2, InitializerOwned DEF OwnershipInv
<1>3. CASE Supervisor
  BY <1>0, <1>3, MonitorOwned, MarkOwned, PrepareOwned, RecoverOwned, SpawnOwned,
     DistributeOwned, StopOwned
  DEF OwnershipInv, Supervisor, replace_worker, Threads
<1>4. CASE MainThread
  BY <1>0, <1>4, MainOwned, DistributeOwned, StopOwned
  DEF OwnershipInv, MainThread, Shutdown, Threads
<1>5. CASE \E o \in Objects : WHeartbeat(o) \/ WFault(o) \/ Stall(o)
  BY <1>0, <1>5, WorkerStepOwned DEF OwnershipInv
<1>6. CASE (\E i \in Slots : BackoffElapsed(i)) \/ CloseStdin
  BY <1>0, <1>6, AsideOwned DEF BackoffElapsed, CloseStdin, pool, objs
<1>7. CASE UNCHANGED vars
  BY <1>0, <1>7, AsideOwned DEF vars, pool, objs
<1> QED
  BY <1>1, <1>2, <1>3, <1>4, <1>5, <1>6, <1>7 DEF Next, Environment, Terminated

\* The pool as its constructor leaves it.
LEMMA InitOwned == Init => OwnershipInv
<1> SUFFICES ASSUME Init PROVE OwnershipInv
  OBVIOUS
<1>0. /\ \A i \in Slots : i \in Objects /\ i \in Nat /\ i <= NumWorkers
      /\ \A o \in Objects : o \in Nat \ {0}
      /\ NumWorkers \in Nat
  BY PoolAssumption DEF Slots, Objects
<1>1. \A o \in Objects : w[o] = IF o \in Slots THEN NewWorker(o)
                                ELSE [NewWorker(1) EXCEPT !.init = "none"]
  BY DEF Init
<1>2. \A o \in Objects :
        IF o \in Slots
        THEN /\ w[o].slot = o /\ w[o].init = "start" /\ w[o].state = "Starting"
             /\ w[o].pc = "none" /\ ~w[o].stop
        ELSE w[o].init = "none"
  <2>1. \A i : /\ NewWorker(i).slot = i /\ NewWorker(i).init = "start"
               /\ NewWorker(i).state = "Starting" /\ NewWorker(i).pc = "none"
               /\ ~NewWorker(i).stop
    BY DEF NewWorker
  <2>2. [NewWorker(1) EXCEPT !.init = "none"].init = "none"
    BY DEF NewWorker
  <2>3. ASSUME NEW o \in Objects, o \in Slots PROVE w[o] = NewWorker(o)
    BY <1>1, <2>3
  <2>4. ASSUME NEW o \in Objects, o \notin Slots
        PROVE  w[o] = [NewWorker(1) EXCEPT !.init = "none"]
    BY <1>1, <2>4
  <2>5. ASSUME NEW o \in Objects, o \notin Slots PROVE w[o].init = "none"
    BY <2>2, <2>4, <2>5
  <2>6. ASSUME NEW o \in Objects, o \in Slots
        PROVE  /\ w[o].slot = o /\ w[o].init = "start" /\ w[o].state = "Starting"
               /\ w[o].pc = "none" /\ ~w[o].stop
    BY <2>1, <2>3, <2>6
  <2> QED
    BY <2>5, <2>6
<1>3. Ownership
  <2>1. \A o \in Objects : o > allocated => o \notin Slots
    BY <1>0 DEF Init, Slots
  <2> QED
    BY <1>0, <1>2, <2>1 DEF Ownership, Init
<1>4. th["main"].pc = "read" /\ th["sup"].pc = "scan"
  BY DEF Init, Idling, Threads
<1>5. Replacing
  BY <1>4 DEF Replacing, Stopped, StopPhase, HoldingOld, SlotEmpty, RecoverPoints,
              StopPoints
<1>6. InRotation
  BY <1>0, <1>2 DEF InRotation, Init
<1> QED
  BY <1>3, <1>5, <1>6 DEF OwnershipInv

\* Who owns a worker object, in every reachable state: its initializer until
\* start(), its slot, or the supervisor that replaces it; and a live worker
\* whose slot is marked ready is in the rotation and can take requests.
THEOREM PoolOwnership == Spec => []OwnershipInv
<1>1. Inductive /\ Inductive' /\ OwnershipInv /\ [Next]_vars => OwnershipInv'
  BY NextOwned
<1> QED
  BY <1>1, InitOwned, PoolInductive, PTL DEF Spec

\* start() runs on the initializer's own worker although initialize_worker reads
\* workers[worker_id] without ready_mutex: no interleaving with replace_worker
\* or shutdown() empties or refills the slot in between.
THEOREM PoolInitializerOwns == Spec => []InitializerOwnsWorker
<1>1. OwnershipInv => InitializerOwnsWorker
  BY DEF OwnershipInv, Ownership, InitializerOwnsWorker
<1> QED
  BY <1>1, PoolOwnership, PTL

\* get_ready_worker discards entries of ready_queue while it looks for a ready
\* worker; a live ready worker whose slot is marked ready is never among them.
THEOREM PoolRotation == Spec => []ReadyWorkerInRotation
<1>1. OwnershipInv => ReadyWorkerInRotation
  BY DEF OwnershipInv, InRotation, ReadyWorkerInRotation
<1> QED
  BY <1>1, PoolOwnership, PTL
=============================================================================
