--------------------------- MODULE PoolHeldProofs ---------------------------
(***************************************************************************)
(* Proofs, for every value of the constants, of where a request is in      *)
(* WorkerPool.tla: in one worker's queue, with the one worker that         *)
(* executes it, left behind by one faulted worker, carried by main or the  *)
(* supervisor, or in the supervisor's list of recovered requests, and only *)
(* in one of these places; that it is there only as long as it may still   *)
(* be answered; and from this, that the pool implements RequestService.    *)
(***************************************************************************)
EXTENDS PoolOwnershipProofs, MCWorkerPool

Dead(x) == x.pc \in {"unwinding", "gone"}

(* What a worker record holds besides its queue: the request worker_loop   *)
(* executes, and the one it left in current_request_data when it ended.    *)
RunsOf(x)  == IF x.pc \in {"popped", "claimed", "running", "finished"}
              THEN x.hand ELSE Nil
LimboOf(x) == IF Dead(x) THEN x.current ELSE Nil

(* The supervisor will still look at current_request_data of a worker in a *)
(* slot, and of the worker it is replacing.                                *)
Recovering(o) == th["sup"].pc \in {"drain", "current"} /\ th["sup"].old = o
Recoverable(o) == (\E i \in Slots : workers[i] = o) \/ Recovering(o)

(* Request r is in the place (a, n, k).                                    *)
Held(r, a, n, k) ==
  \/ /\ a = "queue" /\ n \in Objects
     /\ k \in DOMAIN w[n].queue /\ w[n].queue[k].data = r
  \/ a = "run" /\ n \in Objects /\ k = 0 /\ RunsOf(w[n]) = r
  \/ a = "limbo" /\ n \in Objects /\ k = 0 /\ LimboOf(w[n]) = r /\ Recoverable(n)
  \/ /\ a = "item" /\ n \in Threads /\ k = 0
     /\ th[n].item # Nil /\ th[n].item.data = r
  \/ /\ a = "recovered" /\ n = "sup"
     /\ k \in DOMAIN th["sup"].recovered /\ th["sup"].recovered[k].data = r

(* The timeout error of r was sent, or is about to be.                     *)
Reported(r) == \/ req[r].timeouts > 0
               \/ th["sup"].pc = "timeout_error" /\ th["sup"].seen = r

(* What the pool holds was asked and not answered, except by the worker    *)
(* that has it in its hands; and it is not reported as timed out, unless   *)
(* the worker was given up and nobody will take the request from it.       *)
Fit(r, a, n) ==
  /\ req[r].received
  /\ req[r].responses = 0 \/ (a = "run" /\ w[n].pc = "finished")
  /\ ~Reported(r) \/ (a = "run" /\ ~Recoverable(n))

Once(r) ==
  /\ \A a, n, k, b, m, l :
       Held(r, a, n, k) /\ Held(r, b, m, l) => a = b /\ n = m /\ k = l
  /\ \A a, n, k : Held(r, a, n, k) => Fit(r, a, n)
HeldOnce == \A r \in Requests : Once(r)

(* current_request_data names the request being executed, and nothing      *)
(* before it is claimed.                                                   *)
CurrentOk(x) ==
  /\ x.pc \in {"claimed", "running", "finished"} => x.current = x.hand
  /\ x.pc \notin {"claimed", "running", "finished", "unwinding", "gone"}
       => x.current = Nil

(* A worker that the supervisor finds faulted has ended its loop, and so   *)
(* has one it replaces without force.                                      *)
FaultsEnded ==
  /\ \A o \in Objects : CurrentOk(w[o])
  /\ \A i \in Slots : (workers[i] # Nil /\ w[workers[i]].state = "Faulted")
       => Stopped \/ Dead(w[workers[i]])
  /\ (th["sup"].pc \in {"mark", "prepare"} /\ ~th["sup"].force)
       => Dead(w[workers[th["sup"].slot]])
  /\ (th["sup"].pc \in {"drain", "current"} /\ ~th["sup"].force)
       => Dead(w[th["sup"].old])

-----------------------------------------------------------------------------
(* Steps that give no place a request *)

(* A worker record x becomes y: its queue stays, the rest of what it holds *)
(* stays or goes.                                                          *)
Calm(x, y) ==
  /\ y.queue = x.queue
  /\ RunsOf(y) \in {RunsOf(x), Nil}
  /\ LimboOf(y) \in {LimboOf(x), Nil}

(* The supervisor's record u becomes v: it takes up no recovery.           *)
SameRecovery(u, v) ==
  /\ v.pc \in {"mark", "prepare"} =>
       u.pc \in {"mark", "prepare"} /\ v.slot = u.slot /\ v.force = u.force
  /\ v.pc \in {"drain", "current"} =>
       u.pc \in {"drain", "current"} /\ v.old = u.old /\ v.force = u.force

(* The requests in the two threads' own hands stay or go.                  *)
SameHands ==
  /\ \A t \in Threads : th'[t].item \in {th[t].item, Nil}
  /\ th'["sup"].recovered \in {th["sup"].recovered, <<>>}

(* A request fit for its place stays so as long as it is there.            *)
FitKept ==
  \A r \in Requests : \A a, n, k :
    Held(r, a, n, k)' /\ Fit(r, a, n) => Fit(r, a, n)'

\* Places that only lose requests still hold each at most once.
LEMMA PlacesShrink ==
  ASSUME HeldOnce, FitKept,
         \A r \in Requests : \A a, n, k : Held(r, a, n, k)' => Held(r, a, n, k)
  PROVE  HeldOnce'
BY DEF HeldOnce, Once, FitKept

\* Recovery looks at no worker it did not look at before.
LEMMA RecoverableKept ==
  ASSUME workers' = workers, SameRecovery(th["sup"], th'["sup"]),
         NEW o, Recoverable(o)'
  PROVE  Recoverable(o)
BY DEF Recoverable, Recovering, SameRecovery

\* A calm step gives no place a request.
LEMMA CalmPlaces ==
  ASSUME workers' = workers,
         \A o \in Objects : Calm(w[o], w'[o]),
         SameRecovery(th["sup"], th'["sup"]), SameHands,
         NEW r \in Requests, NEW a, NEW n, NEW k, Held(r, a, n, k)'
  PROVE  Held(r, a, n, k)
<1>0. r # Nil
  BY PoolAssumption
<1>1. CASE /\ a = "queue" /\ n \in Objects
           /\ k \in DOMAIN w'[n].queue /\ w'[n].queue[k].data = r
  BY <1>1 DEF Held, Calm
<1>2. CASE a = "run" /\ n \in Objects /\ k = 0 /\ RunsOf(w'[n]) = r
  BY <1>0, <1>2 DEF Held, Calm
<1>3. CASE a = "limbo" /\ n \in Objects /\ k = 0 /\ LimboOf(w'[n]) = r /\ Recoverable(n)'
  BY <1>0, <1>3, RecoverableKept DEF Held, Calm
<1>4. CASE /\ a = "item" /\ n \in Threads /\ k = 0
           /\ th'[n].item # Nil /\ th'[n].item.data = r
  BY <1>4 DEF Held, SameHands
<1>5. CASE /\ a = "recovered" /\ n = "sup"
           /\ k \in DOMAIN th'["sup"].recovered /\ th'["sup"].recovered[k].data = r
  BY <1>5 DEF Held, SameHands
<1> QED
  BY <1>1, <1>2, <1>3, <1>4, <1>5 DEF Held, RunsOf, LimboOf, Dead

\* A calm step keeps every request in at most one place.
LEMMA CalmHeld ==
  ASSUME HeldOnce, FitKept, workers' = workers,
         \A o \in Objects : Calm(w[o], w'[o]),
         SameRecovery(th["sup"], th'["sup"]), SameHands
  PROVE  HeldOnce'
BY PlacesShrink, CalmPlaces

\* What the recovery relies on, when no worker changes its slot.
LEMMA FaultsFrame ==
  ASSUME TypeOK, ThreadLocals, FaultsEnded,
         workers' = workers, Stopped => Stopped',
         SameRecovery(th["sup"], th'["sup"]),
         \A o \in Objects : CurrentOk(w'[o]) /\ (Dead(w[o]) => Dead(w'[o])),
         \A i \in Slots : (workers[i] # Nil /\ w'[workers[i]].state = "Faulted")
           => \/ Stopped'
              \/ Dead(w'[workers[i]])
              \/ w[workers[i]].state = "Faulted"
  PROVE  FaultsEnded'
<1>0. workers \in [Slots -> Objects \cup {Nil}]
  BY DEF TypeOK
<1>1. ASSUME NEW i \in Slots, workers'[i] # Nil, w'[workers'[i]].state = "Faulted"
      PROVE  Stopped' \/ Dead(w'[workers'[i]])
  <2>1. workers[i] \in Objects /\ workers[i] # Nil
    BY <1>0, <1>1
  <2> QED
    BY <1>1, <2>1 DEF FaultsEnded
<1>2. ASSUME th'["sup"].pc \in {"mark", "prepare"}, ~th'["sup"].force
      PROVE  Dead(w'[workers'[th'["sup"].slot]])
  <2>1. /\ th["sup"].pc \in {"mark", "prepare"} /\ ~th["sup"].force
        /\ th'["sup"].slot = th["sup"].slot
    BY <1>2 DEF SameRecovery
  <2>2. workers[th["sup"].slot] \in Objects /\ Dead(w[workers[th["sup"].slot]])
    BY <2>1 DEF ThreadLocals, FaultsEnded
  <2> QED
    BY <2>1, <2>2
<1>3. ASSUME th'["sup"].pc \in {"drain", "current"}, ~th'["sup"].force
      PROVE  Dead(w'[th'["sup"].old])
  <2>1. /\ th["sup"].pc \in {"drain", "current"} /\ ~th["sup"].force
        /\ th'["sup"].old = th["sup"].old
    BY <1>3 DEF SameRecovery
  <2>2. th["sup"].old \in Objects /\ Dead(w[th["sup"].old])
    BY <2>1 DEF ThreadLocals, FaultsEnded, RecoverPoints
  <2> QED
    BY <2>1, <2>2
<1> QED
  BY <1>1, <1>2, <1>3 DEF FaultsEnded, Dead

\* One worker record changes, to y, and nothing of the threads.
LEMMA OneCalmWorker ==
  ASSUME TypeOK, ThreadLocals, FaultsEnded, HeldOnce, FitKept,
         NEW o \in Objects, NEW y, w' = [w EXCEPT ![o] = y],
         workers' = workers, Stopped => Stopped',
         SameRecovery(th["sup"], th'["sup"]), SameHands,
         Calm(w[o], y), CurrentOk(y), Dead(w[o]) => Dead(y),
         (y.state = "Faulted" /\ \E i \in Slots : workers[i] = o)
           => Stopped' \/ Dead(y) \/ w[o].state = "Faulted"
  PROVE  FaultsEnded' /\ HeldOnce'
<1>1. \A p \in Objects : w'[p] = IF p = o THEN y ELSE w[p]
  BY DEF TypeOK
<1>2. \A p \in Objects : Calm(w[p], w'[p])
  <2>1. \A p : Calm(w[p], w[p])
    BY DEF Calm
  <2> QED
    BY <1>1, <2>1
<1>3. HeldOnce'
  BY <1>2, CalmHeld
<1>4. \A p \in Objects : CurrentOk(w'[p]) /\ (Dead(w[p]) => Dead(w'[p]))
  BY <1>1 DEF FaultsEnded
<1>5. ASSUME NEW i \in Slots, workers[i] # Nil, w'[workers[i]].state = "Faulted"
      PROVE  Stopped' \/ Dead(w'[workers[i]]) \/ w[workers[i]].state = "Faulted"
  <2>1. workers[i] \in Objects
    BY <1>5 DEF TypeOK
  <2> QED
    BY <1>1, <1>5, <2>1
<1>6. FaultsEnded'
  BY <1>4, <1>5, FaultsFrame
<1> QED
  BY <1>3, <1>6

\* No worker record changes.
LEMMA NoHeldWorker ==
  ASSUME TypeOK, ThreadLocals, FaultsEnded, HeldOnce, FitKept,
         w' = w, workers' = workers, Stopped => Stopped',
         SameRecovery(th["sup"], th'["sup"]), SameHands
  PROVE  FaultsEnded' /\ HeldOnce'
<1>1. \A p \in Objects : Calm(w[p], w'[p]) /\ CurrentOk(w'[p])
  BY DEF Calm, FaultsEnded
<1>2. HeldOnce'
  BY <1>1, CalmHeld
<1>3. FaultsEnded'
  BY <1>1, FaultsFrame
<1> QED
  BY <1>2, <1>3

\* The threads as they were.
LEMMA SameThreadsHeld ==
  ASSUME th' = th
  PROVE  SameRecovery(th["sup"], th'["sup"]) /\ SameHands /\ (Stopped => Stopped')
BY DEF SameRecovery, SameHands, Stopped

-----------------------------------------------------------------------------
(* Steps that move a request *)

\* A request that moves from one place to another is in the new one only.
LEMMA Moved ==
  ASSUME HeldOnce, FitKept, NEW r \in Requests,
         NEW sa, NEW sn, NEW sk, Held(r, sa, sn, sk),
         NEW da, NEW dn, NEW dk,
         \A a, n, k : Held(r, a, n, k)' =>
           /\ a = da /\ n = dn /\ k = dk
           /\ sa = "run" => w[sn].pc # "finished" /\ Recoverable(sn)
  PROVE  Once(r)'
<1>1. Once(r)
  BY DEF HeldOnce
<1>2. ASSUME NEW a, NEW n, NEW k, Held(r, a, n, k)' PROVE Fit(r, a, n)'
  <2>1. Fit(r, sa, sn)
    BY <1>1 DEF Once
  <2>2. Fit(r, a, n)
    BY <1>2, <2>1 DEF Fit
  <2> QED
    BY <1>2, <2>2 DEF FitKept
<1> QED
  BY <1>2 DEF Once

\* The others stay where they were.
LEMMA Stayed ==
  ASSUME HeldOnce, FitKept, NEW r \in Requests,
         \A a, n, k : Held(r, a, n, k)' => Held(r, a, n, k)
  PROVE  Once(r)'
BY DEF HeldOnce, Once, FitKept

\* Or each of them moves up by one in the queue (c, o).
LEMMA Shifted ==
  ASSUME HeldOnce, FitKept, NEW r \in Requests, NEW c, NEW o,
         \A a, n, k : Held(r, a, n, k)' =>
           IF a = c /\ n = o THEN k \in Nat /\ Held(r, a, n, k + 1)
                             ELSE Held(r, a, n, k)
  PROVE  Once(r)'
<1>1. Once(r)
  BY DEF HeldOnce
<1>2. ASSUME NEW a, NEW n, NEW k, NEW b, NEW m, NEW l,
             Held(r, a, n, k)', Held(r, b, m, l)'
      PROVE  a = b /\ n = m /\ k = l
  <2>1. CASE a = c /\ n = o /\ b = c /\ m = o
    <3>1. /\ k \in Nat /\ l \in Nat
          /\ Held(r, a, n, k + 1) /\ Held(r, b, m, l + 1)
      BY <1>2, <2>1
    <3>2. k + 1 = l + 1
      BY <1>1, <3>1 DEF Once
    <3> QED
      BY <2>1, <3>1, <3>2
  <2>2. CASE a = c /\ n = o /\ ~(b = c /\ m = o)
    <3>1. Held(r, a, n, k + 1) /\ Held(r, b, m, l)
      BY <1>2, <2>2
    <3>2. a = b /\ n = m
      BY <1>1, <3>1 DEF Once
    <3> QED
      BY <2>2, <3>2
  <2>3. CASE ~(a = c /\ n = o) /\ b = c /\ m = o
    <3>1. Held(r, a, n, k) /\ Held(r, b, m, l + 1)
      BY <1>2, <2>3
    <3>2. a = b /\ n = m
      BY <1>1, <3>1 DEF Once
    <3> QED
      BY <2>3, <3>2
  <2>4. CASE ~(a = c /\ n = o) /\ ~(b = c /\ m = o)
    <3>1. Held(r, a, n, k) /\ Held(r, b, m, l)
      BY <1>2, <2>4
    <3> QED
      BY <1>1, <3>1 DEF Once
  <2> QED
    BY <2>1, <2>2, <2>3, <2>4
<1>3. ASSUME NEW a, NEW n, NEW k, Held(r, a, n, k)' PROVE Fit(r, a, n)'
  <2>1. Held(r, a, n, k) \/ Held(r, a, n, k + 1)
    BY <1>3
  <2>2. Fit(r, a, n)
    BY <1>1, <2>1 DEF Once
  <2> QED
    BY <1>3, <2>2 DEF FitKept
<1> QED
  BY <1>2, <1>3 DEF Once

\* What Tail does to a sequence, entry by entry.
LEMMA TailEntries ==
  ASSUME NEW S, NEW q \in Seq(S), q # <<>>
  PROVE  /\ 1 \in DOMAIN q /\ Head(q) = q[1]
         /\ \A k \in DOMAIN Tail(q) :
              k \in Nat /\ k # 0 /\ k + 1 \in DOMAIN q /\ Tail(q)[k] = q[k + 1]
<1>1. Len(q) \in Nat /\ Len(q) > 0 /\ DOMAIN q = 1 .. Len(q)
  OBVIOUS
<1>2. Tail(q) \in Seq(S) /\ Len(Tail(q)) = Len(q) - 1
  BY <1>1
<1>3. DOMAIN Tail(q) = 1 .. (Len(q) - 1)
  BY <1>2
<1>4. \A k \in 1 .. (Len(q) - 1) : Tail(q)[k] = q[k + 1]
  BY <1>1
<1>5. \A k \in 1 .. (Len(q) - 1) : k \in Nat /\ k # 0 /\ k + 1 \in 1 .. Len(q)
  BY <1>1
<1> QED
  BY <1>1, <1>3, <1>4, <1>5

\* worker_loop pops the head of its queue into its hands.
LEMMA PopHeld ==
  ASSUME TypeOK, HeldOnce, FitKept,
         NEW o \in Objects, NEW y, w' = [w EXCEPT ![o] = y],
         w[o].queue # <<>>, y.queue = Tail(w[o].queue),
         RunsOf(y) = Head(w[o].queue).data, RunsOf(w[o]) = Nil, LimboOf(y) = Nil,
         th' = th, workers' = workers
  PROVE  HeldOnce'
<1> DEFINE q == w[o].queue
<1>1. \A p \in Objects : w'[p] = IF p = o THEN y ELSE w[p]
  BY DEF TypeOK
<1>2. q \in Seq(RequestMetadata)
  BY DEF TypeOK, WorkerRecord
<1>3. /\ 1 \in DOMAIN q /\ Head(q) = q[1]
      /\ \A k \in DOMAIN Tail(q) :
           k \in Nat /\ k # 0 /\ k + 1 \in DOMAIN q /\ Tail(q)[k] = q[k + 1]
  BY <1>2, TailEntries
<1> SUFFICES ASSUME NEW r \in Requests PROVE Once(r)'
  BY DEF HeldOnce
<1>4. r # Nil
  BY PoolAssumption
<1>5. \A p : Recoverable(p)' => Recoverable(p)
  BY DEF Recoverable, Recovering
<1>6. ASSUME NEW a, NEW n, NEW k, Held(r, a, n, k)'
      PROVE  \/ a = "run" /\ n = o /\ k = 0 /\ r = q[1].data
             \/ a = "queue" /\ n = o /\ k \in Nat /\ k # 0 /\ Held(r, a, n, k + 1)
             \/ ~(a = "queue" /\ n = o) /\ Held(r, a, n, k)
  <2>1. CASE /\ a = "queue" /\ n \in Objects
             /\ k \in DOMAIN w'[n].queue /\ w'[n].queue[k].data = r
    <3>1. CASE n = o
      <4>1. k \in DOMAIN Tail(q) /\ Tail(q)[k].data = r
        BY <1>1, <2>1, <3>1
      <4> QED
        BY <1>3, <2>1, <3>1, <4>1 DEF Held
    <3>2. CASE n # o
      BY <1>1, <2>1, <3>2 DEF Held
    <3> QED
      BY <3>1, <3>2
  <2>2. CASE a = "run" /\ n \in Objects /\ k = 0 /\ RunsOf(w'[n]) = r
    BY <1>1, <1>3, <2>2 DEF Held
  <2>3. CASE a = "limbo" /\ n \in Objects /\ k = 0 /\ LimboOf(w'[n]) = r /\ Recoverable(n)'
    BY <1>1, <1>4, <1>5, <2>3 DEF Held
  <2>4. CASE a \in {"item", "recovered"}
    BY <1>6, <2>4 DEF Held
  <2> QED
    BY <1>6, <2>1, <2>2, <2>3, <2>4 DEF Held, RunsOf, LimboOf, Dead
<1>7. CASE r = q[1].data
  <2>1. Held(r, "queue", o, 1)
    BY <1>3, <1>7 DEF Held
  <2>2. \A a, n, k : Held(r, a, n, k) => a = "queue" /\ n = o /\ k = 1
    BY <2>1 DEF HeldOnce, Once
  <2>3. ASSUME NEW a, NEW n, NEW k, Held(r, a, n, k)'
        PROVE  a = "run" /\ n = o /\ k = 0
    <3>1. CASE a = "queue" /\ n = o /\ k \in Nat /\ k # 0 /\ Held(r, a, n, k + 1)
      <4>1. k + 1 = 1
        BY <2>2, <3>1
      <4> QED
        BY <3>1, <4>1
    <3>2. CASE ~(a = "queue" /\ n = o) /\ Held(r, a, n, k)
      BY <2>2, <3>2
    <3> QED
      BY <1>6, <2>3, <3>1, <3>2
  <2> QED
    BY <2>1, <2>3, Moved
<1>8. CASE r # q[1].data
  <2>1. \A a, n, k : Held(r, a, n, k)' =>
          IF a = "queue" /\ n = o THEN k \in Nat /\ Held(r, a, n, k + 1)
                                  ELSE Held(r, a, n, k)
    BY <1>6, <1>8
  <2> QED
    BY <2>1, Shifted
<1> QED
  BY <1>7, <1>8

\* A fault leaves the request that was executed in current_request_data.
LEMMA FaultHeld ==
  ASSUME TypeOK, HeldOnce, FitKept,
         NEW o \in Objects, NEW y, w' = [w EXCEPT ![o] = y],
         y.queue = w[o].queue, RunsOf(y) = Nil,
         LimboOf(y) = RunsOf(w[o]), w[o].pc # "finished",
         th' = th, workers' = workers
  PROVE  HeldOnce'
<1>1. \A p \in Objects : w'[p] = IF p = o THEN y ELSE w[p]
  BY DEF TypeOK
<1> SUFFICES ASSUME NEW r \in Requests PROVE Once(r)'
  BY DEF HeldOnce
<1>4. r # Nil
  BY PoolAssumption
<1>5. \A p : Recoverable(p)' => Recoverable(p)
  BY DEF Recoverable, Recovering
<1>6. ASSUME NEW a, NEW n, NEW k, Held(r, a, n, k)'
      PROVE  \/ a = "limbo" /\ n = o /\ k = 0 /\ Held(r, "run", o, 0) /\ Recoverable(o)
             \/ ~(a = "run" /\ n = o) /\ Held(r, a, n, k)
  <2>1. CASE /\ a = "queue" /\ n \in Objects
             /\ k \in DOMAIN w'[n].queue /\ w'[n].queue[k].data = r
    BY <1>1, <2>1 DEF Held
  <2>2. CASE a = "run" /\ n \in Objects /\ k = 0 /\ RunsOf(w'[n]) = r
    BY <1>1, <1>4, <2>2 DEF Held
  <2>3. CASE a = "limbo" /\ n \in Objects /\ k = 0 /\ LimboOf(w'[n]) = r /\ Recoverable(n)'
    BY <1>1, <1>4, <1>5, <2>3 DEF Held
  <2>4. CASE a \in {"item", "recovered"}
    BY <1>6, <2>4 DEF Held
  <2> QED
    BY <1>6, <2>1, <2>2, <2>3, <2>4 DEF Held, RunsOf, LimboOf, Dead
<1>7. CASE Held(r, "run", o, 0)
  <2>1. \A a, n, k : Held(r, a, n, k) => a = "run" /\ n = o /\ k = 0
    BY <1>7 DEF HeldOnce, Once
  <2>2. \A a, n, k : Held(r, a, n, k)' =>
          a = "limbo" /\ n = o /\ k = 0 /\ w[o].pc # "finished" /\ Recoverable(o)
    BY <1>6, <2>1
  <2> QED
    BY <1>7, <2>2, Moved
<1>8. CASE ~Held(r, "run", o, 0)
  <2>1. \A a, n, k : Held(r, a, n, k)' => Held(r, a, n, k)
    BY <1>6, <1>8
  <2> QED
    BY <2>1, Stayed
<1> QED
  BY <1>7, <1>8

-----------------------------------------------------------------------------
(* Worker and initializer threads *)

\* The wait predicate: pop, stop or wait.
LEMMA PollHeld ==
  ASSUME TypeOK, ThreadLocals, FaultsEnded, HeldOnce, FitKept,
         NEW o \in Objects, NEW x \in WorkerRecord, w' = [w EXCEPT ![o] = PollQueue(x)],
         x.queue = w[o].queue, x.hand = w[o].hand, x.current = w[o].current,
         x.pc = w[o].pc, w[o].pc \in {"top", "woken"}, x.state # "Faulted" \/ x = w[o],
         th' = th, workers' = workers
  PROVE  FaultsEnded' /\ HeldOnce'
<1> DEFINE y == PollQueue(x)
<1>0. /\ w[o].current = Nil /\ x.current = Nil
      /\ RunsOf(w[o]) = Nil /\ LimboOf(w[o]) = Nil /\ ~Dead(w[o])
  BY DEF FaultsEnded, CurrentOk, RunsOf, LimboOf, Dead
<1>1. CASE x.stop \/ x.queue = <<>>
  <2>1. \/ y = [x EXCEPT !.state = "Stopping", !.stale = FALSE, !.pc = "exiting"]
        \/ y = [x EXCEPT !.pc = "blocking"]
    BY <1>1 DEF PollQueue
  <2>2. /\ y.queue = x.queue /\ y.current = x.current
        /\ y.pc \in {"exiting", "blocking"}
        /\ y.state = x.state \/ y.state = "Stopping"
    BY <2>1 DEF WorkerRecord
  <2> HIDE DEF y
  <2>3. Calm(w[o], y) /\ CurrentOk(y)
    BY <1>0, <2>2 DEF Calm, CurrentOk, RunsOf, LimboOf, Dead
  <2>4. y.state = "Faulted" => w[o].state = "Faulted"
    BY <2>2
  <2> QED
    BY <1>0, <2>3, <2>4, SameThreadsHeld, OneCalmWorker DEF y
<1>2. CASE ~x.stop /\ x.queue # <<>>
  <2>1. y = [x EXCEPT !.hand = Head(x.queue).data, !.queue = Tail(x.queue),
                      !.state = "Running", !.pc = "popped"]
    BY <1>2 DEF PollQueue
  <2>2. /\ y.queue = Tail(x.queue) /\ y.current = x.current
        /\ y.pc = "popped" /\ y.state = "Running" /\ y.hand = Head(x.queue).data
    BY <2>1 DEF WorkerRecord
  <2> HIDE DEF y
  <2>3. CurrentOk(y) /\ RunsOf(y) = Head(w[o].queue).data /\ LimboOf(y) = Nil
    BY <1>0, <2>2 DEF CurrentOk, RunsOf, LimboOf, Dead
  <2>4. HeldOnce'
    BY <1>0, <1>2, <2>2, <2>3, PopHeld DEF y
  <2>5. \A p \in Objects : w'[p] = IF p = o THEN y ELSE w[p]
    BY DEF TypeOK, y
  <2>6. \A p \in Objects : CurrentOk(w'[p]) /\ (Dead(w[p]) => Dead(w'[p]))
    BY <1>0, <2>3, <2>5 DEF FaultsEnded
  <2>7. ASSUME NEW i \in Slots, workers[i] # Nil, w'[workers[i]].state = "Faulted"
        PROVE  w[workers[i]].state = "Faulted"
    <3>1. workers[i] \in Objects
      BY <2>7 DEF TypeOK
    <3> QED
      BY <2>2, <2>5, <2>7, <3>1
  <2>8. FaultsEnded'
    BY <2>6, <2>7, SameThreadsHeld, FaultsFrame
  <2> QED
    BY <2>4, <2>8
<1> QED
  BY <1>1, <1>2

\* A worker thread's own steps, its handler's and those of time.
LEMMA WorkerStepHeld ==
  ASSUME TypeOK, ThreadLocals, FaultsEnded, HeldOnce, FitKept,
         NEW o \in Objects,
         \/ WorkerLoop(o) \/ WRespond(o)
         \/ WHeartbeat(o) \/ WFault(o) \/ Stall(o)
  PROVE  FaultsEnded' /\ HeldOnce'
<1> DEFINE x == w[o]
<1>0. x \in WorkerRecord /\ CurrentOk(x)
  BY DEF TypeOK, FaultsEnded
<1>a. workers' = workers /\ th' = th
  BY DEF WorkerLoop, WLoopTop, WBlock, WWake, WClaim, WEnterRequest, WClearCurrent,
         WExit, WUnwind, WRespond, WHeartbeat, WFault, Stall, pool
<1>1. CASE WLoopTop(o)
  <2> DEFINE z == [x EXCEPT !.state = "Idle", !.stale = FALSE]
  <2>1. /\ z \in WorkerRecord /\ z.queue = x.queue /\ z.hand = x.hand
        /\ z.current = x.current /\ z.pc = x.pc /\ z.state = "Idle"
    BY <1>0 DEF WorkerRecord, WorkerState
  <2>2. w' = [w EXCEPT ![o] = PollQueue(z)] /\ x.pc = "top"
    BY <1>1 DEF WLoopTop
  <2> HIDE DEF z
  <2> QED
    BY <1>a, <2>1, <2>2, PollHeld
<1>2. CASE WWake(o)
  BY <1>0, <1>a, <1>2, PollHeld DEF WWake
<1>3. CASE WFault(o)
  <2> DEFINE y == [x EXCEPT !.state = "Faulted", !.stale = FALSE, !.stop = TRUE,
                            !.pc = "unwinding"]
  <2>1. w' = [w EXCEPT ![o] = y] /\ x.pc = "running"
    BY <1>3 DEF WFault
  <2>2. y.queue = x.queue /\ y.current = x.current /\ y.pc = "unwinding"
    BY <1>0 DEF WorkerRecord
  <2> HIDE DEF y
  <2>3. RunsOf(y) = Nil /\ LimboOf(y) = RunsOf(x) /\ CurrentOk(y) /\ Dead(y)
    BY <1>0, <2>1, <2>2 DEF RunsOf, LimboOf, CurrentOk, Dead
  <2>4. HeldOnce'
    BY <1>a, <2>1, <2>2, <2>3, FaultHeld
  <2>5. \A p \in Objects : w'[p] = IF p = o THEN y ELSE w[p]
    BY <2>1 DEF TypeOK
  <2>6. \A p \in Objects : CurrentOk(w'[p]) /\ (Dead(w[p]) => Dead(w'[p]))
    BY <2>3, <2>5 DEF FaultsEnded
  <2>7. ASSUME NEW i \in Slots, workers[i] # Nil, w'[workers[i]].state = "Faulted"
        PROVE  Dead(w'[workers[i]]) \/ w[workers[i]].state = "Faulted"
    <3>1. workers[i] \in Objects
      BY <2>7 DEF TypeOK
    <3> QED
      BY <2>3, <2>5, <2>7, <3>1
  <2>8. FaultsEnded'
    BY <1>a, <2>6, <2>7, SameThreadsHeld, FaultsFrame
  <2> QED
    BY <2>4, <2>8
<1>4. CASE ~(WLoopTop(o) \/ WWake(o) \/ WFault(o))
  <2>1. SUFFICES \E y : /\ w' = [w EXCEPT ![o] = y]
                        /\ Calm(x, y) /\ CurrentOk(y) /\ (Dead(x) => Dead(y))
                        /\ y.state = "Faulted" => x.state = "Faulted"
    BY <1>a, SameThreadsHeld, OneCalmWorker
  <2> USE DEF Calm, CurrentOk, RunsOf, LimboOf, Dead
  <2>2. CASE WBlock(o)
    <3> DEFINE y == [x EXCEPT !.pc = "waiting"]
    <3>1. w' = [w EXCEPT ![o] = y] /\ x.pc = "blocking"
      BY <2>2 DEF WBlock
    <3>2. /\ y.queue = x.queue /\ y.hand = x.hand /\ y.current = x.current
          /\ y.pc = "waiting" /\ y.state = x.state
      BY <1>0 DEF WorkerRecord
    <3> HIDE DEF y
    <3> QED
      BY <1>0, <3>1, <3>2
  <2>3. CASE WClaim(o)
    <3> DEFINE y == [x EXCEPT !.stale = FALSE, !.current = x.hand, !.pc = "claimed"]
    <3>1. w' = [w EXCEPT ![o] = y] /\ x.pc = "popped"
      BY <2>3 DEF WClaim
    <3>2. /\ y.queue = x.queue /\ y.hand = x.hand /\ y.current = x.hand
          /\ y.pc = "claimed" /\ y.state = x.state
      BY <1>0 DEF WorkerRecord
    <3> HIDE DEF y
    <3> QED
      BY <1>0, <3>1, <3>2
  <2>4. CASE WEnterRequest(o)
    <3> DEFINE y == [x EXCEPT !.pc = "running"]
    <3>1. w' = [w EXCEPT ![o] = y] /\ x.pc = "claimed"
      BY <2>4 DEF WEnterRequest
    <3>2. /\ y.queue = x.queue /\ y.hand = x.hand /\ y.current = x.current
          /\ y.pc = "running" /\ y.state = x.state
      BY <1>0 DEF WorkerRecord
    <3> HIDE DEF y
    <3> QED
      BY <1>0, <3>1, <3>2
  <2>5. CASE WClearCurrent(o)
    <3> DEFINE y == [x EXCEPT !.current = Nil, !.hand = Nil, !.pc = "top"]
    <3>1. w' = [w EXCEPT ![o] = y] /\ x.pc = "finished"
      BY <2>5 DEF WClearCurrent
    <3>2. y.queue = x.queue /\ y.current = Nil /\ y.pc = "top" /\ y.state = x.state
      BY <1>0 DEF WorkerRecord
    <3> HIDE DEF y
    <3> QED
      BY <1>0, <3>1, <3>2
  <2>6. CASE WExit(o)
    <3> DEFINE y == [x EXCEPT !.state = "Exited", !.stale = FALSE, !.pc = "unwinding"]
    <3>1. w' = [w EXCEPT ![o] = y] /\ x.pc = "exiting"
      BY <2>6 DEF WExit
    <3>2. /\ y.queue = x.queue /\ y.current = x.current
          /\ y.pc = "unwinding" /\ y.state = "Exited"
      BY <1>0 DEF WorkerRecord
    <3> HIDE DEF y
    <3> QED
      BY <1>0, <3>1, <3>2
  <2>7. CASE WUnwind(o)
    <3> DEFINE y == [x EXCEPT !.detached = FALSE, !.pc = "gone"]
    <3>1. w' = [w EXCEPT ![o] = y] /\ x.pc = "unwinding"
      BY <2>7 DEF WUnwind
    <3>2. /\ y.queue = x.queue /\ y.current = x.current
          /\ y.pc = "gone" /\ y.state = x.state
      BY <1>0 DEF WorkerRecord
    <3> HIDE DEF y
    <3> QED
      BY <1>0, <3>1, <3>2
  <2>8. CASE WRespond(o)
    <3> DEFINE y == [x EXCEPT !.stale = FALSE, !.pc = "finished"]
    <3>1. w' = [w EXCEPT ![o] = y] /\ x.pc = "running"
      BY <2>8 DEF WRespond
    <3>2. /\ y.queue = x.queue /\ y.hand = x.hand /\ y.current = x.current
          /\ y.pc = "finished" /\ y.state = x.state
      BY <1>0 DEF WorkerRecord
    <3> HIDE DEF y
    <3> QED
      BY <1>0, <3>1, <3>2
  <2>9. CASE WHeartbeat(o) \/ Stall(o)
    <3>1. PICK b \in BOOLEAN : w' = [w EXCEPT ![o].stale = b]
      BY <2>9 DEF WHeartbeat, Stall
    <3> DEFINE y == [x EXCEPT !.stale = b]
    <3>2. w' = [w EXCEPT ![o] = y]
      BY <3>1
    <3>3. /\ y.queue = x.queue /\ y.hand = x.hand /\ y.current = x.current
          /\ y.pc = x.pc /\ y.state = x.state
      BY <1>0 DEF WorkerRecord
    <3> HIDE DEF y
    <3> QED
      BY <1>0, <3>2, <3>3
  <2> QED
    BY <1>4, <2>2, <2>3, <2>4, <2>5, <2>6, <2>7, <2>8, <2>9 DEF WorkerLoop
<1> QED
  BY <1>1, <1>2, <1>3, <1>4

\* notify_one leaves every thread what it holds.
LEMMA NotifyOneHeld ==
  ASSUME TypeOK, th' \in NotifyOne(th)
  PROVE  SameRecovery(th["sup"], th'["sup"]) /\ SameHands
<1>1. \A t \in Threads : th[t] \in ThreadRecord
  BY DEF TypeOK
<1>2. ASSUME NEW t \in Threads
      PROVE  \/ th'[t] = th[t]
             \/ /\ th'[t].pc = "get" /\ th'[t].item = th[t].item
                /\ th'[t].recovered = th[t].recovered
  <2>1. CASE th'[t] = th[t]
    BY <2>1
  <2>2. CASE th[t].pc = "waiting" /\ th'[t] = [th[t] EXCEPT !.pc = "get"]
    BY <1>1, <2>2 DEF ThreadRecord
  <2> QED
    BY <2>1, <2>2, NotifyOneTyped
<1> QED
  BY <1>2 DEF SameRecovery, SameHands, Threads

\* An initializer touches a worker that holds nothing but its queue.
LEMMA InitializerHeld ==
  ASSUME TypeOK, ThreadLocals, Ownership, FaultsEnded, HeldOnce, FitKept,
         NEW o \in Objects, initialize_worker(o) \/ InitFail(o)
  PROVE  FaultsEnded' /\ HeldOnce'
<1> DEFINE x == w[o]
<1>0. x \in WorkerRecord /\ CurrentOk(x)
  BY DEF TypeOK, FaultsEnded
<1>1. workers' = workers
  BY DEF initialize_worker, InitStart, InitStoreIdle, set_worker_ready, InitFail, pool
<1>2. SameRecovery(th["sup"], th'["sup"]) /\ SameHands /\ (Stopped => Stopped')
  BY SameThreadsHeld, NotifyOneHeld, NotifyOneOwned
  DEF initialize_worker, InitStart, InitStoreIdle, set_worker_ready, InitFail
<1>3. SUFFICES \E y : /\ w' = [w EXCEPT ![o] = y]
                      /\ Calm(x, y) /\ CurrentOk(y) /\ (Dead(x) => Dead(y))
                      /\ y.state = "Faulted" => x.state = "Faulted"
  BY <1>1, <1>2, OneCalmWorker
<1> USE DEF Calm, CurrentOk, RunsOf, LimboOf, Dead
<1>4. CASE InitStart(o)
  <2> DEFINE y == [x EXCEPT !.stop = FALSE, !.state = "Starting", !.stale = FALSE,
                            !.joinable = TRUE, !.pc = "top", !.init = "store"]
  <2>1. workers[x.slot] = o /\ x.pc = "none"
    BY <1>4 DEF InitStart, Ownership
  <2>2. w' = [w EXCEPT ![o] = [w[o] EXCEPT !.stop = FALSE, !.state = "Starting",
                                           !.stale = FALSE, !.joinable = TRUE,
                                           !.pc = "top"],
                       ![o].init = "store"]
    BY <1>4, <2>1 DEF InitStart
  <2>3. w' = [w EXCEPT ![o] = y]
    BY <2>2 DEF TypeOK
  <2>4. /\ y.queue = x.queue /\ y.hand = x.hand /\ y.current = x.current
        /\ y.pc = "top" /\ y.state = "Starting"
    BY <1>0 DEF WorkerRecord
  <2> HIDE DEF y
  <2> QED
    BY <1>0, <2>1, <2>3, <2>4
<1>5. CASE InitStoreIdle(o)
  <2> DEFINE y == [x EXCEPT !.state = "Idle", !.stale = FALSE, !.init = "ready"]
  <2>1. w' = [w EXCEPT ![o] = y]
    BY <1>5 DEF InitStoreIdle
  <2>2. /\ y.queue = x.queue /\ y.hand = x.hand /\ y.current = x.current
        /\ y.pc = x.pc /\ y.state = "Idle"
    BY <1>0 DEF WorkerRecord
  <2> HIDE DEF y
  <2> QED
    BY <1>0, <2>1, <2>2
<1>6. CASE set_worker_ready(o) \/ InitFail(o)
  <2> DEFINE y == [x EXCEPT !.init = "done"]
  <2>1. w' = [w EXCEPT ![o] = y]
    BY <1>6 DEF set_worker_ready, InitFail
  <2>2. /\ y.queue = x.queue /\ y.hand = x.hand /\ y.current = x.current
        /\ y.pc = x.pc /\ y.state = x.state
    BY <1>0 DEF WorkerRecord
  <2> HIDE DEF y
  <2> QED
    BY <1>0, <2>1, <2>2
<1> QED
  BY <1>4, <1>5, <1>6 DEF initialize_worker

-----------------------------------------------------------------------------
(* Distribution *)

\* A request in flight is not the null pointer.
LEMMA ItemNotNil == \A e \in RequestMetadata : e # Nil
BY PoolAssumption DEF RequestMetadata

\* What Append does to a sequence, entry by entry.
LEMMA AppendEntries ==
  ASSUME NEW S, NEW q \in Seq(S), NEW e \in S
  PROVE  \A k \in DOMAIN Append(q, e) :
           \/ k \in DOMAIN q /\ Append(q, e)[k] = q[k]
           \/ k = Len(q) + 1 /\ Append(q, e)[k] = e
<1>1. /\ Len(q) \in Nat /\ DOMAIN q = 1 .. Len(q)
      /\ DOMAIN Append(q, e) = 1 .. (Len(q) + 1)
  OBVIOUS
<1>2. \A k \in 1 .. Len(q) : Append(q, e)[k] = q[k]
  OBVIOUS
<1>3. Append(q, e)[Len(q) + 1] = e
  OBVIOUS
<1>4. \A k \in 1 .. (Len(q) + 1) : k \in 1 .. Len(q) \/ k = Len(q) + 1
  BY <1>1
<1> QED
  BY <1>1, <1>2, <1>3, <1>4

\* One thread's record changes to v: what is asked of it.
LEMMA OneThreadHeld ==
  ASSUME TypeOK, NEW t \in Threads, NEW v, th' = [th EXCEPT ![t] = v],
         v.item \in {th[t].item, Nil},
         t = "sup" => SameRecovery(th["sup"], v)
                      /\ v.recovered \in {th["sup"].recovered, <<>>}
  PROVE  SameRecovery(th["sup"], th'["sup"]) /\ SameHands
<1>1. \A s \in Threads : th'[s] = IF s = t THEN v ELSE th[s]
  BY DEF TypeOK
<1> QED
  BY <1>1 DEF Threads, SameHands, SameRecovery

\* add_request puts the request the thread carries at the end of a queue.
LEMMA AddHeld ==
  ASSUME TypeOK, ThreadLocals, FaultsEnded, HeldOnce, FitKept,
         Stopped => Stopped', NEW t \in Threads, add_request(t)
  PROVE  FaultsEnded' /\ HeldOnce'
<1> DEFINE u == th[t]
           o == u.target
           x == w[o]
           z == [x EXCEPT !.queue = Append(@, u.item)]
           y == Notify(z)
           v == [u EXCEPT !.pc = AfterDistribute(t), !.item = Nil, !.target = Nil]
<1>0. u \in ThreadRecord /\ u.item \in RequestMetadata
  BY DEF TypeOK, ThreadLocals, add_request, Distributing
<1>1. /\ w' = [w EXCEPT ![o] = y] /\ th' = [th EXCEPT ![t] = v] /\ workers' = workers
  BY DEF add_request, pool
<1>2. /\ v.item = Nil /\ v.recovered = u.recovered
      /\ v.pc \in {"read", "redistribute"}
  BY <1>0 DEF ThreadRecord, AfterDistribute
<1> HIDE DEF v
<1>3. SameRecovery(th["sup"], th'["sup"]) /\ SameHands
  BY <1>1, <1>2, OneThreadHeld DEF SameRecovery
<1>4. CASE o \notin Objects
  <2>1. w' = w
    BY <1>1, <1>4 DEF TypeOK
  <2> QED
    BY <1>1, <1>3, <2>1, NoHeldWorker
<1>5. CASE o \in Objects
  <2>0. x \in WorkerRecord /\ CurrentOk(x) /\ x.queue \in Seq(RequestMetadata)
    BY <1>5 DEF TypeOK, FaultsEnded, WorkerRecord
  <2>1. /\ z.queue = Append(x.queue, u.item) /\ z.hand = x.hand
        /\ z.current = x.current /\ z.state = x.state /\ z.pc = x.pc
    BY <2>0 DEF WorkerRecord
  <2>2. /\ y.queue = Append(x.queue, u.item) /\ y.hand = x.hand
        /\ y.current = x.current /\ y.state = x.state
        /\ y.pc = x.pc \/ (x.pc = "waiting" /\ y.pc = "woken")
    <3>1. y = z \/ (x.pc = "waiting" /\ y = [z EXCEPT !.pc = "woken"])
      BY <2>1 DEF Notify
    <3> QED
      BY <2>0, <2>1, <3>1 DEF WorkerRecord
  <2> HIDE DEF y, z
  <2>3. /\ CurrentOk(y) /\ RunsOf(y) = RunsOf(x) /\ LimboOf(y) = LimboOf(x)
        /\ Dead(x) => Dead(y)
    BY <2>0, <2>2 DEF CurrentOk, RunsOf, LimboOf, Dead
  <2>4. \A p \in Objects : w'[p] = IF p = o THEN y ELSE w[p]
    BY <1>1 DEF TypeOK
  <2>5. FaultsEnded'
    <3>1. \A p \in Objects : CurrentOk(w'[p]) /\ (Dead(w[p]) => Dead(w'[p]))
      BY <2>3, <2>4 DEF FaultsEnded
    <3>2. ASSUME NEW i \in Slots, workers[i] # Nil, w'[workers[i]].state = "Faulted"
          PROVE  w[workers[i]].state = "Faulted"
      <4>1. workers[i] \in Objects
        BY <3>2 DEF TypeOK
      <4> QED
        BY <2>2, <2>4, <3>2, <4>1
    <3> QED
      BY <1>1, <1>3, <3>1, <3>2, FaultsFrame
  <2>6. \A s \in Threads : th'[s] = IF s = t THEN v ELSE th[s]
    BY <1>1 DEF TypeOK
  <2>7. ASSUME NEW r \in Requests PROVE Once(r)'
    <3>1. ASSUME NEW a, NEW n, NEW k, Held(r, a, n, k)'
          PROVE  \/ /\ a = "queue" /\ n = o /\ k = Len(x.queue) + 1
                    /\ r = u.item.data
                 \/ ~(a = "item" /\ n = t) /\ Held(r, a, n, k)
      <4>1. CASE /\ a = "queue" /\ n \in Objects
                 /\ k \in DOMAIN w'[n].queue /\ w'[n].queue[k].data = r
        <5>1. CASE n = o
          <6>1. k \in DOMAIN Append(x.queue, u.item) /\ Append(x.queue, u.item)[k].data = r
            BY <2>2, <2>4, <4>1, <5>1
          <6>2. \/ k \in DOMAIN x.queue /\ Append(x.queue, u.item)[k] = x.queue[k]
                \/ k = Len(x.queue) + 1 /\ Append(x.queue, u.item)[k] = u.item
            BY <1>0, <2>0, <6>1, AppendEntries
          <6> QED
            BY <4>1, <5>1, <6>1, <6>2 DEF Held
        <5>2. CASE n # o
          BY <2>4, <4>1, <5>2 DEF Held
        <5> QED
          BY <5>1, <5>2
      <4>2. CASE a = "run" /\ n \in Objects /\ k = 0 /\ RunsOf(w'[n]) = r
        BY <2>3, <2>4, <4>2 DEF Held
      <4>3. CASE a = "limbo" /\ n \in Objects /\ k = 0 /\ LimboOf(w'[n]) = r /\ Recoverable(n)'
        BY <1>1, <1>3, <2>3, <2>4, <4>3, RecoverableKept DEF Held
      <4>4. CASE /\ a = "item" /\ n \in Threads /\ k = 0
                 /\ th'[n].item # Nil /\ th'[n].item.data = r
        BY <1>2, <2>6, <4>4 DEF Held
      <4>5. CASE /\ a = "recovered" /\ n = "sup"
                 /\ k \in DOMAIN th'["sup"].recovered /\ th'["sup"].recovered[k].data = r
        BY <1>2, <2>6, <4>5 DEF Held, Threads
      <4> QED
        BY <3>1, <4>1, <4>2, <4>3, <4>4, <4>5 DEF Held, RunsOf, LimboOf, Dead
    <3>2. CASE r = u.item.data
      <4>1. Held(r, "item", t, 0)
        <5>1. u.item # Nil
          BY <1>0, ItemNotNil
        <5> QED
          BY <3>2, <5>1 DEF Held
      <4>2. \A a, n, k : Held(r, a, n, k) => a = "item" /\ n = t /\ k = 0
        BY <4>1 DEF HeldOnce, Once
      <4> DEFINE d == Len(x.queue) + 1
      <4>3. \A a, n, k : Held(r, a, n, k)' => a = "queue" /\ n = o /\ k = d
        BY <3>1, <4>2
      <4> HIDE DEF d, o
      <4> QED
        BY <4>1, <4>3, Moved
    <3>3. CASE r # u.item.data
      BY <3>1, <3>3, Stayed
    <3> QED
      BY <3>2, <3>3
  <2> QED
    BY <2>5, <2>7 DEF HeldOnce
<1> QED
  BY <1>4, <1>5

\* The other steps of distribute_request_internal give nobody a request.
LEMMA DistributeHeld ==
  ASSUME TypeOK, ThreadLocals, FaultsEnded, HeldOnce, FitKept,
         Stopped => Stopped', NEW t \in Threads, distribute_request(t)
  PROVE  FaultsEnded' /\ HeldOnce'
<1> DEFINE u == th[t]
<1>0. u \in ThreadRecord
  BY DEF TypeOK
<1>1. CASE add_request(t)
  BY <1>1, AddHeld
<1>2. CASE get_ready_worker(t) \/ WaitReady(t)
  <2>1. w' = w /\ workers' = workers
    BY <1>2 DEF get_ready_worker, WaitReady, pool, objs
  <2>2. SUFFICES \E v : /\ th' = [th EXCEPT ![t] = v]
                        /\ v.item \in {u.item, Nil} /\ v.recovered = u.recovered
                        /\ v.pc \in Distributing \cup {"read", "redistribute"}
    <3>1. PICK v : /\ th' = [th EXCEPT ![t] = v]
                   /\ v.item \in {u.item, Nil} /\ v.recovered = u.recovered
                   /\ v.pc \in Distributing \cup {"read", "redistribute"}
      BY <2>2
    <3>2. SameRecovery(u, v)
      BY <3>1 DEF SameRecovery, Distributing
    <3>3. SameRecovery(th["sup"], th'["sup"]) /\ SameHands
      BY <3>1, <3>2, OneThreadHeld
    <3> QED
      BY <2>1, <3>3, NoHeldWorker
  <2>3. CASE Dropped(t)
    <3> DEFINE v == [u EXCEPT !.pc = AfterDistribute(t), !.item = Nil]
    <3>1. th' = [th EXCEPT ![t] = v]
      BY <2>3 DEF Dropped
    <3>2. /\ v.item = Nil /\ v.recovered = u.recovered
          /\ v.pc \in {"read", "redistribute"}
      BY <1>0 DEF ThreadRecord, AfterDistribute
    <3> HIDE DEF v
    <3> QED
      BY <3>1, <3>2
  <2>4. CASE th' = [th EXCEPT ![t].pc = "blocking"] \/ th' = [th EXCEPT ![t].pc = "waiting"]
    <3>1. PICK c \in {"blocking", "waiting"} : th' = [th EXCEPT ![t].pc = c]
      BY <2>4
    <3> DEFINE v == [u EXCEPT !.pc = c]
    <3>2. th' = [th EXCEPT ![t] = v]
      BY <3>1
    <3>3. v.item = u.item /\ v.recovered = u.recovered /\ v.pc = c
      BY <1>0 DEF ThreadRecord
    <3> HIDE DEF v
    <3> QED
      BY <3>2, <3>3 DEF Distributing
  <2>5. CASE RotateReadyQueue(t)
    <3>1. PICK k : th' = [th EXCEPT ![t] = [u EXCEPT
                           !.target = workers[ready_queue[k]], !.pc = "add"]]
      BY <2>5 DEF RotateReadyQueue
    <3> DEFINE v == [u EXCEPT !.target = workers[ready_queue[k]], !.pc = "add"]
    <3>2. v.item = u.item /\ v.recovered = u.recovered /\ v.pc = "add"
      BY <1>0 DEF ThreadRecord
    <3> QED
      BY <3>1, <3>2 DEF Distributing
  <2> QED
    BY <1>2, <2>3, <2>4, <2>5 DEF get_ready_worker, WaitReady
<1> QED
  BY <1>1, <1>2 DEF distribute_request

-----------------------------------------------------------------------------
(* Worker::stop *)

(* A record that changed its flags only, or was woken.                     *)
SameHeld(x, y) ==
  /\ y.queue = x.queue /\ y.hand = x.hand /\ y.current = x.current
  /\ y.pc = x.pc \/ (x.pc = "waiting" /\ y.pc = "woken")

\* Such a record still holds what it held.
LEMMA SameHeldCalm ==
  ASSUME NEW x, NEW y, SameHeld(x, y), CurrentOk(x)
  PROVE  Calm(x, y) /\ CurrentOk(y) /\ (Dead(x) => Dead(y))
BY DEF SameHeld, Calm, CurrentOk, RunsOf, LimboOf, Dead

\* Waking a worker changes nothing that it holds.
LEMMA NotifyHeld ==
  ASSUME NEW z \in WorkerRecord
  PROVE  SameHeld(z, Notify(z))
BY DEF SameHeld, Notify, WorkerRecord

\* The worker a thread stops or detaches keeps what it holds.
LEMMA HeldByOld ==
  ASSUME TypeOK, ThreadLocals, Replacing, FaultsEnded, HeldOnce, FitKept,
         NEW t \in Threads, NEW y,
         \/ t = "main" /\ th["main"].pc \in StopPhase
         \/ t = "sup" /\ th["sup"].pc \in HoldingOld,
         th[t].old \in Objects, w' = [w EXCEPT ![th[t].old] = y],
         SameHeld(w[th[t].old], y), workers' = workers,
         SameRecovery(th["sup"], th'["sup"]), SameHands, Stopped => Stopped'
  PROVE  FaultsEnded' /\ HeldOnce'
<1> DEFINE o == th[t].old
<1>1. Calm(w[o], y) /\ CurrentOk(y) /\ (Dead(w[o]) => Dead(y))
  BY SameHeldCalm DEF FaultsEnded
<1>2. (\E i \in Slots : workers[i] = o) => Stopped'
  BY DEF Replacing, Stopped
<1> QED
  BY <1>1, <1>2, OneCalmWorker

\* Every step of Worker::stop.
LEMMA StopHeld ==
  ASSUME TypeOK, ThreadLocals, Replacing, FaultsEnded, HeldOnce, FitKept,
         Stopped => Stopped', NEW t \in Threads, stop(t)
  PROVE  FaultsEnded' /\ HeldOnce'
<1> DEFINE u == th[t]
           o == u.old
           x == w[o]
<1>0. u \in ThreadRecord /\ u.pc \in StopPoints
  BY DEF TypeOK, stop, StopRequest, StopNotify, StopJoin, StopTimeout, StopPoints
<1>1. x \in WorkerRecord /\ o \in Objects
  BY <1>0 DEF TypeOK, ThreadLocals
<1>2. workers' = workers
  BY DEF stop, StopRequest, StopNotify, StopJoin, StopTimeout, pool
<1>3. SameRecovery(th["sup"], th'["sup"]) /\ SameHands
  <2>1. \/ th' = [th EXCEPT ![t] = [u EXCEPT !.pc = AfterStop(t), !.old = Nil]]
        \/ th' = [th EXCEPT ![t] = [u EXCEPT !.pc = "stopping", !.seen = w[o].state]]
        \/ th' = [th EXCEPT ![t] = [u EXCEPT !.pc = "joining", !.seen = Nil]]
    BY DEF stop, StopRequest, StopNotify, StopJoin, StopTimeout
  <2>2. AfterStop(t) \in {"stop_next", "redistribute", "spawn"}
    BY DEF AfterStop, AfterRecover
  <2>3. ASSUME NEW v, th' = [th EXCEPT ![t] = v], v.item = u.item,
               v.recovered = u.recovered,
               v.pc \in {"stop_next", "redistribute", "spawn", "stopping", "joining"}
        PROVE  SameRecovery(th["sup"], th'["sup"]) /\ SameHands
    <3>1. SameRecovery(u, v)
      BY <2>3 DEF SameRecovery
    <3> QED
      BY <2>3, <3>1, OneThreadHeld
  <2>4. CASE th' = [th EXCEPT ![t] = [u EXCEPT !.pc = AfterStop(t), !.old = Nil]]
    <3> DEFINE v == [u EXCEPT !.pc = AfterStop(t), !.old = Nil]
    <3>1. v.item = u.item /\ v.recovered = u.recovered /\ v.pc = AfterStop(t)
      BY <1>0 DEF ThreadRecord
    <3> QED
      BY <2>2, <2>3, <2>4, <3>1
  <2>5. CASE th' = [th EXCEPT ![t] = [u EXCEPT !.pc = "stopping", !.seen = w[o].state]]
    <3> DEFINE v == [u EXCEPT !.pc = "stopping", !.seen = w[o].state]
    <3>1. v.item = u.item /\ v.recovered = u.recovered /\ v.pc = "stopping"
      BY <1>0 DEF ThreadRecord
    <3> QED
      BY <2>3, <2>5, <3>1
  <2>6. CASE th' = [th EXCEPT ![t] = [u EXCEPT !.pc = "joining", !.seen = Nil]]
    <3> DEFINE v == [u EXCEPT !.pc = "joining", !.seen = Nil]
    <3>1. v.item = u.item /\ v.recovered = u.recovered /\ v.pc = "joining"
      BY <1>0 DEF ThreadRecord
    <3> QED
      BY <2>3, <2>6, <3>1
  <2> QED
    BY <2>1, <2>4, <2>5, <2>6
<1>4. \/ t = "main" /\ th["main"].pc \in StopPhase
      \/ t = "sup" /\ th["sup"].pc \in HoldingOld
  BY <1>0 DEF Threads, StopPhase, StopPoints, HoldingOld
<1>5. SUFFICES w' = w \/ \E y : w' = [w EXCEPT ![o] = y] /\ SameHeld(x, y)
  BY <1>1, <1>2, <1>3, <1>4, HeldByOld, NoHeldWorker
<1>6. CASE w' = [w EXCEPT ![o].stop = TRUE]
  <2> DEFINE y == [x EXCEPT !.stop = TRUE]
  <2>1. w' = [w EXCEPT ![o] = y]
    BY <1>6
  <2>2. SameHeld(x, y)
    BY <1>1 DEF WorkerRecord, SameHeld
  <2> QED
    BY <2>1, <2>2
<1>7. CASE StopNotify(t)
  <2> DEFINE z == IF u.seen = "Faulted" THEN x ELSE [x EXCEPT !.state = "Stopping"]
             y == Notify(z)
  <2>1. w' = [w EXCEPT ![o] = y]
    BY <1>7 DEF StopNotify
  <2>2. /\ z \in WorkerRecord /\ z.queue = x.queue /\ z.hand = x.hand
        /\ z.current = x.current /\ z.pc = x.pc
    BY <1>1 DEF WorkerRecord, WorkerState
  <2> HIDE DEF z
  <2>3. SameHeld(z, y)
    BY <2>2, NotifyHeld
  <2>4. SameHeld(x, y)
    BY <2>2, <2>3 DEF SameHeld
  <2> QED
    BY <2>1, <2>4
<1>8. CASE StopJoin(t)
  <2> DEFINE y == [x EXCEPT !.joinable = FALSE,
                            !.state = IF x.state = "Faulted" THEN "Faulted"
                                      ELSE "Exited"]
  <2>1. w' = [w EXCEPT ![o] = y]
    BY <1>8 DEF StopJoin
  <2>2. SameHeld(x, y)
    BY <1>1 DEF WorkerRecord, SameHeld
  <2> QED
    BY <2>1, <2>2
<1>9. CASE StopTimeout(t)
  <2> DEFINE y == [x EXCEPT !.joinable = FALSE, !.state = "Faulted"]
  <2>1. w' = [w EXCEPT ![o] = y]
    BY <1>9 DEF StopTimeout
  <2>2. SameHeld(x, y)
    BY <1>1 DEF WorkerRecord, SameHeld
  <2> QED
    BY <2>1, <2>2
<1> QED
  BY <1>6, <1>7, <1>8, <1>9 DEF stop, StopRequest

-----------------------------------------------------------------------------
(* The supervisor *)

\* monitor_worker_at: what it calls faulted has ended.
LEMMA MonitorHeld ==
  ASSUME TypeOK, ThreadLocals, Replacing, FaultsEnded, HeldOnce, FitKept,
         (\E i \in Slots : monitor_worker_at(i)) \/ SupervisorEnd \/ mark_worker_not_ready
  PROVE  FaultsEnded' /\ HeldOnce'
<1> DEFINE u == th["sup"]
<1>0. u \in ThreadRecord /\ "sup" \in Threads
  BY DEF TypeOK, Threads
<1>1. w' = w /\ workers' = workers
  BY DEF monitor_worker_at, SupervisorEnd, mark_worker_not_ready, pool, objs
<1>2. CASE SupervisorEnd \/ mark_worker_not_ready
  <2>1. PICK c \in {"done", "scan", "prepare"} :
          th' = [th EXCEPT !["sup"].pc = c] /\ (c = "prepare" => u.pc = "mark")
    BY <1>2 DEF SupervisorEnd, mark_worker_not_ready
  <2> DEFINE v == [u EXCEPT !.pc = c]
  <2>2. /\ v.pc = c /\ v.slot = u.slot /\ v.force = u.force
        /\ v.item = u.item /\ v.recovered = u.recovered
    BY <1>0 DEF ThreadRecord
  <2>3. th' = [th EXCEPT !["sup"] = v]
    BY <2>1
  <2> HIDE DEF v
  <2>4. SameRecovery(u, v)
    BY <2>1, <2>2 DEF SameRecovery
  <2>5. SameRecovery(u, th'["sup"]) /\ SameHands
    BY <1>0, <2>2, <2>3, <2>4, OneThreadHeld
  <2>6. Stopped => Stopped'
    BY <2>3 DEF Stopped, TypeOK, Threads
  <2> QED
    BY <1>1, <2>5, <2>6, NoHeldWorker
<1>3. CASE \E i \in Slots : monitor_worker_at(i)
  <2>1. PICK i \in Slots : monitor_worker_at(i)
    BY <1>3
  <2> DEFINE f == w[workers[i]].state # "Faulted"
             v == [u EXCEPT !.pc = "mark", !.slot = i, !.force = f]
  <2>2. th' = [th EXCEPT !["sup"] = v] /\ workers[i] # Nil /\ u.pc = "scan"
    BY <2>1 DEF monitor_worker_at
  <2>3. /\ v.pc = "mark" /\ v.slot = i /\ v.force = f
        /\ v.item = u.item /\ v.recovered = u.recovered
    BY <1>0 DEF ThreadRecord
  <2> HIDE DEF v
  <2>4. th'["sup"] = v /\ th'["main"] = th["main"]
    BY <2>2 DEF TypeOK, Threads
  <2>5. ~Stopped /\ ~Stopped'
    BY <2>2, <2>4 DEF Replacing, Stopped
  <2>6. ~f => Dead(w[workers[i]])
    BY <2>2, <2>5 DEF FaultsEnded
  <2>7. FaultsEnded'
    BY <1>1, <2>3, <2>4, <2>5, <2>6 DEF FaultsEnded, Dead
  <2>8. HeldOnce'
    <3>1. \A p : Recoverable(p)' => Recoverable(p)
      BY <1>1, <2>3, <2>4 DEF Recoverable, Recovering
    <3>2. SameHands
      BY <2>3, <2>4 DEF SameHands, Threads
    <3>3. ASSUME NEW r \in Requests, NEW a, NEW n, NEW k, Held(r, a, n, k)'
          PROVE  Held(r, a, n, k)
      <4>1. CASE a \in {"queue", "run", "limbo"}
        BY <1>1, <3>1, <3>3, <4>1 DEF Held
      <4>2. CASE a \in {"item", "recovered"}
        BY <3>2, <3>3, <4>2 DEF Held, SameHands
      <4> QED
        BY <3>3, <4>1, <4>2 DEF Held
    <3> QED
      BY <3>3, PlacesShrink
  <2> QED
    BY <2>7, <2>8
<1> QED
  BY <1>2, <1>3

\* prepare_worker_replacement hands the worker from its slot to the supervisor.
LEMMA PrepareHeld ==
  ASSUME TypeOK, ThreadLocals, Replacing, FaultsEnded, HeldOnce, FitKept,
         prepare_worker_replacement
  PROVE  FaultsEnded' /\ HeldOnce'
<1> DEFINE u == th["sup"]
           v == th'["sup"]
           i == u.slot
           o == workers[i]
<1>0. u \in ThreadRecord /\ workers \in [Slots -> Objects \cup {Nil}] /\ Nil \notin Objects
  BY PoolAssumption DEF TypeOK, Threads, Objects
<1>1. w' = w /\ workers' = [workers EXCEPT ![i] = Nil] /\ u.pc = "prepare"
  BY DEF prepare_worker_replacement, objs
<1>2. i \in Slots /\ o \in Objects
  BY <1>1 DEF ThreadLocals, ReplacePoints
<1>3. /\ th'["main"] = th["main"] /\ v.pc = "drain" /\ v.old = o
      /\ v.force = u.force /\ v.item = u.item /\ v.recovered = u.recovered
  <2> DEFINE m == replacement_attempts[i] >= max_replace_attempts
  <2>1. th' = [th EXCEPT !["sup"] = [u EXCEPT !.pc = "drain", !.maxed = m, !.old = o]]
    BY DEF prepare_worker_replacement
  <2>2. th'["main"] = th["main"] /\ v = [u EXCEPT !.pc = "drain", !.maxed = m, !.old = o]
    BY <2>1 DEF TypeOK, Threads
  <2> HIDE DEF m
  <2> QED
    BY <1>0, <2>2 DEF ThreadRecord
<1>4. \A j \in Slots : workers'[j] = IF j = i THEN Nil ELSE workers[j]
  BY <1>0, <1>1
<1>5. Stopped' <=> Stopped
  BY <1>3 DEF Stopped
<1>6. FaultsEnded'
  <2>1. ~u.force => Dead(w[o])
    BY <1>1 DEF FaultsEnded
  <2>2. ASSUME NEW j \in Slots, workers'[j] # Nil, w'[workers'[j]].state = "Faulted"
        PROVE  Stopped' \/ Dead(w'[workers'[j]])
    <3>1. workers'[j] = workers[j] /\ workers[j] # Nil
      BY <1>4, <2>2
    <3> QED
      BY <1>1, <1>5, <2>2, <3>1 DEF FaultsEnded
  <2> HIDE DEF v
  <2>3. \A p \in Objects : CurrentOk(w'[p])
    BY <1>1 DEF FaultsEnded
  <2> QED
    BY <1>1, <1>3, <2>1, <2>2, <2>3 DEF FaultsEnded, v, Dead
<1>7. \A p \in Objects : Recoverable(p)' => Recoverable(p)
  BY <1>0, <1>2, <1>3, <1>4 DEF Recoverable, Recovering
<1>8. SameHands
  BY <1>3 DEF SameHands, Threads
<1>9. ASSUME NEW r \in Requests, NEW a, NEW n, NEW k, Held(r, a, n, k)'
      PROVE  Held(r, a, n, k)
  <2>1. CASE a \in {"queue", "run"}
    BY <1>1, <1>9, <2>1 DEF Held
  <2>2. CASE a = "limbo"
    <3>1. n \in Objects /\ k = 0 /\ LimboOf(w'[n]) = r /\ Recoverable(n)'
      BY <1>9, <2>2 DEF Held, LimboOf, Dead
    <3> QED
      BY <1>1, <1>7, <2>2, <3>1 DEF Held
  <2>3. CASE a \in {"item", "recovered"}
    BY <1>8, <1>9, <2>3 DEF Held, SameHands
  <2> QED
    BY <1>9, <2>1, <2>2, <2>3 DEF Held
<1>10. HeldOnce'
  BY <1>9, PlacesShrink
<1> QED
  BY <1>6, <1>10

\* drain_pending_requests moves the queue, in order, to the recovered list.
LEMMA DrainHeld ==
  ASSUME TypeOK, ThreadLocals, Replacing, FaultsEnded, HeldOnce, FitKept,
         drain_pending_requests
  PROVE  FaultsEnded' /\ HeldOnce'
<1> DEFINE u == th["sup"]
           v == th'["sup"]
           o == u.old
           x == w[o]
           y == [x EXCEPT !.queue = <<>>]
<1>0. u \in ThreadRecord /\ u.pc = "drain"
  BY DEF TypeOK, Threads, drain_pending_requests
<1>1. o \in Objects /\ x \in WorkerRecord /\ CurrentOk(x)
  BY <1>0 DEF ThreadLocals, RecoverPoints, TypeOK, FaultsEnded
<1>2. w' = [w EXCEPT ![o] = y] /\ workers' = workers
  BY DEF drain_pending_requests, pool
<1>3. /\ th'["main"] = th["main"] /\ v.pc = "current" /\ v.old = o
      /\ v.force = u.force /\ v.item = u.item /\ v.recovered = x.queue
  <2>1. th' = [th EXCEPT !["sup"] = [u EXCEPT !.pc = "current", !.recovered = x.queue]]
    BY DEF drain_pending_requests
  <2>2. th'["main"] = th["main"] /\ v = [u EXCEPT !.pc = "current", !.recovered = x.queue]
    BY <2>1 DEF TypeOK, Threads
  <2> QED
    BY <1>0, <2>2 DEF ThreadRecord
<1>4. /\ y.queue = <<>> /\ y.hand = x.hand /\ y.current = x.current
      /\ y.pc = x.pc /\ y.state = x.state
  BY <1>1 DEF WorkerRecord
<1> HIDE DEF y, v
<1>5. \A p \in Objects : w'[p] = IF p = o THEN y ELSE w[p]
  BY <1>2 DEF TypeOK
<1>6. /\ CurrentOk(y) /\ RunsOf(y) = RunsOf(x) /\ LimboOf(y) = LimboOf(x)
      /\ Dead(x) => Dead(y)
  BY <1>1, <1>4 DEF CurrentOk, RunsOf, LimboOf, Dead
<1>7. SameRecovery(u, th'["sup"]) /\ (Stopped => Stopped')
  BY <1>0, <1>3 DEF SameRecovery, Stopped, v
<1>8. FaultsEnded'
  <2>1. \A p \in Objects : CurrentOk(w'[p]) /\ (Dead(w[p]) => Dead(w'[p]))
    BY <1>5, <1>6 DEF FaultsEnded
  <2>2. ASSUME NEW i \in Slots, workers[i] # Nil, w'[workers[i]].state = "Faulted"
        PROVE  w[workers[i]].state = "Faulted"
    <3>1. workers[i] \in Objects
      BY <2>2 DEF TypeOK
    <3> QED
      BY <1>4, <1>5, <2>2, <3>1
  <2> QED
    BY <1>2, <1>7, <2>1, <2>2, FaultsFrame
<1>9. ASSUME NEW r \in Requests, NEW a, NEW n, NEW k, Held(r, a, n, k)'
      PROVE  \/ a = "recovered" /\ n = "sup" /\ Held(r, "queue", o, k)
             \/ ~(a = "queue" /\ n = o) /\ a # "recovered" /\ Held(r, a, n, k)
  <2>1. CASE /\ a = "queue" /\ n \in Objects
             /\ k \in DOMAIN w'[n].queue /\ w'[n].queue[k].data = r
    <3>1. n # o
      BY <1>4, <1>5, <2>1
    <3> QED
      BY <1>5, <2>1, <3>1 DEF Held
  <2>2. CASE a = "run" /\ n \in Objects /\ k = 0 /\ RunsOf(w'[n]) = r
    BY <1>5, <1>6, <2>2 DEF Held
  <2>3. CASE a = "limbo" /\ n \in Objects /\ k = 0 /\ LimboOf(w'[n]) = r /\ Recoverable(n)'
    BY <1>2, <1>5, <1>6, <1>7, <2>3, RecoverableKept DEF Held
  <2>4. CASE /\ a = "item" /\ n \in Threads /\ k = 0
             /\ th'[n].item # Nil /\ th'[n].item.data = r
    BY <1>3, <2>4 DEF Held, Threads, v
  <2>5. CASE /\ a = "recovered" /\ n = "sup"
             /\ k \in DOMAIN th'["sup"].recovered /\ th'["sup"].recovered[k].data = r
    BY <1>1, <1>3, <2>5 DEF Held, v
  <2> QED
    BY <1>9, <2>1, <2>2, <2>3, <2>4, <2>5 DEF Held, RunsOf, LimboOf, Dead
<1>10. ASSUME NEW r \in Requests PROVE Once(r)'
  <2>1. CASE \E k : Held(r, "queue", o, k)
    <3>1. PICK d : Held(r, "queue", o, d)
      BY <2>1
    <3>2. \A a, n, k : Held(r, a, n, k) => a = "queue" /\ n = o /\ k = d
      BY <3>1 DEF HeldOnce, Once
    <3>3. \A a, n, k : Held(r, a, n, k)' => a = "recovered" /\ n = "sup" /\ k = d
      BY <1>9, <3>2
    <3> HIDE DEF o
    <3> QED
      BY <3>1, <3>3, Moved
  <2>2. CASE ~\E k : Held(r, "queue", o, k)
    <3>1. \A a, n, k : Held(r, a, n, k)' => Held(r, a, n, k)
      BY <1>9, <2>2
    <3> QED
      BY <3>1, Stayed
  <2> QED
    BY <2>1, <2>2
<1> QED
  BY <1>8, <1>10 DEF HeldOnce

\* recover_current_request takes over what a faulted worker left behind; after
\* a hang the request stays with the worker that may still answer it.
LEMMA CurrentHeld ==
  ASSUME TypeOK, ThreadLocals, Replacing, FaultsEnded, HeldOnce, FitKept,
         recover_current_request
  PROVE  FaultsEnded' /\ HeldOnce'
<1> DEFINE u == th["sup"]
           v == th'["sup"]
           o == u.old
           c == w[o].current
           next == IF u.force THEN "detach" ELSE "stop"
<1>0. u \in ThreadRecord /\ u.pc = "current" /\ u.recovered \in Seq(RequestMetadata)
  BY DEF TypeOK, Threads, recover_current_request, ThreadRecord
<1>1. o \in Objects /\ \A i \in Slots : workers[i] # o
  BY <1>0 DEF ThreadLocals, RecoverPoints, Replacing, HoldingOld
<1>2. w' = w /\ workers' = workers
  BY DEF recover_current_request, pool, objs
<1>3. CASE c = Nil \/ u.force
  <2>1. \/ th' = [th EXCEPT !["sup"] = [u EXCEPT !.pc = next]]
        \/ th' = [th EXCEPT !["sup"] = [u EXCEPT !.pc = "timeout_error", !.seen = c]]
    BY <1>3 DEF recover_current_request
  <2>2. ASSUME NEW z, th' = [th EXCEPT !["sup"] = z], z.item = u.item,
               z.recovered = u.recovered, z.pc \in {"detach", "stop", "timeout_error"}
        PROVE  FaultsEnded' /\ HeldOnce'
    <3>1. SameRecovery(u, z)
      BY <2>2 DEF SameRecovery
    <3>2. SameRecovery(u, th'["sup"]) /\ SameHands
      BY <2>2, <3>1, OneThreadHeld DEF Threads
    <3>3. Stopped => Stopped'
      BY <2>2 DEF Stopped, TypeOK, Threads
    <3> QED
      BY <1>2, <3>2, <3>3, NoHeldWorker
  <2>3. /\ [u EXCEPT !.pc = next].item = u.item
        /\ [u EXCEPT !.pc = next].recovered = u.recovered
        /\ [u EXCEPT !.pc = next].pc = next
    BY <1>0 DEF ThreadRecord
  <2>4. /\ [u EXCEPT !.pc = "timeout_error", !.seen = c].item = u.item
        /\ [u EXCEPT !.pc = "timeout_error", !.seen = c].recovered = u.recovered
        /\ [u EXCEPT !.pc = "timeout_error", !.seen = c].pc = "timeout_error"
    BY <1>0 DEF ThreadRecord
  <2> QED
    BY <2>1, <2>2, <2>3, <2>4
<1>4. CASE c # Nil /\ ~u.force
  <2> DEFINE e == [data |-> c, retry_count |-> 0]
             q == Append(u.recovered, e)
  <2>1. c \in Requests /\ e \in RequestMetadata /\ e.data = c
    BY <1>1, <1>4 DEF TypeOK, WorkerRecord, RequestMetadata
  <2>2. /\ th'["main"] = th["main"] /\ v.pc = "stop"
        /\ v.item = u.item /\ v.recovered = q
    <3>1. th' = [th EXCEPT !["sup"] = [u EXCEPT !.pc = next, !.recovered = q]]
      BY <1>4 DEF recover_current_request
    <3>2. th'["main"] = th["main"] /\ v = [u EXCEPT !.pc = next, !.recovered = q]
      BY <3>1 DEF TypeOK, Threads
    <3> HIDE DEF q
    <3> QED
      BY <1>0, <1>4, <3>2 DEF ThreadRecord
  <2> HIDE DEF v
  <2>3. FaultsEnded'
    <3>1. SameRecovery(u, th'["sup"]) /\ (Stopped => Stopped')
      BY <2>2 DEF SameRecovery, Stopped, v
    <3>2. \A p \in Objects : CurrentOk(w'[p])
      BY <1>2 DEF FaultsEnded
    <3> QED
      BY <1>2, <3>1, <3>2, FaultsFrame
  <2>4. Held(c, "limbo", o, 0)
    <3>1. Dead(w[o])
      BY <1>0, <1>4 DEF FaultsEnded
    <3>2. Recoverable(o)
      BY <1>0, <1>4 DEF Recoverable, Recovering
    <3> QED
      BY <1>1, <3>1, <3>2 DEF Held, LimboOf
  <2>5. ASSUME NEW p, Recoverable(p)' PROVE p # o /\ Recoverable(p)
    <3>1. ~Recovering(p)'
      BY <2>2 DEF Recovering, v
    <3>2. \E i \in Slots : workers[i] = p
      BY <1>2, <2>5, <3>1 DEF Recoverable
    <3> QED
      BY <1>1, <3>2 DEF Recoverable
  <2>6. ASSUME NEW r \in Requests, NEW a, NEW n, NEW k, Held(r, a, n, k)'
        PROVE  \/ a = "recovered" /\ n = "sup" /\ k = Len(u.recovered) + 1 /\ r = c
               \/ ~(a = "limbo" /\ n = o) /\ Held(r, a, n, k)
    <3>1. CASE a \in {"queue", "run"}
      BY <1>2, <2>6, <3>1 DEF Held
    <3>2. CASE a = "limbo"
      <4>1. n \in Objects /\ k = 0 /\ LimboOf(w'[n]) = r /\ Recoverable(n)'
        BY <2>6, <3>2 DEF Held, LimboOf, Dead
      <4> QED
        BY <1>2, <2>5, <3>2, <4>1 DEF Held
    <3>3. CASE a = "item"
      BY <2>2, <2>6, <3>3 DEF Held, Threads, v
    <3>4. CASE a = "recovered"
      <4>1. n = "sup" /\ k \in DOMAIN q /\ q[k].data = r
        BY <2>2, <2>6, <3>4 DEF Held, v
      <4>2. \/ k \in DOMAIN u.recovered /\ q[k] = u.recovered[k]
            \/ k = Len(u.recovered) + 1 /\ q[k] = e
        BY <1>0, <2>1, <4>1, AppendEntries
      <4> HIDE DEF q, e
      <4> QED
        BY <2>1, <3>4, <4>1, <4>2 DEF Held
    <3> QED
      BY <2>6, <3>1, <3>2, <3>3, <3>4 DEF Held
  <2>7. ASSUME NEW r \in Requests PROVE Once(r)'
    <3>1. CASE r = c
      <4> DEFINE d == Len(u.recovered) + 1
      <4>1. Held(r, "limbo", o, 0)
        BY <2>4, <3>1
      <4>2. \A a, n, k : Held(r, a, n, k) => a = "limbo" /\ n = o /\ k = 0
        BY <4>1 DEF HeldOnce, Once
      <4>3. \A a, n, k : Held(r, a, n, k)' => a = "recovered" /\ n = "sup" /\ k = d
        BY <2>6, <4>2
      <4> HIDE DEF d, o
      <4> QED
        BY <4>1, <4>3, Moved
    <3>2. CASE r # c
      BY <2>6, <3>2, Stayed
    <3> QED
      BY <3>1, <3>2
  <2> QED
    BY <2>3, <2>7 DEF HeldOnce
<1> QED
  BY <1>3, <1>4

\* The steps between recovery and spawning hold no request themselves.
LEMMA DetachHeld ==
  ASSUME TypeOK, ThreadLocals, Replacing, FaultsEnded, HeldOnce, FitKept,
         \/ send_timeout_error \/ abandon_request
         \/ force_detach_flags \/ force_detach_count
         \/ enforce_detached_worker_limit
  PROVE  FaultsEnded' /\ HeldOnce'
<1> DEFINE u == th["sup"]
           o == u.old
           x == w[o]
<1>0. u \in ThreadRecord /\ "sup" \in Threads
  BY DEF TypeOK, Threads
<1>1. workers' = workers
  BY DEF send_timeout_error, abandon_request, force_detach_flags, force_detach_count,
         enforce_detached_worker_limit, pool
<1>2. SameRecovery(u, th'["sup"]) /\ SameHands /\ (Stopped => Stopped')
  <2>1. ASSUME NEW z, th' = [th EXCEPT !["sup"] = z], z.item = u.item,
               z.recovered = u.recovered,
               z.pc \in {"abandon", "detach", "detach_count", "limit", "redistribute",
                         "spawn"}
        PROVE  SameRecovery(u, th'["sup"]) /\ SameHands /\ (Stopped => Stopped')
    <3>1. SameRecovery(u, z)
      BY <2>1 DEF SameRecovery
    <3>2. SameRecovery(u, th'["sup"]) /\ SameHands
      BY <1>0, <2>1, <3>1, OneThreadHeld
    <3>3. Stopped => Stopped'
      BY <2>1 DEF Stopped, TypeOK, Threads
    <3> QED
      BY <3>2, <3>3
  <2>2. ASSUME NEW c \in {"abandon", "detach_count", "limit"},
               th' = [th EXCEPT !["sup"].pc = c]
        PROVE  SameRecovery(u, th'["sup"]) /\ SameHands /\ (Stopped => Stopped')
    <3> DEFINE z == [u EXCEPT !.pc = c]
    <3>1. z.item = u.item /\ z.recovered = u.recovered /\ z.pc = c
      BY <1>0 DEF ThreadRecord
    <3>2. th' = [th EXCEPT !["sup"] = z]
      BY <2>2
    <3> HIDE DEF z
    <3> QED
      BY <2>1, <3>1, <3>2
  <2>3. CASE abandon_request
    <3> DEFINE z == [u EXCEPT !.pc = "detach", !.seen = Nil]
    <3>1. z.item = u.item /\ z.recovered = u.recovered /\ z.pc = "detach"
      BY <1>0 DEF ThreadRecord
    <3>2. th' = [th EXCEPT !["sup"] = z]
      BY <2>3 DEF abandon_request
    <3> HIDE DEF z
    <3> QED
      BY <2>1, <3>1, <3>2
  <2>4. CASE enforce_detached_worker_limit
    <3> DEFINE z == [u EXCEPT !.pc = AfterRecover("sup"), !.old = Nil]
    <3>1. /\ z.item = u.item /\ z.recovered = u.recovered
          /\ z.pc \in {"redistribute", "spawn"}
      BY <1>0 DEF ThreadRecord, AfterRecover
    <3>2. th' = [th EXCEPT !["sup"] = z]
      BY <2>4 DEF enforce_detached_worker_limit
    <3> HIDE DEF z
    <3> QED
      BY <2>1, <3>1, <3>2
  <2> QED
    BY <2>2, <2>3, <2>4 DEF send_timeout_error, force_detach_flags, force_detach_count
<1>3. CASE send_timeout_error \/ abandon_request \/ enforce_detached_worker_limit
  <2>1. w' = w
    BY <1>3 DEF send_timeout_error, abandon_request, enforce_detached_worker_limit, objs
  <2> QED
    BY <1>1, <1>2, <2>1, NoHeldWorker
<1>4. CASE force_detach_flags \/ force_detach_count
  <2>1. u.pc \in HoldingOld /\ o \in Objects /\ x \in WorkerRecord
    BY <1>4 DEF force_detach_flags, force_detach_count, HoldingOld, RecoverPoints,
                ThreadLocals, TypeOK
  <2>2. SUFFICES \E y : w' = [w EXCEPT ![o] = y] /\ SameHeld(x, y)
    BY <1>0, <1>1, <1>2, <2>1, HeldByOld
  <2>3. CASE force_detach_flags
    <3> DEFINE z == [x EXCEPT !.stop = TRUE, !.state = "Faulted"]
    <3>1. w' = [w EXCEPT ![o] = Notify(z)]
      BY <2>3 DEF force_detach_flags
    <3>2. /\ z \in WorkerRecord /\ z.queue = x.queue /\ z.hand = x.hand
          /\ z.current = x.current /\ z.pc = x.pc
      BY <2>1 DEF WorkerRecord, WorkerState
    <3> HIDE DEF z
    <3>3. SameHeld(z, Notify(z))
      BY <3>2, NotifyHeld
    <3>4. SameHeld(x, Notify(z))
      BY <3>2, <3>3 DEF SameHeld
    <3> QED
      BY <3>1, <3>4
  <2>4. CASE force_detach_count
    <3> DEFINE y == IF x.joinable
                    THEN [x EXCEPT !.detached = TRUE, !.stale = FALSE, !.joinable = FALSE]
                    ELSE [x EXCEPT !.stale = FALSE]
    <3>1. w' = [w EXCEPT ![o] = y]
      BY <2>4 DEF force_detach_count
    <3>2. SameHeld(x, y)
      BY <2>1 DEF WorkerRecord, SameHeld
    <3> QED
      BY <3>1, <3>2
  <2> QED
    BY <1>4, <2>3, <2>4
<1> QED
  BY <1>3, <1>4

\* spawn_replacement_worker: the new worker holds nothing.
LEMMA SpawnHeld ==
  ASSUME TypeOK, ThreadLocals, Ownership, Replacing, FaultsEnded, HeldOnce, FitKept,
         spawn_replacement_worker
  PROVE  FaultsEnded' /\ HeldOnce'
<1> DEFINE u == th["sup"]
           v == th'["sup"]
           i == u.slot
           d == allocated + 1
           y == NewWorker(i)
<1>0. /\ u \in ThreadRecord /\ workers \in [Slots -> Objects \cup {Nil}]
      /\ Nil \notin Objects /\ allocated \in Nat
      /\ \A p \in Objects : p \in Nat
  BY PoolAssumption DEF TypeOK, Threads, Objects
<1>1. u.pc = "spawn" /\ th' = [th EXCEPT !["sup"].pc = "redistribute"]
  BY DEF spawn_replacement_worker
<1>2. i \in Slots
  BY <1>1 DEF ThreadLocals, ReplacePoints
<1>3. /\ th'["main"] = th["main"] /\ v.pc = "redistribute"
      /\ v.item = u.item /\ v.recovered = u.recovered
  BY <1>0, <1>1 DEF TypeOK, Threads, ThreadRecord
<1>4. SameRecovery(u, th'["sup"]) /\ SameHands /\ (Stopped => Stopped')
  BY <1>3 DEF SameRecovery, SameHands, Stopped, Threads
<1>5. CASE UNCHANGED <<workers, ready_list, w, allocated>>
  BY <1>4, <1>5, NoHeldWorker
<1>6. CASE /\ d \in Objects /\ w' = [w EXCEPT ![d] = y]
           /\ workers' = [workers EXCEPT ![i] = d]
  <2>1. /\ y.state = "Starting" /\ y.pc = "none" /\ y.queue = <<>> /\ y.current = Nil
    BY DEF NewWorker
  <2> HIDE DEF y, v
  <2>2. /\ \A p \in Objects : w'[p] = IF p = d THEN y ELSE w[p]
        /\ \A j \in Slots : workers'[j] = IF j = i THEN d ELSE workers[j]
    BY <1>0, <1>2, <1>6 DEF TypeOK
  <2>3. \A j \in Slots : workers[j] # Nil => workers[j] \in Objects /\ workers[j] # d
    BY <1>0 DEF Ownership
  <2>4. CurrentOk(y) /\ RunsOf(y) = Nil /\ LimboOf(y) = Nil
    BY <2>1 DEF CurrentOk, RunsOf, LimboOf, Dead
  <2> HIDE DEF d
  <2>5. FaultsEnded'
    <3>1. \A p \in Objects : CurrentOk(w'[p])
      BY <2>2, <2>4 DEF FaultsEnded
    <3>2. ASSUME NEW j \in Slots, workers'[j] # Nil, w'[workers'[j]].state = "Faulted"
          PROVE  Stopped' \/ Dead(w'[workers'[j]])
      <4>1. CASE j = i
        BY <1>6, <2>1, <2>2, <3>2, <4>1
      <4>2. CASE j # i
        <5>1. workers'[j] = workers[j] /\ workers[j] # Nil /\ w'[workers[j]] = w[workers[j]]
          BY <2>2, <2>3, <3>2, <4>2
        <5> QED
          BY <1>4, <3>2, <5>1 DEF FaultsEnded
      <4> QED
        BY <4>1, <4>2
    <3> QED
      BY <1>3, <3>1, <3>2 DEF FaultsEnded, v
  <2>6. ASSUME NEW p \in Objects, p # d, Recoverable(p)' PROVE Recoverable(p)
    <3>1. ~Recovering(p)'
      BY <1>3 DEF Recovering, v
    <3>2. PICK j \in Slots : workers'[j] = p
      BY <2>6, <3>1 DEF Recoverable
    <3> QED
      BY <2>2, <2>6, <3>2 DEF Recoverable
  <2>7. ASSUME NEW r \in Requests, NEW a, NEW n, NEW k, Held(r, a, n, k)'
        PROVE  Held(r, a, n, k)
    <3>0. r # Nil
      BY PoolAssumption
    <3>1. CASE /\ a = "queue" /\ n \in Objects
               /\ k \in DOMAIN w'[n].queue /\ w'[n].queue[k].data = r
      <4>1. n # d
        BY <2>1, <2>2, <3>1
      <4> QED
        BY <2>2, <3>1, <4>1 DEF Held
    <3>2. CASE a = "run" /\ n \in Objects /\ k = 0 /\ RunsOf(w'[n]) = r
      BY <2>2, <2>4, <3>0, <3>2 DEF Held
    <3>3. CASE a = "limbo" /\ n \in Objects /\ k = 0 /\ LimboOf(w'[n]) = r /\ Recoverable(n)'
      <4>1. n # d
        BY <2>2, <2>4, <3>0, <3>3
      <4> QED
        BY <2>2, <2>6, <3>3, <4>1 DEF Held
    <3>4. CASE a \in {"item", "recovered"}
      BY <1>4, <2>7, <3>4 DEF Held, SameHands
    <3> QED
      BY <2>7, <3>1, <3>2, <3>3, <3>4 DEF Held, RunsOf, LimboOf, Dead
  <2> QED
    BY <2>5, <2>7, PlacesShrink
<1> QED
  BY <1>5, <1>6 DEF spawn_replacement_worker

\* redistribute_requests: the head of the list is discarded or taken in hand,
\* or the whole list is dropped.
LEMMA RedistributeHeld ==
  ASSUME TypeOK, ThreadLocals, FaultsEnded, HeldOnce, FitKept,
         redistribute_requests
  PROVE  FaultsEnded' /\ HeldOnce'
<1> DEFINE u == th["sup"]
           v == th'["sup"]
           q == u.recovered
           g == [Head(q) EXCEPT !.retry_count = @ + 1]
<1>0. /\ u \in ThreadRecord /\ u.pc = "redistribute" /\ q \in Seq(RequestMetadata)
      /\ w' = w /\ workers' = workers
  BY DEF TypeOK, Threads, ThreadRecord, redistribute_requests, pool, objs
<1>1. ASSUME NEW z, th' = [th EXCEPT !["sup"] = z]
      PROVE  th'["main"] = th["main"] /\ v = z
  BY <1>1 DEF TypeOK, Threads
<1>2. ASSUME v.pc \in {"scan", "redistribute", "get"}, th'["main"] = th["main"]
      PROVE  /\ FaultsEnded' /\ SameRecovery(u, th'["sup"])
             /\ (Stopped => Stopped')
             /\ \A p \in Objects : Recoverable(p)' => Recoverable(p)
  <2>1. SameRecovery(u, th'["sup"]) /\ (Stopped => Stopped')
    BY <1>2 DEF SameRecovery, Stopped
  <2>2. \A p \in Objects : CurrentOk(w'[p])
    BY <1>0 DEF FaultsEnded
  <2>3. FaultsEnded'
    BY <1>0, <2>1, <2>2, FaultsFrame
  <2>4. \A p \in Objects : Recoverable(p)' => Recoverable(p)
    BY <1>0, <2>1, RecoverableKept
  <2> QED
    BY <2>1, <2>3, <2>4
<1>3. CASE th' = [th EXCEPT !["sup"] = [u EXCEPT !.pc = "scan", !.recovered = <<>>]]
  <2>1. th'["main"] = th["main"] /\ v = [u EXCEPT !.pc = "scan", !.recovered = <<>>]
    BY <1>1, <1>3
  <2>2. v.pc = "scan" /\ v.recovered = <<>> /\ v.item = u.item
    BY <1>0, <2>1 DEF ThreadRecord
  <2>3. SameHands
    BY <2>1, <2>2 DEF SameHands, Threads
  <2> QED
    BY <1>0, <1>2, <2>1, <2>2, <2>3, NoHeldWorker
<1>4. ASSUME q # <<>>, th'["main"] = th["main"], v.pc \in {"redistribute", "get"},
             v.recovered = Tail(q),
             v.item = u.item \/ (v.item # Nil /\ v.item.data = Head(q).data)
      PROVE  FaultsEnded' /\ HeldOnce'
  <2>1. /\ 1 \in DOMAIN q /\ Head(q) = q[1]
        /\ \A k \in DOMAIN Tail(q) :
             k \in Nat /\ k # 0 /\ k + 1 \in DOMAIN q /\ Tail(q)[k] = q[k + 1]
    BY <1>0, <1>4, TailEntries
  <2>2. FaultsEnded' /\ \A p \in Objects : Recoverable(p)' => Recoverable(p)
    BY <1>2, <1>4
  <2>3. ASSUME NEW r \in Requests, NEW a, NEW n, NEW k, Held(r, a, n, k)'
        PROVE  \/ a = "item" /\ n = "sup" /\ k = 0 /\ r = q[1].data
               \/ a = "recovered" /\ n = "sup" /\ k \in Nat /\ k # 0 /\ Held(r, a, n, k + 1)
               \/ ~(a = "recovered" /\ n = "sup") /\ Held(r, a, n, k)
    <3>1. CASE a \in {"queue", "run"}
      BY <1>0, <2>3, <3>1 DEF Held
    <3>2. CASE a = "limbo"
      <4>1. n \in Objects /\ k = 0 /\ LimboOf(w'[n]) = r /\ Recoverable(n)'
        BY <2>3, <3>2 DEF Held, LimboOf, Dead
      <4> QED
        BY <1>0, <2>2, <3>2, <4>1 DEF Held
    <3>3. CASE a = "item"
      <4>1. n \in Threads /\ k = 0 /\ th'[n].item # Nil /\ th'[n].item.data = r
        BY <2>3, <3>3 DEF Held
      <4>2. CASE n = "main"
        BY <1>4, <3>3, <4>1, <4>2 DEF Held
      <4>3. CASE n = "sup" /\ v.item = u.item
        BY <3>3, <4>1, <4>3 DEF Held
      <4>4. CASE n = "sup" /\ v.item.data = Head(q).data
        BY <2>1, <3>3, <4>1, <4>4
      <4> QED
        BY <1>4, <4>1, <4>2, <4>3, <4>4 DEF Threads
    <3>4. CASE a = "recovered"
      <4>1. n = "sup" /\ k \in DOMAIN Tail(q) /\ Tail(q)[k].data = r
        BY <1>4, <2>3, <3>4 DEF Held
      <4> QED
        BY <2>1, <3>4, <4>1 DEF Held
    <3> QED
      BY <2>3, <3>1, <3>2, <3>3, <3>4 DEF Held
  <2>4. ASSUME NEW r \in Requests PROVE Once(r)'
    <3>1. CASE r = q[1].data
      <4>1. Held(r, "recovered", "sup", 1)
        BY <2>1, <3>1 DEF Held
      <4>2. \A a, n, k : Held(r, a, n, k) => a = "recovered" /\ n = "sup" /\ k = 1
        BY <4>1 DEF HeldOnce, Once
      <4>3. ASSUME NEW a, NEW n, NEW k, Held(r, a, n, k)'
            PROVE  a = "item" /\ n = "sup" /\ k = 0
        <5>1. CASE a = "recovered" /\ n = "sup" /\ k \in Nat /\ k # 0 /\ Held(r, a, n, k + 1)
          <6>1. k + 1 = 1
            BY <4>2, <5>1
          <6> QED
            BY <5>1, <6>1
        <5>2. CASE ~(a = "recovered" /\ n = "sup") /\ Held(r, a, n, k)
          BY <4>2, <5>2
        <5> QED
          BY <2>3, <4>3, <5>1, <5>2
      <4> QED
        BY <4>1, <4>3, Moved
    <3>2. CASE r # q[1].data
      <4>1. \A a, n, k : Held(r, a, n, k)' =>
              IF a = "recovered" /\ n = "sup" THEN k \in Nat /\ Held(r, a, n, k + 1)
                                              ELSE Held(r, a, n, k)
        BY <2>3, <3>2
      <4> QED
        BY <4>1, Shifted
    <3> QED
      BY <3>1, <3>2
  <2> QED
    BY <2>2, <2>4 DEF HeldOnce
<1>5. CASE q # <<>> /\ th' = [th EXCEPT !["sup"].recovered = Tail(q)]
  <2>1. th'["main"] = th["main"] /\ v = [u EXCEPT !.recovered = Tail(q)]
    BY <1>5 DEF TypeOK, Threads
  <2>2. v.pc = u.pc /\ v.recovered = Tail(q) /\ v.item = u.item
    BY <1>0, <2>1 DEF ThreadRecord
  <2> QED
    BY <1>0, <1>4, <1>5, <2>1, <2>2
<1>6. CASE /\ q # <<>>
           /\ th' = [th EXCEPT !["sup"] =
                       [u EXCEPT !.recovered = Tail(q), !.item = g, !.pc = "get"]]
  <2>1. /\ th'["main"] = th["main"]
        /\ v = [u EXCEPT !.recovered = Tail(q), !.item = g, !.pc = "get"]
    BY <1>1, <1>6
  <2>2. Head(q) \in RequestMetadata
    BY <1>0, <1>6
  <2>3. g \in RequestMetadata /\ g.data = Head(q).data
    BY <2>2 DEF RequestMetadata
  <2>4. g # Nil
    BY <2>3, ItemNotNil
  <2> HIDE DEF g
  <2>5. v.pc = "get" /\ v.recovered = Tail(q) /\ v.item = g
    BY <1>0, <2>1 DEF ThreadRecord
  <2> HIDE DEF v
  <2> QED
    BY <1>4, <1>6, <2>1, <2>3, <2>4, <2>5 DEF v
<1> QED
  BY <1>3, <1>5, <1>6 DEF redistribute_requests

-----------------------------------------------------------------------------
(* What the client sees, and what stays fit for its place *)

(* The client sees nothing of a step.                                      *)
Unseen ==
  \A r \in Requests :
    /\ req'[r].received = req[r].received /\ req'[r].runs = req[r].runs
    /\ req'[r].responses = req[r].responses /\ req'[r].timeouts = req[r].timeouts

(* What the observer has noted: nothing of a request before it was read; a *)
(* request about to be reported was not reported before; and one that is   *)
(* being executed has been started.                                        *)
Observed ==
  /\ \A r \in Requests :
       ~req[r].received => req[r].runs = 0 /\ req[r].responses = 0 /\ req[r].timeouts = 0
  /\ th["sup"].pc = "timeout_error" =>
       req[th["sup"].seen].received /\ req[th["sup"].seen].timeouts = 0
  /\ \A r \in Requests, o \in Objects :
       w[o].pc = "running" /\ w[o].hand = r => req[r].runs > 0

\* Only four steps are seen by the client.
LEMMA NextShows ==
  ASSUME TypeOK, [Next]_vars
  PROVE  \/ Unseen
         \/ \E o \in Objects : WEnterRequest(o) \/ WRespond(o)
         \/ send_timeout_error
         \/ \E r \in Requests : ReadRequest(r)
<1>0. req \in [Requests -> RequestRecord]
  BY DEF TypeOK
<1>1. ASSUME NEW r, req' = [req EXCEPT ![r].dropped = TRUE]
      PROVE  Unseen
  BY <1>0, <1>1 DEF Unseen, RequestRecord
<1>2. CASE req' = req \/ \E r : req' = [req EXCEPT ![r].dropped = TRUE]
  BY <1>1, <1>2 DEF Unseen
<1>3. CASE redistribute_requests
  <2> DEFINE todo == th["sup"].recovered
  <2>1. CASE req' = [r \in Requests |->
                      IF \E k \in DOMAIN todo : todo[k].data = r
                      THEN [req[r] EXCEPT !.dropped = TRUE] ELSE req[r]]
    <3>1. \A r \in Requests : req'[r] \in {req[r], [req[r] EXCEPT !.dropped = TRUE]}
      BY <2>1
    <3>2. ASSUME NEW r \in Requests
          PROVE  /\ [req[r] EXCEPT !.dropped = TRUE].received = req[r].received
                 /\ [req[r] EXCEPT !.dropped = TRUE].runs = req[r].runs
                 /\ [req[r] EXCEPT !.dropped = TRUE].responses = req[r].responses
                 /\ [req[r] EXCEPT !.dropped = TRUE].timeouts = req[r].timeouts
      BY <1>0 DEF RequestRecord
    <3> QED
      BY <3>1, <3>2 DEF Unseen
  <2> QED
    BY <1>2, <1>3, <2>1 DEF redistribute_requests
<1>4. CASE \E o \in Objects : WorkerLoop(o) \/ WRespond(o) \/ initialize_worker(o)
  BY <1>2, <1>4 DEF WorkerLoop, WLoopTop, WBlock, WWake, WClaim,
     WClearCurrent, WExit, WUnwind, initialize_worker, InitStart,
     InitStoreIdle, set_worker_ready
<1>5. CASE Environment
  BY <1>2, <1>5 DEF Environment, WHeartbeat, WFault, Stall, InitFail, BackoffElapsed,
     CloseStdin
<1>6. CASE \E t \in Threads : distribute_request(t) \/ stop(t)
  BY <1>2, <1>6 DEF distribute_request, get_ready_worker, Dropped, WaitReady,
     add_request, stop, StopRequest, StopNotify, StopJoin, StopTimeout
<1>7. CASE \/ \E r \in Requests : ReadRequest(r)
           \/ BeginShutdown \/ JoinThreads \/ StopNextWorker
  BY <1>2, <1>7 DEF BeginShutdown, JoinThreads, StopNextWorker
<1>8. CASE (\E i \in Slots : monitor_worker_at(i)) \/ SupervisorEnd \/ replace_worker
  BY <1>2, <1>3, <1>8 DEF replace_worker, monitor_worker_at, SupervisorEnd,
     mark_worker_not_ready, prepare_worker_replacement, drain_pending_requests,
     recover_current_request, abandon_request, force_detach_flags,
     force_detach_count, enforce_detached_worker_limit, spawn_replacement_worker
<1>9. CASE UNCHANGED vars
  BY <1>2, <1>9 DEF vars
<1> QED
  BY <1>4, <1>5, <1>6, <1>7, <1>8, <1>9
  DEF Next, Supervisor, MainThread, Shutdown, Terminated, Threads

\* What the four steps show.
LEMMA ShownSteps ==
  ASSUME TypeOK
  PROVE  /\ \A o \in Objects : WEnterRequest(o) => \A r \in Requests :
              /\ req'[r].received = req[r].received
              /\ req'[r].runs = IF r = w[o].hand THEN req[r].runs + 1 ELSE req[r].runs
              /\ req'[r].responses = req[r].responses /\ req'[r].timeouts = req[r].timeouts
         /\ \A o \in Objects : WRespond(o) => \A r \in Requests :
              /\ req'[r].received = req[r].received /\ req'[r].runs = req[r].runs
              /\ req'[r].responses = IF r = w[o].hand /\ ~is_abandoned(abandoned, r)
                                     THEN req[r].responses + 1 ELSE req[r].responses
              /\ req'[r].timeouts = req[r].timeouts
         /\ send_timeout_error => \A r \in Requests :
              /\ req'[r].received = req[r].received /\ req'[r].runs = req[r].runs
              /\ req'[r].responses = req[r].responses
              /\ req'[r].timeouts =
                   IF r = th["sup"].seen /\ ~is_abandoned(abandoned, r)
                   THEN req[r].timeouts + 1 ELSE req[r].timeouts
         /\ \A s \in Requests : ReadRequest(s) => \A r \in Requests :
              /\ req'[r].received = (r = s \/ req[r].received)
              /\ req'[r].runs = req[r].runs
              /\ req'[r].responses = req[r].responses /\ req'[r].timeouts = req[r].timeouts
<1>0. req \in [Requests -> RequestRecord]
  BY DEF TypeOK
<1>1. ASSUME NEW o \in Objects, WEnterRequest(o), NEW r \in Requests
      PROVE  /\ req'[r].received = req[r].received
             /\ req'[r].runs = IF r = w[o].hand THEN req[r].runs + 1 ELSE req[r].runs
             /\ req'[r].responses = req[r].responses /\ req'[r].timeouts = req[r].timeouts
  BY <1>0, <1>1 DEF WEnterRequest, RequestRecord
<1>2. ASSUME NEW o \in Objects, WRespond(o), NEW r \in Requests
      PROVE  /\ req'[r].received = req[r].received /\ req'[r].runs = req[r].runs
             /\ req'[r].responses = IF r = w[o].hand /\ ~is_abandoned(abandoned, r)
                                    THEN req[r].responses + 1 ELSE req[r].responses
             /\ req'[r].timeouts = req[r].timeouts
  <2>1. CASE is_abandoned(abandoned, w[o].hand)
    <3>1. req' = [req EXCEPT ![w[o].hand].discarded = TRUE]
      BY <1>2, <2>1 DEF WRespond
    <3> QED
      BY <1>0, <2>1, <3>1 DEF RequestRecord
  <2>2. CASE ~is_abandoned(abandoned, w[o].hand)
    <3>1. req' = [req EXCEPT ![w[o].hand].responses = @ + 1]
      BY <1>2, <2>2 DEF WRespond
    <3> QED
      BY <1>0, <2>2, <3>1 DEF RequestRecord
  <2> QED
    BY <2>1, <2>2
<1>3. ASSUME send_timeout_error, NEW r \in Requests
      PROVE  /\ req'[r].received = req[r].received /\ req'[r].runs = req[r].runs
             /\ req'[r].responses = req[r].responses
             /\ req'[r].timeouts =
                  IF r = th["sup"].seen /\ ~is_abandoned(abandoned, r)
                  THEN req[r].timeouts + 1 ELSE req[r].timeouts
  <2> DEFINE c == th["sup"].seen
  <2>1. CASE is_abandoned(abandoned, c)
    BY <1>3, <2>1 DEF send_timeout_error
  <2>2. CASE ~is_abandoned(abandoned, c)
    <3>1. req' = [req EXCEPT ![c].timeouts = @ + 1]
      BY <1>3, <2>2 DEF send_timeout_error
    <3> QED
      BY <1>0, <2>2, <3>1 DEF RequestRecord
  <2> QED
    BY <2>1, <2>2
<1>4. ASSUME NEW s \in Requests, ReadRequest(s), NEW r \in Requests
      PROVE  /\ req'[r].received = (r = s \/ req[r].received)
             /\ req'[r].runs = req[r].runs
             /\ req'[r].responses = req[r].responses /\ req'[r].timeouts = req[r].timeouts
  BY <1>0, <1>4 DEF ReadRequest, RequestRecord
<1> QED
  BY <1>1, <1>2, <1>3, <1>4

\* One record of w changes at most.
LEMMA OneRecord ==
  ASSUME TypeOK, NEW o, NEW y, w' = [w EXCEPT ![o] = y], NEW p \in Objects
  PROVE  w'[p] = w[p] \/ (p = o /\ w'[p] = y)
BY DEF TypeOK

(* A worker record x becomes y: it starts to execute in WEnterRequest      *)
(* only, and a response that was sent is done with before anything else.   *)
Onward(x, y) ==
  /\ x.pc = "finished" => y.pc \in {"finished", "top", "none"}
  /\ y.pc = "running" => x.pc = "running" /\ y.hand = x.hand

\* So does every worker record in every other step.
LEMMA NextWorker ==
  ASSUME TypeOK, [Next]_vars, NEW p \in Objects
  PROVE  Onward(w[p], w'[p]) \/ WEnterRequest(p)
<1> DEFINE x == w[p]
<1>0. x \in WorkerRecord
  BY DEF TypeOK
<1>a. Onward(x, x)
  BY DEF Onward
<1>b. ASSUME NEW o, NEW y, w' = [w EXCEPT ![o] = y], o = p => Onward(x, y)
      PROVE  Onward(x, w'[p])
  BY <1>a, <1>b, OneRecord
<1>f. ASSUME NEW o, NEW y, w' = [w EXCEPT ![o] = y],
             o = p => y.pc = x.pc /\ y.hand = x.hand
      PROVE  Onward(x, w'[p])
  <2>1. o = p => Onward(x, y)
    BY <1>f DEF Onward
  <2> QED
    BY <1>b, <1>f, <2>1
<1>c. ASSUME NEW z \in WorkerRecord, x.pc \in {"top", "woken"}, z.pc = x.pc
      PROVE  Onward(x, PollQueue(z))
  <2>1. PollQueue(z).pc \in {"exiting", "popped", "blocking"}
    BY <1>c DEF PollQueue, WorkerRecord
  <2> QED
    BY <1>c, <2>1 DEF Onward
<1>d. ASSUME NEW y, y.pc = x.pc /\ y.hand = x.hand
      PROVE  Onward(x, y) /\ Onward(x, Notify(y))
  <2>1. Onward(x, y)
    BY <1>d DEF Onward
  <2>2. CASE y.pc = "waiting"
    <3>1. [y EXCEPT !.pc = "woken"].pc \in {"woken", y.pc}
      OBVIOUS
    <3> QED
      BY <1>d, <2>1, <2>2, <3>1 DEF Notify, Onward
  <2> QED
    BY <2>1, <2>2 DEF Notify
<1>1. ASSUME NEW o \in Objects, WorkerLoop(o) \/ WRespond(o), ~WEnterRequest(o)
      PROVE  Onward(x, w'[p])
  <2>2. CASE WLoopTop(o)
    <3> DEFINE z == [w[o] EXCEPT !.state = "Idle", !.stale = FALSE]
    <3>1. o = p => z \in WorkerRecord /\ z.pc = x.pc
      BY <1>0 DEF WorkerRecord, WorkerState
    <3>2. w' = [w EXCEPT ![o] = PollQueue(z)] /\ w[o].pc = "top"
      BY <2>2 DEF WLoopTop
    <3> HIDE DEF z
    <3> QED
      BY <1>b, <1>c, <3>1, <3>2
  <2>3. CASE WWake(o)
    <3>1. w' = [w EXCEPT ![o] = PollQueue(w[o])] /\ w[o].pc = "woken"
      BY <2>3 DEF WWake
    <3> QED
      BY <1>0, <1>b, <1>c, <3>1
  <2>4. ASSUME NEW y, w' = [w EXCEPT ![o] = y],
               o = p => /\ y.pc \in {"waiting", "claimed", "top", "unwinding", "gone", "finished"}
                        /\ x.pc = "finished" => y.pc = "top"
        PROVE  Onward(x, w'[p])
    BY <1>b, <2>4 DEF Onward
  <2>5. CASE WBlock(o)
    <3>1. /\ w' = [w EXCEPT ![o] = [w[o] EXCEPT !.pc = "waiting"]]
          /\ w[o].pc = "blocking"
      BY <2>5 DEF WBlock
    <3>2. [x EXCEPT !.pc = "waiting"].pc = "waiting"
      BY <1>0 DEF WorkerRecord
    <3> QED
      BY <2>4, <3>1, <3>2
  <2>6. CASE WClaim(o)
    <3>1. /\ w' = [w EXCEPT ![o] = [w[o] EXCEPT !.stale = FALSE, !.current = w[o].hand,
                                               !.pc = "claimed"]]
          /\ w[o].pc = "popped"
      BY <2>6 DEF WClaim
    <3>2. [x EXCEPT !.stale = FALSE, !.current = x.hand, !.pc = "claimed"].pc = "claimed"
      BY <1>0 DEF WorkerRecord
    <3> QED
      BY <2>4, <3>1, <3>2
  <2>7. CASE WClearCurrent(o)
    <3>1. w' = [w EXCEPT ![o] = [w[o] EXCEPT !.current = Nil, !.hand = Nil, !.pc = "top"]]
      BY <2>7 DEF WClearCurrent
    <3>2. [x EXCEPT !.current = Nil, !.hand = Nil, !.pc = "top"].pc = "top"
      BY <1>0 DEF WorkerRecord
    <3> QED
      BY <2>4, <3>1, <3>2
  <2>8. CASE WExit(o)
    <3>1. /\ w' = [w EXCEPT ![o] = [w[o] EXCEPT !.state = "Exited", !.stale = FALSE,
                                               !.pc = "unwinding"]]
          /\ w[o].pc = "exiting"
      BY <2>8 DEF WExit
    <3>2. [x EXCEPT !.state = "Exited", !.stale = FALSE, !.pc = "unwinding"].pc = "unwinding"
      BY <1>0 DEF WorkerRecord
    <3> QED
      BY <2>4, <3>1, <3>2
  <2>9. CASE WUnwind(o)
    <3>1. /\ w' = [w EXCEPT ![o] = [w[o] EXCEPT !.detached = FALSE, !.pc = "gone"]]
          /\ w[o].pc = "unwinding"
      BY <2>9 DEF WUnwind
    <3>2. [x EXCEPT !.detached = FALSE, !.pc = "gone"].pc = "gone"
      BY <1>0 DEF WorkerRecord
    <3> QED
      BY <2>4, <3>1, <3>2
  <2>10. CASE WRespond(o)
    <3>1. /\ w' = [w EXCEPT ![o] = [w[o] EXCEPT !.stale = FALSE, !.pc = "finished"]]
          /\ w[o].pc = "running"
      BY <2>10 DEF WRespond
    <3>2. [x EXCEPT !.stale = FALSE, !.pc = "finished"].pc = "finished"
      BY <1>0 DEF WorkerRecord
    <3> QED
      BY <2>4, <3>1, <3>2
  <2> QED
    BY <1>1, <2>2, <2>3, <2>5, <2>6, <2>7, <2>8, <2>9, <2>10 DEF WorkerLoop
<1>2. ASSUME NEW o \in Objects, WHeartbeat(o) \/ WFault(o) \/ Stall(o) \/ InitFail(o)
      PROVE  Onward(x, w'[p])
  <2>1. CASE WFault(o)
    <3>1. /\ w' = [w EXCEPT ![o] = [w[o] EXCEPT !.state = "Faulted", !.stale = FALSE,
                                               !.stop = TRUE, !.pc = "unwinding"]]
          /\ w[o].pc = "running"
      BY <2>1 DEF WFault
    <3>2. [x EXCEPT !.state = "Faulted", !.stale = FALSE,
                    !.stop = TRUE, !.pc = "unwinding"].pc = "unwinding"
      BY <1>0 DEF WorkerRecord
    <3> QED
      BY <1>b, <3>1, <3>2 DEF Onward
  <2>2. CASE WHeartbeat(o)
    <3> DEFINE y == [w[o] EXCEPT !.stale = FALSE]
    <3>1. w' = [w EXCEPT ![o] = y]
      BY <2>2 DEF WHeartbeat
    <3>2. o = p => y.pc = x.pc /\ y.hand = x.hand
      BY <1>0 DEF WorkerRecord
    <3> HIDE DEF y
    <3> QED
      BY <1>f, <3>1, <3>2
  <2>3. CASE Stall(o)
    <3> DEFINE y == [w[o] EXCEPT !.stale = TRUE]
    <3>1. w' = [w EXCEPT ![o] = y]
      BY <2>3 DEF Stall
    <3>2. o = p => y.pc = x.pc /\ y.hand = x.hand
      BY <1>0 DEF WorkerRecord
    <3> HIDE DEF y
    <3> QED
      BY <1>f, <3>1, <3>2
  <2>4. CASE InitFail(o)
    <3> DEFINE y == [w[o] EXCEPT !.init = "done"]
    <3>1. w' = [w EXCEPT ![o] = y]
      BY <2>4 DEF InitFail
    <3>2. o = p => y.pc = x.pc /\ y.hand = x.hand
      BY <1>0 DEF WorkerRecord
    <3> HIDE DEF y
    <3> QED
      BY <1>f, <3>1, <3>2
  <2> QED
    BY <1>2, <2>1, <2>2, <2>3, <2>4
<1>3. ASSUME NEW o \in Objects, initialize_worker(o)
      PROVE  Onward(x, w'[p])
  <2>1. CASE InitStart(o)
    <3> DEFINE q == workers[w[o].slot]
    <3>1. \/ w'[p].pc = x.pc /\ w'[p].hand = x.hand
          \/ w'[p].pc = "top"
      BY <1>0, <2>1 DEF TypeOK, WorkerRecord, InitStart
    <3> QED
      BY <3>1 DEF Onward
  <2>2. CASE InitStoreIdle(o)
    <3> DEFINE y == [w[o] EXCEPT !.state = "Idle", !.stale = FALSE,
                                     !.init = "ready"]
    <3>1. w' = [w EXCEPT ![o] = y]
      BY <2>2 DEF InitStoreIdle
    <3>2. o = p => y.pc = x.pc /\ y.hand = x.hand
      BY <1>0 DEF WorkerRecord
    <3> HIDE DEF y
    <3> QED
      BY <1>f, <3>1, <3>2
  <2>3. CASE set_worker_ready(o)
    <3> DEFINE y == [w[o] EXCEPT !.init = "done"]
    <3>1. w' = [w EXCEPT ![o] = y]
      BY <2>3 DEF set_worker_ready
    <3>2. o = p => y.pc = x.pc /\ y.hand = x.hand
      BY <1>0 DEF WorkerRecord
    <3> HIDE DEF y
    <3> QED
      BY <1>f, <3>1, <3>2
  <2> QED
    BY <1>3, <2>1, <2>2, <2>3 DEF initialize_worker
<1>5. ASSUME NEW o, NEW y, w' = [w EXCEPT ![o] = Notify(y)],
             o = p => y.pc = x.pc /\ y.hand = x.hand
      PROVE  Onward(x, w'[p])
  BY <1>b, <1>d, <1>5
<1>6. ASSUME NEW t \in Threads, distribute_request(t)
      PROVE  Onward(x, w'[p])
  <2>1. CASE get_ready_worker(t) \/ WaitReady(t)
    BY <1>a, <2>1 DEF get_ready_worker, WaitReady, objs
  <2>2. CASE add_request(t)
    <3>1. w' = [w EXCEPT ![th[t].target] =
                  Notify([w[th[t].target] EXCEPT !.queue = Append(@, th[t].item)])]
      BY <2>2 DEF add_request
    <3>2. \A e : [x EXCEPT !.queue = e].pc = x.pc /\ [x EXCEPT !.queue = e].hand = x.hand
      BY <1>0 DEF WorkerRecord
    <3> QED
      BY <1>5, <3>1, <3>2
  <2> QED
    BY <1>6, <2>1, <2>2 DEF distribute_request
<1>e. \A e : [x EXCEPT !.state = e].pc = x.pc /\ [x EXCEPT !.state = e].hand = x.hand
  BY <1>0 DEF WorkerRecord
<1>7. ASSUME NEW t \in Threads, stop(t)
      PROVE  Onward(x, w'[p])
  <2> DEFINE o == th[t].old
  <2>1. CASE StopRequest(t)
    <3> DEFINE y == [w[o] EXCEPT !.stop = TRUE]
    <3>1. w' = w \/ w' = [w EXCEPT ![o] = y]
      BY <2>1 DEF StopRequest
    <3>2. o = p => y.pc = x.pc /\ y.hand = x.hand
      BY <1>0 DEF WorkerRecord
    <3> HIDE DEF y
    <3> QED
      BY <1>a, <1>f, <3>1, <3>2
  <2>2. CASE StopNotify(t)
    <3> DEFINE y == IF th[t].seen = "Faulted" THEN w[o] ELSE [w[o] EXCEPT !.state = "Stopping"]
    <3>1. w' = [w EXCEPT ![o] = Notify(y)]
      BY <2>2 DEF StopNotify
    <3>2. o = p => y.pc = x.pc /\ y.hand = x.hand
      BY <1>e
    <3> HIDE DEF y
    <3> QED
      BY <1>5, <3>1, <3>2
  <2>3. CASE StopJoin(t) \/ StopTimeout(t)
    <3> DEFINE y(s) == [w[o] EXCEPT !.joinable = FALSE, !.state = s]
    <3>1. \E s : w' = [w EXCEPT ![o] = y(s)]
      BY <2>3 DEF StopJoin, StopTimeout
    <3>2. \A s : o = p => y(s).pc = x.pc /\ y(s).hand = x.hand
      BY <1>0 DEF WorkerRecord
    <3> HIDE DEF y
    <3> QED
      BY <1>f, <3>1, <3>2
  <2> QED
    BY <1>7, <2>1, <2>2, <2>3 DEF stop
<1>8. CASE force_detach_flags \/ force_detach_count \/ drain_pending_requests
  <2> DEFINE o == th["sup"].old
  <2>1. CASE force_detach_count
    <3> DEFINE y == [w[o] EXCEPT !.detached = TRUE, !.stale = FALSE, !.joinable = FALSE]
               z == [w[o] EXCEPT !.stale = FALSE]
    <3>1. w' = [w EXCEPT ![o] = y] \/ w' = [w EXCEPT ![o] = z]
      BY <2>1 DEF force_detach_count
    <3>2. o = p => y.pc = x.pc /\ y.hand = x.hand /\ z.pc = x.pc /\ z.hand = x.hand
      BY <1>0 DEF WorkerRecord
    <3> HIDE DEF y, z
    <3> QED
      BY <1>f, <3>1, <3>2
  <2>2. CASE drain_pending_requests
    <3> DEFINE y == [w[o] EXCEPT !.queue = <<>>]
    <3>1. w' = [w EXCEPT ![o] = y]
      BY <2>2 DEF drain_pending_requests
    <3>2. o = p => y.pc = x.pc /\ y.hand = x.hand
      BY <1>0 DEF WorkerRecord
    <3> HIDE DEF y
    <3> QED
      BY <1>f, <3>1, <3>2
  <2>3. CASE force_detach_flags
    <3>1. w' = [w EXCEPT ![o] = Notify([w[o] EXCEPT !.stop = TRUE, !.state = "Faulted"])]
      BY <2>3 DEF force_detach_flags
    <3>2. /\ [x EXCEPT !.stop = TRUE, !.state = "Faulted"].pc = x.pc
          /\ [x EXCEPT !.stop = TRUE, !.state = "Faulted"].hand = x.hand
      BY <1>0 DEF WorkerRecord
    <3> QED
      BY <1>5, <3>1, <3>2
  <2> QED
    BY <1>8, <2>1, <2>2, <2>3
<1>9. CASE spawn_replacement_worker
  <2>1. w' = w \/ w' = [w EXCEPT ![allocated + 1] = NewWorker(th["sup"].slot)]
    BY <1>9 DEF spawn_replacement_worker
  <2>2. w'[p] = x \/ w'[p] = NewWorker(th["sup"].slot)
    BY <2>1, OneRecord
  <2> QED
    BY <1>a, <2>2 DEF NewWorker, Onward
<1>10. CASE \/ \E i \in Slots : monitor_worker_at(i) \/ BackoffElapsed(i)
            \/ SupervisorEnd \/ mark_worker_not_ready \/ prepare_worker_replacement
            \/ recover_current_request \/ send_timeout_error \/ abandon_request
            \/ enforce_detached_worker_limit \/ redistribute_requests
            \/ \E r \in Requests : ReadRequest(r)
            \/ BeginShutdown \/ JoinThreads \/ StopNextWorker \/ CloseStdin
            \/ UNCHANGED vars
  BY <1>a, <1>10 DEF monitor_worker_at, BackoffElapsed, SupervisorEnd, mark_worker_not_ready,
     prepare_worker_replacement, recover_current_request, send_timeout_error,
     abandon_request, enforce_detached_worker_limit, redistribute_requests, ReadRequest,
     BeginShutdown, JoinThreads, StopNextWorker, CloseStdin, vars, objs
<1>12. ASSUME NEW o \in Objects, WEnterRequest(o), o # p PROVE Onward(x, w'[p])
  BY <1>a, <1>12 DEF WEnterRequest, TypeOK
<1> QED
  BY <1>1, <1>2, <1>3, <1>6, <1>7, <1>8, <1>9, <1>10, <1>12
  DEF Next, Supervisor, MainThread, Shutdown, Environment, Terminated, replace_worker, Threads

\* The supervisor takes up a recovery, or a timeout error, in four steps only.
LEMMA NextSupervisor ==
  ASSUME TypeOK, [Next]_vars
  PROVE  \/ th'["sup"] = th["sup"]
         \/ th'["sup"].pc \notin {"drain", "current", "timeout_error"}
         \/ prepare_worker_replacement \/ drain_pending_requests \/ recover_current_request
<1> DEFINE u == th["sup"]
           v == th'["sup"]
           Apart == v = u \/ v.pc \notin {"drain", "current", "timeout_error"}
<1>0. u \in ThreadRecord /\ "sup" \in Threads /\ "main" \in Threads
  BY DEF TypeOK, Threads
<1>1. CASE th' = th
  BY <1>1
<1>2. ASSUME NEW z, th' = [th EXCEPT !["main"] = z] PROVE Apart
  BY <1>2 DEF TypeOK, Threads
<1>3. CASE th' \in NotifyOne(th)
  <2>1. v = u \/ v = [u EXCEPT !.pc = "get"]
    BY <1>0, <1>3, NotifyOneTyped
  <2> QED
    BY <1>0, <2>1 DEF ThreadRecord
<1>4. CASE \E o \in Objects : \/ WorkerLoop(o) \/ WRespond(o) \/ initialize_worker(o)
                              \/ WHeartbeat(o) \/ WFault(o) \/ Stall(o) \/ InitFail(o)
  BY <1>1, <1>3, <1>4 DEF WorkerLoop, WLoopTop, WBlock, WWake, WClaim, WEnterRequest,
     WClearCurrent, WExit, WUnwind, WRespond, initialize_worker, InitStart, InitStoreIdle,
     set_worker_ready, WHeartbeat, WFault, Stall, InitFail
<1>5. CASE distribute_request("main") \/ stop("main")
  <2>1. \E z : th' = [th EXCEPT !["main"] = z]
    BY <1>5 DEF distribute_request, get_ready_worker, Dropped, RotateReadyQueue, WaitReady,
       add_request, stop, StopRequest, StopNotify, StopJoin, StopTimeout
  <2> QED
    BY <1>2, <2>1
<1>6. CASE (\E r \in Requests : ReadRequest(r)) \/ JoinThreads \/ StopNextWorker
  <2>1. \E z : th' = [th EXCEPT !["main"] = z]
    BY <1>6 DEF ReadRequest, JoinThreads, StopNextWorker
  <2> QED
    BY <1>2, <2>1
<1>7. CASE BeginShutdown
  <2>1. v = u \/ v = [u EXCEPT !.pc = "get"]
    BY <1>0, <1>7 DEF BeginShutdown
  <2> QED
    BY <1>0, <2>1 DEF ThreadRecord
<1>q. ASSUME NEW z, th' = [th EXCEPT !["sup"] = z],
             z.pc \notin {"drain", "current", "timeout_error"}
      PROVE  Apart
  BY <1>q DEF TypeOK, Threads
<1>t. th \in [Threads -> ThreadRecord]
  BY DEF TypeOK
<1>8. CASE distribute_request("sup")
  <2>1. CASE get_ready_worker("sup")
    <3>1. CASE RotateReadyQueue("sup")
      <4>1. v.pc = "add"
        BY <1>0, <1>t, <3>1 DEF RotateReadyQueue, ThreadRecord
      <4> QED
        BY <4>1
    <3>2. CASE Dropped("sup") \/ th' = [th EXCEPT !["sup"].pc = "blocking"]
      <4>1. v.pc \in {"redistribute", "blocking"}
        BY <1>0, <1>t, <3>2 DEF Dropped, AfterDistribute, ThreadRecord
      <4> QED
        BY <4>1
    <3> QED
      BY <2>1, <3>1, <3>2 DEF get_ready_worker
  <2>2. CASE WaitReady("sup")
    <3> DEFINE z == [u EXCEPT !.pc = "waiting"]
    <3>1. th' = [th EXCEPT !["sup"] = z]
      BY <2>2 DEF WaitReady
    <3>2. z.pc = "waiting"
      BY <1>0 DEF ThreadRecord
    <3> HIDE DEF z
    <3> QED
      BY <1>q, <3>1, <3>2
  <2>3. CASE add_request("sup")
    <3> DEFINE z == [u EXCEPT !.pc = "redistribute", !.item = Nil, !.target = Nil]
    <3>1. th' = [th EXCEPT !["sup"] = z]
      BY <2>3 DEF add_request, AfterDistribute
    <3>2. z.pc = "redistribute"
      BY <1>0 DEF ThreadRecord
    <3> HIDE DEF z
    <3> QED
      BY <1>q, <3>1, <3>2
  <2> QED
    BY <1>8, <2>1, <2>2, <2>3 DEF distribute_request
<1>r. AfterRecover("sup") \in {"redistribute", "spawn"} /\ AfterStop("sup") = AfterRecover("sup")
  BY DEF AfterStop, AfterRecover
<1>9. CASE stop("sup")
  <2>1. CASE StopRequest("sup")
    <3> DEFINE y == [u EXCEPT !.pc = AfterStop("sup"), !.old = Nil]
               z == [u EXCEPT !.pc = "stopping", !.seen = w[u.old].state]
    <3>1. th' = [th EXCEPT !["sup"] = y] \/ th' = [th EXCEPT !["sup"] = z]
      BY <2>1 DEF StopRequest
    <3>2. y.pc = AfterStop("sup") /\ z.pc = "stopping"
      BY <1>0 DEF ThreadRecord
    <3> HIDE DEF y, z
    <3> QED
      BY <1>q, <1>r, <3>1, <3>2
  <2>2. CASE StopNotify("sup")
    <3> DEFINE z == [u EXCEPT !.pc = "joining", !.seen = Nil]
    <3>1. th' = [th EXCEPT !["sup"] = z]
      BY <2>2 DEF StopNotify
    <3>2. z.pc = "joining"
      BY <1>0 DEF ThreadRecord
    <3> HIDE DEF z
    <3> QED
      BY <1>q, <1>r, <3>1, <3>2
  <2>3. CASE StopJoin("sup") \/ StopTimeout("sup")
    <3> DEFINE z == [u EXCEPT !.pc = AfterStop("sup"), !.old = Nil]
    <3>1. th' = [th EXCEPT !["sup"] = z]
      BY <2>3 DEF StopJoin, StopTimeout
    <3>2. z.pc = AfterStop("sup")
      BY <1>0 DEF ThreadRecord
    <3> HIDE DEF z
    <3> QED
      BY <1>q, <1>r, <3>1, <3>2
  <2> QED
    BY <1>9, <2>1, <2>2, <2>3 DEF stop
<1>10. CASE (\E i \in Slots : monitor_worker_at(i)) \/ SupervisorEnd \/ mark_worker_not_ready
  <2>1. CASE \E i \in Slots : monitor_worker_at(i)
    <3>1. PICK i \in Slots : monitor_worker_at(i)
      BY <2>1
    <3> DEFINE z == [u EXCEPT !.pc = "mark", !.slot = i,
                              !.force = w[workers[i]].state # "Faulted"]
    <3>2. th' = [th EXCEPT !["sup"] = z]
      BY <3>1 DEF monitor_worker_at
    <3>3. z.pc = "mark"
      BY <1>0 DEF ThreadRecord
    <3> HIDE DEF z
    <3> QED
      BY <1>q, <3>2, <3>3
  <2>3. CASE SupervisorEnd
    <3> DEFINE z == [u EXCEPT !.pc = "done"]
    <3>1. th' = [th EXCEPT !["sup"] = z]
      BY <2>3 DEF SupervisorEnd
    <3>2. z.pc = "done"
      BY <1>0 DEF ThreadRecord
    <3> HIDE DEF z
    <3> QED
      BY <1>q, <1>r, <3>1, <3>2
  <2>2. CASE mark_worker_not_ready
    <3> DEFINE e == IF is_shutting_down \/ (ready_list[u.slot] /\ ready_count <= 0)
                    THEN "scan" ELSE "prepare"
               z == [u EXCEPT !.pc = e]
    <3>1. th' = [th EXCEPT !["sup"] = z]
      BY <2>2 DEF mark_worker_not_ready
    <3>2. z.pc = e
      BY <1>0 DEF ThreadRecord
    <3> HIDE DEF z
    <3> QED
      BY <1>q, <3>1, <3>2
  <2> QED
    BY <1>10, <2>1, <2>2, <2>3
<1>11. CASE \/ send_timeout_error \/ abandon_request \/ force_detach_flags
            \/ force_detach_count \/ enforce_detached_worker_limit
            \/ spawn_replacement_worker
  <2>1. CASE send_timeout_error
    <3> DEFINE z == [u EXCEPT !.pc = "abandon"]
    <3>1. th' = [th EXCEPT !["sup"] = z]
      BY <2>1 DEF send_timeout_error
    <3>2. z.pc = "abandon"
      BY <1>0 DEF ThreadRecord
    <3> HIDE DEF z
    <3> QED
      BY <1>q, <1>r, <3>1, <3>2
  <2>2. CASE abandon_request
    <3> DEFINE z == [u EXCEPT !.pc = "detach", !.seen = Nil]
    <3>1. th' = [th EXCEPT !["sup"] = z]
      BY <2>2 DEF abandon_request
    <3>2. z.pc = "detach"
      BY <1>0 DEF ThreadRecord
    <3> HIDE DEF z
    <3> QED
      BY <1>q, <1>r, <3>1, <3>2
  <2>3. CASE force_detach_flags
    <3> DEFINE z == [u EXCEPT !.pc = "detach_count"]
    <3>1. th' = [th EXCEPT !["sup"] = z]
      BY <2>3 DEF force_detach_flags
    <3>2. z.pc = "detach_count"
      BY <1>0 DEF ThreadRecord
    <3> HIDE DEF z
    <3> QED
      BY <1>q, <1>r, <3>1, <3>2
  <2>4. CASE force_detach_count
    <3> DEFINE z == [u EXCEPT !.pc = "limit"]
    <3>1. th' = [th EXCEPT !["sup"] = z]
      BY <2>4 DEF force_detach_count
    <3>2. z.pc = "limit"
      BY <1>0 DEF ThreadRecord
    <3> HIDE DEF z
    <3> QED
      BY <1>q, <1>r, <3>1, <3>2
  <2>5. CASE enforce_detached_worker_limit
    <3> DEFINE z == [u EXCEPT !.pc = AfterRecover("sup"), !.old = Nil]
    <3>1. th' = [th EXCEPT !["sup"] = z]
      BY <2>5 DEF enforce_detached_worker_limit
    <3>2. z.pc = AfterRecover("sup")
      BY <1>0 DEF ThreadRecord
    <3> HIDE DEF z
    <3> QED
      BY <1>q, <1>r, <3>1, <3>2
  <2>6. CASE spawn_replacement_worker
    <3> DEFINE z == [u EXCEPT !.pc = "redistribute"]
    <3>1. th' = [th EXCEPT !["sup"] = z]
      BY <2>6 DEF spawn_replacement_worker
    <3>2. z.pc = "redistribute"
      BY <1>0 DEF ThreadRecord
    <3> HIDE DEF z
    <3> QED
      BY <1>q, <1>r, <3>1, <3>2
  <2> QED
    BY <1>11, <2>1, <2>2, <2>3, <2>4, <2>5, <2>6
<1>12. CASE redistribute_requests
  <2> DEFINE todo == u.recovered
             z1 == [u EXCEPT !.pc = "scan", !.recovered = <<>>]
             z2 == [u EXCEPT !.recovered = Tail(todo)]
             z3 == [u EXCEPT !.recovered = Tail(todo),
                             !.item = [Head(todo) EXCEPT !.retry_count = @ + 1],
                             !.pc = "get"]
  <2>0. u.pc = "redistribute"
    BY <1>12 DEF redistribute_requests
  <2>1. \/ th' = [th EXCEPT !["sup"] = z1]
        \/ th' = [th EXCEPT !["sup"].recovered = Tail(todo)]
        \/ th' = [th EXCEPT !["sup"] = z3]
    BY <1>12, Zenon DEF redistribute_requests
  <2>2. z1.pc = "scan" /\ z2.pc = "redistribute" /\ z3.pc = "get"
    BY <1>0, <2>0 DEF ThreadRecord
  <2>3. CASE th' = [th EXCEPT !["sup"] = z1]
    <3> HIDE DEF z1
    <3> QED
      BY <1>q, <2>2, <2>3
  <2>4. CASE th' = [th EXCEPT !["sup"].recovered = Tail(todo)]
    <3>1. th' = [th EXCEPT !["sup"] = z2]
      BY <2>4
    <3> HIDE DEF z2
    <3> QED
      BY <1>q, <2>2, <3>1
  <2>5. CASE th' = [th EXCEPT !["sup"] = z3]
    <3> HIDE DEF z3
    <3> QED
      BY <1>q, <2>2, <2>5
  <2> QED
    BY <2>1, <2>3, <2>4, <2>5
<1>13. CASE (\E i \in Slots : BackoffElapsed(i)) \/ CloseStdin \/ UNCHANGED vars
  BY <1>1, <1>13 DEF BackoffElapsed, CloseStdin, vars
<1> QED
  BY <1>4, <1>5, <1>6, <1>7, <1>8, <1>9, <1>10, <1>11, <1>12, <1>13
  DEF Next, Supervisor, MainThread, Shutdown, Environment, Terminated, replace_worker, Threads

\* Only two steps change what is in the slots.
LEMMA NextSlots ==
  ASSUME [Next]_vars
  PROVE  workers' = workers \/ prepare_worker_replacement \/ spawn_replacement_worker
<1>1. CASE \E o \in Objects : WorkerLoop(o) \/ WRespond(o) \/ initialize_worker(o)
  BY <1>1 DEF WorkerLoop, WLoopTop, WBlock, WWake, WClaim, WEnterRequest,
     WClearCurrent, WExit, WUnwind, WRespond, initialize_worker, InitStart,
     InitStoreIdle, set_worker_ready, pool
<1>2. CASE Environment \/ UNCHANGED vars
  BY <1>2 DEF Environment, WHeartbeat, WFault, Stall, InitFail, BackoffElapsed,
     CloseStdin, pool, vars
<1>3. CASE \E t \in Threads : distribute_request(t) \/ stop(t)
  BY <1>3 DEF distribute_request, get_ready_worker, WaitReady, add_request, stop,
     StopRequest, StopNotify, StopJoin, StopTimeout, pool
<1>4. CASE \/ \E r \in Requests : ReadRequest(r)
           \/ BeginShutdown \/ JoinThreads \/ StopNextWorker
           \/ \E i \in Slots : monitor_worker_at(i)
           \/ SupervisorEnd
  BY <1>4 DEF ReadRequest, BeginShutdown, JoinThreads, StopNextWorker,
     monitor_worker_at, SupervisorEnd, pool
<1>5. CASE replace_worker
  BY <1>5 DEF replace_worker, mark_worker_not_ready, drain_pending_requests,
     recover_current_request, send_timeout_error, abandon_request, force_detach_flags,
     force_detach_count, enforce_detached_worker_limit, redistribute_requests, pool
<1> QED
  BY <1>1, <1>2, <1>3, <1>4, <1>5
  DEF Next, Supervisor, MainThread, Shutdown, Terminated, Threads

\* A worker that was given up while it executes a request is not looked at again.
LEMMA NextRecoverable ==
  ASSUME TypeOK, ThreadLocals, [Next]_vars,
         NEW n \in Objects, Recoverable(n)', RunsOf(w'[n]) # Nil
  PROVE  Recoverable(n)
<1> DEFINE u == th["sup"]
           v == th'["sup"]
<1>0. /\ n # Nil /\ u \in ThreadRecord /\ "sup" \in Threads
      /\ th \in [Threads -> ThreadRecord] /\ workers \in [Slots -> Objects \cup {Nil}]
  BY PoolAssumption DEF TypeOK, Threads, Objects
<1>1. CASE \E i \in Slots : workers'[i] = n
  <2>1. PICK i \in Slots : workers'[i] = n
    BY <1>1
  <2>2. CASE workers' = workers
    BY <2>1, <2>2 DEF Recoverable
  <2>3. CASE prepare_worker_replacement
    <3>1. workers'[i] = workers[i] \/ workers'[i] = Nil
      BY <1>0, <2>3 DEF prepare_worker_replacement
    <3> QED
      BY <1>0, <2>1, <3>1 DEF Recoverable
  <2>4. CASE spawn_replacement_worker
    <3>1. CASE is_shutting_down
      BY <2>1, <2>4, <3>1 DEF spawn_replacement_worker, Recoverable
    <3>2. CASE ~is_shutting_down
      <4>1. /\ workers' = [workers EXCEPT ![u.slot] = allocated + 1]
            /\ w' = [w EXCEPT ![allocated + 1] = NewWorker(u.slot)]
        BY <2>4, <3>2 DEF spawn_replacement_worker
      <4>2. workers'[i] = workers[i] \/ workers'[i] = allocated + 1
        BY <1>0, <4>1
      <4>3. CASE n = allocated + 1
        <5>1. w'[n] = NewWorker(u.slot)
          BY <4>1, <4>3 DEF TypeOK
        <5>2. RunsOf(w'[n]) = Nil
          BY <5>1 DEF RunsOf, NewWorker
        <5> QED
          BY <5>2
      <4> QED
        BY <2>1, <4>2, <4>3 DEF Recoverable
    <3> QED
      BY <3>1, <3>2
  <2> QED
    BY <2>2, <2>3, <2>4, NextSlots
<1>2. CASE v.pc \in {"drain", "current"} /\ v.old = n
  <2>1. CASE v = u
    BY <1>2, <2>1 DEF Recoverable, Recovering
  <2>2. CASE prepare_worker_replacement
    <3> DEFINE m == replacement_attempts[u.slot] >= max_replace_attempts
               z == [u EXCEPT !.pc = "drain", !.maxed = m, !.old = workers[u.slot]]
    <3>1. th' = [th EXCEPT !["sup"] = z] /\ u.pc = "prepare"
      BY <2>2 DEF prepare_worker_replacement
    <3>2. z.old = workers[u.slot]
      BY <1>0 DEF ThreadRecord
    <3> HIDE DEF z
    <3>3. v.old = workers[u.slot] /\ u.slot \in Slots
      BY <1>0, <3>1, <3>2 DEF ThreadLocals, ReplacePoints
    <3> QED
      BY <1>2, <3>3 DEF Recoverable
  <2>3. CASE drain_pending_requests
    <3> DEFINE z == [u EXCEPT !.pc = "current", !.recovered = w[u.old].queue]
    <3>1. th' = [th EXCEPT !["sup"] = z] /\ u.pc = "drain"
      BY <2>3 DEF drain_pending_requests
    <3>2. z.old = u.old
      BY <1>0 DEF ThreadRecord
    <3> HIDE DEF z
    <3> QED
      BY <1>0, <1>2, <3>1, <3>2 DEF Recoverable, Recovering
  <2>4. CASE recover_current_request
    <3> DEFINE e == IF u.force THEN "detach" ELSE "stop"
               c == w[u.old].current
               x == [u EXCEPT !.pc = e]
               y == [u EXCEPT !.pc = "timeout_error", !.seen = c]
               z == [u EXCEPT !.pc = e, !.recovered = Append(u.recovered,
                                 [data |-> c, retry_count |-> 0])]
    <3>1. \E q \in {x, y, z} : th' = [th EXCEPT !["sup"] = q]
      BY <2>4 DEF recover_current_request
    <3>2. x.pc = e /\ y.pc = "timeout_error" /\ z.pc = e
      BY <1>0 DEF ThreadRecord
    <3>3. e \notin {"drain", "current"}
      OBVIOUS
    <3> HIDE DEF x, y, z, e
    <3> QED
      BY <1>0, <1>2, <3>1, <3>2, <3>3
  <2> QED
    BY <1>2, <2>1, <2>2, <2>3, <2>4, NextSupervisor
<1> QED
  BY <1>1, <1>2 DEF Recoverable, Recovering

\* A step that answers only what its worker is done with, and reports only
\* what nobody will take from its worker, leaves what it keeps fit.
LEMMA FitFrame ==
  ASSUME TypeOK, ThreadLocals, [Next]_vars,
         \A r \in Requests : req[r].received => req'[r].received,
         \A r \in Requests : \A a, n, k : Held(r, a, n, k)' =>
           /\ \/ req'[r].responses = req[r].responses
              \/ a = "run" /\ w'[n].pc = "finished"
           /\ Reported(r)' => Reported(r) \/ (a = "run" /\ ~Recoverable(n)')
  PROVE  FitKept
<1> SUFFICES ASSUME NEW r \in Requests, NEW a, NEW n, NEW k, Held(r, a, n, k)', Fit(r, a, n)
             PROVE  Fit(r, a, n)'
  BY DEF FitKept
<1>0. r # Nil
  BY PoolAssumption
<1>1. a = "run" => n \in Objects /\ RunsOf(w'[n]) = r
  BY DEF Held, RunsOf
<1>2. a = "run" /\ w[n].pc = "finished" => w'[n].pc = "finished"
  <2>1. SUFFICES ASSUME a = "run", w[n].pc = "finished" PROVE w'[n].pc = "finished"
    OBVIOUS
  <2>2. Onward(w[n], w'[n])
    BY <1>1, <2>1, NextWorker DEF WEnterRequest
  <2> QED
    BY <1>0, <1>1, <2>1, <2>2 DEF Onward, RunsOf
<1>3. a = "run" /\ Recoverable(n)' => Recoverable(n)
  BY <1>0, <1>1, NextRecoverable
<1>4. req'[r].received
  BY DEF Fit
<1>5. req'[r].responses = 0 \/ (a = "run" /\ w'[n].pc = "finished")
  BY <1>2 DEF Fit
<1>6. ~Reported(r)' \/ (a = "run" /\ ~Recoverable(n)')
  BY <1>3 DEF Fit
<1> QED
  BY <1>4, <1>5, <1>6 DEF Fit

\* The worker's own response leaves the request fit for the worker alone.
LEMMA RespondFits ==
  ASSUME TypeOK, ThreadLocals, HeldOnce, NEW o \in Objects, WRespond(o), [Next]_vars
  PROVE  FitKept
<1> DEFINE x == w[o]
           y == [x EXCEPT !.stale = FALSE, !.pc = "finished"]
<1>0. x \in WorkerRecord /\ w \in [Objects -> WorkerRecord]
  BY DEF TypeOK
<1>1. w' = [w EXCEPT ![o] = y] /\ x.pc = "running" /\ th' = th /\ workers' = workers
  BY DEF WRespond, pool
<1>2. y.pc = "finished" /\ y.hand = x.hand /\ y.queue = x.queue
  BY <1>0 DEF WorkerRecord
<1> HIDE DEF y
<1>3. \A p \in Objects : w'[p] = IF p = o THEN y ELSE w[p]
  BY <1>0, <1>1
<1>4. \A p \in Objects : Calm(w[p], w'[p])
  <2>1. \A p : Calm(w[p], w[p])
    BY DEF Calm
  <2>2. Calm(x, y)
    BY <1>1, <1>2 DEF Calm, RunsOf, LimboOf, Dead
  <2> QED
    BY <1>3, <2>1, <2>2
<1>5. SameRecovery(th["sup"], th'["sup"]) /\ SameHands
  BY <1>1, SameThreadsHeld
<1>6. ASSUME NEW r \in Requests, NEW a, NEW n, NEW k, Held(r, a, n, k)', r = x.hand
      PROVE  a = "run" /\ w'[n].pc = "finished"
  <2>1. Held(r, a, n, k)
    BY <1>1, <1>4, <1>5, <1>6, CalmPlaces
  <2>2. Held(r, "run", o, 0)
    BY <1>1, <1>6 DEF Held, RunsOf
  <2>3. a = "run" /\ n = o
    BY <2>1, <2>2 DEF HeldOnce, Once
  <2> QED
    BY <1>2, <1>3, <2>3
<1>7. \A r \in Requests :
        /\ req'[r].received = req[r].received /\ req'[r].timeouts = req[r].timeouts
        /\ r # x.hand => req'[r].responses = req[r].responses
  BY ShownSteps
<1>8. \A r \in Requests : Reported(r)' => Reported(r)
  BY <1>1, <1>7 DEF Reported
<1> QED
  BY <1>6, <1>7, <1>8, FitFrame

\* What recovery finds in current_request_data is with the worker, or left by it.
LEMMA CurrentIsHeld ==
  ASSUME ThreadLocals, FaultsEnded, th["sup"].pc = "current",
         NEW c \in Requests, w[th["sup"].old].current = c
  PROVE  Held(c, "run", th["sup"].old, 0) \/ Held(c, "limbo", th["sup"].old, 0)
<1> DEFINE o == th["sup"].old
<1>1. o \in Objects /\ c # Nil
  BY PoolAssumption DEF ThreadLocals, RecoverPoints
<1>2. CurrentOk(w[o])
  BY <1>1 DEF FaultsEnded
<1>3. CASE Dead(w[o])
  BY <1>1, <1>3 DEF Held, LimboOf, Recoverable, Recovering
<1>4. CASE ~Dead(w[o])
  <2>1. w[o].pc \in {"claimed", "running", "finished"} /\ w[o].hand = c
    BY <1>1, <1>2, <1>4 DEF CurrentOk, Dead
  <2> QED
    BY <1>1, <2>1 DEF Held, RunsOf
<1> QED
  BY <1>3, <1>4

\* The supervisor announces a timeout error only for what it finds with a hung worker.
LEMMA NextTimeout ==
  ASSUME TypeOK, [Next]_vars, th'["sup"].pc = "timeout_error"
  PROVE  \/ th'["sup"] = th["sup"]
         \/ /\ recover_current_request /\ th["sup"].force
            /\ w[th["sup"].old].current # Nil
<1> DEFINE u == th["sup"]
           v == th'["sup"]
           c == w[u.old].current
<1>0. u \in ThreadRecord /\ "sup" \in Threads /\ th \in [Threads -> ThreadRecord]
  BY DEF TypeOK, Threads
<1>1. CASE prepare_worker_replacement \/ drain_pending_requests
  <2> DEFINE m == replacement_attempts[u.slot] >= max_replace_attempts
             y == [u EXCEPT !.pc = "drain", !.maxed = m, !.old = workers[u.slot]]
             z == [u EXCEPT !.pc = "current", !.recovered = w[u.old].queue]
  <2>1. th' = [th EXCEPT !["sup"] = y] \/ th' = [th EXCEPT !["sup"] = z]
    BY <1>1 DEF prepare_worker_replacement, drain_pending_requests
  <2>2. y.pc = "drain" /\ z.pc = "current"
    BY <1>0 DEF ThreadRecord
  <2> HIDE DEF y, z
  <2>3. v.pc \in {"drain", "current"}
    BY <1>0, <2>1, <2>2
  <2> QED
    BY <2>3
<1>2. CASE recover_current_request /\ ~(u.force /\ c # Nil)
  <2> DEFINE e == IF u.force THEN "detach" ELSE "stop"
             x == [u EXCEPT !.pc = e]
             z == [u EXCEPT !.pc = e, !.recovered = Append(u.recovered,
                               [data |-> c, retry_count |-> 0])]
  <2>1. \E q \in {x, z} : th' = [th EXCEPT !["sup"] = q]
    BY <1>2 DEF recover_current_request
  <2>2. x.pc = e /\ z.pc = e /\ e # "timeout_error"
    BY <1>0 DEF ThreadRecord
  <2> HIDE DEF x, z, e
  <2> QED
    BY <1>0, <2>1, <2>2
<1> QED
  BY <1>1, <1>2, NextSupervisor

\* A request reported as timed out is left to the worker given up, and to it alone.
LEMMA TimeoutFits ==
  ASSUME TypeOK, ThreadLocals, Replacing, FaultsEnded, HeldOnce,
         recover_current_request, th["sup"].force, w[th["sup"].old].current # Nil,
         [Next]_vars
  PROVE  FitKept
<1> DEFINE u == th["sup"]
<1>0. /\ u \in ThreadRecord /\ "sup" \in Threads /\ th \in [Threads -> ThreadRecord]
      /\ u.pc = "current" /\ u.old \in Objects /\ w[u.old] \in WorkerRecord
  BY DEF TypeOK, Threads, recover_current_request, ThreadLocals, RecoverPoints
<1>a. PICK old \in Objects : old = u.old
  BY <1>0
<1>b. PICK c \in Requests : c = w[old].current
  BY <1>0, <1>a DEF WorkerRecord
<1> DEFINE v == [u EXCEPT !.pc = "timeout_error", !.seen = c]
<1>1. /\ th' = [th EXCEPT !["sup"] = v]
      /\ w' = w /\ workers' = workers /\ req' = req
  BY <1>a, <1>b DEF recover_current_request, pool, objs
<1>2. /\ v.pc = "timeout_error" /\ v.seen = c
      /\ v.item = u.item /\ v.recovered = u.recovered
  BY <1>0 DEF ThreadRecord
<1> HIDE DEF v
<1>3. th'["sup"] = v /\ SameHands /\ SameRecovery(u, th'["sup"])
  BY <1>0, <1>1, <1>2 DEF SameHands, SameRecovery, Threads
<1>4. \A p \in Objects : Calm(w[p], w'[p])
  BY <1>1 DEF Calm
<1>5. ~Recoverable(old)'
  BY <1>0, <1>a, <1>1, <1>2, <1>3 DEF Recoverable, Recovering, Replacing, HoldingOld,
     RecoverPoints
<1>6. Held(c, "run", old, 0) \/ Held(c, "limbo", old, 0)
  BY <1>0, <1>a, <1>b, CurrentIsHeld
<1>7. ASSUME NEW a, NEW n, NEW k, Held(c, a, n, k)'
      PROVE  a = "run" /\ ~Recoverable(n)'
  <2>1. Held(c, a, n, k)
    BY <1>1, <1>3, <1>4, <1>7, CalmPlaces
  <2>2. a \in {"run", "limbo"} /\ n = old
    BY <1>6, <2>1 DEF HeldOnce, Once
  <2>3. a # "limbo"
    BY <1>5, <1>7, <2>2 DEF Held, LimboOf, Dead
  <2> QED
    BY <1>5, <2>2, <2>3
<1>8. \A r \in Requests : Reported(r)' => Reported(r) \/ r = c
  BY <1>1, <1>2, <1>3 DEF Reported
<1> QED
  BY <1>1, <1>7, <1>8, FitFrame

\* Every step leaves what it keeps fit for its place.
LEMMA NextFit ==
  ASSUME TypeOK, ThreadLocals, Replacing, FaultsEnded, HeldOnce, [Next]_vars
  PROVE  FitKept
<1> DEFINE u == th["sup"]
           v == th'["sup"]
<1>0. /\ u \in ThreadRecord /\ "sup" \in Threads /\ th \in [Threads -> ThreadRecord]
      /\ req \in [Requests -> RequestRecord]
  BY DEF TypeOK, Threads
<1>1. CASE \E o \in Objects : WRespond(o)
  BY <1>1, RespondFits
<1>2. CASE recover_current_request /\ u.force /\ w[u.old].current # Nil
  BY <1>2, TimeoutFits
<1>3. ASSUME ~\E o \in Objects : WRespond(o),
             ~(recover_current_request /\ u.force /\ w[u.old].current # Nil)
      PROVE  FitKept
  <2>1. ASSUME NEW r \in Requests
        PROVE  /\ req[r].received => req'[r].received
               /\ req'[r].responses = req[r].responses
               /\ \/ req'[r].timeouts = req[r].timeouts
                  \/ u.pc = "timeout_error" /\ u.seen = r
    <3>1. CASE Unseen
      BY <3>1 DEF Unseen
    <3>2. CASE \E o \in Objects : WEnterRequest(o)
      BY <3>2, ShownSteps
    <3>3. CASE send_timeout_error
      BY <3>3, ShownSteps DEF send_timeout_error
    <3>4. CASE \E s \in Requests : ReadRequest(s)
      BY <3>4, ShownSteps
    <3> QED
      BY <1>3, <3>1, <3>2, <3>3, <3>4, NextShows
  <2>2. v.pc = "timeout_error" => v = u
    BY <1>3, NextTimeout
  <2>3. \A r \in Requests : Reported(r)' => Reported(r)
    <3> SUFFICES ASSUME NEW r \in Requests, Reported(r)' PROVE Reported(r)
      OBVIOUS
    <3> QED
      BY <2>1, <2>2 DEF Reported
  <2> QED
    BY <2>1, <2>3, FitFrame
<1> QED
  BY <1>1, <1>2, <1>3

\* A request that is being executed was asked, and not answered yet.
LEMMA HandFit ==
  ASSUME HeldOnce, NEW o \in Objects, w[o].pc \in {"claimed", "running"},
         NEW r \in Requests, w[o].hand = r
  PROVE  req[r].received /\ req[r].responses = 0
<1>1. Held(r, "run", o, 0)
  BY DEF Held, RunsOf
<1>2. Fit(r, "run", o)
  BY <1>1 DEF HeldOnce, Once
<1> QED
  BY <1>2 DEF Fit

\* Every step keeps what the observer has noted.
LEMMA NextObserved ==
  ASSUME TypeOK, TypeOK', ThreadLocals, FaultsEnded, HeldOnce, Observed, [Next]_vars
  PROVE  Observed'
<1> DEFINE u == th["sup"]
           v == th'["sup"]
<1>0. req \in [Requests -> RequestRecord] /\ req' \in [Requests -> RequestRecord]
  BY DEF TypeOK
<1>2. ASSUME NEW r \in Requests, ~req'[r].received
      PROVE  req'[r].runs = 0 /\ req'[r].responses = 0 /\ req'[r].timeouts = 0
  <2>1. CASE Unseen
    BY <1>2, <2>1 DEF Unseen, Observed
  <2>2. CASE \E o \in Objects : WEnterRequest(o)
    <3>1. PICK o \in Objects : WEnterRequest(o)
      BY <2>2
    <3>2. ~req[r].received
      BY <1>2, <3>1, ShownSteps
    <3>3. r # w[o].hand
      BY <3>1, <3>2, HandFit DEF WEnterRequest
    <3> QED
      BY <3>1, <3>2, <3>3, ShownSteps DEF Observed
  <2>3. CASE \E o \in Objects : WRespond(o)
    <3>1. PICK o \in Objects : WRespond(o)
      BY <2>3
    <3>2. ~req[r].received
      BY <1>2, <3>1, ShownSteps
    <3>3. r # w[o].hand
      BY <3>1, <3>2, HandFit DEF WRespond
    <3> QED
      BY <3>1, <3>2, <3>3, ShownSteps DEF Observed
  <2>4. CASE send_timeout_error
    <3>1. ~req[r].received
      BY <1>2, <2>4, ShownSteps
    <3>2. r # u.seen
      BY <2>4, <3>1 DEF Observed, send_timeout_error
    <3> QED
      BY <2>4, <3>1, <3>2, ShownSteps DEF Observed
  <2>5. CASE \E s \in Requests : ReadRequest(s)
    <3>1. PICK s \in Requests : ReadRequest(s)
      BY <2>5
    <3>2. ~req[r].received
      BY <1>2, <3>1, ShownSteps
    <3> QED
      BY <3>1, <3>2, ShownSteps DEF Observed
  <2> QED
    BY <2>1, <2>2, <2>3, <2>4, <2>5, NextShows
<1>3. ASSUME v.pc = "timeout_error"
      PROVE  req'[v.seen].received /\ req'[v.seen].timeouts = 0
  <2>1. CASE v = u
    <3>1. ~send_timeout_error
      <4>1. send_timeout_error => v = [u EXCEPT !.pc = "abandon"]
        BY DEF send_timeout_error, TypeOK, Threads
      <4>2. [u EXCEPT !.pc = "abandon"].pc = "abandon"
        BY DEF TypeOK, Threads, ThreadRecord
      <4> QED
        BY <1>3, <4>1, <4>2
    <3>2. u.seen \in Requests /\ req[u.seen].received /\ req[u.seen].timeouts = 0
      BY <1>3, <2>1 DEF Observed, ThreadLocals
    <3>3. \A r \in Requests : /\ req[r].received => req'[r].received
                              /\ req'[r].timeouts = req[r].timeouts
      <4>1. CASE Unseen
        BY <4>1 DEF Unseen
      <4>2. CASE \E o \in Objects : WEnterRequest(o) \/ WRespond(o)
        BY <4>2, ShownSteps
      <4>3. CASE \E s \in Requests : ReadRequest(s)
        BY <4>3, ShownSteps
      <4> QED
        BY <3>1, <4>1, <4>2, <4>3, NextShows
    <3> QED
      BY <2>1, <3>2, <3>3
  <2>2. CASE recover_current_request /\ u.force /\ w[u.old].current # Nil
    <3>1. /\ u.pc = "current" /\ u.old \in Objects /\ req' = req
          /\ w[u.old].current \in Requests
      BY <2>2 DEF recover_current_request, ThreadLocals, RecoverPoints, TypeOK, WorkerRecord
    <3>2. PICK c \in Requests : c = w[u.old].current
      BY <3>1
    <3>3. v.seen = c
      BY <2>2, <3>2 DEF recover_current_request, TypeOK, Threads, ThreadRecord
    <3>4. Fit(c, "run", u.old) \/ Fit(c, "limbo", u.old)
      BY <3>1, <3>2, CurrentIsHeld DEF HeldOnce, Once
    <3>5. req[c].received /\ ~Reported(c)
      BY <3>1, <3>4 DEF Fit, Recoverable, Recovering
    <3> QED
      BY <1>0, <3>1, <3>3, <3>5 DEF Reported, RequestRecord
  <2> QED
    BY <1>3, <2>1, <2>2, NextTimeout
<1>4. ASSUME NEW r \in Requests, NEW o \in Objects, w'[o].pc = "running", w'[o].hand = r
      PROVE  req'[r].runs > 0
  <2>1. CASE WEnterRequest(o)
    <3>1. w'[o].hand = w[o].hand
      BY <2>1 DEF WEnterRequest, TypeOK, WorkerRecord
    <3>2. req'[r].runs = req[r].runs + 1
      BY <1>4, <2>1, <3>1, ShownSteps
    <3> QED
      BY <1>0, <3>2 DEF RequestRecord
  <2>2. CASE Onward(w[o], w'[o])
    <3>1. req[r].runs > 0
      BY <1>4, <2>2 DEF Onward, Observed
    <3>2. req'[r].runs \in {req[r].runs, req[r].runs + 1}
      BY NextShows, ShownSteps DEF Unseen
    <3> QED
      BY <1>0, <3>1, <3>2 DEF RequestRecord
  <2> QED
    BY <2>1, <2>2, NextWorker
<1> QED
  BY <1>2, <1>3, <1>4 DEF Observed

-----------------------------------------------------------------------------
(* The main thread, and the invariant *)

\* A request comes into the pool when it is read, and never again.
LEMMA ReadHeld ==
  ASSUME TypeOK, ThreadLocals, FaultsEnded, HeldOnce, FitKept, Observed,
         NEW s \in Requests, ReadRequest(s)
  PROVE  FaultsEnded' /\ HeldOnce'
<1> DEFINE u == th["main"]
           g == [data |-> s, retry_count |-> 0]
           v == [u EXCEPT !.pc = "get", !.item = g]
<1>0. /\ u \in ThreadRecord /\ u.pc = "read" /\ w' = w /\ workers' = workers
      /\ ~req[s].received /\ req'[s].received
  BY DEF TypeOK, Threads, ReadRequest, pool, objs, RequestRecord
<1>1. v.pc = "get" /\ v.item = g /\ g.data = s
  BY <1>0 DEF ThreadRecord
<1>2. th' = [th EXCEPT !["main"] = v]
  BY DEF ReadRequest
<1> HIDE DEF v, g
<1>3. th'["main"] = v /\ th'["sup"] = th["sup"]
  BY <1>2 DEF TypeOK, Threads
<1>4. SameRecovery(th["sup"], th'["sup"]) /\ (Stopped => Stopped')
  BY <1>0, <1>3 DEF SameRecovery, Stopped, StopPhase
<1>5. FaultsEnded'
  <2>1. \A p \in Objects : CurrentOk(w'[p])
    BY <1>0 DEF FaultsEnded
  <2> QED
    BY <1>0, <1>4, <2>1, FaultsFrame
<1>6. \A p \in Objects : Recoverable(p)' => Recoverable(p)
  BY <1>0, <1>4, RecoverableKept
<1>7. ASSUME NEW r \in Requests, NEW a, NEW n, NEW k, Held(r, a, n, k)'
      PROVE  \/ r = s /\ a = "item" /\ n = "main" /\ k = 0
             \/ Held(r, a, n, k)
  <2>1. CASE a \in {"queue", "run"}
    BY <1>0, <1>7, <2>1 DEF Held
  <2>2. CASE a = "limbo"
    <3>1. n \in Objects /\ k = 0 /\ LimboOf(w'[n]) = r /\ Recoverable(n)'
      BY <1>7, <2>2 DEF Held, LimboOf, Dead
    <3> QED
      BY <1>0, <1>6, <2>2, <3>1 DEF Held
  <2>3. CASE a = "item"
    BY <1>1, <1>3, <1>7, <2>3 DEF Held, Threads
  <2>4. CASE a = "recovered"
    BY <1>3, <1>7, <2>4 DEF Held
  <2> QED
    BY <1>7, <2>1, <2>2, <2>3, <2>4 DEF Held
<1>8. ASSUME NEW r \in Requests PROVE Once(r)'
  <2>1. CASE r = s
    <3>1. \A a, n, k : ~Held(r, a, n, k)
      BY <1>0, <2>1 DEF HeldOnce, Once, Fit
    <3>2. req'[r].received /\ req'[r].responses = 0 /\ req'[r].timeouts = 0
      BY <1>0, <2>1, ShownSteps DEF Observed
    <3>3. ~Reported(r)'
      BY <1>0, <1>3, <2>1, <3>2 DEF Observed, Reported
    <3> QED
      BY <1>7, <2>1, <3>1, <3>2, <3>3 DEF Once, Fit
  <2>2. CASE r # s
    BY <1>7, <2>2, Stayed
  <2> QED
    BY <2>1, <2>2
<1> QED
  BY <1>5, <1>8 DEF HeldOnce

\* shutdown() between the joins carries no request.
LEMMA ShutdownHeld ==
  ASSUME TypeOK, ThreadLocals, FaultsEnded, HeldOnce, FitKept,
         BeginShutdown \/ JoinThreads \/ StopNextWorker
  PROVE  FaultsEnded' /\ HeldOnce'
<1> DEFINE u == th["main"]
           z == th["sup"]
<1>0. u \in ThreadRecord /\ z \in ThreadRecord /\ "main" \in Threads
  BY DEF TypeOK, Threads
<1>1. w' = w /\ workers' = workers
  BY DEF BeginShutdown, JoinThreads, StopNextWorker, pool, objs
<1>2. SUFFICES SameRecovery(z, th'["sup"]) /\ SameHands /\ (Stopped => Stopped')
  BY <1>1, NoHeldWorker
<1>3. CASE BeginShutdown
  <2>1. /\ th'["main"] = [u EXCEPT !.pc = "join"] /\ u.pc = "read"
        /\ \/ th'["sup"] = z
           \/ th'["sup"] = [z EXCEPT !.pc = "get"]
    BY <1>3 DEF BeginShutdown, Threads
  <2>2. /\ th'["main"].item = u.item
        /\ [z EXCEPT !.pc = "get"].item = z.item
        /\ [z EXCEPT !.pc = "get"].recovered = z.recovered
        /\ [z EXCEPT !.pc = "get"].pc = "get"
    BY <1>0, <2>1 DEF ThreadRecord
  <2> QED
    BY <2>1, <2>2 DEF SameRecovery, SameHands, Threads, Stopped, StopPhase
<1>4. CASE JoinThreads \/ StopNextWorker
  <2>1. SUFFICES \E v : /\ th' = [th EXCEPT !["main"] = v] /\ v.item = u.item
                        /\ Stopped => v.pc \in StopPhase
    <3>1. PICK v : /\ th' = [th EXCEPT !["main"] = v] /\ v.item = u.item
                   /\ Stopped => v.pc \in StopPhase
      BY <2>1
    <3>2. SameRecovery(z, th'["sup"]) /\ SameHands
      BY <1>0, <3>1, OneThreadHeld
    <3>3. th'["main"] = v
      BY <3>1 DEF TypeOK, Threads
    <3> QED
      BY <3>1, <3>2, <3>3 DEF Stopped
  <2>2. CASE JoinThreads
    <3> DEFINE v == [u EXCEPT !.pc = "stop_next", !.slot = 0]
    <3>1. th' = [th EXCEPT !["main"] = v]
      BY <2>2 DEF JoinThreads
    <3>2. v.item = u.item /\ v.pc = "stop_next"
      BY <1>0 DEF ThreadRecord
    <3> HIDE DEF v
    <3> QED
      BY <3>1, <3>2 DEF StopPhase
  <2>3. CASE th' = [th EXCEPT !["main"].pc = "done"]
    <3> DEFINE v == [u EXCEPT !.pc = "done"]
    <3>1. th' = [th EXCEPT !["main"] = v]
      BY <2>3
    <3>2. v.item = u.item /\ v.pc = "done"
      BY <1>0 DEF ThreadRecord
    <3> HIDE DEF v
    <3> QED
      BY <3>1, <3>2 DEF StopPhase
  <2>4. ASSUME NEW i, NEW c \in {"stop_next", "stop"},
               th' = [th EXCEPT !["main"] = [u EXCEPT !.slot = i, !.old = workers[i], !.pc = c]]
        PROVE  \E v : /\ th' = [th EXCEPT !["main"] = v] /\ v.item = u.item
                      /\ Stopped => v.pc \in StopPhase
    <3> DEFINE v == [u EXCEPT !.slot = i, !.old = workers[i], !.pc = c]
    <3>1. v.item = u.item /\ v.pc = c
      BY <1>0 DEF ThreadRecord
    <3> HIDE DEF v
    <3> QED
      BY <2>4, <3>1 DEF StopPhase, v
  <2> QED
    BY <1>4, <2>2, <2>3, <2>4 DEF StopNextWorker
<1> QED
  BY <1>3, <1>4

\* Neither distributing nor stopping takes main back before its last phase.
LEMMA StoppedKept ==
  ASSUME TypeOK, NEW t \in Threads, distribute_request(t) \/ stop(t), Stopped
  PROVE  Stopped'
<1> DEFINE u == th["main"]
<1>0. u \in ThreadRecord /\ u.pc \in StopPhase
  BY DEF TypeOK, Threads, Stopped
<1>1. CASE t = "sup"
  <2>1. PICK v : th' = [th EXCEPT !["sup"] = v]
    BY <1>1 DEF distribute_request, get_ready_worker, Dropped, RotateReadyQueue, WaitReady,
       add_request, stop, StopRequest, StopNotify, StopJoin, StopTimeout
  <2> QED
    BY <2>1 DEF TypeOK, Threads, Stopped
<1>2. CASE t = "main"
  <2>1. stop("main")
    BY <1>0, <1>2 DEF distribute_request, get_ready_worker, WaitReady, add_request, StopPhase
  <2>2. \/ th'["main"] = [u EXCEPT !.pc = "stop_next", !.old = Nil]
        \/ th'["main"] = [u EXCEPT !.pc = "stopping", !.seen = w[u.old].state]
        \/ th'["main"] = [u EXCEPT !.pc = "joining", !.seen = Nil]
    BY <2>1 DEF stop, StopRequest, StopNotify, StopJoin, StopTimeout, AfterStop, TypeOK, Threads
  <2>3. th'["main"].pc \in {"stop_next", "stopping", "joining"}
    BY <1>0, <2>2 DEF ThreadRecord
  <2> QED
    BY <2>3 DEF Stopped, StopPhase
<1> QED
  BY <1>1, <1>2 DEF Threads

\* Every step of the pool keeps each request in one place.
LEMMA NextHeld ==
  ASSUME Inductive, OwnershipInv, FaultsEnded, HeldOnce, Observed, [Next]_vars
  PROVE  FaultsEnded' /\ HeldOnce'
<1>0. TypeOK /\ ThreadLocals /\ Ownership /\ Replacing
  BY DEF Inductive, OwnershipInv
<1>1. FitKept
  BY <1>0, NextFit
<1>2. CASE \E o \in Objects : \/ WorkerLoop(o) \/ WRespond(o)
                              \/ WHeartbeat(o) \/ WFault(o) \/ Stall(o)
  BY <1>0, <1>1, <1>2, WorkerStepHeld
<1>3. CASE \E o \in Objects : initialize_worker(o) \/ InitFail(o)
  BY <1>0, <1>1, <1>3, InitializerHeld
<1>4. CASE \E t \in Threads : distribute_request(t)
  BY <1>0, <1>1, <1>4, StoppedKept, DistributeHeld
<1>5. CASE \E t \in Threads : stop(t)
  BY <1>0, <1>1, <1>5, StoppedKept, StopHeld
<1>6. CASE (\E i \in Slots : monitor_worker_at(i)) \/ SupervisorEnd \/ mark_worker_not_ready
  BY <1>0, <1>1, <1>6, MonitorHeld
<1>7. CASE \/ prepare_worker_replacement \/ drain_pending_requests
           \/ recover_current_request \/ spawn_replacement_worker
           \/ redistribute_requests
  BY <1>0, <1>1, <1>7, PrepareHeld, DrainHeld, CurrentHeld, SpawnHeld, RedistributeHeld
<1>8. CASE \/ send_timeout_error \/ abandon_request
           \/ force_detach_flags \/ force_detach_count
           \/ enforce_detached_worker_limit
  BY <1>0, <1>1, <1>8, DetachHeld
<1>9. CASE \E r \in Requests : ReadRequest(r)
  BY <1>0, <1>1, <1>9, ReadHeld
<1>10. CASE BeginShutdown \/ JoinThreads \/ StopNextWorker
  BY <1>0, <1>1, <1>10, ShutdownHeld
<1>11. CASE (\E i \in Slots : BackoffElapsed(i)) \/ CloseStdin \/ UNCHANGED vars
  <2>1. w' = w /\ workers' = workers /\ th' = th
    BY <1>11 DEF BackoffElapsed, CloseStdin, vars, pool, objs
  <2> QED
    BY <1>0, <1>1, <2>1, SameThreadsHeld, NoHeldWorker
<1> QED
  BY <1>2, <1>3, <1>4, <1>5, <1>6, <1>7, <1>8, <1>9, <1>10, <1>11
  DEF Next, Supervisor, MainThread, Shutdown, Environment, Terminated, replace_worker, Threads

\* The constructor leaves no request anywhere and no worker faulted.
LEMMA InitHeld == Init => FaultsEnded /\ HeldOnce /\ Observed
<1> SUFFICES ASSUME Init PROVE FaultsEnded /\ HeldOnce /\ Observed
  OBVIOUS
<1>1. TypeOK /\ ThreadLocals
  BY InitInductive DEF Inductive
<1>2. ASSUME NEW o \in Objects
      PROVE  /\ w[o].queue = <<>> /\ w[o].current = Nil
             /\ w[o].pc = "none" /\ w[o].state = "Starting"
  BY <1>2 DEF Init, NewWorker
<1>3. ASSUME NEW t \in Threads
      PROVE  th[t].pc \in {"read", "scan"} /\ th[t].item = Nil /\ th[t].recovered = <<>>
  BY <1>3 DEF Init, Idling
<1>4. FaultsEnded
  <2>1. \A o \in Objects : CurrentOk(w[o])
    BY <1>2 DEF CurrentOk
  <2>2. \A i \in Slots : workers[i] # Nil => workers[i] \in Objects
    BY <1>1 DEF TypeOK
  <2>3. th["sup"].pc \in {"read", "scan"}
    BY <1>3 DEF Threads
  <2> QED
    BY <1>2, <2>1, <2>2, <2>3 DEF FaultsEnded
<1>5. ASSUME NEW r \in Requests, NEW a, NEW n, NEW k, Held(r, a, n, k) PROVE FALSE
  <2>1. r # Nil
    BY PoolAssumption
  <2>2. \A o \in Objects : RunsOf(w[o]) = Nil /\ LimboOf(w[o]) = Nil
    BY <1>2 DEF RunsOf, LimboOf, Dead
  <2>3. th["sup"].recovered = <<>> /\ \A t \in Threads : th[t].item = Nil
    BY <1>3 DEF Threads
  <2> QED
    BY <1>2, <1>5, <2>1, <2>2, <2>3 DEF Held, RunsOf, LimboOf, Dead
<1>6. HeldOnce
  BY <1>5 DEF HeldOnce, Once
<1>7. Observed
  <2>1. \A r \in Requests : req[r].runs = 0 /\ req[r].responses = 0 /\ req[r].timeouts = 0
    BY DEF Init
  <2>2. th["sup"].pc # "timeout_error"
    BY <1>3 DEF Threads
  <2> QED
    BY <1>2, <2>1, <2>2 DEF Observed
<1> QED
  BY <1>4, <1>6, <1>7

\* A request is in at most one place of the pool, and there only while it may
\* still be answered; a worker that is replaced after a fault has ended its
\* loop, so that the request in its current_request_data is nobody else's.
THEOREM PoolHeldOnce == Spec => [](FaultsEnded /\ HeldOnce /\ Observed)
<1>1. /\ Inductive /\ OwnershipInv /\ (FaultsEnded /\ HeldOnce /\ Observed)
      /\ Inductive' /\ [Next]_vars
      => (FaultsEnded /\ HeldOnce /\ Observed)'
  BY NextHeld, NextObserved DEF Inductive
<1> QED
  BY <1>1, InitHeld, PoolInductive, PoolOwnership, PTL DEF Spec

\* A set with at most one element has at most one element by count.
LEMMA AtMostOne ==
  ASSUME NEW S, \A a, b \in S : a = b
  PROVE  Cardinality(S) \in {0, 1} /\ (Cardinality(S) = 1 => S # {})
<1>1. CASE S = {}
  BY <1>1, FS_EmptySet
<1>2. CASE S # {}
  <2>1. PICK a : a \in S
    BY <1>2
  <2>2. S = {a}
    BY <2>1
  <2>3. Cardinality(S) = 1
    BY <2>2, FS_Singleton
  <2> QED
    BY <1>2, <2>3
<1> QED
  BY <1>1, <1>2

\* The places of Copies are places of Held.
LEMMA CopiesBounded ==
  ASSUME NEW r \in Requests, Once(r)
  PROVE  Copies(r) <= 1
<1> DEFINE Q == UNION {{<<o, k>> : k \in {j \in DOMAIN w[o].queue :
                                          w[o].queue[j].data = r}} : o \in Objects}
           X == {o \in Objects : Executing(o, r)}
           I == {t \in Threads : th[t].item # Nil /\ th[t].item.data = r}
           R == {k \in DOMAIN th["sup"].recovered : th["sup"].recovered[k].data = r}
<1>0. Copies(r) = Cardinality(Q) + Cardinality(X) + Cardinality(I) + Cardinality(R)
  BY DEF Copies
<1>1. \A e \in Q : \E o, k : e = <<o, k>> /\ Held(r, "queue", o, k)
  BY DEF Held
<1>2. \A o \in X : Held(r, "run", o, 0)
  BY DEF Held, Executing, RunsOf
<1>3. \A t \in I : Held(r, "item", t, 0)
  BY DEF Held
<1>4. \A k \in R : Held(r, "recovered", "sup", k)
  BY DEF Held
<1> HIDE DEF Q, X, I, R
<1>5. /\ Cardinality(Q) \in {0, 1} /\ (Cardinality(Q) = 1 => Q # {})
  <2>1. \A a, b \in Q : a = b
    BY <1>1 DEF Once
  <2> QED
    BY <2>1, AtMostOne
<1>6. /\ Cardinality(X) \in {0, 1} /\ (Cardinality(X) = 1 => X # {})
  <2>1. \A a, b \in X : a = b
    BY <1>2 DEF Once
  <2> QED
    BY <2>1, AtMostOne
<1>7. /\ Cardinality(I) \in {0, 1} /\ (Cardinality(I) = 1 => I # {})
  <2>1. \A a, b \in I : a = b
    BY <1>3 DEF Once
  <2> QED
    BY <2>1, AtMostOne
<1>8. /\ Cardinality(R) \in {0, 1} /\ (Cardinality(R) = 1 => R # {})
  <2>1. \A a, b \in R : a = b
    BY <1>4 DEF Once
  <2> QED
    BY <2>1, AtMostOne
<1>9. \A a, b, c, d : ~(Held(r, "queue", a, b) /\ Held(r, "run", c, d))
  BY DEF Once
<1>10. \A a, b, c, d : ~(Held(r, "queue", a, b) /\ Held(r, "item", c, d))
  BY DEF Once
<1>11. \A a, b, c, d : ~(Held(r, "queue", a, b) /\ Held(r, "recovered", c, d))
  BY DEF Once
<1>12. \A a, b, c, d : ~(Held(r, "run", a, b) /\ Held(r, "item", c, d))
  BY DEF Once
<1>13. \A a, b, c, d : ~(Held(r, "run", a, b) /\ Held(r, "recovered", c, d))
  BY DEF Once
<1>14. \A a, b, c, d : ~(Held(r, "item", a, b) /\ Held(r, "recovered", c, d))
  BY DEF Once
<1>15. /\ Q = {} \/ X = {}
       /\ Q = {} \/ I = {}
       /\ Q = {} \/ R = {}
       /\ X = {} \/ I = {}
       /\ X = {} \/ R = {}
       /\ I = {} \/ R = {}
  BY <1>1, <1>2, <1>3, <1>4, <1>9, <1>10, <1>11, <1>12, <1>13, <1>14
<1> QED
  BY <1>0, <1>5, <1>6, <1>7, <1>8, <1>15

\* Recovery never copies a request: whatever faults, hangs, replacements and
\* shutdown do in between, two workers never execute the same request and no
\* request waits in two places.
THEOREM PoolNeverHeldTwice == Spec => []NeverHeldTwice
<1>1. FaultsEnded /\ HeldOnce => NeverHeldTwice
  BY CopiesBounded DEF HeldOnce, NeverHeldTwice
<1> QED
  BY <1>1, PoolHeldOnce, PTL

-----------------------------------------------------------------------------
(* The pool implements the service its clients see *)

\* What is not seen by the client is no step of the service.
LEMMA UnseenStutters ==
  ASSUME Unseen
  PROVE  UNCHANGED Service!client
<1>1. {r \in Requests : req'[r].received} = {r \in Requests : req[r].received}
  BY DEF Unseen
<1>2. /\ [r \in Requests |-> req'[r].runs] = [r \in Requests |-> req[r].runs]
      /\ [r \in Requests |-> req'[r].responses] = [r \in Requests |-> req[r].responses]
      /\ [r \in Requests |-> req'[r].timeouts] = [r \in Requests |-> req[r].timeouts]
  BY DEF Unseen
<1> QED
  BY <1>1, <1>2 DEF Service!client

\* A request enters process_request only between its reading and its response.
LEMMA EnterExecutes ==
  ASSUME TypeOK, HeldOnce, NEW o \in Objects, WEnterRequest(o)
  PROVE  Unseen \/ \E r \in Requests : Service!Execute(r)
<1>1. CASE w[o].hand \notin Requests
  BY <1>1, ShownSteps DEF Unseen
<1>2. CASE w[o].hand \in Requests
  <2>1. PICK r \in Requests : r = w[o].hand
    BY <1>2
  <2>2. req[r].received /\ req[r].responses = 0
    BY <2>1, HandFit DEF WEnterRequest
  <2>3. \A s \in Requests :
          /\ req'[s].received = req[s].received
          /\ req'[s].runs = IF s = r THEN req[s].runs + 1 ELSE req[s].runs
          /\ req'[s].responses = req[s].responses /\ req'[s].timeouts = req[s].timeouts
    BY <2>1, ShownSteps
  <2>4. /\ {s \in Requests : req'[s].received} = {s \in Requests : req[s].received}
        /\ [s \in Requests |-> req'[s].responses] = [s \in Requests |-> req[s].responses]
        /\ [s \in Requests |-> req'[s].timeouts] = [s \in Requests |-> req[s].timeouts]
    BY <2>3
  <2>5. [s \in Requests |-> req'[s].runs] =
          [[s \in Requests |-> req[s].runs] EXCEPT ![r] = @ + 1]
    BY <2>3
  <2>6. Service!Execute(r)
    BY <2>2, <2>4, <2>5 DEF Service!Execute
  <2> QED
    BY <2>6
<1> QED
  BY <1>1, <1>2

\* A response that is sent is the first one, of a request that was executed.
LEMMA RespondAnswers ==
  ASSUME TypeOK, HeldOnce, Observed, NEW o \in Objects, WRespond(o)
  PROVE  Unseen \/ \E r \in Requests : Service!Answer(r)
<1>1. CASE w[o].hand \notin Requests
  BY <1>1, ShownSteps DEF Unseen
<1>2. CASE is_abandoned(abandoned, w[o].hand)
  BY <1>2, ShownSteps DEF Unseen
<1>3. CASE w[o].hand \in Requests /\ ~is_abandoned(abandoned, w[o].hand)
  <2>1. PICK r \in Requests : r = w[o].hand
    BY <1>3
  <2>2. req[r].runs > 0 /\ req[r].responses = 0
    BY <2>1, HandFit DEF WRespond, Observed
  <2>3. \A s \in Requests :
          /\ req'[s].received = req[s].received /\ req'[s].runs = req[s].runs
          /\ req'[s].responses = IF s = r THEN 1 ELSE req[s].responses
          /\ req'[s].timeouts = req[s].timeouts
    BY <1>3, <2>1, <2>2, ShownSteps
  <2>4. /\ {s \in Requests : req'[s].received} = {s \in Requests : req[s].received}
        /\ [s \in Requests |-> req'[s].runs] = [s \in Requests |-> req[s].runs]
        /\ [s \in Requests |-> req'[s].timeouts] = [s \in Requests |-> req[s].timeouts]
    BY <2>3
  <2>5. [s \in Requests |-> req'[s].responses] =
          [[s \in Requests |-> req[s].responses] EXCEPT ![r] = 1]
    BY <2>3
  <2>6. Service!Answer(r)
    BY <2>2, <2>4, <2>5 DEF Service!Answer
  <2> QED
    BY <2>6
<1> QED
  BY <1>1, <1>2, <1>3

\* A timeout error that is sent is the first one, of a request that was asked.
LEMMA TimeoutTimesOut ==
  ASSUME TypeOK, ThreadLocals, Observed, send_timeout_error
  PROVE  Unseen \/ \E r \in Requests : Service!TimeOut(r)
<1>1. CASE is_abandoned(abandoned, th["sup"].seen)
  BY <1>1, ShownSteps DEF Unseen
<1>2. CASE ~is_abandoned(abandoned, th["sup"].seen)
  <2>1. PICK r \in Requests : r = th["sup"].seen
    BY DEF send_timeout_error, ThreadLocals
  <2>2. req[r].received /\ req[r].timeouts = 0
    BY <2>1 DEF send_timeout_error, Observed
  <2>3. \A s \in Requests :
          /\ req'[s].received = req[s].received /\ req'[s].runs = req[s].runs
          /\ req'[s].responses = req[s].responses
          /\ req'[s].timeouts = IF s = r THEN 1 ELSE req[s].timeouts
    BY <1>2, <2>1, <2>2, ShownSteps
  <2>4. /\ {s \in Requests : req'[s].received} = {s \in Requests : req[s].received}
        /\ [s \in Requests |-> req'[s].runs] = [s \in Requests |-> req[s].runs]
        /\ [s \in Requests |-> req'[s].responses] = [s \in Requests |-> req[s].responses]
    BY <2>3
  <2>5. [s \in Requests |-> req'[s].timeouts] =
          [[s \in Requests |-> req[s].timeouts] EXCEPT ![r] = 1]
    BY <2>3
  <2>6. Service!TimeOut(r)
    BY <2>2, <2>4, <2>5 DEF Service!TimeOut
  <2> QED
    BY <2>6
<1> QED
  BY <1>1, <1>2

\* A request that is read is asked, once.
LEMMA ReadAsks ==
  ASSUME TypeOK, NEW r \in Requests, ReadRequest(r)
  PROVE  Service!Ask(r)
<1>1. ~req[r].received
  BY DEF ReadRequest
<1>2. \A s \in Requests :
        /\ req'[s].received = (s = r \/ req[s].received)
        /\ req'[s].runs = req[s].runs
        /\ req'[s].responses = req[s].responses /\ req'[s].timeouts = req[s].timeouts
  BY ShownSteps
<1>3. {s \in Requests : req'[s].received} = {s \in Requests : req[s].received} \cup {r}
  BY <1>2
<1>4. /\ [s \in Requests |-> req'[s].runs] = [s \in Requests |-> req[s].runs]
      /\ [s \in Requests |-> req'[s].responses] = [s \in Requests |-> req[s].responses]
      /\ [s \in Requests |-> req'[s].timeouts] = [s \in Requests |-> req[s].timeouts]
  BY <1>2
<1> QED
  BY <1>1, <1>3, <1>4 DEF Service!Ask

\* The pool begins as the service does.
LEMMA InitServes == Init => Service!Init
<1> SUFFICES ASSUME Init PROVE Service!Init
  OBVIOUS
<1>1. \A r \in Requests :
        /\ ~req[r].received
        /\ req[r].runs = 0 /\ req[r].responses = 0 /\ req[r].timeouts = 0
  BY DEF Init
<1> QED
  BY <1>1 DEF Service!Init

\* Every step of the pool is one step of the service, or none.
LEMMA NextServes ==
  ASSUME TypeOK, ThreadLocals, HeldOnce, Observed, [Next]_vars
  PROVE  [Service!Next]_Service!client
<1>1. CASE Unseen
  BY <1>1, UnseenStutters
<1>2. CASE \E r \in Requests : \/ Service!Ask(r) \/ Service!Execute(r)
                               \/ Service!Answer(r) \/ Service!TimeOut(r)
  BY <1>2 DEF Service!Next
<1> QED
  BY <1>1, <1>2, NextShows, EnterExecutes, RespondAnswers, TimeoutTimesOut, ReadAsks

\* The pool implements RequestService, for every number of workers, requests,
\* retries and failures: whatever is replaced, recovered and redistributed, a
\* request is executed only between its reading and its response, and answered
\* and reported at most once (worker.cpp: worker_loop, redistribute_requests;
\* rpc_server.cpp: print_response, send_timeout_error).
THEOREM PoolImplementsService == Spec => ImplementsService
<1>1. Inductive /\ (FaultsEnded /\ HeldOnce /\ Observed) /\ [Next]_vars
      => [Service!Next]_Service!client
  BY NextServes DEF Inductive
<1> QED
  BY <1>1, InitServes, PoolInductive, PoolHeldOnce, PTL
  DEF Spec, ImplementsService, Service!Spec
=============================================================================
