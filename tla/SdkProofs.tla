------------------------------ MODULE SdkProofs ------------------------------
(***************************************************************************)
(* Proofs about the SDK: its client (ZSshClient.tla), for every set of     *)
(* requests, the start of the server (ClientStartup.tla) for any script,   *)
(* its deployment (Deploy.tla) for any users, and the choice of a profile  *)
(* (Profiles.tla) for any host and any configuration.                      *)
(***************************************************************************)
EXTENDS ZSshClient, Deploy, ClientStartup, Profiles, Recursion, SequenceTheorems

(* A response that is held until its stream ends.                          *)
Held == [fits : BOOLEAN, who : {"client", "collector"}]
HeldFor(fits, who) == [fits |-> fits, who |-> who]

RequestRecord ==
  [promise : {"none", "pending", "resolved", "rejected"},
   written : BOOLEAN, mapped : BOOLEAN, silenced : BOOLEAN, timer : BOOLEAN,
   collected : BOOLEAN, claimed : BOOLEAN, linked : BOOLEAN,
   stream : {"none", "registered", "open", "done", "failed"},
   awaiting : Held \cup {Nil}, by : {"nobody", "client", "collector"}]

(* What holds of every request by itself, whoever else is served.  The     *)
(* last part says who may settle it once its stream ends: the client only  *)
(* if the request can no longer be collected.                              *)
OwnedIfPending(q) ==
  q.promise = "pending" =>
    \/ q.mapped
    \/ q.awaiting # Nil /\ q.stream = "open"
    \/ q.silenced /\ q.collected
Sound(q) ==
  /\ q.silenced => q.collected
  /\ q.linked <=> q.stream \in {"open", "done", "failed"}
  /\ OwnedIfPending(q)
  /\ q.awaiting # Nil => q.awaiting.who = "collector" \/ (~q.mapped /\ ~q.silenced)
SoundRequest == {q \in RequestRecord : Sound(q)}

TypeOK ==
  /\ req \in [Requests -> SoundRequest]
  /\ mPartialStdout \in Seq(Fragment) /\ mPartialStderr \in Seq(Fragment)
  /\ wire \in [out : Seq(Fragment), err : Seq(Fragment)]

-----------------------------------------------------------------------------
(* The records of requests *)

\* Settling a promise changes nothing but the promise, who settled it and the
\* timer, and only once.
LEMMA SettleShape ==
  ASSUME NEW q \in RequestRecord, NEW o \in {"resolved", "rejected"},
         NEW who \in {"client", "collector"}
  PROVE  /\ Settle(q, o, who) \in RequestRecord
         /\ Settle(q, o, who).promise = IF q.promise = "pending" THEN o ELSE q.promise
         /\ Settle(q, o, who).by = IF q.promise = "pending" THEN who ELSE q.by
         /\ Settle(q, o, who).mapped = q.mapped
         /\ Settle(q, o, who).written = q.written
         /\ Settle(q, o, who).silenced = q.silenced
         /\ Settle(q, o, who).collected = q.collected
         /\ Settle(q, o, who).linked = q.linked
         /\ Settle(q, o, who).stream = q.stream
         /\ Settle(q, o, who).awaiting = q.awaiting
<1>1. CASE q.promise # "pending"
  BY <1>1 DEF Settle
<1>2. CASE q.promise = "pending"
  <2> DEFINE u == [q EXCEPT !.promise = o, !.timer = FALSE, !.by = who]
  <2>1. u \in RequestRecord
    BY DEF RequestRecord
  <2>2. /\ u.promise = o /\ u.by = who /\ u.mapped = q.mapped /\ u.written = q.written
        /\ u.silenced = q.silenced /\ u.collected = q.collected
        /\ u.linked = q.linked /\ u.stream = q.stream /\ u.awaiting = q.awaiting
    BY DEF RequestRecord
  <2>3. Settle(q, o, who) = u
    BY <1>2 DEF Settle
  <2> HIDE DEF u
  <2> QED
    BY <1>2, <2>1, <2>2, <2>3
<1> QED
  BY <1>1, <1>2

\* Taking a request out of mRequestMap.
LEMMA UnmapShape ==
  ASSUME NEW q \in RequestRecord
  PROVE  LET u == [q EXCEPT !.mapped = FALSE]
         IN  /\ u \in RequestRecord
             /\ u.mapped = FALSE /\ u.written = q.written
             /\ u.promise = q.promise /\ u.by = q.by
             /\ u.silenced = q.silenced /\ u.collected = q.collected
             /\ u.linked = q.linked /\ u.stream = q.stream
             /\ u.awaiting = q.awaiting
BY DEF RequestRecord

\* A response that waits for its stream.
LEMMA AwaitShape ==
  ASSUME NEW q \in RequestRecord, NEW a \in Held
  PROVE  LET u == [q EXCEPT !.awaiting = a]
         IN  /\ u \in RequestRecord
             /\ u.mapped = q.mapped /\ u.written = q.written
             /\ u.promise = q.promise /\ u.by = q.by
             /\ u.silenced = q.silenced /\ u.collected = q.collected
             /\ u.linked = q.linked /\ u.stream = q.stream
             /\ u.awaiting = a
BY DEF RequestRecord

\* rpc.resolve settles the promise of a request without a stream, or whose
\* stream has ended.
LEMMA ResolveNow ==
  ASSUME NEW q \in RequestRecord, NEW fits \in BOOLEAN,
         NEW who \in {"client", "collector"},
         ~q.linked \/ q.stream \in {"failed", "done"}
  PROVE  \E o \in {"resolved", "rejected"} :
           /\ Resolve(q, fits, who) = Settle(q, o, who)
           /\ o = "resolved" => ~q.linked \/ (q.stream = "done" /\ fits)
BY DEF Resolve

\* Otherwise the request is left to the end of its stream, with the first
\* response that came for it.
LEMMA ResolveLater ==
  ASSUME NEW q \in RequestRecord, NEW fits \in BOOLEAN,
         NEW who \in {"client", "collector"},
         q.linked, q.stream = "open"
  PROVE  LET u == Resolve(q, fits, who)
         IN  /\ u \in RequestRecord
             /\ u.mapped = q.mapped /\ u.written = q.written
             /\ u.promise = q.promise /\ u.by = q.by
             /\ u.silenced = q.silenced /\ u.collected = q.collected
             /\ u.linked = q.linked /\ u.stream = q.stream
             /\ u.awaiting = IF q.awaiting = Nil
                             THEN HeldFor(fits, who) ELSE q.awaiting
<1> DEFINE a == HeldFor(fits, who)
<1>1. CASE q.awaiting = Nil
  <2>1. Resolve(q, fits, who) = [q EXCEPT !.awaiting = a]
    BY <1>1 DEF Resolve, HeldFor
  <2>2. a \in Held
    BY DEF Held, HeldFor
  <2> DEFINE u == [q EXCEPT !.awaiting = a]
  <2>3. /\ u \in RequestRecord
        /\ u.mapped = q.mapped /\ u.written = q.written
        /\ u.promise = q.promise /\ u.by = q.by
        /\ u.silenced = q.silenced /\ u.collected = q.collected
        /\ u.linked = q.linked /\ u.stream = q.stream
        /\ u.awaiting = a
    <3> HIDE DEF a
    <3> QED
      BY <2>2, AwaitShape
  <2> HIDE DEF u
  <2> QED
    BY <1>1, <2>1, <2>3 DEF u
<1>2. CASE q.awaiting # Nil
  <2>1. Resolve(q, fits, who) = q
    BY <1>2 DEF Resolve
  <2> QED
    BY <1>2, <2>1
<1> QED
  BY <1>1, <1>2

\* The null value is not a response that waits.
LEMMA HeldIsNotNil == Nil \notin Held /\ \A a \in Held : a.who \in {"client", "collector"} /\ a.fits \in BOOLEAN
BY ClientAssumption DEF Held

\* Settling keeps a request sound.
LEMMA SettleSound ==
  ASSUME NEW q \in SoundRequest, NEW o \in {"resolved", "rejected"},
         NEW who \in {"client", "collector"}
  PROVE  Settle(q, o, who) \in SoundRequest
<1>1. q \in RequestRecord /\ Sound(q)
  BY DEF SoundRequest
<1> DEFINE u == Settle(q, o, who)
<1>2. u \in RequestRecord
  BY <1>1, SettleShape
<1>3. u.promise # "pending"
  BY <1>1, SettleShape
<1>4. Sound(u)
  BY <1>1, <1>3, SettleShape DEF Sound, OwnedIfPending
<1> QED
  BY <1>2, <1>4 DEF SoundRequest

\* So does rpc.resolve, whether a collector calls it, or the client for a
\* request it has not silenced and that leaves the map.
LEMMA ResolveSound ==
  ASSUME NEW q \in SoundRequest, NEW fits \in BOOLEAN,
         NEW who \in {"client", "collector"},
         \/ who = "collector"
         \/ q.stream # "open"
         \/ ~q.mapped /\ ~q.silenced
  PROVE  Resolve(q, fits, who) \in SoundRequest
<1>1. q \in RequestRecord /\ Sound(q)
  BY DEF SoundRequest
<1>2. CASE ~q.linked \/ q.stream \in {"failed", "done"}
  BY <1>1, <1>2, ResolveNow, SettleSound
<1>3. CASE q.linked /\ q.stream \notin {"failed", "done"}
  <2> DEFINE u == Resolve(q, fits, who)
             a == HeldFor(fits, who)
  <2>1. a \in Held /\ a # Nil /\ a.who = who
    BY HeldIsNotNil DEF Held, HeldFor
  <2>2. q.stream = "open"
    BY <1>1, <1>3 DEF Sound
  <2>3. /\ u \in RequestRecord
        /\ u.mapped = q.mapped /\ u.promise = q.promise
        /\ u.silenced = q.silenced /\ u.collected = q.collected
        /\ u.linked = q.linked /\ u.stream = q.stream
        /\ u.awaiting = IF q.awaiting = Nil THEN a ELSE q.awaiting
    <3>1. q \in RequestRecord /\ q.linked
      BY <1>1, <1>3
    <3> QED
      BY <3>1, <2>2, ResolveLater, ZenonT(60)
  <2> HIDE DEF u, a
  <2>4. Sound(u)
    BY <1>1, <2>1, <2>2, <2>3 DEF Sound, OwnedIfPending
  <2> QED
    BY <2>3, <2>4 DEF SoundRequest, u
<1> QED
  BY <1>2, <1>3

\* A request that leaves the map stays sound if its promise is settled, held
\* for its stream, or silenced.
LEMMA UnmapSound ==
  ASSUME NEW q \in RequestRecord,
         q.silenced => q.collected,
         q.linked <=> q.stream \in {"open", "done", "failed"},
         \/ q.promise # "pending"
         \/ q.awaiting # Nil /\ q.stream = "open"
         \/ q.silenced,
         q.awaiting # Nil => q.awaiting.who = "collector" \/ ~q.silenced
  PROVE  [q EXCEPT !.mapped = FALSE] \in SoundRequest
<1> DEFINE u == [q EXCEPT !.mapped = FALSE]
<1>1. /\ u \in RequestRecord
      /\ u.mapped = FALSE /\ u.promise = q.promise
      /\ u.silenced = q.silenced /\ u.collected = q.collected
      /\ u.linked = q.linked /\ u.stream = q.stream /\ u.awaiting = q.awaiting
  BY UnmapShape
<1> HIDE DEF u
<1>2. Sound(u)
  BY <1>1 DEF Sound, OwnedIfPending
<1> QED
  BY <1>1, <1>2 DEF SoundRequest, u

\* What taking a response leaves as it was, and what it does to the promise:
\* nothing if the request is silenced.
Responded(q, u, m) ==
  /\ ~u.mapped
  /\ u.silenced = q.silenced /\ u.stream = q.stream /\ u.linked = q.linked
  /\ u.written = q.written
  /\ q.silenced \/ m.kind = "error" => u.awaiting = q.awaiting
  /\ q.silenced => u.promise = q.promise /\ u.by = q.by
  /\ u.promise = "none" => q.promise = "none"
  /\ u.promise = "resolved" =>
       \/ q.promise = "resolved" /\ u.by = q.by
       \/ m.kind # "error" /\ (q.linked => q.stream = "done" /\ m.fits)
  /\ u.awaiting # Nil =>
       \/ u.awaiting = q.awaiting
       \/ m.kind # "error" /\ u.awaiting = HeldFor(m.fits, "client")

\* The response that the client takes from a line: the request leaves the map
\* settled, waiting for its stream, or silenced.
LEMMA RespondSound ==
  ASSUME NEW q \in SoundRequest, NEW m \in Message, q.mapped
  PROVE  /\ handleResponse(q, m) \in SoundRequest
         /\ Responded(q, handleResponse(q, m), m)
<1>q. q \in RequestRecord /\ Sound(q) /\ m.fits \in BOOLEAN
  BY DEF SoundRequest, Message
<1> DEFINE Out(x) == [x EXCEPT !.mapped = FALSE]
<1>u. ASSUME NEW x \in RequestRecord
      PROVE  /\ Out(x) \in RequestRecord
             /\ Out(x).mapped = FALSE /\ Out(x).written = x.written
             /\ Out(x).promise = x.promise /\ Out(x).by = x.by
             /\ Out(x).silenced = x.silenced /\ Out(x).collected = x.collected
             /\ Out(x).linked = x.linked /\ Out(x).stream = x.stream
             /\ Out(x).awaiting = x.awaiting
  BY UnmapShape
<1>1. CASE q.silenced
  <2>1. handleResponse(q, m) = Out(q)
    BY <1>1 DEF handleResponse
  <2>2. Out(q) \in SoundRequest
    BY <1>q, <1>1, UnmapSound DEF Sound
  <2>3. Responded(q, Out(q), m)
    <3> HIDE DEF Out
    <3> QED
      BY <1>q, <1>u, <1>1 DEF Responded
  <2> QED
    BY <2>1, <2>2, <2>3
<1>2. ASSUME ~q.silenced, NEW o \in {"resolved", "rejected"},
             handleResponse(q, m) = Out(Settle(q, o, "client")),
             o = "resolved" => m.kind # "error" /\ (q.linked => q.stream = "done" /\ m.fits)
      PROVE  /\ handleResponse(q, m) \in SoundRequest
             /\ Responded(q, handleResponse(q, m), m)
  <2> DEFINE x == Settle(q, o, "client")
  <2>1. /\ x \in RequestRecord
        /\ x.promise = IF q.promise = "pending" THEN o ELSE q.promise
        /\ x.by = IF q.promise = "pending" THEN "client" ELSE q.by
        /\ x.written = q.written
        /\ x.silenced = q.silenced /\ x.collected = q.collected
        /\ x.linked = q.linked /\ x.stream = q.stream /\ x.awaiting = q.awaiting
    BY <1>q, SettleShape
  <2> HIDE DEF x
  <2>2. Out(x) \in SoundRequest
    BY <1>q, <2>1, <1>2, UnmapSound DEF Sound
  <2>3. Responded(q, Out(x), m)
    <3> HIDE DEF Out
    <3> QED
      BY <1>q, <1>u, <1>2, <2>1 DEF Responded
  <2> QED
    BY <1>2, <2>2, <2>3 DEF x
<1>3. CASE ~q.silenced /\ m.kind = "error"
  <2>1. handleResponse(q, m) = Out(Settle(q, "rejected", "client"))
    BY <1>3 DEF handleResponse
  <2> QED
    BY <1>2, <1>3, <2>1
<1>4. CASE ~q.silenced /\ m.kind # "error" /\ (~q.linked \/ q.stream \in {"failed", "done"})
  <2>1. handleResponse(q, m) = Out(Resolve(q, m.fits, "client"))
    BY <1>4 DEF handleResponse
  <2>2. PICK o \in {"resolved", "rejected"} :
          /\ Resolve(q, m.fits, "client") = Settle(q, o, "client")
          /\ o = "resolved" => ~q.linked \/ (q.stream = "done" /\ m.fits)
    BY <1>4, <1>q, ResolveNow
  <2> QED
    BY <1>2, <1>4, <2>1, <2>2
<1>5. CASE ~q.silenced /\ m.kind # "error" /\ q.linked /\ q.stream \notin {"failed", "done"}
  <2>1. handleResponse(q, m) = Out(Resolve(q, m.fits, "client"))
    BY <1>5 DEF handleResponse
  <2>2. q.stream = "open"
    BY <1>5, <1>q DEF Sound
  <2> DEFINE x == Resolve(q, m.fits, "client")
             a == HeldFor(m.fits, "client")
  <2>3. a # Nil /\ a \in Held
    BY <1>q, HeldIsNotNil DEF Held, HeldFor
  <2>4. /\ x \in RequestRecord
        /\ x.written = q.written /\ x.promise = q.promise /\ x.by = q.by
        /\ x.silenced = q.silenced /\ x.collected = q.collected
        /\ x.linked = q.linked /\ x.stream = q.stream
        /\ x.awaiting = IF q.awaiting = Nil THEN a ELSE q.awaiting
    <3>1. q.linked
      BY <1>5
    <3> QED
      BY <3>1, <1>q, <2>2, ResolveLater, ZenonT(60)
  <2> HIDE DEF x, a
  <2>5. Out(x) \in SoundRequest
    BY <1>q, <1>5, <2>2, <2>3, <2>4, UnmapSound DEF Sound
  <2>6. Responded(q, Out(x), m)
    <3> HIDE DEF Out
    <3> QED
      BY <1>q, <1>u, <1>5, <2>2, <2>3, <2>4 DEF Responded, a
  <2> QED
    BY <2>1, <2>5, <2>6 DEF x
<1> QED
  BY <1>1, <1>3, <1>4, <1>5

\* A notification links the request to its stream and changes nothing else.
LEMMA NotifySound ==
  ASSUME NEW q \in SoundRequest
  PROVE  LET u == handleNotification(q)
         IN  /\ u \in SoundRequest
             /\ u.mapped = q.mapped /\ u.written = q.written
             /\ u.promise = q.promise /\ u.by = q.by
             /\ u.silenced = q.silenced /\ u.collected = q.collected
             /\ u.awaiting = q.awaiting
             /\ q.stream # "none" => u.linked
             /\ q.stream # "registered" => u = q
<1>q. q \in RequestRecord /\ Sound(q)
  BY DEF SoundRequest
<1>1. CASE q.stream # "registered"
  <2>1. q.stream # "none" => q.linked
    BY <1>q, <1>1 DEF Sound, RequestRecord
  <2> QED
    BY <1>1, <2>1 DEF handleNotification
<1>2. CASE q.stream = "registered"
  <2> DEFINE u == [q EXCEPT !.linked = TRUE, !.stream = "open"]
  <2>1. u \in RequestRecord
    BY <1>q DEF RequestRecord
  <2>2. /\ u.mapped = q.mapped /\ u.written = q.written
        /\ u.promise = q.promise /\ u.by = q.by
        /\ u.silenced = q.silenced /\ u.collected = q.collected
        /\ u.awaiting = q.awaiting /\ u.linked = TRUE /\ u.stream = "open"
    BY <1>q DEF RequestRecord
  <2>3. handleNotification(q) = u
    BY <1>2 DEF handleNotification
  <2> HIDE DEF u
  <2>4. Sound(u)
    BY <1>q, <1>2, <2>2 DEF Sound, OwnedIfPending
  <2> QED
    BY <1>2, <2>1, <2>2, <2>3, <2>4 DEF SoundRequest
<1> QED
  BY <1>1, <1>2

-----------------------------------------------------------------------------
(* Lines and chunks *)

Progress == [req : [Requests -> SoundRequest], partial : Seq(Fragment)]

\* One line touches at most the request it names: it is notified or gets its
\* response if it is in the map, and always does so when the line is intact.
LEMMA LineEffect ==
  ASSUME NEW rq \in [Requests -> SoundRequest], NEW partial \in Seq(Fragment),
         NEW f \in Fragment
  PROVE  LET m == f.msg
             u == HandleLine(rq, Append(partial, f))
         IN  /\ u \in [Requests -> SoundRequest]
             /\ \A q \in Requests :
                  \/ u[q] = rq[q]
                  \/ /\ m.id = q /\ rq[q].mapped /\ m.kind = "notification"
                     /\ u[q] = handleNotification(rq[q])
                  \/ /\ m.id = q /\ rq[q].mapped /\ m.kind # "notification"
                     /\ u[q] = handleResponse(rq[q], m)
             /\ (Append(partial, f) = Lines(m) /\ m.id \in Requests /\ rq[m.id].mapped)
                  => u[m.id] = IF m.kind = "notification"
                               THEN handleNotification(rq[m.id])
                               ELSE handleResponse(rq[m.id], m)
<1> DEFINE m == f.msg
           line == Append(partial, f)
           u == HandleLine(rq, line)
<1>1. m \in Message /\ m.id \in Requests \cup {Nil}
  BY ClientAssumption DEF Fragment, Message
<1>2. Last(line) = f
  BY DEF Last
<1>3. CASE line # Lines(m) \/ m.id = Nil \/ ~rq[m.id].mapped
  <2>1. u = rq
    BY <1>2, <1>3 DEF HandleLine
  <2>2. m.id = Nil => m.id \notin Requests
    BY ClientAssumption
  <2> QED
    BY <1>3, <2>1, <2>2
<1>4. CASE line = Lines(m) /\ m.id # Nil /\ rq[m.id].mapped
  <2> DEFINE v == IF m.kind = "notification" THEN handleNotification(rq[m.id])
                  ELSE handleResponse(rq[m.id], m)
  <2>1. u = [rq EXCEPT ![m.id] = v]
    BY <1>2, <1>4 DEF HandleLine
  <2>2. m.id \in Requests
    BY <1>1, <1>4
  <2>3. v \in SoundRequest
    BY <1>1, <1>4, <2>2, NotifySound, RespondSound
  <2>4. v = IF m.kind = "notification" THEN handleNotification(rq[m.id])
            ELSE handleResponse(rq[m.id], m)
    OBVIOUS
  <2> HIDE DEF v, u, m, line
  <2>5. u \in [Requests -> SoundRequest]
    BY <2>1, <2>2, <2>3
  <2>6. u[m.id] = v /\ \A q \in Requests : q # m.id => u[q] = rq[q]
    BY <2>1, <2>2
  <2>7. \A q \in Requests :
          \/ u[q] = rq[q]
          \/ /\ m.id = q /\ rq[q].mapped /\ m.kind = "notification"
             /\ u[q] = handleNotification(rq[q])
          \/ /\ m.id = q /\ rq[q].mapped /\ m.kind # "notification"
             /\ u[q] = handleResponse(rq[q], m)
    BY <1>4, <2>4, <2>6
  <2> QED
    BY <2>4, <2>5, <2>6, <2>7 DEF u, m, line
<1> QED
  BY <1>3, <1>4

\* A fragment leaves well-formed progress behind.
LEMMA FragmentTaken ==
  ASSUME NEW acc \in Progress, NEW f \in Fragment
  PROVE  TakeFragment(acc, f) \in Progress
<1>1. acc.req \in [Requests -> SoundRequest] /\ acc.partial \in Seq(Fragment)
  BY DEF Progress
<1>2. Append(acc.partial, f) \in Seq(Fragment)
  BY <1>1
<1>3. HandleLine(acc.req, Append(acc.partial, f)) \in [Requests -> SoundRequest]
  BY <1>1, LineEffect
<1>4. <<>> \in Seq(Fragment)
  OBVIOUS
<1> QED
  BY <1>1, <1>2, <1>3, <1>4 DEF TakeFragment, Progress

\* The fragments of a chunk are taken one after the other.
LEMMA ChunkHistory ==
  ASSUME NEW start \in Progress, NEW chunk \in Seq(Fragment)
  PROVE  \E h \in [0 .. Len(chunk) -> Progress] :
           /\ h[0] = start
           /\ \A k \in 1 .. Len(chunk) : h[k] = TakeFragment(h[k - 1], chunk[k])
           /\ TakeChunk(start, chunk) = h[Len(chunk)]
<1> DEFINE n == Len(chunk)
           step == [k \in 1 .. n |-> [x \in Progress |-> TakeFragment(x, chunk[k])]]
           after[k \in 0 .. n] == IF k = 0 THEN start ELSE TakeFragment(after[k - 1], chunk[k])
<1>n. n \in Nat /\ \A k \in 1 .. n : chunk[k] \in Fragment
  OBVIOUS
<1>1. step \in [1 .. n -> [Progress -> Progress]]
  BY <1>n, FragmentTaken
<1>2. \A k \in 1 .. n, x \in Progress : step[k][x] = TakeFragment(x, chunk[k])
  OBVIOUS
<1>3. PICK g : History(g, Progress, n, start, step)
  <2>1. step \in Iterations(Progress, n)
    BY <1>1 DEF Iterations
  <2> HIDE DEF step, n
  <2> QED
    BY <1>n, <2>1, RecursionExists
<1> HIDE DEF step
<1>4. \A k \in 1 .. n : g[k] = TakeFragment(g[k - 1], chunk[k])
  BY <1>2, <1>3, <1>n DEF History
<1>5. g = [k \in 0 .. n |-> IF k = 0 THEN start ELSE TakeFragment(g[k - 1], chunk[k])]
  BY <1>3, <1>4 DEF History
<1>6. after = [k \in 0 .. n |-> IF k = 0 THEN start ELSE TakeFragment(after[k - 1], chunk[k])]
  BY <1>5 DEF after
<1>7. TakeChunk(start, chunk) = after[n]
  BY DEF TakeChunk
<1> HIDE DEF after
<1>8. after[0] = start /\ \A k \in 1 .. n : after[k] = TakeFragment(after[k - 1], chunk[k])
  BY <1>6, <1>n
<1>9. 0 .. n \subseteq {k \in 0 .. n : after[k] \in Progress}
  <2> DEFINE G == {k \in 0 .. n : after[k] \in Progress}
  <2>1. 0 \in G
    BY <1>8, <1>n
  <2>2. \A k \in 1 .. n : k - 1 \in G => k \in G
    BY <1>8, <1>n, FragmentTaken
  <2> HIDE DEF G
  <2> QED
    BY <2>1, <2>2, <1>n, SetInduction DEF G
<1>10. after \in [0 .. n -> Progress]
  BY <1>6, <1>9
<1> QED
  BY <1>7, <1>8, <1>10

-----------------------------------------------------------------------------
(* What the callbacks do to one request *)

\* A silenced request is settled by its collector only.
Spared(q, u) ==
  (q.silenced /\ q.promise = "pending" /\ u.promise # "pending") => u.by = "collector"

\* request(): thrown out at once, or pending and in the map.
LEMMA NewSound ==
  ASSUME NEW s \in {"none", "registered"}
  PROVE  /\ NewRequest \in SoundRequest
         /\ [NewRequest EXCEPT !.promise = "rejected", !.by = "client"] \in SoundRequest
         /\ [NewRequest EXCEPT !.promise = "pending", !.mapped = TRUE, !.written = TRUE,
               !.timer = TRUE, !.stream = s] \in SoundRequest
<1> DEFINE u == [NewRequest EXCEPT !.promise = "rejected", !.by = "client"]
           v == [NewRequest EXCEPT !.promise = "pending", !.mapped = TRUE, !.written = TRUE,
                   !.timer = TRUE, !.stream = s]
<1>1. NewRequest \in RequestRecord /\ u \in RequestRecord /\ v \in RequestRecord
  BY DEF NewRequest, RequestRecord
<1>2. /\ ~NewRequest.silenced /\ ~NewRequest.linked /\ NewRequest.stream = "none"
      /\ NewRequest.promise = "none" /\ NewRequest.awaiting = Nil
  BY DEF NewRequest
<1>3. /\ ~u.silenced /\ ~u.linked /\ u.stream = "none" /\ u.promise = "rejected"
      /\ u.awaiting = Nil
  BY DEF NewRequest
<1>4. /\ ~v.silenced /\ ~v.linked /\ v.stream = s /\ v.promise = "pending"
      /\ v.mapped /\ v.awaiting = Nil
  BY DEF NewRequest
<1> HIDE DEF u, v
<1> QED
  BY <1>1, <1>2, <1>3, <1>4 DEF SoundRequest, Sound, OwnedIfPending, u, v

\* The client gives a request up, because of a timeout, dispose() or a
\* disconnect.
LEMMA RejectSound ==
  ASSUME NEW q \in SoundRequest, q.mapped
  PROVE  LET u == [Settle(q, "rejected", "client") EXCEPT !.mapped = FALSE]
         IN  /\ ~q.silenced => u \in SoundRequest /\ Spared(q, u)
             /\ u.promise = "resolved" => q.promise = "resolved" /\ u.by = q.by
             /\ u.stream = q.stream /\ u.awaiting = q.awaiting /\ u.linked = q.linked
             /\ u.written = q.written /\ ~u.mapped
             /\ u.promise = "none" => q.promise = "none"
<1>q. q \in RequestRecord /\ Sound(q)
  BY DEF SoundRequest
<1> DEFINE x == Settle(q, "rejected", "client")
           u == [x EXCEPT !.mapped = FALSE]
<1>1. /\ x \in RequestRecord
      /\ x.promise = IF q.promise = "pending" THEN "rejected" ELSE q.promise
      /\ x.by = IF q.promise = "pending" THEN "client" ELSE q.by
      /\ x.written = q.written
      /\ x.silenced = q.silenced /\ x.collected = q.collected
      /\ x.linked = q.linked /\ x.stream = q.stream /\ x.awaiting = q.awaiting
  BY <1>q, SettleShape
<1> HIDE DEF x
<1>2. /\ u.mapped = FALSE /\ u.written = x.written
      /\ u.promise = x.promise /\ u.by = x.by
      /\ u.stream = x.stream /\ u.awaiting = x.awaiting /\ u.linked = x.linked
  BY <1>1, UnmapShape
<1>3. ~q.silenced => u \in SoundRequest
  BY <1>q, <1>1, UnmapSound DEF Sound
<1> HIDE DEF u
<1> QED
  BY <1>1, <1>2, <1>3 DEF Spared, u, x

\* A silenced request leaves the map unsettled: its collector has it.
LEMMA ReleaseSound ==
  ASSUME NEW q \in SoundRequest, q.silenced
  PROVE  LET u == [q EXCEPT !.mapped = FALSE]
         IN  /\ u \in SoundRequest /\ Spared(q, u)
             /\ u.promise = q.promise /\ u.by = q.by
             /\ u.stream = q.stream /\ u.awaiting = q.awaiting /\ u.linked = q.linked
             /\ u.written = q.written /\ ~u.mapped
<1>q. q \in RequestRecord /\ Sound(q)
  BY DEF SoundRequest
<1> DEFINE u == [q EXCEPT !.mapped = FALSE]
<1>1. /\ u.mapped = FALSE /\ u.written = q.written
      /\ u.promise = q.promise /\ u.by = q.by
      /\ u.stream = q.stream /\ u.awaiting = q.awaiting /\ u.linked = q.linked
  BY <1>q, UnmapShape
<1>2. u \in SoundRequest
  BY <1>q, UnmapSound DEF Sound
<1> HIDE DEF u
<1> QED
  BY <1>1, <1>2 DEF Spared, u

\* Disarming the timer.
LEMMA DisarmSound ==
  ASSUME NEW q \in SoundRequest
  PROVE  LET u == [q EXCEPT !.timer = FALSE]
         IN  /\ u \in SoundRequest /\ Spared(q, u)
             /\ u.mapped = q.mapped /\ u.written = q.written
             /\ u.silenced = q.silenced
             /\ u.promise = q.promise /\ u.by = q.by
             /\ u.stream = q.stream /\ u.awaiting = q.awaiting /\ u.linked = q.linked
<1>q. q \in RequestRecord /\ Sound(q)
  BY DEF SoundRequest
<1> DEFINE u == [q EXCEPT !.timer = FALSE]
<1>1. /\ u.mapped = q.mapped /\ u.written = q.written
      /\ u.promise = q.promise /\ u.by = q.by
      /\ u.silenced = q.silenced /\ u.collected = q.collected
      /\ u.stream = q.stream /\ u.awaiting = q.awaiting /\ u.linked = q.linked
  BY <1>q DEF RequestRecord
<1>2. u \in RequestRecord
  BY <1>q DEF RequestRecord
<1> HIDE DEF u
<1>3. Sound(u)
  BY <1>q, <1>1 DEF Sound, OwnedIfPending
<1> QED
  BY <1>1, <1>2, <1>3 DEF SoundRequest, Spared, u

\* collectAllRequests hands a request of the map out.
LEMMA CollectSound ==
  ASSUME NEW q \in SoundRequest, NEW silence \in BOOLEAN, NEW c \in BOOLEAN, q.mapped
  PROVE  LET u == [q EXCEPT !.silenced = silence, !.timer = FALSE, !.collected = TRUE,
                            !.claimed = c]
         IN  /\ u \in SoundRequest /\ Spared(q, u)
             /\ u.mapped = q.mapped /\ u.written = q.written
             /\ u.promise = q.promise /\ u.by = q.by
             /\ u.stream = q.stream /\ u.awaiting = q.awaiting /\ u.linked = q.linked
<1>q. q \in RequestRecord /\ Sound(q)
  BY DEF SoundRequest
<1> DEFINE u == [q EXCEPT !.silenced = silence, !.timer = FALSE, !.collected = TRUE,
                          !.claimed = c]
<1>1. /\ u.mapped = q.mapped /\ u.written = q.written
      /\ u.promise = q.promise /\ u.by = q.by
      /\ u.silenced = silence /\ u.collected = TRUE
      /\ u.stream = q.stream /\ u.awaiting = q.awaiting /\ u.linked = q.linked
  BY <1>q DEF RequestRecord
<1>2. u \in RequestRecord
  BY <1>q DEF RequestRecord
<1> HIDE DEF u
<1>3. Sound(u)
  BY <1>q, <1>1 DEF Sound, OwnedIfPending
<1> QED
  BY <1>1, <1>2, <1>3 DEF SoundRequest, Spared, u

\* A collector settles a request, or its resolution is held for the stream.
LEMMA ReplaySound ==
  ASSUME NEW q \in SoundRequest, q.promise = "pending",
         NEW u, u = Resolve(q, TRUE, "collector") \/ u = Settle(q, "rejected", "collector")
  PROVE  /\ u \in SoundRequest /\ Spared(q, u)
         /\ u.mapped = q.mapped /\ u.written = q.written
         /\ u.stream = q.stream /\ u.linked = q.linked
         /\ u.promise # "pending" => u.by = "collector"
         /\ u.promise = "none" => q.promise = "none"
         /\ u.awaiting # Nil => u.awaiting = q.awaiting \/ u.awaiting.who = "collector"
<1>q. q \in RequestRecord /\ Sound(q)
  BY DEF SoundRequest
<1>1. ASSUME NEW o \in {"resolved", "rejected"}, u = Settle(q, o, "collector")
      PROVE  /\ u.promise = o /\ u.by = "collector"
             /\ u.mapped = q.mapped /\ u.written = q.written
             /\ u.stream = q.stream /\ u.linked = q.linked /\ u.awaiting = q.awaiting
             /\ u \in SoundRequest
  BY <1>q, <1>1, SettleShape, SettleSound
<1>2. CASE u = Settle(q, "rejected", "collector")
  BY <1>1, <1>2 DEF Spared
<1>3. CASE u = Resolve(q, TRUE, "collector") /\ (~q.linked \/ q.stream \in {"failed", "done"})
  <2>1. PICK o \in {"resolved", "rejected"} : u = Settle(q, o, "collector")
    BY <1>q, <1>3, ResolveNow
  <2> QED
    BY <1>1, <2>1 DEF Spared
<1>4. CASE u = Resolve(q, TRUE, "collector") /\ q.linked /\ q.stream \notin {"failed", "done"}
  <2>1. q.linked /\ q.stream = "open"
    BY <1>q, <1>4 DEF Sound
  <2>2. u = Resolve(q, TRUE, "collector")
    BY <1>4
  <2>3. u \in SoundRequest
    BY <2>2, ResolveSound
  <2>4. /\ u.mapped = q.mapped /\ u.written = q.written
        /\ u.promise = q.promise
        /\ u.linked = q.linked /\ u.stream = q.stream
        /\ u.awaiting = IF q.awaiting = Nil THEN HeldFor(TRUE, "collector") ELSE q.awaiting
    BY <1>q, <2>1, <2>2, ResolveLater, ZenonT(60)
  <2>5. HeldFor(TRUE, "collector").who = "collector"
    BY DEF HeldFor
  <2> QED
    BY <2>3, <2>4, <2>5 DEF Spared
<1> QED
  BY <1>2, <1>3, <1>4

StreamEnded(q, how) ==
  LET x == [q EXCEPT !.stream = how, !.awaiting = Nil]
      a == q.awaiting
  IN  IF a = Nil THEN x ELSE Resolve(x, a.fits, a.who)

\* The end of a stream settles the request whose response was held for it.
LEMMA StreamEndSound ==
  ASSUME NEW q \in SoundRequest, NEW how \in {"done", "failed"}, q.stream = "open"
  PROVE  LET u == StreamEnded(q, how)
         IN  /\ u \in SoundRequest /\ Spared(q, u)
             /\ u.mapped = q.mapped /\ u.written = q.written
             /\ u.stream = how /\ u.linked = q.linked /\ u.awaiting = Nil
             /\ u.promise = "none" => q.promise = "none"
             /\ u.promise = "resolved" =>
                  \/ q.promise = "resolved" /\ u.by = q.by
                  \/ /\ how = "done" /\ q.awaiting # Nil
                     /\ q.awaiting.fits /\ u.by = q.awaiting.who
<1>q. q \in RequestRecord /\ Sound(q) /\ q.linked
  BY DEF SoundRequest, Sound
<1> DEFINE x == [q EXCEPT !.stream = how, !.awaiting = Nil]
           a == q.awaiting
           u == StreamEnded(q, how)
<1>1. x \in RequestRecord
  BY <1>q DEF RequestRecord
<1>2. /\ x.mapped = q.mapped /\ x.written = q.written
      /\ x.promise = q.promise /\ x.by = q.by
      /\ x.silenced = q.silenced /\ x.collected = q.collected
      /\ x.stream = how /\ x.awaiting = Nil /\ x.linked = q.linked
  BY <1>q DEF RequestRecord
<1>3. CASE a = Nil
  <2>1. u = x
    BY <1>3 DEF StreamEnded
  <2> HIDE DEF x
  <2>2. Sound(x)
    BY <1>q, <1>2, <1>3 DEF Sound, OwnedIfPending
  <2> QED
    BY <1>1, <1>2, <2>1, <2>2 DEF SoundRequest, Spared
<1>4. CASE a # Nil
  <2>1. u = Resolve(x, a.fits, a.who)
    BY <1>4 DEF StreamEnded
  <2>2. a \in Held
    BY <1>q, <1>4 DEF RequestRecord
  <2>3. a.fits \in BOOLEAN /\ a.who \in {"client", "collector"}
    BY <2>2, HeldIsNotNil
  <2> HIDE DEF x, u, a
  <2>4. PICK o \in {"resolved", "rejected"} :
          u = Settle(x, o, a.who) /\ (o = "resolved" => ~x.linked \/ (x.stream = "done" /\ a.fits))
    BY <1>q, <1>1, <1>2, <2>1, <2>3, ResolveNow
  <2>5. /\ u \in RequestRecord
        /\ u.promise = IF x.promise = "pending" THEN o ELSE x.promise
        /\ u.by = IF x.promise = "pending" THEN a.who ELSE x.by
        /\ u.mapped = x.mapped /\ u.written = x.written
        /\ u.silenced = x.silenced /\ u.collected = x.collected
        /\ u.linked = x.linked /\ u.stream = x.stream /\ u.awaiting = x.awaiting
    BY <1>1, <2>3, <2>4, SettleShape
  <2>6. u.promise # "pending"
    BY <2>5
  <2>7. Sound(u)
    BY <1>q, <1>2, <2>5, <2>6 DEF Sound, OwnedIfPending
  <2>8. Spared(q, u)
    BY <1>q, <1>2, <1>4, <2>5 DEF Spared, Sound, a
  <2>9. u.promise = "resolved" =>
          \/ q.promise = "resolved" /\ u.by = q.by
          \/ how = "done" /\ a.fits /\ u.by = a.who
    BY <1>q, <1>2, <2>4, <2>5
  <2> QED
    BY <1>2, <1>4, <2>5, <2>6, <2>7, <2>8, <2>9 DEF SoundRequest, u, a
<1> QED
  BY <1>3, <1>4

-----------------------------------------------------------------------------
(* Type correctness and the soundness of every request *)

\* A message travels as two fragments.
LEMMA LinesTyped ==
  ASSUME NEW m \in Message
  PROVE  Lines(m) \in Seq(Fragment) /\ Len(Lines(m)) = 2
         /\ Lines(m)[1] = [msg |-> m, part |-> 1] /\ Lines(m)[2] = [msg |-> m, part |-> 2]
BY DEF Lines, Fragment

\* The client starts with sound, unmade requests.
LEMMA InitSound == Init => TypeOK
<1> SUFFICES ASSUME Init PROVE TypeOK
  OBVIOUS
<1>1. req \in [Requests -> SoundRequest]
  BY NewSound DEF Init
<1> QED
  BY <1>1 DEF Init, TypeOK

\* A chunk of lines, however many, settles no silenced request.
LEMMA ChunkSpares ==
  ASSUME NEW start \in Progress, NEW chunk \in Seq(Fragment)
  PROVE  /\ TakeChunk(start, chunk) \in Progress
         /\ \A q \in Requests : Spared(start.req[q], TakeChunk(start, chunk).req[q])
<1>1. PICK h \in [0 .. Len(chunk) -> Progress] :
         /\ h[0] = start
         /\ \A k \in 1 .. Len(chunk) : h[k] = TakeFragment(h[k - 1], chunk[k])
         /\ TakeChunk(start, chunk) = h[Len(chunk)]
  BY ChunkHistory
<1> DEFINE n == Len(chunk)
           Same(q0, q) == q0.silenced => /\ q.silenced /\ q.promise = q0.promise
           G == {k \in 0 .. n : \A q \in Requests : Same(start.req[q], h[k].req[q])}
<1>n. n \in Nat /\ \A k \in 1 .. n : chunk[k] \in Fragment
  OBVIOUS
<1>2. 0 \in G
  BY <1>1, <1>n
<1>3. ASSUME NEW k \in 1 .. n, k - 1 \in G PROVE k \in G
  <2> DEFINE acc == h[k - 1]
             f == chunk[k]
             rq == acc.req
  <2>1. acc \in Progress /\ f \in Fragment /\ h[k] = TakeFragment(acc, f)
    BY <1>1, <1>n
  <2>2. rq \in [Requests -> SoundRequest] /\ acc.partial \in Seq(Fragment)
    BY <2>1 DEF Progress
  <2>3. \A q \in Requests : Same(start.req[q], rq[q])
    BY <1>3
  <2>4. f.msg \in Message
    BY <2>1 DEF Fragment
  <2> HIDE DEF acc, f, rq
  <2>5. ASSUME NEW q \in Requests PROVE Same(start.req[q], h[k].req[q])
    <3>1. CASE f.part # 2
      <4>1. h[k].req = rq
        BY <2>1, <3>1 DEF TakeFragment, rq
      <4> QED
        BY <2>3, <4>1
    <3>2. CASE f.part = 2
      <4> DEFINE u == HandleLine(rq, Append(acc.partial, f))
      <4>1. h[k].req = u
        BY <2>1, <3>2 DEF TakeFragment, rq
      <4>2. \/ u[q] = rq[q]
            \/ u[q] = handleNotification(rq[q])
            \/ rq[q].mapped /\ u[q] = handleResponse(rq[q], f.msg)
        BY <2>1, <2>2, LineEffect
      <4> HIDE DEF u
      <4>3. rq[q].silenced => u[q].silenced /\ u[q].promise = rq[q].promise
        <5>1. CASE u[q] = rq[q]
          BY <5>1
        <5>2. CASE u[q] = handleNotification(rq[q])
          BY <2>2, <5>2, NotifySound
        <5>3. CASE rq[q].mapped /\ u[q] = handleResponse(rq[q], f.msg)
          BY <2>2, <2>4, <5>3, RespondSound DEF Responded
        <5> QED
          BY <4>2, <5>1, <5>2, <5>3
      <4> QED
        BY <2>3, <4>1, <4>3
    <3> QED
      BY <3>1, <3>2
  <2> QED
    BY <2>5
<1> HIDE DEF G
<1>4. 0 .. n \subseteq G
  BY <1>2, <1>3, <1>n, SetInduction
<1>5. \A q \in Requests : Same(start.req[q], h[n].req[q])
  BY <1>4, <1>n DEF G
<1> QED
  BY <1>1, <1>5, <1>n DEF Spared

(* A step that leaves every request sound and settles no silenced one.     *)
SoundStep == TypeOK' /\ \A q \in Requests : Spared(req[q], req'[q])

\* No step of the client, of the application or of the server makes a request
\* unsound, and only a collector settles a silenced one.
LEMMA StepSound ==
  ASSUME TypeOK, [Next]_vars
  PROVE  SoundStep
<1>t. /\ req \in [Requests -> SoundRequest]
      /\ mPartialStdout \in Seq(Fragment) /\ mPartialStderr \in Seq(Fragment)
      /\ wire["out"] \in Seq(Fragment) /\ wire["err"] \in Seq(Fragment)
      /\ wire \in [out : Seq(Fragment), err : Seq(Fragment)]
  BY DEF TypeOK
<1>s. \A q \in Requests : Spared(req[q], req[q])
  BY DEF Spared
<1>r. ASSUME NEW r \in Requests, NEW u \in SoundRequest, req' = [req EXCEPT ![r] = u],
             Spared(req[r], u), UNCHANGED <<client, peer>>
      PROVE  SoundStep
  <2>1. req' \in [Requests -> SoundRequest] /\ \A q \in Requests : Spared(req[q], req'[q])
    BY <1>r, <1>t, <1>s
  <2> QED
    BY <1>r, <1>t, <2>1 DEF SoundStep, TypeOK, client, peer
<1>a. ASSUME NEW F, req' = [q \in Requests |-> F[q]],
             \A q \in Requests : F[q] \in SoundRequest /\ Spared(req[q], F[q]),
             UNCHANGED <<mPartialStdout, mPartialStderr, wire>>
      PROVE  SoundStep
  BY <1>a, <1>t DEF SoundStep, TypeOK
<1>m. ASSUME NEW r \in Requests PROVE req[r] \in SoundRequest
  BY <1>t
<1>1. ASSUME NEW r \in Requests, request(r) PROVE SoundStep
  <2> DEFINE s == IF r \in StreamRequests THEN "registered" ELSE "none"
             u == [NewRequest EXCEPT !.promise = "rejected", !.by = "client"]
             v == [NewRequest EXCEPT !.promise = "pending", !.mapped = TRUE, !.written = TRUE,
                     !.timer = TRUE, !.stream = s]
  <2>1. s \in {"none", "registered"}
    OBVIOUS
  <2>2. req' = [req EXCEPT ![r] = u] \/ req' = [req EXCEPT ![r] = v]
    BY <1>1 DEF request
  <2>3. u \in SoundRequest /\ v \in SoundRequest
    <3> HIDE DEF s
    <3> QED
      BY <2>1, NewSound
  <2> HIDE DEF u, v
  <2>4. \A x : Spared(req[r], x)
    BY <1>1 DEF request, Spared
  <2>5. UNCHANGED <<client, peer>>
    BY <1>1 DEF request
  <2> QED
    BY <2>2, <2>3, <2>4, <2>5, <1>r
<1>2. ASSUME NEW r \in Requests, RequestTimedOut(r) PROVE SoundStep
  <2> DEFINE a == [req[r] EXCEPT !.timer = FALSE]
             b == [req[r] EXCEPT !.mapped = FALSE, !.timer = FALSE]
             b1 == [req[r] EXCEPT !.mapped = FALSE]
             b2 == [b1 EXCEPT !.timer = FALSE]
             c == [Settle(req[r], "rejected", "client") EXCEPT !.mapped = FALSE]
  <2>1. \/ req' = [req EXCEPT ![r] = a]
        \/ req[r].mapped /\ req[r].silenced /\ req' = [req EXCEPT ![r] = b]
        \/ req[r].mapped /\ ~req[r].silenced /\ req' = [req EXCEPT ![r] = c]
    BY <1>2 DEF RequestTimedOut
  <2>2. a \in SoundRequest /\ Spared(req[r], a)
    BY <1>m, DisarmSound
  <2>3. ASSUME req[r].silenced PROVE b \in SoundRequest /\ Spared(req[r], b)
    <3>1. b1 \in SoundRequest /\ b1.promise = req[r].promise
      BY <1>m, <2>3, ReleaseSound
    <3>2. b = b2
      BY <1>m DEF SoundRequest, RequestRecord
    <3> HIDE DEF b1
    <3>3. b2 \in SoundRequest /\ b2.promise = b1.promise
      BY <3>1, DisarmSound
    <3> QED
      BY <3>1, <3>2, <3>3 DEF Spared
  <2>4. ASSUME req[r].mapped, ~req[r].silenced PROVE c \in SoundRequest /\ Spared(req[r], c)
    BY <1>m, <2>4, RejectSound
  <2>5. UNCHANGED <<client, peer>>
    BY <1>2 DEF RequestTimedOut
  <2> HIDE DEF a, b, c
  <2> QED
    BY <2>1, <2>2, <2>3, <2>4, <2>5, <1>r
<1>3. ASSUME NEW silence \in BOOLEAN, collectAllRequests(silence) PROVE SoundStep
  <2> DEFINE F == [q \in Requests |->
                     IF ~req[q].mapped THEN req[q]
                     ELSE [req[q] EXCEPT !.silenced = silence, !.timer = FALSE,
                                         !.collected = TRUE,
                                         !.claimed = req[q].claimed \/ silence]]
  <2>1. req' = F /\ UNCHANGED <<mPartialStdout, mPartialStderr, wire>>
    BY <1>3 DEF collectAllRequests, client, peer
  <2>2. ASSUME NEW q \in Requests PROVE F[q] \in SoundRequest /\ Spared(req[q], F[q])
    <3>1. CASE ~req[q].mapped
      BY <3>1, <1>m, <1>s
    <3>2. CASE req[q].mapped
      <4> DEFINE c == req[q].claimed \/ silence
                 x == req[q]
                 u == [x EXCEPT !.silenced = silence, !.timer = FALSE,
                                !.collected = TRUE, !.claimed = c]
      <4>1. c \in BOOLEAN /\ x \in SoundRequest /\ x.mapped
        BY <3>2, <1>m
      <4>2. F[q] = u
        BY <3>2
      <4> HIDE DEF c, x, F
      <4>3. u \in SoundRequest /\ Spared(x, u)
        BY <4>1, CollectSound
      <4> HIDE DEF u
      <4> QED
        BY <4>2, <4>3 DEF x
    <3> QED
      BY <3>1, <3>2
  <2> HIDE DEF F
  <2>3. req' = [q \in Requests |-> F[q]]
    BY <2>1 DEF F
  <2> QED
    BY <2>1, <2>2, <2>3, <1>a
<1>4. CASE dispose
  <2> DEFINE c(q) == [Settle(req[q], "rejected", "client") EXCEPT !.mapped = FALSE]
             b(q) == [req[q] EXCEPT !.mapped = FALSE]
             F == [q \in Requests |->
                     IF ~req[q].mapped THEN req[q]
                     ELSE [(IF req[q].silenced THEN req[q]
                            ELSE Settle(req[q], "rejected", "client")) EXCEPT !.mapped = FALSE]]
  <2>1. req' = F /\ UNCHANGED <<mPartialStdout, mPartialStderr, wire>>
    BY <1>4 DEF dispose
  <2>2. ASSUME NEW q \in Requests PROVE F[q] \in SoundRequest /\ Spared(req[q], F[q])
    <3>1. CASE ~req[q].mapped
      BY <3>1, <1>m, <1>s
    <3>2. CASE req[q].mapped /\ req[q].silenced
      <4>1. F[q] = b(q)
        BY <3>2
      <4>2. b(q) \in SoundRequest /\ Spared(req[q], b(q))
        BY <3>2, <1>m, ReleaseSound
      <4> QED
        BY <4>1, <4>2
    <3>3. CASE req[q].mapped /\ ~req[q].silenced
      <4>1. F[q] = c(q)
        BY <3>3
      <4>2. c(q) \in SoundRequest /\ Spared(req[q], c(q))
        BY <3>3, <1>m, RejectSound
      <4> QED
        BY <4>1, <4>2
    <3> QED
      BY <3>1, <3>2, <3>3
  <2> HIDE DEF F
  <2>3. req' = [q \in Requests |-> F[q]]
    BY <2>1 DEF F
  <2> QED
    BY <2>1, <2>2, <2>3, <1>a
<1>5. ASSUME NEW r \in Requests, NEW ok \in BOOLEAN, ReplaySettles(r, ok) PROVE SoundStep
  <2> DEFINE u == IF ok THEN Resolve(req[r], TRUE, "collector")
                  ELSE Settle(req[r], "rejected", "collector")
  <2>1. req' = [req EXCEPT ![r] = u] /\ req[r].promise = "pending"
        /\ UNCHANGED <<client, peer>>
    BY <1>5 DEF ReplaySettles
  <2>2. u = Resolve(req[r], TRUE, "collector") \/ u = Settle(req[r], "rejected", "collector")
    OBVIOUS
  <2> HIDE DEF u
  <2>3. u \in SoundRequest /\ Spared(req[r], u)
    BY <2>1, <2>2, <1>m, ReplaySound
  <2> QED
    BY <2>1, <2>3, <1>r
<1>6. ASSUME NEW r \in Requests, NEW how \in {"done", "failed"}, StreamEnds(r, how) PROVE SoundStep
  <2> DEFINE u == StreamEnded(req[r], how)
  <2>1. req' = [req EXCEPT ![r] = u] /\ req[r].stream = "open" /\ UNCHANGED <<client, peer>>
    BY <1>6 DEF StreamEnds, StreamEnded
  <2>2. u \in SoundRequest /\ Spared(req[r], u)
    BY <2>1, <1>m, StreamEndSound
  <2> HIDE DEF u
  <2> QED
    BY <2>1, <2>2, <1>r
<1>7. CASE rejectPendingRequests
  <2> DEFINE c(q) == [Settle(req[q], "rejected", "client") EXCEPT !.mapped = FALSE]
             F == [q \in Requests |->
                     IF ~req[q].mapped \/ req[q].silenced THEN req[q] ELSE c(q)]
  <2>1. req' = F /\ UNCHANGED <<mPartialStdout, mPartialStderr, wire>>
    BY <1>7 DEF rejectPendingRequests, peer
  <2>2. ASSUME NEW q \in Requests PROVE F[q] \in SoundRequest /\ Spared(req[q], F[q])
    <3>1. CASE ~req[q].mapped \/ req[q].silenced
      BY <3>1, <1>m, <1>s
    <3>2. CASE req[q].mapped /\ ~req[q].silenced
      <4>1. F[q] = c(q)
        BY <3>2
      <4>2. c(q) \in SoundRequest /\ Spared(req[q], c(q))
        BY <3>2, <1>m, RejectSound
      <4> QED
        BY <4>1, <4>2
    <3> QED
      BY <3>1, <3>2
  <2> HIDE DEF F
  <2>3. req' = [q \in Requests |-> F[q]]
    BY <2>1 DEF F
  <2> QED
    BY <2>1, <2>2, <2>3, <1>a
<1>8. ASSUME NEW n \in 1 .. Len(wire["out"]), onOutData(n) PROVE SoundStep
  <2> DEFINE w == wire["out"]
             start == [req |-> req, partial |-> mPartialStdout]
             chunk == SubSeq(w, 1, n)
             result == TakeChunk(start, chunk)
  <2>1. start \in Progress /\ start.req = req
    BY <1>t DEF Progress
  <2>2. chunk \in Seq(Fragment) /\ SubSeq(w, n + 1, Len(w)) \in Seq(Fragment)
    BY <1>t
  <2>3. result \in Progress /\ \A q \in Requests : Spared(req[q], result.req[q])
    <3> HIDE DEF start, chunk
    <3> QED
      BY <2>1, <2>2, ChunkSpares
  <2>4. req' = result.req /\ mPartialStdout' = result.partial
    BY <1>8 DEF onOutData, processResponses
  <2>5. /\ wire' = [wire EXCEPT !["out"] = SubSeq(w, n + 1, Len(w))]
        /\ mPartialStderr' = mPartialStderr
    BY <1>8 DEF onOutData, Arrives
  <2>6. wire' \in [out : Seq(Fragment), err : Seq(Fragment)]
    BY <2>2, <2>5, <1>t
  <2> HIDE DEF result
  <2>7. result.req \in [Requests -> SoundRequest] /\ result.partial \in Seq(Fragment)
    BY <2>3 DEF Progress
  <2> QED
    BY <2>3, <2>4, <2>5, <2>6, <2>7, <1>t DEF SoundStep, TypeOK
<1>9. ASSUME NEW n \in 1 .. Len(wire["err"]), onErrData(n) PROVE SoundStep
  <2> DEFINE w == wire["err"]
             start == [req |-> req, partial |-> mPartialStderr]
             chunk == SubSeq(w, 1, n)
             result == TakeChunk(start, chunk)
  <2>1. start \in Progress /\ start.req = req
    BY <1>t DEF Progress
  <2>2. chunk \in Seq(Fragment) /\ SubSeq(w, n + 1, Len(w)) \in Seq(Fragment)
    BY <1>t
  <2>3. result \in Progress /\ \A q \in Requests : Spared(req[q], result.req[q])
    <3> HIDE DEF start, chunk
    <3> QED
      BY <2>1, <2>2, ChunkSpares
  <2>4. \/ req' = req /\ mPartialStderr' = mPartialStderr
        \/ req' = result.req /\ mPartialStderr' = result.partial
    BY <1>9 DEF onErrData, processResponses
  <2>5. /\ wire' = [wire EXCEPT !["err"] = SubSeq(w, n + 1, Len(w))]
        /\ mPartialStdout' = mPartialStdout
    BY <1>9 DEF onErrData, Arrives
  <2>6. wire' \in [out : Seq(Fragment), err : Seq(Fragment)]
    BY <2>2, <2>5, <1>t
  <2> HIDE DEF result
  <2>7. result.req \in [Requests -> SoundRequest] /\ result.partial \in Seq(Fragment)
    BY <2>3 DEF Progress
  <2> QED
    BY <2>3, <2>4, <2>5, <2>6, <2>7, <1>t, <1>s DEF SoundStep, TypeOK
<1>u. ASSUME req' = req, UNCHANGED <<mPartialStdout, mPartialStderr>>,
             wire' \in [out : Seq(Fragment), err : Seq(Fragment)]
      PROVE  SoundStep
  BY <1>u, <1>t, <1>s DEF SoundStep, TypeOK
<1>10. ASSUME NEW ch \in {"out", "err"}, NEW m \in Message, Send(ch, m) PROVE SoundStep
  <2>1. wire[ch] \o Lines(m) \in Seq(Fragment)
    <3>1. wire[ch] \in Seq(Fragment)
      BY <1>t
    <3>2. Lines(m) \in Seq(Fragment)
      BY LinesTyped
    <3> QED
      BY <3>1, <3>2
  <2>2. wire' \in [out : Seq(Fragment), err : Seq(Fragment)]
    BY <1>10, <2>1, <1>t DEF Send
  <2> QED
    BY <1>10, <2>2, <1>u DEF Send, client
<1>11. ASSUME NEW r \in Requests, ServerNotifies(r) PROVE SoundStep
  <2>1. [kind |-> "notification", id |-> r, fits |-> TRUE] \in Message
    BY <1>11 DEF ServerNotifies, Message
  <2> QED
    BY <1>11, <2>1, <1>10 DEF ServerNotifies
<1>12. ASSUME NEW r \in Requests, NEW kind \in {"result", "error"}, NEW fits \in BOOLEAN,
              ServerAnswers(r, kind, fits)
       PROVE  SoundStep
  <2> DEFINE m == [kind |-> kind, id |-> r, fits |-> fits]
             ch == IF kind = "error" THEN "err" ELSE "out"
  <2>1. m \in Message
    BY <1>12 DEF ServerAnswers, Message
  <2>2. ch \in {"out", "err"} /\ Send(ch, m)
    BY <1>12 DEF ServerAnswers
  <2> HIDE DEF ch, m
  <2> QED
    BY <2>1, <2>2, <1>10
<1>13. CASE ServerReportsNull
  <2>1. [kind |-> "error", id |-> Nil, fits |-> TRUE] \in Message
    BY DEF Message
  <2> QED
    BY <1>13, <2>1, <1>10 DEF ServerReportsNull
<1>14. CASE TransportCloses
  <2>1. wire' \in [out : Seq(Fragment), err : Seq(Fragment)]
    BY <1>14 DEF TransportCloses
  <2> QED
    BY <1>14, <2>1, <1>u DEF TransportCloses
<1>15. CASE ServerEnds \/ StdinEnds \/ ChannelCloses \/ UNCHANGED vars
  <2>1. req' = req /\ UNCHANGED <<mPartialStdout, mPartialStderr>> /\ wire' = wire
    BY <1>15 DEF ServerEnds, StdinEnds, ChannelCloses, vars, client, peer
  <2> QED
    BY <2>1, <1>u, <1>t
<1>16. CASE Application
  <2>1. CASE \E r \in Requests : request(r)
    BY <2>1, <1>1
  <2>2. CASE \E silence \in BOOLEAN : collectAllRequests(silence)
    BY <2>2, <1>3
  <2>3. CASE \E r \in Requests, ok \in BOOLEAN : ReplaySettles(r, ok)
    BY <2>3, <1>5
  <2> QED
    BY <1>16, <1>4, <2>1, <2>2, <2>3 DEF Application
<1>17. CASE Server
  <2>1. ASSUME NEW r \in Requests,
               \E kind \in {"result", "error"}, fits \in BOOLEAN : ServerAnswers(r, kind, fits)
        PROVE  SoundStep
    BY <2>1, <1>12
  <2> QED
    BY <1>17, <2>1, <1>11, <1>13, <1>15 DEF Server
<1>18. CASE Data
  BY <1>18, <1>8, <1>9 DEF Data
<1> QED
  BY <1>2, <1>6, <1>7, <1>14, <1>15, <1>16, <1>17, <1>18 DEF Next

\* Every request stays sound.
THEOREM ClientSound == Spec => []TypeOK
<1>1. TypeOK /\ [Next]_vars => TypeOK'
  BY StepSound DEF SoundStep
<1> QED
  BY <1>1, InitSound, PTL DEF Spec

\* A pending promise can always still be settled (ZSshClient.request): its
\* request is in mRequestMap, its response is held until its stream ends, or a
\* collector was given it and the client told to keep quiet.
THEOREM ClientPendingHasOwner == Spec => []PendingHasOwner
<1>1. TypeOK => PendingHasOwner
  <2> SUFFICES ASSUME TypeOK, NEW r \in Requests PROVE OwnedIfPending(req[r])
    BY DEF PendingHasOwner, OwnedIfPending
  <2> QED
    BY DEF TypeOK, SoundRequest, Sound
<1> QED
  BY <1>1, ClientSound, PTL

\* The client never settles a silenced request, not for a response, a timeout,
\* the end of a stream, a disconnect or dispose(): only its collector does.
THEOREM ClientSilencedLeftAlone == Spec => SilencedLeftAlone
<1> DEFINE A == \A r \in Requests :
                  (req[r].silenced /\ req[r].promise = "pending"
                     /\ req'[r].promise # "pending") => req'[r].by = "collector"
<1>1. TypeOK /\ [Next]_vars => [A]_vars
  BY StepSound DEF SoundStep, Spared
<1> QED
  BY <1>1, ClientSound, PTL DEF Spec, SilencedLeftAlone

-----------------------------------------------------------------------------
(* Lines reach processResponses intact on stdout *)

(* What mPartialStdout holds when k fragments more have been taken.        *)
Buffer(partial, w, k) ==
  IF k = 0 THEN partial ELSE IF w[k].part = 2 THEN <<>> ELSE <<w[k]>>

(* The unfinished line and the fragments on their way make whole lines.    *)
Aligned(partial, w) ==
  /\ \A k \in 1 .. Len(w) :
       Buffer(partial, w, k - 1) =
         IF w[k].part = 2 THEN <<[msg |-> w[k].msg, part |-> 1]>> ELSE <<>>
  /\ Buffer(partial, w, Len(w)) = <<>>

\* Taking n fragments keeps the rest aligned.
LEMMA AlignedRest ==
  ASSUME NEW p, NEW w \in Seq(Fragment), Aligned(p, w), NEW n \in 1 .. Len(w)
  PROVE  Aligned(Buffer(p, w, n), SubSeq(w, n + 1, Len(w)))
<1> DEFINE v == SubSeq(w, n + 1, Len(w))
<1>1. Len(v) = Len(w) - n /\ Len(w) \in Nat /\ \A j \in 1 .. Len(v) : v[j] = w[n + j]
  OBVIOUS
<1> HIDE DEF v
<1>2. \A j \in 0 .. Len(v) : Buffer(Buffer(p, w, n), v, j) = Buffer(p, w, n + j)
  <2> TAKE j \in 0 .. Len(v)
  <2>1. CASE j = 0
    BY <2>1 DEF Buffer
  <2>2. CASE j # 0
    <3>1. j \in 1 .. Len(v) /\ n + j # 0
      BY <1>1, <2>2
    <3> QED
      BY <1>1, <2>2, <3>1 DEF Buffer
  <2> QED
    BY <2>1, <2>2
<1>3. ASSUME NEW k \in 1 .. Len(v)
      PROVE  Buffer(Buffer(p, w, n), v, k - 1) =
               IF v[k].part = 2 THEN <<[msg |-> v[k].msg, part |-> 1]>> ELSE <<>>
  <2>1. k - 1 \in 0 .. Len(v) /\ n + k \in 1 .. Len(w) /\ n + (k - 1) = (n + k) - 1
    BY <1>1
  <2> QED
    BY <1>1, <1>2, <2>1 DEF Aligned
<1>4. Buffer(Buffer(p, w, n), v, Len(v)) = <<>>
  <2>1. Len(v) \in 0 .. Len(v) /\ n + Len(v) = Len(w)
    BY <1>1
  <2> QED
    BY <1>2, <2>1 DEF Aligned
<1> QED
  BY <1>3, <1>4 DEF Aligned, v

\* A message appended to a stream is two fragments more.
LEMMA SendLength ==
  ASSUME NEW w \in Seq(Fragment), NEW m \in Message
  PROVE  LET v == w \o Lines(m)
             n == Len(w)
         IN  /\ Len(v) = n + 2 /\ n \in Nat
             /\ \A j \in 1 .. n : v[j] = w[j]
             /\ v[n + 1] = [msg |-> m, part |-> 1] /\ v[n + 2] = [msg |-> m, part |-> 2]
<1> DEFINE n == Len(w)
<1> DEFINE l == Lines(m)
<1>1. l \in Seq(Fragment) /\ Len(l) = 2
  BY LinesTyped
<1>2. l[1] = [msg |-> m, part |-> 1] /\ l[2] = [msg |-> m, part |-> 2]
  BY LinesTyped
<1> HIDE DEF l
<1>3. /\ Len(w \o l) = n + 2 /\ n \in Nat
      /\ \A j \in 1 .. n : (w \o l)[j] = w[j]
      /\ (w \o l)[n + 1] = l[1] /\ (w \o l)[n + 2] = l[2]
  <2>1. /\ Len(w \o l) = Len(w) + Len(l)
        /\ \A i \in 1 .. Len(w) + Len(l) :
             (w \o l)[i] = IF i <= Len(w) THEN w[i] ELSE l[i - Len(w)]
    BY <1>1, ConcatProperties
  <2>2. n \in Nat
    OBVIOUS
  <2> HIDE DEF n
  <2>3. /\ Len(w \o l) = n + 2
        /\ \A i \in 1 .. n + 2 : (w \o l)[i] = IF i <= n THEN w[i] ELSE l[i - n]
    BY <1>1, <2>1 DEF n
  <2>4. \A j \in 1 .. n : (w \o l)[j] = w[j]
    BY <2>2, <2>3
  <2>5. (w \o l)[n + 1] = l[1] /\ (w \o l)[n + 2] = l[2]
    <3>1. /\ n + 1 \in 1 .. n + 2 /\ n + 2 \in 1 .. n + 2 /\ ~(n + 1 <= n) /\ ~(n + 2 <= n)
          /\ n + 1 - n = 1 /\ n + 2 - n = 2
      BY <2>2
    <3> DEFINE c == w \o l
               d(i) == IF i <= n THEN w[i] ELSE l[i - n]
    <3>2. \A i \in 1 .. n + 2 : c[i] = d(i)
      BY <2>3
    <3>3. d(n + 1) = l[1] /\ d(n + 2) = l[2]
      BY <2>2, <3>1
    <3> HIDE DEF c, d
    <3>4. c[n + 1] = l[1] /\ c[n + 2] = l[2]
      BY <3>1, <3>2, <3>3
    <3> QED
      BY <3>4 DEF c
  <2> QED
    BY <2>2, <2>3, <2>4, <2>5
<1> QED
  BY <1>2, <1>3 DEF l

\* A message is sent whole, after whole lines.
LEMMA AlignedSend ==
  ASSUME NEW p, NEW w \in Seq(Fragment), Aligned(p, w), NEW m \in Message
  PROVE  Aligned(p, w \o Lines(m))
<1> DEFINE v == w \o Lines(m)
           n == Len(w)
<1>1. /\ Len(v) = n + 2 /\ n \in Nat
      /\ \A j \in 1 .. n : v[j] = w[j]
      /\ v[n + 1] = [msg |-> m, part |-> 1] /\ v[n + 2] = [msg |-> m, part |-> 2]
  BY SendLength
<1> HIDE DEF v
<1>2. \A j \in 0 .. n : Buffer(p, v, j) = Buffer(p, w, j)
  BY <1>1 DEF Buffer
<1>3. Buffer(p, v, n) = <<>>
  BY <1>1, <1>2 DEF Aligned
<1>4. Buffer(p, v, n + 1) = <<[msg |-> m, part |-> 1]>> /\ Buffer(p, v, n + 2) = <<>>
  BY <1>1 DEF Buffer
<1>5. ASSUME NEW k \in 1 .. Len(v)
      PROVE  Buffer(p, v, k - 1) =
               IF v[k].part = 2 THEN <<[msg |-> v[k].msg, part |-> 1]>> ELSE <<>>
  <2>1. CASE k \in 1 .. n
    <3>1. k - 1 \in 0 .. n /\ v[k] = w[k]
      BY <1>1, <2>1
    <3> QED
      BY <1>2, <2>1, <3>1 DEF Aligned
  <2>2. CASE k = n + 1
    BY <1>1, <1>3, <2>2
  <2>3. CASE k = n + 2
    <3>1. k - 1 = n + 1
      BY <1>1, <2>3
    <3> QED
      BY <1>1, <1>4, <2>3, <3>1
  <2>4. k \in 1 .. n \/ k = n + 1 \/ k = n + 2
    BY <1>1
  <2> QED
    BY <2>1, <2>2, <2>3, <2>4
<1> QED
  BY <1>1, <1>4, <1>5 DEF Aligned, v

\* The last fragment of an aligned line completes the message.
LEMMA IntactLine ==
  ASSUME NEW p, NEW w \in Seq(Fragment), Aligned(p, w), NEW k \in 1 .. Len(w), w[k].part = 2
  PROVE  Append(Buffer(p, w, k - 1), w[k]) = Lines(w[k].msg)
<1>1. w[k] \in Fragment
  OBVIOUS
<1>2. w[k] = [msg |-> w[k].msg, part |-> 2]
  BY <1>1 DEF Fragment
<1>3. Buffer(p, w, k - 1) = <<[msg |-> w[k].msg, part |-> 1]>>
  BY DEF Aligned
<1> DEFINE a == [msg |-> w[k].msg, part |-> 1]
           b == [msg |-> w[k].msg, part |-> 2]
<1>4. a \in Fragment /\ b \in Fragment
  BY <1>1 DEF Fragment
<1> HIDE DEF a, b
<1>5. Append(<<a>>, b) = <<a, b>>
  <2>1. <<a>> \in Seq(Fragment) /\ Len(<<a>>) = 1 /\ <<a>>[1] = a
    BY <1>4
  <2>2. <<a, b>> \in Seq(Fragment) /\ Len(<<a, b>>) = 2 /\ <<a, b>>[1] = a /\ <<a, b>>[2] = b
    BY <1>4
  <2> DEFINE s == Append(<<a>>, b)
  <2>3. s \in Seq(Fragment) /\ Len(s) = 2 /\ s[1] = a /\ s[2] = b
    BY <1>4, <2>1, AppendProperties
  <2> HIDE DEF s
  <2>4. \A i \in 1 .. 2 : i = 1 \/ i = 2
    OBVIOUS
  <2>5. s = <<a, b>>
    <3> DEFINE t == <<a, b>>
    <3>1. \A i \in 1 .. Len(s) : s[i] = t[i]
      BY <2>2, <2>3, <2>4
    <3>2. t \in Seq(Fragment) /\ Len(s) = Len(t)
      BY <2>2, <2>3
    <3> HIDE DEF t
    <3>3. s = t
      BY <2>3, <3>1, <3>2, SeqEqual
    <3> QED
      BY <3>3 DEF t
  <2> QED
    BY <2>5 DEF s
<1> QED
  BY <1>2, <1>3, <1>5 DEF Lines, a, b

-----------------------------------------------------------------------------
(* What the client may believe of the server, which has sent S *)

IsLine(f, kind, r) == f.part = 2 /\ f.msg.kind = kind /\ f.msg.id = r
Notified(S, r) == \E n \in S : n.kind = "notification" /\ n.id = r
Answer(m, r) == m.kind = "result" /\ m.id = r

(* What the client concluded about a request is what the server sent.      *)
Honest(S, r, q) ==
  /\ (q.promise = "resolved" /\ q.by = "client") =>
       \E m \in S : Answer(m, r) /\ (Notified(S, r) => q.stream = "done" /\ m.fits)
  /\ (q.awaiting # Nil /\ q.awaiting.who = "client") =>
       \E m \in S : Answer(m, r) /\ m.fits = q.awaiting.fits
  /\ (r \in StreamRequests /\ q.mapped) => q.stream # "none"
  /\ q.promise = "none" => ~q.written
  /\ (\E m \in S : m.id = r) => q.written

(* A request whose transfer the server announced is linked to its stream   *)
(* when the fragments of w after the k-th have been taken.                 *)
Coming(S, r, q, w, k) ==
  (Notified(S, r) /\ q.mapped) =>
    q.linked \/ \E j \in k + 1 .. Len(w) : IsLine(w[j], "notification", r)

(* On stdout a notification precedes the result it announces.              *)
NotifiedFirst(w) ==
  \A r \in Requests : \A j, k \in 1 .. Len(w) :
    IsLine(w[j], "notification", r) /\ IsLine(w[k], "result", r) => j < k
StdoutSent(S, w) ==
  \A k \in 1 .. Len(w) : w[k].msg \in S /\ w[k].msg.kind \in {"notification", "result"}
StderrSent(w) == \A k \in 1 .. Len(w) : w[k].msg.kind = "error"

WireInv ==
  /\ sent \subseteq Message
  /\ StdoutSent(sent, wire["out"]) /\ StderrSent(wire["err"]) /\ NotifiedFirst(wire["out"])
  /\ connection = "up" => Aligned(mPartialStdout, wire["out"])
HonestInv ==
  /\ \A r \in Requests : Honest(sent, r, req[r])
  /\ connection = "up" => \A r \in Requests : Coming(sent, r, req[r], wire["out"], 0)

(* A change of a request that claims nothing new of the server.            *)
Kept(q, u) ==
  /\ (u.promise = "resolved" /\ u.by = "client") => q.promise = "resolved" /\ q.by = "client"
  /\ u.promise = "none" => q.promise = "none"
  /\ (u.awaiting # Nil /\ u.awaiting.who = "client") => u.awaiting = q.awaiting
  /\ u.written = q.written /\ u.stream = q.stream /\ u.linked = q.linked
  /\ u.mapped => q.mapped

\* Such a change keeps a request honest.
LEMMA KeptHonest ==
  ASSUME NEW S, NEW r, NEW q, NEW u, Kept(q, u)
  PROVE  /\ Honest(S, r, q) => Honest(S, r, u)
         /\ \A w, k : Coming(S, r, q, w, k) => Coming(S, r, u, w, k)
<1>1. Honest(S, r, q) => Honest(S, r, u)
  BY DEF Kept, Honest
<1>2. \A w, k : Coming(S, r, q, w, k) => Coming(S, r, u, w, k)
  BY DEF Kept, Coming
<1> QED
  BY <1>1, <1>2

\* An error line claims nothing.
LEMMA ErrorKept ==
  ASSUME NEW q \in SoundRequest, NEW m \in Message, q.mapped, m.kind = "error"
  PROVE  Kept(q, handleResponse(q, m))
<1> DEFINE u == handleResponse(q, m)
<1>1. Responded(q, u, m)
  BY RespondSound
<1> HIDE DEF u
<1>2. Kept(q, u)
  BY <1>1 DEF Responded, Kept
<1> QED
  BY <1>2 DEF u

\* A result that the server sent, taken after the notification if there was
\* one, is an honest reason to resolve.
LEMMA ResultHonest ==
  ASSUME NEW S, NEW r, NEW q \in SoundRequest, NEW m \in Message, m \in S, Answer(m, r),
         q.mapped, Notified(S, r) => q.linked, Honest(S, r, q)
  PROVE  Honest(S, r, handleResponse(q, m)) /\ ~handleResponse(q, m).mapped
<1> DEFINE u == handleResponse(q, m)
<1>1. Responded(q, u, m)
  BY RespondSound
<1>2. m.kind # "error" /\ m.fits \in BOOLEAN
  BY DEF Answer, Message
<1>3. HeldFor(m.fits, "client").fits = m.fits
  BY DEF HeldFor
<1> HIDE DEF u
<1>4. (u.promise = "resolved" /\ u.by = "client") =>
        \E n \in S : Answer(n, r) /\ (Notified(S, r) => u.stream = "done" /\ n.fits)
  <2>1. CASE q.promise = "resolved" /\ u.by = q.by
    BY <1>1, <2>1 DEF Responded, Honest
  <2>2. CASE q.linked => q.stream = "done" /\ m.fits
    BY <1>1, <2>2 DEF Responded
  <2> QED
    BY <1>1, <2>1, <2>2 DEF Responded
<1>5. (u.awaiting # Nil /\ u.awaiting.who = "client") =>
        \E n \in S : Answer(n, r) /\ n.fits = u.awaiting.fits
  <2>1. CASE u.awaiting = q.awaiting
    BY <2>1 DEF Honest
  <2>2. CASE u.awaiting = HeldFor(m.fits, "client")
    BY <1>3, <2>2
  <2> QED
    BY <1>1, <2>1, <2>2 DEF Responded
<1>6. /\ u.promise = "none" => ~u.written
      /\ (\E n \in S : n.id = r) => u.written
      /\ ~u.mapped
  BY <1>1 DEF Responded, Honest
<1> QED
  BY <1>4, <1>5, <1>6 DEF Honest, u

\* A notification for a stream that is registered links the request.
LEMMA NotifyHonest ==
  ASSUME NEW S, NEW r, NEW q \in SoundRequest, Honest(S, r, q)
  PROVE  /\ Honest(S, r, handleNotification(q))
         /\ (q.mapped /\ r \in StreamRequests) => handleNotification(q).linked
<1> DEFINE u == handleNotification(q)
<1>1. /\ u \in SoundRequest
      /\ u.mapped = q.mapped /\ u.written = q.written
      /\ u.promise = q.promise /\ u.by = q.by
      /\ u.awaiting = q.awaiting
      /\ q.stream # "none" => u.linked
      /\ q.stream # "registered" => u = q
  BY NotifySound
<1>2. u.linked => u.stream # "none"
  BY <1>1 DEF SoundRequest, Sound
<1> HIDE DEF u
<1>3. CASE q.stream # "registered"
  BY <1>1, <1>3 DEF Honest, u
<1>4. CASE q.stream = "registered"
  <2>1. Honest(S, r, u)
    BY <1>1, <1>2, <1>4 DEF Honest
  <2> QED
    BY <1>1, <1>4, <2>1 DEF u
<1> QED
  BY <1>3, <1>4

-----------------------------------------------------------------------------
(* Chunks *)

\* One fragment of a stream of whole lines: the buffer holds exactly the
\* unfinished line, and a completed line is applied to its request.
LEMMA AlignedFragment ==
  ASSUME NEW p, NEW w \in Seq(Fragment), Aligned(p, w), NEW k \in 1 .. Len(w),
         NEW acc \in Progress, acc.partial = Buffer(p, w, k - 1)
  PROVE  LET u == TakeFragment(acc, w[k])
             m == w[k].msg
         IN  /\ u.partial = Buffer(p, w, k)
             /\ \A r \in Requests :
                  u.req[r] = IF w[k].part = 2 /\ m.id = r /\ acc.req[r].mapped
                             THEN IF m.kind = "notification"
                                  THEN handleNotification(acc.req[r])
                                  ELSE handleResponse(acc.req[r], m)
                             ELSE acc.req[r]
<1> DEFINE f == w[k]
           m == f.msg
           u == TakeFragment(acc, f)
<1>1. f \in Fragment
  OBVIOUS
<1>2. acc.req \in [Requests -> SoundRequest] /\ acc.partial \in Seq(Fragment)
  BY DEF Progress
<1>3. CASE f.part # 2
  <2>1. u.req = acc.req /\ u.partial = Append(acc.partial, f)
    BY <1>3 DEF TakeFragment
  <2>2. acc.partial = <<>>
    BY <1>3 DEF Aligned
  <2>3. Append(<<>>, f) = <<f>>
    OBVIOUS
  <2>4. k # 0
    OBVIOUS
  <2>5. u.partial = Buffer(p, w, k)
    BY <1>3, <2>1, <2>2, <2>3, <2>4 DEF Buffer
  <2> HIDE DEF u, m
  <2> QED
    BY <1>3, <2>1, <2>5 DEF u, m
<1>4. CASE f.part = 2
  <2> DEFINE line == Append(acc.partial, f)
             v == HandleLine(acc.req, line)
  <2>1. u.req = v /\ u.partial = <<>>
    BY <1>4 DEF TakeFragment
  <2>2. k # 0
    OBVIOUS
  <2>3. u.partial = Buffer(p, w, k)
    BY <1>4, <2>1, <2>2 DEF Buffer
  <2>4. line = Lines(m)
    BY <1>4, IntactLine
  <2>5. /\ \A r \in Requests :
             \/ v[r] = acc.req[r]
             \/ /\ m.id = r /\ acc.req[r].mapped /\ m.kind = "notification"
                /\ v[r] = handleNotification(acc.req[r])
             \/ /\ m.id = r /\ acc.req[r].mapped /\ m.kind # "notification"
                /\ v[r] = handleResponse(acc.req[r], m)
        /\ (line = Lines(m) /\ m.id \in Requests /\ acc.req[m.id].mapped)
             => v[m.id] = IF m.kind = "notification"
                          THEN handleNotification(acc.req[m.id])
                          ELSE handleResponse(acc.req[m.id], m)
    <3> HIDE DEF f
    <3> QED
      BY <1>1, <1>2, LineEffect, ZenonT(60)
  <2> HIDE DEF v, line, m, u
  <2>6. \A r \in Requests :
          v[r] = IF m.id = r /\ acc.req[r].mapped
                 THEN IF m.kind = "notification"
                      THEN handleNotification(acc.req[r])
                      ELSE handleResponse(acc.req[r], m)
                 ELSE acc.req[r]
    BY <2>4, <2>5
  <2> QED
    BY <1>4, <2>1, <2>3, <2>6 DEF u, m
<1> QED
  BY <1>3, <1>4

(* What is known of a request when k fragments of stdout have been taken:  *)
(* it is honest, its announced stream is linked or will be, and a result   *)
(* among them has taken it out of the map.                                 *)
Followed(S, w, r, q, k) ==
  /\ Honest(S, r, q) /\ Coming(S, r, q, w, k)
  /\ (\E j \in 1 .. k : IsLine(w[j], "result", r)) => ~q.mapped

\* One more fragment of stdout keeps that.
LEMMA FragmentFollowed ==
  ASSUME NEW S, NEW w \in Seq(Fragment), StdoutSent(S, w), NotifiedFirst(w),
         NEW k \in 1 .. Len(w), NEW r \in Requests, NEW q \in SoundRequest,
         Followed(S, w, r, q, k - 1), NEW u,
         u = IF w[k].part = 2 /\ w[k].msg.id = r /\ q.mapped
             THEN IF w[k].msg.kind = "notification" THEN handleNotification(q)
                  ELSE handleResponse(q, w[k].msg)
             ELSE q
  PROVE  Followed(S, w, r, u, k)
<1> DEFINE f == w[k]
           m == f.msg
<1>1. f \in Fragment
  OBVIOUS
<1>2. m \in Message /\ m \in S /\ m.kind \in {"notification", "result"}
  BY <1>1 DEF Fragment, StdoutSent
<1>3. m.kind = "notification" => m.id \in StreamRequests
  BY <1>2 DEF Message
<1>4. \A j \in 1 .. k : j \in 1 .. k - 1 \/ j = k
  OBVIOUS
<1>5. \A j \in (k - 1) + 1 .. Len(w) : j = k \/ j \in k + 1 .. Len(w)
  OBVIOUS
<1> HIDE DEF f, m
<1>6. CASE f.part = 2 /\ m.id = r /\ q.mapped /\ m.kind = "notification"
  <2>1. u = handleNotification(q)
    BY <1>6 DEF f, m
  <2>2. Honest(S, r, u) /\ u.linked
    BY <1>3, <1>6, <2>1, NotifyHonest DEF Followed
  <2>3. ~\E j \in 1 .. k : IsLine(w[j], "result", r)
    <3>1. ~\E j \in 1 .. k - 1 : IsLine(w[j], "result", r)
      BY <1>6 DEF Followed
    <3>2. ~IsLine(f, "result", r)
      BY <1>6 DEF IsLine, m
    <3> QED
      BY <1>4, <3>1, <3>2 DEF f
  <2> QED
    BY <2>2, <2>3 DEF Followed, Coming
<1>7. CASE f.part = 2 /\ m.id = r /\ q.mapped /\ m.kind # "notification"
  <2>1. u = handleResponse(q, m)
    BY <1>7 DEF f, m
  <2>2. Answer(m, r) /\ IsLine(f, "result", r)
    BY <1>2, <1>7 DEF Answer, IsLine, m
  <2>3. Notified(S, r) => q.linked
    <3>1. ASSUME NEW j \in (k - 1) + 1 .. Len(w), IsLine(w[j], "notification", r) PROVE FALSE
      <4>1. j \in 1 .. Len(w) /\ ~(j < k)
        OBVIOUS
      <4> QED
        BY <2>2, <3>1, <4>1 DEF NotifiedFirst, f
    <3> QED
      BY <1>7, <3>1 DEF Followed, Coming
  <2>4. Honest(S, r, u) /\ ~u.mapped
    BY <1>2, <1>7, <2>1, <2>2, <2>3, ResultHonest DEF Followed
  <2> QED
    BY <2>4 DEF Followed, Coming
<1>8. CASE ~(f.part = 2 /\ m.id = r /\ q.mapped)
  <2>1. u = q
    BY <1>8 DEF f, m
  <2>2. q.mapped => ~IsLine(f, "notification", r) /\ ~IsLine(f, "result", r)
    BY <1>8 DEF IsLine, m
  <2>3. Coming(S, r, q, w, k)
    BY <1>5, <2>2 DEF Followed, Coming, f
  <2>4. (\E j \in 1 .. k : IsLine(w[j], "result", r)) => ~q.mapped
    BY <1>4, <2>2 DEF Followed, f
  <2> QED
    BY <2>1, <2>3, <2>4 DEF Followed
<1> QED
  BY <1>6, <1>7, <1>8

\* A chunk of n fragments from stdout.
LEMMA OutChunk ==
  ASSUME NEW S, NEW p \in Seq(Fragment), NEW w \in Seq(Fragment), Aligned(p, w),
         StdoutSent(S, w), NotifiedFirst(w), NEW n \in 1 .. Len(w),
         NEW rq \in [Requests -> SoundRequest],
         \A r \in Requests : Honest(S, r, rq[r]) /\ Coming(S, r, rq[r], w, 0)
  PROVE  LET result == TakeChunk([req |-> rq, partial |-> p], SubSeq(w, 1, n))
         IN  /\ result.partial = Buffer(p, w, n)
             /\ \A r \in Requests : Followed(S, w, r, result.req[r], n)
<1> DEFINE start == [req |-> rq, partial |-> p]
           chunk == SubSeq(w, 1, n)
<1>1. start \in Progress
  BY DEF Progress
<1>2. chunk \in Seq(Fragment) /\ Len(chunk) = n /\ \A k \in 1 .. n : chunk[k] = w[k]
  OBVIOUS
<1>3. start.req = rq /\ start.partial = p
  OBVIOUS
<1>w. Len(w) \in Nat /\ n \in Nat /\ n <= Len(w)
  OBVIOUS
<1> HIDE DEF start, chunk
<1>4. PICK h \in [0 .. Len(chunk) -> Progress] :
         /\ h[0] = start
         /\ \A k \in 1 .. Len(chunk) : h[k] = TakeFragment(h[k - 1], chunk[k])
         /\ TakeChunk(start, chunk) = h[Len(chunk)]
  BY <1>1, <1>2, ChunkHistory
<1>5. /\ \A k \in 0 .. n : h[k] \in Progress
      /\ \A k \in 1 .. n : h[k] = TakeFragment(h[k - 1], w[k])
      /\ TakeChunk(start, chunk) = h[n]
  BY <1>2, <1>4
<1> DEFINE Good(k) == /\ h[k].partial = Buffer(p, w, k)
                      /\ \A r \in Requests : Followed(S, w, r, h[k].req[r], k)
           G == {k \in 0 .. n : Good(k)}
<1>6. 0 \in G
  <2>1. h[0].partial = Buffer(p, w, 0)
    BY <1>3, <1>4 DEF Buffer
  <2>2. ASSUME NEW r \in Requests PROVE Followed(S, w, r, h[0].req[r], 0)
    BY <1>3, <1>4 DEF Followed
  <2>3. 0 \in 0 .. n
    BY <1>w
  <2> QED
    BY <2>1, <2>2, <2>3
<1>7. ASSUME NEW k \in 1 .. n, k - 1 \in G PROVE k \in G
  <2> DEFINE acc == h[k - 1]
             m == w[k].msg
             u == TakeFragment(acc, w[k])
  <2>1. acc \in Progress /\ k \in 1 .. Len(w) /\ k \in 0 .. n /\ h[k] = u
    BY <1>5, <1>w
  <2>2. acc.partial = Buffer(p, w, k - 1) /\ \A r \in Requests : Followed(S, w, r, acc.req[r], k - 1)
    BY <1>7
  <2> HIDE DEF acc
  <2>3. /\ u.partial = Buffer(p, w, k)
        /\ \A r \in Requests :
             u.req[r] = IF w[k].part = 2 /\ m.id = r /\ acc.req[r].mapped
                        THEN IF m.kind = "notification"
                             THEN handleNotification(acc.req[r])
                             ELSE handleResponse(acc.req[r], m)
                        ELSE acc.req[r]
    BY <2>1, <2>2, AlignedFragment
  <2>4. acc.req \in [Requests -> SoundRequest]
    BY <2>1 DEF Progress
  <2> HIDE DEF u
  <2>5. ASSUME NEW r \in Requests PROVE Followed(S, w, r, u.req[r], k)
    <3>1. acc.req[r] \in SoundRequest /\ Followed(S, w, r, acc.req[r], k - 1)
      BY <2>2, <2>4
    <3> DEFINE q == acc.req[r]
               v == u.req[r]
    <3>2. v = IF w[k].part = 2 /\ w[k].msg.id = r /\ q.mapped
              THEN IF w[k].msg.kind = "notification" THEN handleNotification(q)
                   ELSE handleResponse(q, w[k].msg)
              ELSE q
      BY <2>3
    <3> HIDE DEF q, v
    <3>3. q \in SoundRequest /\ Followed(S, w, r, q, k - 1)
      BY <3>1 DEF q
    <3>4. Followed(S, w, r, v, k)
      BY <2>1, <3>2, <3>3, FragmentFollowed
    <3> QED
      BY <3>4 DEF v
  <2> QED
    BY <2>1, <2>3, <2>5
<1> HIDE DEF G
<1>8. 0 .. n \subseteq G
  BY <1>6, <1>7, <1>w, SetInduction
<1>9. Good(n)
  BY <1>8, <1>w DEF G
<1> QED
  BY <1>5, <1>9 DEF start, chunk

\* A chunk of stderr claims nothing of the server, however it is cut.
LEMMA ErrChunk ==
  ASSUME NEW start \in Progress, NEW chunk \in Seq(Fragment), StderrSent(chunk)
  PROVE  \A S, w : \A r \in Requests :
           (Honest(S, r, start.req[r]) => Honest(S, r, TakeChunk(start, chunk).req[r]))
           /\ (Coming(S, r, start.req[r], w, 0) => Coming(S, r, TakeChunk(start, chunk).req[r], w, 0))
<1> SUFFICES ASSUME NEW S, NEW w, NEW r \in Requests
             PROVE  (Honest(S, r, start.req[r]) => Honest(S, r, TakeChunk(start, chunk).req[r]))
               /\ (Coming(S, r, start.req[r], w, 0) => Coming(S, r, TakeChunk(start, chunk).req[r], w, 0))
  OBVIOUS
<1>1. PICK h \in [0 .. Len(chunk) -> Progress] :
         /\ h[0] = start
         /\ \A k \in 1 .. Len(chunk) : h[k] = TakeFragment(h[k - 1], chunk[k])
         /\ TakeChunk(start, chunk) = h[Len(chunk)]
  BY ChunkHistory
<1> DEFINE n == Len(chunk)
           Good(q) == /\ Honest(S, r, start.req[r]) => Honest(S, r, q)
                      /\ Coming(S, r, start.req[r], w, 0) => Coming(S, r, q, w, 0)
           G == {k \in 0 .. n : Good(h[k].req[r])}
<1>n. n \in Nat /\ \A k \in 1 .. n : chunk[k] \in Fragment
  OBVIOUS
<1>2. 0 \in G
  BY <1>1, <1>n
<1>k. ASSUME NEW q, NEW u, Good(q), u = q \/ Kept(q, u) PROVE Good(u)
  BY <1>k, KeptHonest
<1>3. ASSUME NEW k \in 1 .. n, k - 1 \in G PROVE k \in G
  <2> DEFINE acc == h[k - 1]
             f == chunk[k]
             rq == acc.req
  <2>1. acc \in Progress /\ f \in Fragment /\ h[k] = TakeFragment(acc, f) /\ k \in 0 .. n
    BY <1>1, <1>n
  <2>2. rq \in [Requests -> SoundRequest] /\ acc.partial \in Seq(Fragment)
    BY <2>1 DEF Progress
  <2>3. Good(rq[r])
    BY <1>3
  <2>4. f.msg \in Message /\ f.msg.kind = "error"
    BY <2>1, <1>n DEF Fragment, StderrSent
  <2> HIDE DEF acc, f, rq
  <2>5. h[k].req[r] = rq[r] \/ Kept(rq[r], h[k].req[r])
    <3>1. CASE f.part # 2
      BY <2>1, <3>1 DEF TakeFragment, rq
    <3>2. CASE f.part = 2
      <4> DEFINE u == HandleLine(rq, Append(acc.partial, f))
      <4>1. h[k].req = u
        BY <2>1, <3>2 DEF TakeFragment, rq
      <4>2. \/ u[r] = rq[r]
            \/ f.msg.kind = "notification"
            \/ rq[r].mapped /\ u[r] = handleResponse(rq[r], f.msg)
        BY <2>1, <2>2, LineEffect
      <4> HIDE DEF u
      <4>3. CASE rq[r].mapped /\ u[r] = handleResponse(rq[r], f.msg)
        BY <2>2, <2>4, <4>1, <4>3, ErrorKept
      <4> QED
        BY <2>4, <4>1, <4>2, <4>3
    <3> QED
      BY <3>1, <3>2
  <2> HIDE DEF Good
  <2>6. Good(h[k].req[r])
    BY <1>k, <2>3, <2>5
  <2> QED
    BY <2>1, <2>6
<1> HIDE DEF G
<1>4. 0 .. n \subseteq G
  BY <1>2, <1>3, <1>n, SetInduction
<1>5. Good(h[n].req[r])
  BY <1>4, <1>n DEF G
<1> QED
  BY <1>1, <1>5

-----------------------------------------------------------------------------
(* Steps *)

\* A message more, that the protocol of the server allows, contradicts nothing
\* the client has concluded.
LEMMA SendHonest ==
  ASSUME NEW S, NEW m, NEW r, NEW q, Honest(S, r, q), m.id = r => q.written,
         (m.kind = "notification" /\ m.id = r) => ~\E n \in S : Answer(n, r)
  PROVE  Honest(S \cup {m}, r, q)
<1> DEFINE T == S \cup {m}
<1>1. (q.promise = "resolved" /\ q.by = "client") =>
        \E n \in T : Answer(n, r) /\ (Notified(T, r) => q.stream = "done" /\ n.fits)
  <2> SUFFICES ASSUME q.promise = "resolved", q.by = "client"
               PROVE  \E n \in T : Answer(n, r) /\ (Notified(T, r) => q.stream = "done" /\ n.fits)
    OBVIOUS
  <2>1. PICK n \in S : Answer(n, r) /\ (Notified(S, r) => q.stream = "done" /\ n.fits)
    BY DEF Honest
  <2>2. Notified(T, r) => Notified(S, r)
    BY <2>1 DEF Notified
  <2> QED
    BY <2>1, <2>2
<1>2. (q.awaiting # Nil /\ q.awaiting.who = "client") =>
        \E n \in T : Answer(n, r) /\ n.fits = q.awaiting.fits
  BY DEF Honest
<1>3. (\E n \in T : n.id = r) => q.written
  BY DEF Honest
<1> QED
  BY <1>1, <1>2, <1>3 DEF Honest

\* What is sent on stdout reaches it as whole lines, a notification before
\* its result.
LEMMA SendWire ==
  ASSUME NEW S, NEW w \in Seq(Fragment), NEW m \in Message,
         StdoutSent(S, w), NotifiedFirst(w), m.kind \in {"notification", "result"},
         m.kind = "notification" => ~\E n \in S : Answer(n, m.id)
  PROVE  /\ StdoutSent(S \cup {m}, w \o Lines(m)) /\ NotifiedFirst(w \o Lines(m))
         /\ \A r, q : Coming(S, r, q, w, 0)
                        => Coming(S \cup {m}, r, q, w \o Lines(m), 0)
<1> DEFINE v == w \o Lines(m)
           n == Len(w)
<1>1. /\ Len(v) = n + 2 /\ n \in Nat
      /\ \A j \in 1 .. n : v[j] = w[j]
      /\ v[n + 1] = [msg |-> m, part |-> 1] /\ v[n + 2] = [msg |-> m, part |-> 2]
  BY SendLength
<1> HIDE DEF v, n
<1>2. \A j \in 1 .. Len(v) : j \in 1 .. n \/ j = n + 1 \/ j = n + 2
  BY <1>1
<1>3. \A kind, r : ~IsLine(v[n + 1], kind, r) /\ (IsLine(v[n + 2], kind, r) <=> m.kind = kind /\ m.id = r)
  BY <1>1 DEF IsLine
<1>4. v[n + 1].msg = m /\ v[n + 2].msg = m
  BY <1>1
<1>5. StdoutSent(S \cup {m}, v)
  BY <1>1, <1>2, <1>4 DEF StdoutSent, n
<1>6. NotifiedFirst(v)
  <2> SUFFICES ASSUME NEW r \in Requests, NEW j \in 1 .. Len(v), NEW k \in 1 .. Len(v),
                      IsLine(v[j], "notification", r), IsLine(v[k], "result", r)
               PROVE  j < k
    BY DEF NotifiedFirst
  <2>1. CASE j \in 1 .. n /\ k \in 1 .. n
    BY <1>1, <2>1 DEF NotifiedFirst, n
  <2>2. CASE j \in 1 .. n /\ k = n + 2
    BY <1>1, <2>2
  <2>3. CASE j = n + 2 /\ k \in 1 .. n
    <3>1. m.kind = "notification" /\ m.id = r
      BY <1>3, <2>3
    <3>2. w[k].msg \in S /\ Answer(w[k].msg, r)
      BY <1>1, <2>3 DEF StdoutSent, Answer, IsLine, n
    <3> QED
      BY <3>1, <3>2
  <2>4. CASE j = n + 2 /\ k = n + 2
    BY <1>3, <2>4
  <2> QED
    BY <1>2, <1>3, <2>1, <2>2, <2>3, <2>4
<1>7. ASSUME NEW r, NEW q, Coming(S, r, q, w, 0)
      PROVE  Coming(S \cup {m}, r, q, v, 0)
  <2> SUFFICES ASSUME Notified(S \cup {m}, r), q.mapped, ~q.linked
               PROVE  \E j \in 0 + 1 .. Len(v) : IsLine(v[j], "notification", r)
    BY DEF Coming
  <2>1. CASE m.kind = "notification" /\ m.id = r
    <3>1. n + 2 \in 0 + 1 .. Len(v)
      BY <1>1
    <3> QED
      BY <1>3, <2>1, <3>1
  <2>2. CASE Notified(S, r)
    <3>1. PICK j \in 0 + 1 .. Len(w) : IsLine(w[j], "notification", r)
      BY <2>2, <1>7 DEF Coming
    <3>2. j \in 1 .. n /\ j \in 0 + 1 .. Len(v)
      BY <1>1 DEF n
    <3> QED
      BY <1>1, <3>1, <3>2
  <2> QED
    BY <2>1, <2>2 DEF Notified
<1> QED
  BY <1>5, <1>6, <1>7 DEF v

\* Taking n fragments from stdout leaves the rest in order.
LEMMA RestWire ==
  ASSUME NEW S, NEW w \in Seq(Fragment), NEW n \in 1 .. Len(w),
         StdoutSent(S, w), NotifiedFirst(w)
  PROVE  LET v == SubSeq(w, n + 1, Len(w))
         IN  /\ StdoutSent(S, v) /\ NotifiedFirst(v) /\ Len(v) = Len(w) - n
             /\ \A r, q : Coming(S, r, q, w, n) => Coming(S, r, q, v, 0)
<1> DEFINE v == SubSeq(w, n + 1, Len(w))
<1>1. Len(v) = Len(w) - n /\ Len(w) \in Nat /\ \A j \in 1 .. Len(v) : v[j] = w[n + j]
  OBVIOUS
<1> HIDE DEF v
<1>2. \A j \in 1 .. Len(v) : n + j \in 1 .. Len(w)
  BY <1>1
<1>3. StdoutSent(S, v)
  BY <1>1, <1>2 DEF StdoutSent
<1>4. NotifiedFirst(v)
  <2> SUFFICES ASSUME NEW r \in Requests, NEW j \in 1 .. Len(v), NEW k \in 1 .. Len(v),
                      IsLine(v[j], "notification", r), IsLine(v[k], "result", r)
               PROVE  j < k
    BY DEF NotifiedFirst
  <2>1. n + j < n + k
    BY <1>1, <1>2 DEF NotifiedFirst
  <2> QED
    BY <1>1, <2>1
<1>5. ASSUME NEW r, NEW q, Coming(S, r, q, w, n) PROVE Coming(S, r, q, v, 0)
  <2>1. ASSUME NEW j \in n + 1 .. Len(w), IsLine(w[j], "notification", r)
        PROVE  \E i \in 0 + 1 .. Len(v) : IsLine(v[i], "notification", r)
    <3> DEFINE i == j - n
    <3>1. i \in 1 .. Len(v) /\ i \in 0 + 1 .. Len(v) /\ n + i = j
      BY <1>1
    <3> HIDE DEF i
    <3>2. v[i] = w[j]
      BY <1>1, <3>1
    <3> QED
      BY <2>1, <3>1, <3>2
  <2> QED
    BY <1>5, <2>1 DEF Coming
<1> QED
  BY <1>1, <1>3, <1>4, <1>5 DEF v

(* A step that keeps the client honest and delivers the results it takes.  *)
HonestStep == WireInv' /\ HonestInv' /\ Applied("out", "result")

\* Every step is one.
LEMMA StepHonest ==
  ASSUME TypeOK, WireInv, HonestInv, [Next]_vars
  PROVE  HonestStep
<1>t. /\ req \in [Requests -> SoundRequest]
      /\ mPartialStdout \in Seq(Fragment) /\ mPartialStderr \in Seq(Fragment)
      /\ wire["out"] \in Seq(Fragment) /\ wire["err"] \in Seq(Fragment)
      /\ wire \in [out : Seq(Fragment), err : Seq(Fragment)]
  BY DEF TypeOK
<1>m. ASSUME NEW r \in Requests PROVE req[r] \in SoundRequest
  BY <1>t
<1>k. ASSUME NEW q PROVE Kept(q, q)
  BY DEF Kept
<1>d. ASSUME wire'["out"] = wire["out"] \/ connection' # "up" PROVE Applied("out", "result")
  <2>1. \A r : ~Consumed("out", r, "result")
    <3> SUFFICES ASSUME NEW r, Consumed("out", r, "result") PROVE FALSE
      OBVIOUS
    <3>1. PICK k \in DOMAIN wire["out"] : k <= Len(wire["out"]) - Len(wire'["out"])
      BY DEF Consumed
    <3>2. wire'["out"] = wire["out"]
      BY <1>d DEF Consumed
    <3>3. k \in 1 .. Len(wire["out"]) /\ Len(wire["out"]) \in Nat
      BY <1>t
    <3> QED
      BY <3>1, <3>2, <3>3
  <2> QED
    BY <2>1 DEF Applied
<1>h. ASSUME UNCHANGED <<sent, wire, mPartialStdout, connection>>,
             \A q \in Requests :
               /\ Honest(sent, q, req'[q])
               /\ Coming(sent, q, req[q], wire["out"], 0)
                    => Coming(sent, q, req'[q], wire["out"], 0)
      PROVE  HonestStep
  <2>1. WireInv'
    BY <1>h DEF WireInv
  <2>2. HonestInv'
    BY <1>h DEF HonestInv
  <2>3. Applied("out", "result")
    BY <1>h, <1>d
  <2> QED
    BY <2>1, <2>2, <2>3 DEF HonestStep
<1>a. ASSUME UNCHANGED <<sent, wire, mPartialStdout, connection>>,
             \A q \in Requests : Kept(req[q], req'[q])
      PROVE  HonestStep
  <2>1. \A q \in Requests : Honest(sent, q, req'[q])
    BY <1>a, KeptHonest DEF HonestInv
  <2>2. \A q \in Requests : Coming(sent, q, req[q], wire["out"], 0)
                              => Coming(sent, q, req'[q], wire["out"], 0)
    BY <1>a, KeptHonest
  <2> QED
    BY <1>a, <1>h, <2>1, <2>2
<1>e. ASSUME NEW r \in Requests, NEW u, req' = [req EXCEPT ![r] = u], UNCHANGED <<client, peer>>,
             Honest(sent, r, u),
             Coming(sent, r, req[r], wire["out"], 0) => Coming(sent, r, u, wire["out"], 0)
      PROVE  HonestStep
  <2>1. UNCHANGED <<sent, wire, mPartialStdout, connection>>
    BY <1>e DEF client, peer
  <2>2. \A q \in Requests : req'[q] = IF q = r THEN u ELSE req[q]
    BY <1>e, <1>t
  <2>3. \A q \in Requests : Honest(sent, q, req'[q])
    BY <1>e, <2>2 DEF HonestInv
  <2>4. \A q \in Requests : Coming(sent, q, req[q], wire["out"], 0)
                              => Coming(sent, q, req'[q], wire["out"], 0)
    BY <1>e, <2>2
  <2> QED
    BY <1>h, <2>1, <2>3, <2>4
<1>f. ASSUME NEW r \in Requests, NEW u, req' = [req EXCEPT ![r] = u], UNCHANGED <<client, peer>>,
             Kept(req[r], u)
      PROVE  HonestStep
  <2>1. Honest(sent, r, u)
    BY <1>f, KeptHonest DEF HonestInv
  <2>2. Coming(sent, r, req[r], wire["out"], 0) => Coming(sent, r, u, wire["out"], 0)
    BY <1>f, KeptHonest
  <2> QED
    BY <1>e, <1>f, <2>1, <2>2
<1>1. ASSUME NEW r \in Requests, request(r) PROVE HonestStep
  <2> DEFINE s == IF r \in StreamRequests THEN "registered" ELSE "none"
             u == [NewRequest EXCEPT !.promise = "rejected", !.by = "client"]
             v == [NewRequest EXCEPT !.promise = "pending", !.mapped = TRUE, !.written = TRUE,
                     !.timer = TRUE, !.stream = s]
  <2>1. req' = [req EXCEPT ![r] = u] \/ req' = [req EXCEPT ![r] = v]
    BY <1>1 DEF request
  <2>2. req[r].promise = "none" /\ UNCHANGED <<client, peer>>
    BY <1>1 DEF request
  <2>3. ~\E m \in sent : m.id = r
    BY <2>2 DEF HonestInv, Honest
  <2>4. ~Notified(sent, r)
    BY <2>3 DEF Notified
  <2>5. u.promise = "rejected" /\ u.awaiting = Nil /\ u.mapped = FALSE
    BY DEF NewRequest
  <2>6. v.promise = "pending" /\ v.awaiting = Nil /\ v.stream = s
    BY DEF NewRequest
  <2>7. r \in StreamRequests => s # "none"
    OBVIOUS
  <2> HIDE DEF u, v, s
  <2>8. Honest(sent, r, u) /\ Honest(sent, r, v)
    BY <2>3, <2>5, <2>6, <2>7 DEF Honest
  <2>9. \A x : Coming(sent, r, x, wire["out"], 0)
    BY <2>4 DEF Coming
  <2> QED
    BY <2>1, <2>2, <2>8, <2>9, <1>e
<1>2. ASSUME NEW r \in Requests, RequestTimedOut(r) PROVE HonestStep
  <2> DEFINE a == [req[r] EXCEPT !.timer = FALSE]
             b == [req[r] EXCEPT !.mapped = FALSE, !.timer = FALSE]
             b1 == [req[r] EXCEPT !.mapped = FALSE]
             b2 == [b1 EXCEPT !.timer = FALSE]
             c == [Settle(req[r], "rejected", "client") EXCEPT !.mapped = FALSE]
  <2>1. \/ req' = [req EXCEPT ![r] = a]
        \/ req[r].mapped /\ req[r].silenced /\ req' = [req EXCEPT ![r] = b]
        \/ req[r].mapped /\ ~req[r].silenced /\ req' = [req EXCEPT ![r] = c]
    BY <1>2 DEF RequestTimedOut
  <2>2. Kept(req[r], a)
    BY <1>m, DisarmSound DEF Kept
  <2>3. ASSUME req[r].silenced PROVE Kept(req[r], b)
    <3>1. b1 \in SoundRequest /\ Kept(req[r], b1)
      BY <1>m, <2>3, ReleaseSound DEF Kept
    <3>2. b = b2
      BY <1>m DEF SoundRequest, RequestRecord
    <3> HIDE DEF b1
    <3>3. Kept(b1, b2)
      BY <3>1, DisarmSound DEF Kept
    <3> QED
      BY <3>1, <3>2, <3>3 DEF Kept
  <2>4. ASSUME req[r].mapped, ~req[r].silenced PROVE Kept(req[r], c)
    BY <1>m, <2>4, RejectSound DEF Kept
  <2>5. UNCHANGED <<client, peer>>
    BY <1>2 DEF RequestTimedOut
  <2> HIDE DEF a, b, c
  <2> QED
    BY <2>1, <2>2, <2>3, <2>4, <2>5, <1>f
<1>3. ASSUME NEW silence \in BOOLEAN, collectAllRequests(silence) PROVE HonestStep
  <2>1. UNCHANGED <<sent, wire, mPartialStdout, connection>>
    BY <1>3 DEF collectAllRequests, client, peer
  <2>2. ASSUME NEW q \in Requests PROVE Kept(req[q], req'[q])
    <3>1. CASE ~req[q].mapped
      <4>1. req'[q] = req[q]
        BY <1>3, <3>1 DEF collectAllRequests
      <4> QED
        BY <4>1, <1>k
    <3>2. CASE req[q].mapped
      <4> DEFINE c == req[q].claimed \/ silence
                 x == req[q]
                 u == [x EXCEPT !.silenced = silence, !.timer = FALSE,
                                !.collected = TRUE, !.claimed = c]
      <4>1. c \in BOOLEAN /\ x \in SoundRequest /\ x.mapped
        BY <3>2, <1>m
      <4>2. req'[q] = u
        BY <1>3, <3>2 DEF collectAllRequests
      <4> HIDE DEF c, x
      <4>3. /\ u.mapped = x.mapped /\ u.written = x.written
            /\ u.promise = x.promise /\ u.by = x.by
            /\ u.stream = x.stream /\ u.awaiting = x.awaiting /\ u.linked = x.linked
        BY <4>1 DEF SoundRequest, RequestRecord
      <4> HIDE DEF u
      <4>4. Kept(x, u)
        BY <4>3 DEF Kept
      <4> QED
        BY <4>2, <4>4 DEF x
    <3> QED
      BY <3>1, <3>2
  <2> QED
    BY <2>1, <2>2, <1>a
<1>4. CASE dispose
  <2> DEFINE c(q) == [Settle(req[q], "rejected", "client") EXCEPT !.mapped = FALSE]
             b(q) == [req[q] EXCEPT !.mapped = FALSE]
  <2>1. UNCHANGED <<sent, wire, mPartialStdout, connection>>
    BY <1>4 DEF dispose
  <2>2. ASSUME NEW q \in Requests PROVE Kept(req[q], req'[q])
    <3>1. CASE ~req[q].mapped
      <4>1. req'[q] = req[q]
        BY <1>4, <3>1 DEF dispose
      <4> QED
        BY <4>1, <1>k
    <3>2. CASE req[q].mapped /\ req[q].silenced
      <4>1. req'[q] = b(q)
        BY <1>4, <3>2 DEF dispose
      <4>2. Kept(req[q], b(q))
        BY <3>2, <1>m, ReleaseSound DEF Kept
      <4> QED
        BY <4>1, <4>2
    <3>3. CASE req[q].mapped /\ ~req[q].silenced
      <4>1. req'[q] = c(q)
        BY <1>4, <3>3 DEF dispose
      <4>2. Kept(req[q], c(q))
        BY <3>3, <1>m, RejectSound DEF Kept
      <4> QED
        BY <4>1, <4>2
    <3> QED
      BY <3>1, <3>2, <3>3
  <2> QED
    BY <2>1, <2>2, <1>a
<1>5. ASSUME NEW r \in Requests, NEW ok \in BOOLEAN, ReplaySettles(r, ok) PROVE HonestStep
  <2> DEFINE u == IF ok THEN Resolve(req[r], TRUE, "collector")
                  ELSE Settle(req[r], "rejected", "collector")
  <2>1. req' = [req EXCEPT ![r] = u] /\ req[r].promise = "pending"
        /\ UNCHANGED <<client, peer>>
    BY <1>5 DEF ReplaySettles
  <2>2. u = Resolve(req[r], TRUE, "collector") \/ u = Settle(req[r], "rejected", "collector")
    OBVIOUS
  <2> HIDE DEF u
  <2> DEFINE q == req[r]
  <2>3. q \in SoundRequest /\ q.promise = "pending"
    BY <2>1, <1>m
  <2>4. u = Resolve(q, TRUE, "collector") \/ u = Settle(q, "rejected", "collector")
    BY <2>2
  <2> HIDE DEF q
  <2>5. /\ u.mapped = q.mapped /\ u.written = q.written
        /\ u.stream = q.stream /\ u.linked = q.linked
        /\ u.promise # "pending" => u.by = "collector"
        /\ u.promise = "none" => q.promise = "none"
        /\ u.awaiting # Nil => u.awaiting = q.awaiting \/ u.awaiting.who = "collector"
    BY <2>3, <2>4, ReplaySound
  <2>6. Kept(q, u)
    BY <2>5 DEF Kept
  <2> QED
    BY <2>1, <2>6, <1>f DEF q
<1>6. ASSUME NEW r \in Requests, NEW how \in {"done", "failed"}, StreamEnds(r, how)
      PROVE  HonestStep
  <2> DEFINE q == req[r]
             u == StreamEnded(q, how)
  <2>1. req' = [req EXCEPT ![r] = u] /\ q.stream = "open" /\ UNCHANGED <<client, peer>>
    BY <1>6 DEF StreamEnds, StreamEnded
  <2>2. q \in SoundRequest /\ Honest(sent, r, q)
    BY <1>m DEF HonestInv
  <2> HIDE DEF q
  <2>3. /\ u.mapped = q.mapped /\ u.written = q.written
        /\ u.stream = how /\ u.linked = q.linked /\ u.awaiting = Nil
        /\ u.promise = "none" => q.promise = "none"
        /\ u.promise = "resolved" =>
             \/ q.promise = "resolved" /\ u.by = q.by
             \/ /\ how = "done" /\ q.awaiting # Nil
                /\ q.awaiting.fits /\ u.by = q.awaiting.who
    BY <2>1, <2>2, StreamEndSound
  <2> HIDE DEF u
  <2>4. Honest(sent, r, u)
    BY <2>1, <2>2, <2>3 DEF Honest
  <2>5. Coming(sent, r, q, wire["out"], 0) => Coming(sent, r, u, wire["out"], 0)
    BY <2>3 DEF Coming
  <2> QED
    BY <2>1, <2>4, <2>5, <1>e DEF q
<1>7. CASE rejectPendingRequests
  <2> DEFINE c(q) == [Settle(req[q], "rejected", "client") EXCEPT !.mapped = FALSE]
  <2>1. UNCHANGED <<sent, wire, mPartialStdout, connection>>
    BY <1>7 DEF rejectPendingRequests, peer
  <2>2. ASSUME NEW q \in Requests PROVE Kept(req[q], req'[q])
    <3>1. CASE ~req[q].mapped \/ req[q].silenced
      <4>1. req'[q] = req[q]
        BY <1>7, <3>1 DEF rejectPendingRequests
      <4> QED
        BY <4>1, <1>k
    <3>2. CASE req[q].mapped /\ ~req[q].silenced
      <4>1. req'[q] = c(q)
        BY <1>7, <3>2 DEF rejectPendingRequests
      <4>2. Kept(req[q], c(q))
        BY <3>2, <1>m, RejectSound DEF Kept
      <4> QED
        BY <4>1, <4>2
    <3> QED
      BY <3>1, <3>2
  <2> QED
    BY <2>1, <2>2, <1>a
<1>8. ASSUME NEW n \in 1 .. Len(wire["out"]), onOutData(n) PROVE HonestStep
  <2> DEFINE w == wire["out"]
             p == mPartialStdout
             v == SubSeq(w, n + 1, Len(w))
             result == TakeChunk([req |-> req, partial |-> p], SubSeq(w, 1, n))
  <2>1. /\ req' = result.req /\ mPartialStdout' = result.partial /\ sent' = sent
        /\ connection = "up" /\ connection' = connection
        /\ wire' = [wire EXCEPT !["out"] = v]
    BY <1>8 DEF onOutData, processResponses, Arrives
  <2>2. wire'["out"] = v /\ wire'["err"] = wire["err"]
    BY <2>1, <1>t
  <2>3. /\ Aligned(p, w) /\ StdoutSent(sent, w) /\ NotifiedFirst(w)
        /\ p \in Seq(Fragment) /\ w \in Seq(Fragment) /\ n \in 1 .. Len(w)
    BY <2>1, <1>t DEF WireInv
  <2>4. \A r \in Requests : Honest(sent, r, req[r]) /\ Coming(sent, r, req[r], w, 0)
    BY <2>1 DEF HonestInv
  <2> HIDE DEF w, p
  <2>5. /\ result.partial = Buffer(p, w, n)
        /\ \A r \in Requests : Followed(sent, w, r, result.req[r], n)
    BY <2>3, <2>4, <1>t, OutChunk
  <2>6. /\ StdoutSent(sent, v) /\ NotifiedFirst(v) /\ Len(v) = Len(w) - n
        /\ \A r, q : Coming(sent, r, q, w, n) => Coming(sent, r, q, v, 0)
    BY <2>3, RestWire
  <2>7. Aligned(Buffer(p, w, n), v)
    BY <2>3, AlignedRest
  <2> HIDE DEF v, result
  <2>8. WireInv'
    BY <2>1, <2>2, <2>5, <2>6, <2>7 DEF WireInv
  <2>9. HonestInv'
    BY <2>1, <2>2, <2>5, <2>6 DEF HonestInv, Followed
  <2>10. Applied("out", "result")
    <3> SUFFICES ASSUME NEW r \in Requests, Consumed("out", r, "result") PROVE ~req'[r].mapped
      BY DEF Applied
    <3>1. PICK k \in DOMAIN w :
            /\ w[k].part = 2 /\ w[k].msg.kind = "result" /\ w[k].msg.id = r
            /\ k <= Len(w) - Len(v)
      BY <2>2 DEF Consumed, w
    <3>2. k \in 1 .. n
      BY <2>3, <2>6, <3>1
    <3>3. IsLine(w[k], "result", r)
      BY <3>1 DEF IsLine
    <3> QED
      BY <2>1, <2>5, <3>2, <3>3 DEF Followed
  <2> QED
    BY <2>8, <2>9, <2>10 DEF HonestStep
<1>9. ASSUME NEW n \in 1 .. Len(wire["err"]), onErrData(n) PROVE HonestStep
  <2> DEFINE w == wire["err"]
             start == [req |-> req, partial |-> mPartialStderr]
             chunk == SubSeq(w, 1, n)
             v == SubSeq(w, n + 1, Len(w))
             result == TakeChunk(start, chunk)
  <2>1. start \in Progress /\ start.req = req
    BY <1>t DEF Progress
  <2>2. chunk \in Seq(Fragment) /\ StderrSent(chunk) /\ StderrSent(v)
    <3>1. w \in Seq(Fragment) /\ StderrSent(w) /\ n \in 1 .. Len(w)
      BY <1>t DEF WireInv
    <3> HIDE DEF w
    <3>2. chunk \in Seq(Fragment) /\ Len(chunk) = n /\ \A k \in 1 .. n : chunk[k] = w[k]
      BY <3>1
    <3>3. Len(v) = Len(w) - n /\ Len(w) \in Nat /\ \A j \in 1 .. Len(v) : v[j] = w[n + j]
      BY <3>1
    <3> HIDE DEF chunk, v
    <3>4. StderrSent(chunk)
      BY <3>1, <3>2, <3>3 DEF StderrSent
    <3>5. \A j \in 1 .. Len(v) : n + j \in 1 .. Len(w)
      BY <3>1, <3>3
    <3>6. StderrSent(v)
      BY <3>1, <3>3, <3>5 DEF StderrSent
    <3> QED
      BY <3>2, <3>4, <3>6
  <2>3. \/ req' = req
        \/ req' = result.req
    BY <1>9 DEF onErrData, processResponses
  <2>4. /\ wire' = [wire EXCEPT !["err"] = v]
        /\ UNCHANGED <<mPartialStdout, sent, connection>>
    BY <1>9 DEF onErrData, Arrives
  <2>5. wire'["out"] = wire["out"] /\ wire'["err"] = v
    BY <2>4, <1>t
  <2>6. ASSUME NEW r \in Requests
        PROVE  /\ Honest(sent, r, req'[r])
               /\ Coming(sent, r, req[r], wire["out"], 0)
                    => Coming(sent, r, req'[r], wire["out"], 0)
    <3>1. Honest(sent, r, req[r])
      BY DEF HonestInv
    <3> HIDE DEF start, chunk
    <3>2. /\ Honest(sent, r, start.req[r]) => Honest(sent, r, result.req[r])
          /\ Coming(sent, r, start.req[r], wire["out"], 0)
               => Coming(sent, r, result.req[r], wire["out"], 0)
      BY <2>1, <2>2, ErrChunk
    <3> HIDE DEF result
    <3> QED
      BY <2>1, <2>3, <3>1, <3>2
  <2> HIDE DEF v
  <2>7. WireInv'
    BY <2>2, <2>4, <2>5 DEF WireInv
  <2>8. HonestInv'
    BY <2>4, <2>5, <2>6 DEF HonestInv
  <2> QED
    BY <2>5, <2>7, <2>8, <1>d DEF HonestStep
<1>10. ASSUME NEW m \in Message, Send("err", m), m.kind = "error",
              \A r \in Requests : m.id = r => req[r].written
       PROVE  HonestStep
  <2>1. /\ sent' = sent \cup {m} /\ UNCHANGED <<req, mPartialStdout, connection>>
        /\ wire' = [wire EXCEPT !["err"] = @ \o Lines(m)]
    BY <1>10 DEF Send, client
  <2>2. wire'["out"] = wire["out"] /\ wire'["err"] = wire["err"] \o Lines(m)
    BY <2>1, <1>t
  <2>3. StderrSent(wire["err"] \o Lines(m))
    <3> DEFINE w == wire["err"]
               v == w \o Lines(m)
               n == Len(w)
    <3>1. w \in Seq(Fragment) /\ StderrSent(w)
      BY <1>t DEF WireInv
    <3> HIDE DEF w
    <3>2. /\ Len(v) = n + 2 /\ n \in Nat
          /\ \A j \in 1 .. n : v[j] = w[j]
          /\ v[n + 1] = [msg |-> m, part |-> 1] /\ v[n + 2] = [msg |-> m, part |-> 2]
      BY <3>1, SendLength
    <3> HIDE DEF v, n
    <3>3. \A j \in 1 .. Len(v) : j \in 1 .. n \/ j = n + 1 \/ j = n + 2
      BY <3>2
    <3>4. v[n + 1].msg = m /\ v[n + 2].msg = m
      BY <3>2
    <3>5. StderrSent(v)
      BY <3>1, <3>2, <3>3, <3>4, <1>10 DEF StderrSent, n
    <3> QED
      BY <3>5 DEF v, w
  <2>4. StdoutSent(sent', wire["out"])
    BY <2>1 DEF WireInv, StdoutSent
  <2>5. WireInv'
    BY <2>1, <2>2, <2>3, <2>4 DEF WireInv
  <2>6. \A r \in Requests : Honest(sent', r, req'[r])
    <3> TAKE r \in Requests
    <3>1. Honest(sent, r, req[r]) /\ (m.id = r => req[r].written)
      BY <1>10 DEF HonestInv
    <3>2. Honest(sent \cup {m}, r, req[r])
      BY <1>10, <3>1, SendHonest
    <3> QED
      BY <2>1, <3>2
  <2>7. connection' = "up" => \A r \in Requests : Coming(sent', r, req'[r], wire'["out"], 0)
    BY <1>10, <2>1, <2>2 DEF HonestInv, Coming, Notified
  <2> QED
    BY <1>d, <2>2, <2>5, <2>6, <2>7 DEF HonestStep, HonestInv
<1>11. ASSUME NEW m \in Message, Send("out", m), m.kind \in {"notification", "result"},
              \A r \in Requests : m.id = r => req[r].written,
              m.kind = "notification" => ~\E n \in sent : Answer(n, m.id)
       PROVE  HonestStep
  <2> DEFINE w == wire["out"]
             v == w \o Lines(m)
  <2>1. /\ sent' = sent \cup {m} /\ UNCHANGED <<req, mPartialStdout, connection>>
        /\ wire' = [wire EXCEPT !["out"] = v] /\ connection = "up"
    BY <1>11 DEF Send, client
  <2>2. wire'["out"] = v /\ wire'["err"] = wire["err"]
    BY <2>1, <1>t
  <2>3. /\ w \in Seq(Fragment) /\ StdoutSent(sent, w) /\ NotifiedFirst(w)
        /\ Aligned(mPartialStdout, w)
    BY <2>1, <1>t DEF WireInv
  <2>4. \A r \in Requests : Honest(sent, r, req[r]) /\ Coming(sent, r, req[r], w, 0)
    BY <2>1 DEF HonestInv
  <2> HIDE DEF w
  <2>5. /\ StdoutSent(sent \cup {m}, v) /\ NotifiedFirst(v)
        /\ \A r, q : Coming(sent, r, q, w, 0) => Coming(sent \cup {m}, r, q, v, 0)
    BY <1>11, <2>3, SendWire
  <2>6. Aligned(mPartialStdout, v) /\ Len(v) = Len(w) + 2 /\ Len(w) \in Nat
    BY <2>3, AlignedSend, SendLength
  <2> HIDE DEF v
  <2>7. WireInv'
    BY <2>1, <2>2, <2>5, <2>6 DEF WireInv
  <2>8. \A r \in Requests : Honest(sent', r, req'[r])
    <3> TAKE r \in Requests
    <3>1. Honest(sent, r, req[r]) /\ (m.id = r => req[r].written)
      BY <1>11, <2>4
    <3>2. Honest(sent \cup {m}, r, req[r])
      BY <1>11, <3>1, SendHonest
    <3> QED
      BY <2>1, <3>2
  <2>9. HonestInv'
    BY <2>1, <2>2, <2>4, <2>5, <2>8 DEF HonestInv
  <2>10. Applied("out", "result")
    <3> SUFFICES ASSUME NEW r, Consumed("out", r, "result") PROVE FALSE
      BY DEF Applied
    <3>1. PICK k \in DOMAIN w : k <= Len(w) - Len(v)
      BY <2>2 DEF Consumed, w
    <3>2. k \in 1 .. Len(w)
      BY <2>3
    <3> QED
      BY <2>6, <3>1, <3>2
  <2> QED
    BY <2>7, <2>9, <2>10 DEF HonestStep
<1>12. ASSUME NEW r \in Requests, ServerNotifies(r) PROVE HonestStep
  <2> DEFINE m == [kind |-> "notification", id |-> r, fits |-> TRUE]
  <2>1. m \in Message /\ m.kind = "notification" /\ m.id = r
    BY <1>12 DEF ServerNotifies, Message
  <2>2. req[r].written /\ Send("out", m) /\ ~\E n \in sent : Answer(n, r)
    BY <1>12 DEF ServerNotifies, Answer
  <2> HIDE DEF m
  <2> QED
    BY <2>1, <2>2, <1>11
<1>13. ASSUME NEW r \in Requests, NEW kind \in {"result", "error"}, NEW fits \in BOOLEAN,
              ServerAnswers(r, kind, fits)
       PROVE  HonestStep
  <2> DEFINE m == [kind |-> kind, id |-> r, fits |-> fits]
             ch == IF kind = "error" THEN "err" ELSE "out"
  <2>1. m \in Message /\ m.kind = kind /\ m.id = r
    BY <1>13 DEF ServerAnswers, Message
  <2>2. Send(ch, m) /\ req[r].written
    BY <1>13 DEF ServerAnswers
  <2>3. (kind = "error" => ch = "err") /\ (kind = "result" => ch = "out")
    OBVIOUS
  <2> HIDE DEF ch, m
  <2>4. CASE kind = "error"
    BY <2>1, <2>2, <2>3, <2>4, <1>10
  <2>5. CASE kind = "result"
    BY <2>1, <2>2, <2>3, <2>5, <1>11
  <2> QED
    BY <2>4, <2>5
<1>14. CASE ServerReportsNull
  <2> DEFINE m == [kind |-> "error", id |-> Nil, fits |-> TRUE]
  <2>1. m \in Message /\ m.kind = "error" /\ m.id = Nil
    BY DEF Message
  <2>2. Send("err", m)
    BY <1>14 DEF ServerReportsNull
  <2> HIDE DEF m
  <2> QED
    BY <2>1, <2>2, <1>10, ClientAssumption
<1>15. CASE TransportCloses
  <2>1. /\ connection' = "closed" /\ wire' = [out |-> <<>>, err |-> <<>>]
        /\ UNCHANGED <<req, sent>>
    BY <1>15 DEF TransportCloses
  <2>2. wire'["out"] = <<>> /\ wire'["err"] = <<>> /\ connection' # "up"
    BY <2>1
  <2>3. StdoutSent(sent, <<>>) /\ NotifiedFirst(<<>>) /\ StderrSent(<<>>)
    BY DEF StdoutSent, NotifiedFirst, StderrSent
  <2>4. WireInv'
    BY <2>1, <2>2, <2>3 DEF WireInv
  <2>5. HonestInv'
    BY <2>1, <2>2 DEF HonestInv
  <2> QED
    BY <1>d, <2>2, <2>4, <2>5 DEF HonestStep
<1>16. CASE ServerEnds \/ StdinEnds \/ ChannelCloses \/ UNCHANGED vars
  <2>1. req' = req /\ UNCHANGED <<sent, wire, mPartialStdout, connection>>
    BY <1>16 DEF ServerEnds, StdinEnds, ChannelCloses, vars, client, peer
  <2> QED
    BY <2>1, <1>a, <1>k
<1>17. CASE Application
  <2>1. CASE \E r \in Requests : request(r)
    BY <2>1, <1>1
  <2>2. CASE \E silence \in BOOLEAN : collectAllRequests(silence)
    BY <2>2, <1>3
  <2>3. CASE \E r \in Requests, ok \in BOOLEAN : ReplaySettles(r, ok)
    BY <2>3, <1>5
  <2> QED
    BY <1>17, <1>4, <2>1, <2>2, <2>3 DEF Application
<1>18. CASE Server
  <2>1. ASSUME NEW r \in Requests,
               \E kind \in {"result", "error"}, fits \in BOOLEAN : ServerAnswers(r, kind, fits)
        PROVE  HonestStep
    BY <2>1, <1>13
  <2> QED
    BY <1>18, <2>1, <1>12, <1>14, <1>16 DEF Server
<1>19. CASE Data
  BY <1>19, <1>8, <1>9 DEF Data
<1> QED
  BY <1>2, <1>6, <1>7, <1>15, <1>16, <1>17, <1>18, <1>19 DEF Next

\* The client concludes about a request only what the server told it.
THEOREM ClientHonest == Spec => [](TypeOK /\ WireInv /\ HonestInv)
<1>1. Init => TypeOK /\ WireInv /\ HonestInv
  <2> SUFFICES ASSUME Init PROVE TypeOK /\ WireInv /\ HonestInv
    OBVIOUS
  <2>1. TypeOK
    BY InitSound
  <2>2. sent = {} /\ wire["out"] = <<>> /\ wire["err"] = <<>> /\ mPartialStdout = <<>>
    BY DEF Init
  <2>3. StdoutSent(sent, <<>>) /\ NotifiedFirst(<<>>) /\ StderrSent(<<>>)
    BY DEF StdoutSent, NotifiedFirst, StderrSent
  <2>4. Aligned(<<>>, <<>>)
    BY DEF Aligned, Buffer
  <2>5. WireInv
    BY <2>2, <2>3, <2>4 DEF WireInv
  <2>6. ASSUME NEW r \in Requests PROVE req[r] = NewRequest
    BY DEF Init
  <2>7. /\ NewRequest.promise = "none" /\ NewRequest.awaiting = Nil
        /\ ~NewRequest.mapped /\ ~NewRequest.written
    BY DEF NewRequest
  <2>8. HonestInv
    BY <2>2, <2>6, <2>7 DEF HonestInv, Honest, Coming
  <2> QED
    BY <2>1, <2>5, <2>8
<1>2. (TypeOK /\ WireInv /\ HonestInv) /\ [Next]_vars => (TypeOK /\ WireInv /\ HonestInv)'
  BY StepSound, StepHonest DEF SoundStep, HonestStep
<1> QED
  BY <1>1, <1>2, PTL DEF Spec

\* A request that the client resolves was answered by the server, and if the
\* server had announced a transfer (handleNotification, linkStreamToPromise)
\* the transfer was complete, with the length the server reports.
THEOREM ClientResolvedMeansTransferred == Spec => []ResolvedMeansTransferred
<1>1. HonestInv => ResolvedMeansTransferred
  BY DEF HonestInv, Honest, Notified, Answer, ResolvedMeansTransferred
<1> QED
  BY <1>1, ClientHonest, PTL

\* A result line is applied to its request however the transport cuts stdout
\* into chunks (processResponses and mPartialStdout).
THEOREM ClientResultsDelivered == Spec => ResultsDelivered
<1>1. (TypeOK /\ WireInv /\ HonestInv) /\ [Next]_vars => [Applied("out", "result")]_vars
  BY StepHonest DEF HonestStep
<1> QED
  BY <1>1, ClientHonest, PTL DEF Spec, ResultsDelivered

-----------------------------------------------------------------------------
(* The deployment of the server (Deploy.tla)                               *)

(* The steps of an install after it has looked for the directory.          *)
DpChecked == {"mkdir", "df", "put", "pax", "clean archive", "clean program", "clean dir",
              "unlink", "verify"}
DpHost ==
  [dir : BOOLEAN, was : BOOLEAN, pax : {"none", "part", "whole"},
   bin : {"none", "old", "new", "broken"}, files : BOOLEAN, runs : BOOLEAN,
   expired : BOOLEAN, removed : BOOLEAN]
DpCall ==
  [pc : {"idle", "check", "rm", "end"} \cup DpChecked, job : DpJobs \cup {NoCall.job},
   tries : Nat, found : {"none", "old", "new", "broken"}, existed : BOOLEAN, extracting : BOOLEAN, accepted : BOOLEAN,
   cleaned : BOOLEAN, disturbed : BOOLEAN, result : {"", "true", "false", "thrown"}]

(* Nobody but uninstallServer takes the directory that was there.          *)
DpKept(h) == h.was /\ ~h.removed => h.dir

(* ServerRuns of a given directory.                                        *)
DpRuns(h) == h.dir /\ (h.bin = "old" \/ (h.bin = "new" /\ h.runs))

(* An install that has not begun to extract: the program is the one found. *)
DpFound(r, h) ==
  r.job.op = "install" /\ ~r.extracting /\ ~r.disturbed => h.bin = r.found

(* What a call r knows of the directory h: whether it was there, and, as   *)
(* long as nobody else changes it, what the call itself did to it.         *)
DpKnows(r, h) ==
  /\ r.result # "" \/ r.cleaned => r.pc = "end"
  /\ r.pc = "rm" => r.job.op # "install"
  /\ r.pc \in DpChecked \cup {"check"} => r.job.op = "install"
  /\ DpFound(r, h)
  /\ r.pc \in DpChecked /\ h.was /\ ~h.removed => r.existed
  /\ ~r.disturbed =>
       /\ r.pc \in DpChecked /\ r.existed => h.dir
       /\ r.pc \in {"clean program", "clean dir"} /\ ~h.expired => h.pax = "none"
       /\ r.pc = "clean dir" /\ r.extracting /\ ~h.expired => h.bin = "none"
       /\ r.result = "true" /\ r.job.op = "install" /\ ~r.accepted => DpRuns(h)
       /\ r.cleaned /\ ~h.expired =>
            h.pax = "none" /\ (r.extracting => h.bin = "none") /\ h.dir = r.existed
       /\ r.job.op = "uninstall" /\ r.result = "true" /\ ~r.job.tilde /\ ~h.expired => ~h.dir

DpInv ==
  /\ host \in DpHost /\ dp \in [DpUsers -> DpCall] /\ DpKept(host)
  /\ \A u \in DpUsers : DpKnows(dp[u], host)

(* A step of the directory that takes nothing back: what it was, a removal *)
(* and an expired password stay.                                           *)
DpOnward(h, k) ==
  /\ k \in DpHost /\ DpKept(k)
  /\ k.was = h.was /\ (h.removed => k.removed) /\ (h.expired => k.expired)

\* What one user did to the directory disturbs every other call, which keeps
\* what it knows otherwise.
LEMMA DpStepKept ==
  ASSUME DpInv, NEW u \in DpUsers, NEW r \in DpCall, NEW h, DpOnward(host, h),
         DpKnows(r, h), DpStep(u, r, h)
  PROVE  DpInv'
<1>1. host' = h /\ h \in DpHost /\ DpKept(h)
  BY DEF DpStep, DpOnward
<1>2. ASSUME NEW v \in DpUsers PROVE dp'[v] \in DpCall /\ DpKnows(dp'[v], h)
  <2> DEFINE d == dp[v]
             q == [d EXCEPT !.disturbed = TRUE]
  <2>1. d \in DpCall /\ DpKnows(d, host)
    BY DEF DpInv
  <2>2. CASE v = u
    BY <2>2 DEF DpStep
  <2>3. CASE v # u /\ h = host
    BY <2>1, <2>3 DEF DpStep
  <2>4. CASE v # u /\ h # host
    <3>1. dp'[v] = q
      BY <2>4 DEF DpStep
    <3>2. /\ q \in DpCall /\ q.disturbed /\ q.pc = d.pc /\ q.existed = d.existed
          /\ q.result = d.result /\ q.cleaned = d.cleaned /\ q.job = d.job
      BY <2>1 DEF DpCall
    <3> HIDE DEF q
    <3>3. DpKnows(q, h)
      BY <2>1, <3>2 DEF DpKnows, DpOnward, DpFound
    <3> QED
      BY <3>1, <3>2, <3>3
  <2> QED
    BY <2>2, <2>3, <2>4
<1>3. dp' \in [DpUsers -> DpCall]
  <2>1. DOMAIN dp' = DpUsers /\ dp' = [v \in DpUsers |-> dp'[v]]
    BY DEF DpStep
  <2> QED
    BY <1>2, <2>1
<1> QED
  BY <1>1, <1>2, <1>3 DEF DpInv

\* The directory as it is.
LEMMA DpUntouched ==
  ASSUME DpInv
  PROVE  DpOnward(host, host)
BY DEF DpInv, DpOnward

\* The tries of a call are counted.
LEMMA DpTryCounts ==
  ASSUME NEW r \in DpCall
  PROVE  r.tries + 1 \in Nat
<1>1. r.tries \in Nat
  BY Zenon DEF DpCall
<1> QED
  BY <1>1

\* A call that ends without success, or starts over, claims nothing.
LEMMA DpGivesUp ==
  ASSUME NEW r \in DpCall, NEW h, r.result = "", ~r.cleaned, DpFound(r, h)
  PROVE  /\ \A how \in {"false", "thrown"} :
              DpEnd(r, how) \in DpCall /\ DpKnows(DpEnd(r, how), h)
         /\ r.job.op = "install" => \A q \in Retried(r) : q \in DpCall /\ DpKnows(q, h)
         /\ routeExpiredPasswordError(r) \in DpCall /\ DpKnows(routeExpiredPasswordError(r), h)
<1>1. ASSUME NEW how \in {"false", "thrown"}
      PROVE  DpEnd(r, how) \in DpCall /\ DpKnows(DpEnd(r, how), h)
  <2> DEFINE q == [r EXCEPT !.pc = "end", !.result = how]
  <2>1. /\ q \in DpCall /\ q.pc = "end" /\ q.result = how /\ ~q.cleaned
        /\ q.job = r.job /\ q.extracting = r.extracting /\ q.disturbed = r.disturbed
        /\ q.found = r.found
    BY DEF DpCall
  <2> HIDE DEF q
  <2>2. DpKnows(q, h)
    BY <2>1 DEF DpKnows, DpChecked, DpFound
  <2> QED
    BY <2>1, <2>2 DEF DpEnd, q
<1>2. ASSUME r.job.op = "install", NEW q \in Retried(r) PROVE q \in DpCall /\ DpKnows(q, h)
  <2> DEFINE z == [r EXCEPT !.pc = "check", !.tries = @ + 1]
  <2>0. r.tries + 1 \in Nat
    BY DpTryCounts
  <2>1. /\ z \in DpCall /\ z.pc = "check" /\ z.result = "" /\ ~z.cleaned
        /\ z.job = r.job /\ z.extracting = r.extracting /\ z.disturbed = r.disturbed
        /\ z.found = r.found
    <3> DEFINE n == r.tries + 1
    <3>1. z = [r EXCEPT !.pc = "check", !.tries = n] /\ n \in Nat
      BY <2>0
    <3> HIDE DEF n
    <3> QED
      BY <3>1 DEF DpCall
  <2>2. q = z \/ q = DpEnd(r, "false")
    BY <1>2 DEF Retried
  <2> HIDE DEF z
  <2>3. DpKnows(z, h)
    BY <1>2, <2>1 DEF DpKnows, DpChecked, DpFound
  <2> QED
    BY <1>1, <2>1, <2>2, <2>3
<1> QED
  BY <1>1, <1>2 DEF routeExpiredPasswordError

\* A call at a program point has concluded nothing yet.
LEMMA DpAtWork ==
  ASSUME DpInv, NEW u \in DpUsers, dp[u].pc # "end"
  PROVE  /\ dp[u] \in DpCall /\ DpKnows(dp[u], host)
         /\ dp[u].result = "" /\ ~dp[u].cleaned
BY DEF DpInv, DpKnows

\* A call that only goes on to the next program point, the directory as it is.
LEMMA DpGoesOn ==
  ASSUME DpInv, NEW u \in DpUsers, dp[u].pc \in DpChecked,
         NEW c \in {"df", "put", "pax", "clean archive", "unlink", "verify"},
         NEW h, DpOnward(host, h), host.dir => h.dir, h.bin = host.bin,
         DpStep(u, [dp[u] EXCEPT !.pc = c], h)
  PROVE  DpInv'
<1> DEFINE r == dp[u]
           q == [r EXCEPT !.pc = c]
<1>1. r \in DpCall /\ DpKnows(r, host) /\ r.result = "" /\ ~r.cleaned
  BY DpAtWork DEF DpChecked
<1>2. /\ q \in DpCall /\ q.pc = c /\ q.pc \in DpChecked /\ q.result = "" /\ ~q.cleaned
      /\ q.existed = r.existed /\ q.disturbed = r.disturbed
      /\ q.job = r.job /\ q.extracting = r.extracting /\ q.found = r.found
  BY <1>1 DEF DpCall, DpChecked
<1> HIDE DEF q
<1>3. DpKnows(q, h)
  BY <1>1, <1>2 DEF DpKnows, DpOnward, DpFound
<1> QED
  BY <1>2, <1>3, DpStepKept DEF q

\* Calls start, look, and try the server's program.
LEMMA DpCallKept ==
  ASSUME DpInv, NEW u \in DpUsers,
         StartCall(u) \/ CheckDirectory(u) \/ MakeDirectory(u) \/ CheckSpace(u) \/ Verify(u)
  PROVE  DpInv'
<1> DEFINE r == dp[u]
<1>0. r \in DpCall /\ host \in DpHost /\ DpKept(host) /\ DpOnward(host, host) /\ DpFound(r, host)
  BY DpUntouched DEF DpInv, DpKnows
<1>1. ASSUME r.pc # "end", NEW q, DpStep(u, q, host),
             \/ q = routeExpiredPasswordError(r) \/ (q \in Retried(r) /\ r.job.op = "install")
             \/ q \in {DpEnd(r, "false"), DpEnd(r, "thrown")}
      PROVE  DpInv'
  <2>1. r.result = "" /\ ~r.cleaned
    BY <1>1, DpAtWork
  <2>2. q \in DpCall /\ DpKnows(q, host)
    BY <1>0, <1>1, <2>1, DpGivesUp
  <2> QED
    BY <1>0, <1>1, <2>2, DpStepKept
<1>2. CASE StartCall(u)
  <2>1. PICK j \in DpJobs, e \in BOOLEAN :
          DpStep(u, [NoCall EXCEPT !.pc = IF j.op = "install" THEN "check" ELSE "rm", !.job = j,
                                   !.found = host.bin, !.disturbed = e], host)
    <3>1. (\E v \in DpUsers \ {u} : dp[v].pc \notin {"idle", "end"}) \in BOOLEAN
      OBVIOUS
    <3> QED
      BY <1>2, <3>1 DEF StartCall
  <2> DEFINE c == IF j.op = "install" THEN "check" ELSE "rm"
             b == host.bin
             q == [NoCall EXCEPT !.pc = c, !.job = j, !.found = b, !.disturbed = e]
  <2>0. b \in {"none", "old", "new", "broken"}
    BY <1>0 DEF DpHost
  <2> HIDE DEF b
  <2>2. /\ q \in DpCall /\ q.pc = c /\ q.job = j /\ q.result = "" /\ ~q.cleaned
        /\ q.found = b
    BY <2>0 DEF DpCall, NoCall
  <2>3. c \in {"check", "rm"} /\ (c = "rm" <=> j.op # "install")
    OBVIOUS
  <2> HIDE DEF c, q
  <2>4. DpKnows(q, host)
    BY <2>2, <2>3 DEF DpKnows, DpChecked, DpFound, b
  <2> QED
    BY <1>0, <2>1, <2>2, <2>4, DpStepKept DEF q, c, b
<1>3. CASE CheckDirectory(u)
  <2>1. r.pc = "check"
    BY <1>3 DEF CheckDirectory, AtStep
  <2>2. CASE DpStep(u, [r EXCEPT !.existed = host.dir, !.pc = "mkdir"], host)
    <3> DEFINE q == [r EXCEPT !.existed = host.dir, !.pc = "mkdir"]
    <3>1. r.result = "" /\ ~r.cleaned /\ r.job.op = "install"
      BY <2>1, DpAtWork DEF DpKnows
    <3>2. /\ q \in DpCall /\ q.pc = "mkdir" /\ q.existed = host.dir /\ q.result = "" /\ ~q.cleaned
          /\ q.job = r.job /\ q.extracting = r.extracting /\ q.disturbed = r.disturbed
          /\ q.found = r.found
      BY <1>0, <3>1 DEF DpCall, DpChecked, DpHost
    <3> HIDE DEF q
    <3>3. DpKnows(q, host)
      BY <1>0, <3>1, <3>2 DEF DpKnows, DpKept, DpFound
    <3> QED
      BY <1>0, <2>2, <3>2, <3>3, DpStepKept DEF q
  <2>3. CASE DpStep(u, routeExpiredPasswordError(r), host)
    BY <1>1, <2>1, <2>3
  <2> QED
    BY <1>3, <2>2, <2>3 DEF CheckDirectory, pathExists
<1>4. CASE MakeDirectory(u)
  <2>1. r.pc = "mkdir" /\ r.job.op = "install"
    BY <1>4 DEF MakeDirectory, AtStep, DpInv, DpKnows, DpChecked
  <2>2. CASE DpStep(u, [r EXCEPT !.pc = "df"], [host EXCEPT !.dir = TRUE])
    <3> DEFINE h == [host EXCEPT !.dir = TRUE]
    <3>1. DpOnward(host, h) /\ h.dir /\ h.bin = host.bin
      BY <1>0 DEF DpOnward, DpHost, DpKept
    <3> HIDE DEF h
    <3> QED
      BY <2>1, <2>2, <3>1, DpGoesOn DEF DpChecked, h
  <2>3. CASE CannotRun(u)
    BY <1>0, <2>1, <2>3, DpGoesOn DEF CannotRun, DpChecked
  <2> QED
    BY <1>1, <1>4, <2>1, <2>2, <2>3 DEF MakeDirectory
<1>5. CASE CheckSpace(u)
  <2>1. r.pc = "df"
    BY <1>5 DEF CheckSpace, AtStep
  <2>2. CASE CannotRun(u)
    BY <1>0, <2>1, <2>2, DpGoesOn DEF CannotRun, DpChecked
  <2>3. CASE DpStep(u, [r EXCEPT !.pc = "put"], host)
    BY <1>0, <2>1, <2>3, DpGoesOn DEF DpChecked
  <2>4. CASE DpStep(u, routeExpiredPasswordError(r), host)
    BY <1>1, <2>1, <2>4
  <2>5. CASE DpStep(u, DpEnd(r, "false"), host)
    BY <1>1, <2>1, <2>5
  <2> QED
    BY <1>5, <2>2, <2>3, <2>4, <2>5 DEF CheckSpace
<1>6. CASE Verify(u)
  <2>1. r.pc = "verify"
    BY <1>6 DEF Verify, AtStep
  <2>0. r.job.op = "install"
    BY <2>1 DEF DpInv, DpKnows, DpChecked
  <2>2. r.result = "" /\ ~r.cleaned
    BY <2>1, DpAtWork
  <2>3. CASE verifyServerBinary /\ DpStep(u, DpEnd(r, "true"), host)
    <3> DEFINE q == [r EXCEPT !.pc = "end", !.result = "true"]
    <3>1. /\ q \in DpCall /\ q.pc = "end" /\ q.result = "true" /\ ~q.cleaned
          /\ q.job = r.job /\ q.extracting = r.extracting /\ q.disturbed = r.disturbed
          /\ q.found = r.found
      BY <1>0, <2>2 DEF DpCall
    <3> HIDE DEF q
    <3>2. DpKnows(q, host)
      BY <1>0, <2>0, <2>3, <3>1 DEF DpKnows, DpChecked, DpFound, verifyServerBinary, ServerRuns, DpRuns
    <3> QED
      BY <1>0, <2>3, <3>1, <3>2, DpStepKept DEF DpEnd, q
  <2>4. ASSUME NEW go \in BOOLEAN,
               DpStep(u, [DpEnd(r, IF go THEN "true" ELSE "false") EXCEPT !.accepted = go], host)
        PROVE  DpInv'
    <3> DEFINE how == IF go THEN "true" ELSE "false"
               q == [[r EXCEPT !.pc = "end", !.result = how] EXCEPT !.accepted = go]
    <3>1. /\ q \in DpCall /\ q.pc = "end" /\ q.result = how /\ ~q.cleaned /\ q.accepted = go
          /\ q.job = r.job /\ q.extracting = r.extracting /\ q.disturbed = r.disturbed
          /\ q.found = r.found
      BY <1>0, <2>2 DEF DpCall
    <3>2. how = "true" => go
      OBVIOUS
    <3> HIDE DEF q, how
    <3>3. DpKnows(q, host)
      BY <1>0, <2>0, <3>1, <3>2 DEF DpKnows, DpChecked, DpFound
    <3> QED
      BY <1>0, <2>4, <3>1, <3>3, DpStepKept DEF DpEnd, q, how
  <2> QED
    BY <1>1, <1>6, <2>1, <2>3, <2>4 DEF Verify
<1> QED
  BY <1>2, <1>3, <1>4, <1>5, <1>6

\* Calls change the directory: they upload, extract and remove.
LEMMA DpChangeKept ==
  ASSUME DpInv, NEW u \in DpUsers,
         Upload(u) \/ Extract(u) \/ RemoveArchive(u) \/ uninstallServer(u)
  PROVE  DpInv'
<1> DEFINE r == dp[u]
<1>0. r \in DpCall /\ host \in DpHost /\ DpKept(host) /\ DpOnward(host, host) /\ DpFound(r, host)
  BY DpUntouched DEF DpInv, DpKnows
<1>1. ASSUME r.pc # "end", NEW q, NEW h, DpOnward(host, h), DpStep(u, q, h), DpFound(r, h),
             \/ q = routeExpiredPasswordError(r) \/ (q \in Retried(r) /\ r.job.op = "install")
             \/ q = DpEnd(r, "thrown")
      PROVE  DpInv'
  <2>1. r.result = "" /\ ~r.cleaned
    BY <1>1, DpAtWork
  <2>2. q \in DpCall /\ DpKnows(q, h)
    BY <1>0, <1>1, <2>1, DpGivesUp
  <2> QED
    BY <1>1, <2>2, DpStepKept
<1>2. /\ \A x \in {"none", "part", "whole"} :
            /\ DpOnward(host, [host EXCEPT !.pax = x]) /\ [host EXCEPT !.pax = x].dir = host.dir
            /\ [host EXCEPT !.pax = x].bin = host.bin
      /\ \A x \in {"none", "new", "broken"} :
            /\ DpOnward(host, [host EXCEPT !.bin = x, !.files = TRUE])
            /\ [host EXCEPT !.bin = x, !.files = TRUE].dir = host.dir
            /\ DpOnward(host, [host EXCEPT !.bin = x])
  BY <1>0 DEF DpOnward, DpHost, DpKept
<1>3. CASE Upload(u)
  <2>1. r.pc = "put" /\ r.pc \in DpChecked /\ r.job.op = "install"
    BY <1>3 DEF Upload, AtStep, DpInv, DpKnows, DpChecked
  <2>2. CASE DpStep(u, [r EXCEPT !.pc = "pax"], [host EXCEPT !.pax = "whole"])
    <3> DEFINE h == [host EXCEPT !.pax = "whole"]
    <3>1. DpOnward(host, h) /\ h.dir = host.dir /\ h.bin = host.bin
      BY <1>2
    <3> HIDE DEF h
    <3> QED
      BY <2>1, <2>2, <3>1, DpGoesOn DEF h
  <2>3. ASSUME NEW q \in Retried(r), NEW part \in {host.pax, "part"},
               DpStep(u, q, [host EXCEPT !.pax = IF host.dir THEN part ELSE "none"])
        PROVE  DpInv'
    <3> DEFINE x == IF host.dir THEN part ELSE "none"
               h == [host EXCEPT !.pax = x]
    <3>1. x \in {"none", "part", "whole"}
      BY <1>0 DEF DpHost
    <3> HIDE DEF x
    <3>2. DpOnward(host, h) /\ DpFound(r, h)
      BY <1>0, <1>2, <3>1 DEF DpFound
    <3> HIDE DEF h
    <3> QED
      BY <1>1, <2>1, <2>3, <3>2 DEF h, x
  <2> QED
    BY <1>0, <1>1, <1>3, <2>1, <2>2, <2>3 DEF Upload
<1>4. CASE Extract(u)
  <2> DEFINE z == [r EXCEPT !.extracting = TRUE]
  <2>1. r.pc = "pax" /\ r.pc \in DpChecked
    BY <1>4 DEF Extract, AtStep, DpChecked
  <2>2. /\ z \in DpCall /\ z.pc = "pax" /\ z.result = "" /\ ~z.cleaned
        /\ z.existed = r.existed /\ z.disturbed = r.disturbed /\ z.extracting /\ z.job = r.job
    BY <1>0, <2>1, DpAtWork DEF DpCall
  <2>3. DpKnows(r, host)
    BY DEF DpInv
  <2> HIDE DEF z
  <2>4. CASE DpStep(u, routeExpiredPasswordError(z), host)
    BY <1>0, <2>2, <2>4, DpGivesUp, DpStepKept DEF DpFound
  <2>5. ASSUME NEW c \in {"unlink", "clean archive"}, NEW h, DpOnward(host, h), h.dir = host.dir,
               DpStep(u, [z EXCEPT !.pc = c], h)
        PROVE  DpInv'
    <3> DEFINE q == [z EXCEPT !.pc = c]
    <3>1. /\ q \in DpCall /\ q.pc = c /\ q.result = "" /\ ~q.cleaned
          /\ q.existed = r.existed /\ q.disturbed = r.disturbed /\ q.extracting /\ q.job = r.job
      BY <2>2 DEF DpCall, DpChecked
    <3> HIDE DEF q
    <3>2. DpKnows(q, h)
      BY <2>1, <2>3, <2>5, <3>1 DEF DpKnows, DpOnward, DpChecked, DpFound
    <3> QED
      BY <2>5, <3>1, <3>2, DpStepKept DEF q
  <2>6. CASE DpStep(u, [z EXCEPT !.pc = "unlink"], [host EXCEPT !.bin = "new", !.files = TRUE])
    <3> DEFINE h == [host EXCEPT !.bin = "new", !.files = TRUE]
    <3>1. DpOnward(host, h) /\ h.dir = host.dir
      BY <1>2
    <3> HIDE DEF h
    <3> QED
      BY <2>5, <2>6, <3>1 DEF h
  <2>7. ASSUME NEW some \in BOOLEAN, NEW go \in BOOLEAN,
               DpStep(u, [z EXCEPT !.pc = IF go THEN "unlink" ELSE "clean archive"],
                         IF some THEN [host EXCEPT !.bin = "broken", !.files = TRUE] ELSE host)
        PROVE  DpInv'
    <3> DEFINE h == IF some THEN [host EXCEPT !.bin = "broken", !.files = TRUE] ELSE host
               c == IF go THEN "unlink" ELSE "clean archive"
    <3>1. DpOnward(host, h) /\ h.dir = host.dir
      BY <1>0, <1>2
    <3>2. c \in {"unlink", "clean archive"}
      OBVIOUS
    <3> HIDE DEF h, c
    <3> QED
      BY <2>5, <2>7, <3>1, <3>2 DEF h, c
  <2> QED
    BY <1>4, <2>4, <2>6, <2>7 DEF Extract, z
<1>5. CASE RemoveArchive(u)
  <2>1. r.pc \in DpChecked
    BY <1>5 DEF RemoveArchive, AtStep, DpChecked
  <2>2. PICK gone \in BOOLEAN :
          DpStep(u, [r EXCEPT !.pc = "verify"], IF gone THEN [host EXCEPT !.pax = "none"] ELSE host)
    BY <1>5 DEF RemoveArchive
  <2> DEFINE h == IF gone THEN [host EXCEPT !.pax = "none"] ELSE host
  <2>3. DpOnward(host, h) /\ h.dir = host.dir /\ h.bin = host.bin
    BY <1>0, <1>2
  <2> HIDE DEF h
  <2> QED
    BY <2>1, <2>2, <2>3, DpGoesOn DEF h
<1>6. CASE uninstallServer(u)
  <2>1. r.pc = "rm" /\ r.job.op # "install" /\ r.result = "" /\ ~r.cleaned
    BY <1>6, DpAtWork DEF uninstallServer, AtStep, DpKnows
  <2>2. ASSUME NEW h, DpOnward(host, h), NEW q, DpStep(u, q, h), q \in DpCall,
               q.pc \in {"rm", "end"}, q.pc = "rm" => q.result = "", ~q.cleaned, q.job = r.job,
               q.result = "true" /\ ~r.job.tilde /\ ~h.expired => ~h.dir
        PROVE  DpInv'
    <3>1. DpKnows(q, h)
      BY <2>1, <2>2 DEF DpKnows, DpChecked, DpFound
    <3> QED
      BY <2>2, <3>1, DpStepKept
  <2>3. \A how \in {"true", "thrown"} :
          LET q == [r EXCEPT !.pc = "end", !.result = how] IN
          q \in DpCall /\ q.pc = "end" /\ ~q.cleaned /\ q.job = r.job
    BY <1>0, <2>1 DEF DpCall
  <2>4. CASE host.expired
    <3> DEFINE z == routeExpiredPasswordError(r)
               how == IF z.result = "false" THEN "true" ELSE z.result
               q == [z EXCEPT !.result = IF @ = "false" THEN "true" ELSE @]
    <3>1. z \in DpCall /\ z.pc = "end" /\ z.job = r.job /\ ~z.cleaned
      BY <1>0, <2>1 DEF routeExpiredPasswordError, DpEnd, DpCall
    <3> HIDE DEF z
    <3>2. q \in DpCall /\ q.pc = "end" /\ q.job = r.job /\ ~q.cleaned
      BY <3>1 DEF DpCall
    <3>3. DpStep(u, q, host)
      BY <1>6, <2>4 DEF uninstallServer, z
    <3> HIDE DEF q
    <3> QED
      BY <1>0, <2>2, <2>4, <3>2, <3>3
  <2>5. CASE DpStep(u, DpEnd(r, "true"), IF r.job.tilde THEN host
                      ELSE [host EXCEPT !.dir = FALSE, !.pax = "none", !.bin = "none",
                                        !.files = FALSE, !.removed = TRUE])
    <3> DEFINE k == [host EXCEPT !.dir = FALSE, !.pax = "none", !.bin = "none",
                                 !.files = FALSE, !.removed = TRUE]
               h == IF r.job.tilde THEN host ELSE k
               q == [r EXCEPT !.pc = "end", !.result = "true"]
    <3>1. DpOnward(host, k) /\ ~k.dir
      BY <1>0 DEF DpOnward, DpHost, DpKept
    <3> HIDE DEF k
    <3>2. DpOnward(host, h) /\ (~r.job.tilde => ~h.dir)
      BY <1>0, <3>1
    <3>3. q \in DpCall /\ q.pc = "end" /\ ~q.cleaned /\ q.job = r.job
      BY <2>3
    <3> HIDE DEF h, q
    <3> QED
      BY <2>2, <2>5, <3>2, <3>3 DEF DpEnd, h, k, q
  <2>6. ASSUME NEW again \in BOOLEAN, NEW h \in {host, [host EXCEPT !.bin = "none"]},
               DpStep(u, IF again THEN [r EXCEPT !.tries = @ + 1] ELSE DpEnd(r, "thrown"), h)
        PROVE  DpInv'
    <3>1. DpOnward(host, h) /\ DpFound(r, h)
      BY <1>0, <1>2, <2>1, <2>6 DEF DpFound
    <3>2. CASE again
      <4> DEFINE q == [r EXCEPT !.tries = @ + 1]
      <4>1. q \in DpCall /\ q.pc = "rm" /\ ~q.cleaned /\ q.job = r.job /\ q.result = ""
        <5> DEFINE n == r.tries + 1
        <5>1. r.tries \in Nat
          BY <1>0, Zenon DEF DpCall
        <5>2. q = [r EXCEPT !.tries = n] /\ n \in Nat
          BY <5>1
        <5> HIDE DEF n, q
        <5> QED
          BY <5>2, <1>0, <2>1 DEF DpCall
      <4> HIDE DEF q
      <4> QED
        BY <2>2, <2>6, <3>1, <3>2, <4>1 DEF q
    <3>3. CASE ~again
      BY <1>1, <2>1, <2>6, <3>1, <3>3
    <3> QED
      BY <3>2, <3>3
  <2> QED
    BY <1>6, <2>4, <2>5, <2>6 DEF uninstallServer
<1> QED
  BY <1>3, <1>4, <1>5, <1>6

\* Cleaning removes what the call put there, and the directory only if the
\* call made it.
LEMMA DpCleanKept ==
  ASSUME DpInv, NEW u \in DpUsers, CleanArchive(u) \/ CleanProgram(u) \/ CleanDir(u)
  PROVE  DpInv'
<1> DEFINE r == dp[u]
<1>0. r \in DpCall /\ host \in DpHost /\ DpKept(host) /\ DpOnward(host, host)
  BY DpUntouched DEF DpInv
<1>1. r.pc \in {"clean archive", "clean program", "clean dir"}
  BY DEF CleanArchive, CleanProgram, CleanDir, AtStep
<1>2. r.pc \in DpChecked /\ DpKnows(r, host) /\ r.result = "" /\ ~r.cleaned
  BY <1>1, DpAtWork DEF DpChecked
<1>3. CASE DpStep(u, DpEnd(r, "false"), host)
  BY <1>0, <1>2, <1>3, DpGivesUp, DpStepKept DEF DpKnows
<1>4. CASE DpStep(u, [r EXCEPT !.pc = "clean program"], [host EXCEPT !.pax = "none"])
  <2> DEFINE h == [host EXCEPT !.pax = "none"]
             q == [r EXCEPT !.pc = "clean program"]
  <2>1. DpOnward(host, h) /\ h.dir = host.dir /\ h.pax = "none" /\ h.bin = host.bin
    BY <1>0 DEF DpOnward, DpHost, DpKept
  <2>2. /\ q \in DpCall /\ q.pc = "clean program" /\ q.result = "" /\ ~q.cleaned
        /\ q.existed = r.existed /\ q.disturbed = r.disturbed
        /\ q.job = r.job /\ q.extracting = r.extracting /\ q.found = r.found
    BY <1>0, <1>2 DEF DpCall, DpChecked
  <2> HIDE DEF h, q
  <2>3. DpKnows(q, h)
    BY <1>2, <2>1, <2>2 DEF DpKnows, DpOnward, DpFound, DpChecked
  <2> QED
    BY <1>4, <2>1, <2>2, <2>3, DpStepKept DEF h, q
<1>5. CASE /\ r.pc = "clean program"
           /\ DpStep(u, [r EXCEPT !.pc = "clean dir"],
                     IF r.extracting /\ ~host.expired THEN [host EXCEPT !.bin = "none"] ELSE host)
  <2> DEFINE h == IF r.extracting /\ ~host.expired THEN [host EXCEPT !.bin = "none"] ELSE host
             q == [r EXCEPT !.pc = "clean dir"]
  <2>1. /\ DpOnward(host, h) /\ h.dir = host.dir /\ h.pax = host.pax /\ h.expired = host.expired
        /\ r.extracting /\ ~host.expired => h.bin = "none"
        /\ ~r.extracting => h.bin = host.bin
    BY <1>0 DEF DpOnward, DpHost, DpKept
  <2>2. /\ q \in DpCall /\ q.pc = "clean dir" /\ q.result = "" /\ ~q.cleaned
        /\ q.existed = r.existed /\ q.disturbed = r.disturbed /\ q.extracting = r.extracting
        /\ q.job = r.job /\ q.found = r.found
    BY <1>0, <1>2 DEF DpCall, DpChecked
  <2> HIDE DEF h, q
  <2>3. DpKnows(q, h)
    BY <1>2, <1>5, <2>1, <2>2 DEF DpKnows, DpOnward, DpFound, DpChecked
  <2> QED
    BY <1>5, <2>1, <2>2, <2>3, DpStepKept DEF h, q
<1>6. CASE CleanDir(u)
  <2> DEFINE q == [[r EXCEPT !.cleaned = TRUE] EXCEPT !.pc = "end", !.result = "false"]
  <2>1. /\ q \in DpCall /\ q.pc = "end" /\ q.result = "false" /\ q.cleaned
        /\ q.existed = r.existed /\ q.disturbed = r.disturbed /\ q.extracting = r.extracting
        /\ q.job = r.job /\ q.found = r.found
    BY <1>0, <1>2 DEF DpCall
  <2>2. r.pc = "clean dir"
    BY <1>6 DEF CleanDir, AtStep
  <2> HIDE DEF q
  <2>3. CASE r.existed /\ DpStep(u, q, host)
    <3>1. DpKnows(q, host)
      BY <1>2, <2>1, <2>2, <2>3 DEF DpKnows, DpChecked, DpFound
    <3> QED
      BY <1>0, <2>1, <2>3, <3>1, DpStepKept
  <2>4. CASE ~r.existed /\ DpStep(u, q, [host EXCEPT !.dir = FALSE])
    <3> DEFINE h == [host EXCEPT !.dir = FALSE]
    <3>1. ~(host.was /\ ~host.removed)
      BY <1>2, <2>4 DEF DpKnows
    <3>2. DpOnward(host, h) /\ ~h.dir /\ h.pax = host.pax /\ h.bin = host.bin /\ h.expired = host.expired
      BY <1>0, <3>1 DEF DpOnward, DpHost, DpKept
    <3>3. h.dir \in BOOLEAN /\ q.existed \in BOOLEAN
      BY <1>0, <2>1, <3>2 DEF DpOnward, DpHost, DpCall
    <3> HIDE DEF h
    <3>4. DpKnows(q, h)
      BY <1>2, <2>1, <2>2, <2>4, <3>2, <3>3 DEF DpKnows, DpChecked, DpFound
    <3> QED
      BY <2>1, <2>4, <3>2, <3>4, DpStepKept DEF h
  <2> QED
    BY <1>3, <1>6, <2>3, <2>4 DEF CleanDir, DpEnd, q
<1> QED
  BY <1>3, <1>4, <1>5, <1>6 DEF CleanArchive, CleanProgram, AtStep

\* An expired password changes nothing in the directory.
LEMMA DpExpiryKept ==
  ASSUME DpInv, PasswordExpires
  PROVE  DpInv'
<1> DEFINE h == [host EXCEPT !.expired = TRUE]
<1>1. host' = h /\ dp' = dp
  BY DEF PasswordExpires
<1>2. /\ h \in DpHost /\ h.expired /\ h.was = host.was /\ h.removed = host.removed
      /\ h.dir = host.dir /\ h.bin = host.bin /\ h.runs = host.runs
  BY DEF DpInv, DpHost
<1> HIDE DEF h
<1>3. ASSUME NEW u \in DpUsers PROVE DpKnows(dp[u], h)
  BY <1>2 DEF DpInv, DpKnows, DpRuns, DpFound
<1> QED
  BY <1>1, <1>2, <1>3 DEF DpInv, DpKept

\* Calls of several users keep what each knows of the directory.
THEOREM DeployInductive == DpSpec => []DpInv
<1>1. DpInit => DpInv
  <2> SUFFICES ASSUME DpInit PROVE DpInv
    OBVIOUS
  <2>1. host \in DpHost /\ DpKept(host)
    <3>1. PICK d \in BOOLEAN, b \in {"none", "old"}, r \in BOOLEAN :
            host = [dir |-> d, was |-> d, pax |-> "none", bin |-> b, files |-> b # "none",
                    runs |-> r, expired |-> FALSE, removed |-> FALSE]
      BY DEF DpInit
    <3>2. (b # "none") \in BOOLEAN
      OBVIOUS
    <3>3. host \in DpHost
      BY <3>1, <3>2 DEF DpHost
    <3> QED
      BY <3>1, <3>3 DEF DpKept
  <2>2. /\ NoCall \in DpCall /\ NoCall.pc = "idle" /\ NoCall.result = "" /\ ~NoCall.cleaned
        /\ NoCall.job.op = ""
    BY DEF NoCall, DpCall
  <2>3. DpKnows(NoCall, host)
    BY <2>2 DEF DpKnows, DpChecked, DpFound
  <2> QED
    BY <2>1, <2>2, <2>3 DEF DpInit, DpInv
<1>2. DpInv /\ [DpNext]_dpVars => DpInv'
  <2> SUFFICES ASSUME DpInv, [DpNext]_dpVars PROVE DpInv'
    OBVIOUS
  <2>1. CASE UNCHANGED dpVars
    BY <2>1 DEF dpVars, DpInv
  <2> QED
    BY <2>1, DpCallKept, DpChangeKept, DpCleanKept, DpExpiryKept DEF DpNext
<1> QED
  BY <1>1, <1>2, PTL DEF DpSpec

\* For any number of users, jobs and repeated tries: an install that reports
\* success left a server that runs; none takes away a directory it found; one that
\* has not begun to extract leaves the program it found, whichever exit it takes;
\* cleaning that was not refused leaves no archive, no program (the one of an
\* earlier install included) and no directory that was not there; a successful
\* uninstall of a path without ~ removed the directory (ZSshUtils: installServer,
\* uninstallServer).
THEOREM DeployInstallHonest == DpSpec => []InstallHonest
<1>1. DpInv => InstallHonest
  <2> SUFFICES ASSUME DpInv PROVE InstallHonest
    OBVIOUS
  <2>1. InstalledRuns
    BY DEF DpInv, DpKnows, InstalledRuns, DpRuns, ServerRuns
  <2>2. DirectoryKept
    BY DEF DpInv, DpKept, DirectoryKept
  <2>3. ProgramKept
    BY DEF DpInv, DpKnows, DpFound, ProgramKept
  <2>4. ExtractionUndone
    BY DEF DpInv, DpKnows, ExtractionUndone
  <2>5. UninstallRemoves
    BY DEF DpInv, DpKnows, UninstallRemoves
  <2> QED
    BY <2>1, <2>2, <2>3, <2>4, <2>5 DEF InstallHonest
<1> QED
  BY <1>1, DeployInductive, PTL

-----------------------------------------------------------------------------
(* The start of the server *)

StFields == {"pc", "established", "timer", "listening", "conn", "script", "wire", "output", "reading",
             "settled", "wired", "err", "told", "cut"}

\* A startup r as the callbacks leave it: what ended it took the timer with it,
\* a failure the listeners and the connection too.
StShape(r) == r = [f \in StFields |-> r[f]]
Startup(r) ==
  /\ r.established \in BOOLEAN
  /\ ~ r.established => r.pc \in {"connect", "banner"} /\ (r.pc = "connect" => ~ r.settled)
  /\ r.reading => r.pc \in {"banner", "failed"} /\ ~ r.settled
  /\ r.established =>
       /\ r.pc \in {"failed", "watched", "disconnected"} /\ ~ r.timer
       /\ r.pc = "failed" => ~ r.listening /\ r.conn # "up"
       /\ r.pc # "failed" => r.wired /\ ~ r.reading
StartupInv == StShape(st) /\ Startup(st)

\* Whatever ends a startup that is not over fails it, and nothing else changes.
LEMMA StartupError ==
  ASSUME NEW r, NEW why, StShape(r), Startup(r)
  PROVE  LET q == onStartupError(r, why) IN StShape(q) /\ Startup(q)
<1>1. CASE r.established
  BY <1>1 DEF onStartupError
<1>2. CASE ~ r.established
  <2> DEFINE q == [r EXCEPT !.established = TRUE, !.timer = FALSE, !.err = why, !.pc = "failed",
                            !.listening = FALSE, !.conn = IF @ = "up" THEN "ended" ELSE @]
  <2>1. /\ StShape(q) /\ q.established = TRUE /\ q.timer = FALSE /\ q.pc = "failed" /\ q.listening = FALSE
        /\ q.conn = IF r.conn = "up" THEN "ended" ELSE r.conn
        /\ q.reading = r.reading /\ q.settled = r.settled
    BY DEF StShape, StFields
  <2>2. onStartupError(r, why) = q
    BY <1>2 DEF onStartupError
  <2> HIDE DEF q
  <2> QED
    BY <1>2, <2>1, <2>2 DEF Startup
<1> QED
  BY <1>1, <1>2

\* A startup that is over is taken up only once, with the response handlers
\* on the channel and nobody else reading it.
LEMMA StartupSettled ==
  ASSUME NEW r, NEW why, StShape(r), Startup(r), r.reading,
         why = "ready" => r.wired
  PROVE  LET q == settle(r, why) IN StShape(q) /\ Startup(q)
<1> DEFINE q == [r EXCEPT !.settled = TRUE, !.reading = FALSE]
<1>1. /\ StShape(q) /\ q.established = r.established /\ q.timer = r.timer /\ q.pc = r.pc
      /\ q.listening = r.listening /\ q.conn = r.conn /\ q.wired = r.wired
      /\ q.reading = FALSE /\ q.settled = TRUE
  BY DEF StShape, StFields
<1>2. settle(r, why) = IF why = "ready" THEN Established(q) ELSE onStartupError(q, why)
  BY DEF settle, Startup
<1> HIDE DEF q
<1>3. Startup(q)
  BY <1>1 DEF Startup
<1>4. CASE why # "ready"
  BY <1>1, <1>2, <1>3, <1>4, StartupError
<1>5. CASE why = "ready" /\ q.established
  BY <1>1, <1>2, <1>3, <1>5 DEF Established
<1>6. CASE why = "ready" /\ ~ q.established
  <2> DEFINE u == [q EXCEPT !.established = TRUE, !.timer = FALSE, !.pc = "watched"]
  <2>1. /\ StShape(u) /\ u.established = TRUE /\ u.timer = FALSE /\ u.pc = "watched"
        /\ u.wired = q.wired /\ u.reading = q.reading /\ u.settled = q.settled
    BY <1>1 DEF StShape, StFields
  <2>2. settle(r, why) = u
    BY <1>2, <1>6 DEF Established
  <2> HIDE DEF u
  <2> QED
    BY <1>1, <1>6, <2>1, <2>2 DEF Startup
<1> QED
  BY <1>4, <1>5, <1>6

\* Startup looks at these fields only.
LEMMA StartupSame ==
  ASSUME NEW r, NEW q, Startup(r), q.established = r.established, q.timer = r.timer,
         q.pc = r.pc, q.listening = r.listening, q.conn = r.conn, q.reading = r.reading,
         q.settled = r.settled, r.wired => q.wired
  PROVE  Startup(q)
BY DEF Startup

\* A chunk of output that arrives keeps the invariant, whatever it says.
LEMMA StartupData ==
  ASSUME StartupInv, NEW x \in StreamNames, NEW n, onData(x, n)
  PROVE  StartupInv'
<1> DEFINE chunk == SubSeq(st.wire[x], 1, n)
           out == IF chunk = Banner \/ NumberOnly(chunk) THEN st.output ELSE st.output \o chunk
           cut == st.cut \/ Last(chunk) \in {"{status", "@@", "12"}
                         \/ (chunk # Banner /\ Occurs(Banner, chunk))
           r == [st EXCEPT !.wire[x] = SubSeq(@, n + 1, Len(@)), !.cut = cut]
           got == getServerStatus(chunk, out)
           more == [r EXCEPT !.output = out]
           tell == [r EXCEPT !.output = out, !.told = TRUE]
           ready == [r EXCEPT !.output = <<>>, !.wired = TRUE]
<1>1. /\ st.reading
      /\ st' = CASE got = "" -> more [] got = "tell" -> tell [] got = "ready" -> settle(ready, "ready")
                 [] OTHER -> settle(more, got)
  BY DEF onData
<1> HIDE DEF cut, out, got
<1>2. StShape(r) /\ Startup(r) /\ r.reading = st.reading
  <2>1. StShape(r)
    BY DEF StartupInv, StShape, StFields
  <2>2. /\ r.established = st.established /\ r.timer = st.timer /\ r.pc = st.pc /\ r.listening = st.listening
        /\ r.conn = st.conn /\ r.reading = st.reading /\ r.settled = st.settled /\ r.wired = st.wired
    BY DEF StartupInv, StShape, StFields
  <2> HIDE DEF r
  <2> QED
    BY <2>1, <2>2, StartupSame DEF StartupInv
<1> HIDE DEF r
<1>3. StShape(more) /\ Startup(more) /\ more.reading = r.reading
  <2>1. /\ StShape(more)
        /\ more.established = r.established /\ more.timer = r.timer /\ more.pc = r.pc
        /\ more.listening = r.listening /\ more.conn = r.conn /\ more.reading = r.reading
        /\ more.settled = r.settled /\ more.wired = r.wired
    BY <1>2 DEF StShape, StFields
  <2> HIDE DEF more
  <2> QED
    BY <1>2, <2>1, StartupSame
<1>4. StShape(tell) /\ Startup(tell)
  <2>1. /\ StShape(tell)
        /\ tell.established = r.established /\ tell.timer = r.timer /\ tell.pc = r.pc
        /\ tell.listening = r.listening /\ tell.conn = r.conn /\ tell.reading = r.reading
        /\ tell.settled = r.settled /\ tell.wired = r.wired
    BY <1>2 DEF StShape, StFields
  <2> HIDE DEF tell
  <2> QED
    BY <1>2, <2>1, StartupSame
<1>5. StShape(ready) /\ Startup(ready) /\ ready.reading = r.reading /\ ready.wired = TRUE
  <2>1. /\ StShape(ready) /\ ready.wired = TRUE
        /\ ready.established = r.established /\ ready.timer = r.timer /\ ready.pc = r.pc
        /\ ready.listening = r.listening /\ ready.conn = r.conn /\ ready.reading = r.reading
        /\ ready.settled = r.settled
    BY <1>2 DEF StShape, StFields
  <2> HIDE DEF ready
  <2> QED
    BY <1>2, <2>1, StartupSame
<1> HIDE DEF more, tell, ready
<1>6. CASE got = ""
  BY <1>1, <1>3, <1>6 DEF StartupInv
<1>7. CASE got = "tell"
  BY <1>1, <1>4, <1>7 DEF StartupInv
<1>8. CASE got = "ready"
  BY <1>1, <1>2, <1>5, <1>8, StartupSettled DEF StartupInv
<1>9. CASE got \notin {"", "tell", "ready"}
  BY <1>1, <1>2, <1>3, <1>9, StartupSettled DEF StartupInv
<1> QED
  BY <1>6, <1>7, <1>8, <1>9

\* Every event of a startup keeps the invariant.
LEMMA StartupStep ==
  ASSUME StartupInv, StNext
  PROVE  StartupInv'
<1>1. CASE Ready
  <2> DEFINE q == [st EXCEPT !.pc = "banner", !.reading = TRUE]
  <2>1. CASE st' = q
    <3>1. /\ StShape(q) /\ q.established = st.established /\ q.timer = st.timer /\ q.pc = "banner"
          /\ q.listening = st.listening /\ q.conn = st.conn /\ q.reading = TRUE /\ q.settled = st.settled
      BY DEF StartupInv, StShape, StFields
    <3> HIDE DEF q
    <3> QED
      BY <1>1, <2>1, <3>1 DEF Ready, StartupInv, Startup
  <2>2. CASE st' = onStartupError(st, "exec")
    BY <2>2, StartupError DEF StartupInv
  <2> QED
    BY <1>1, <2>1, <2>2 DEF Ready
<1>2. CASE StartupTimeout
  BY <1>2, StartupError DEF StartupTimeout, StartupInv
<1>3. CASE ErrorEvent
  <2>1. CASE st.established
    <3> DEFINE q == [st EXCEPT !.told = TRUE]
    <3>1. /\ StShape(q) /\ q.established = st.established /\ q.timer = st.timer /\ q.pc = st.pc
          /\ q.listening = st.listening /\ q.conn = st.conn /\ q.reading = st.reading
          /\ q.settled = st.settled /\ q.wired = st.wired
      BY DEF StartupInv, StShape, StFields
    <3>2. st' = q
      BY <1>3, <2>1 DEF ErrorEvent
    <3> HIDE DEF q
    <3> QED
      BY <3>1, <3>2, StartupSame DEF StartupInv
  <2>2. CASE ~ st.established
    <3> DEFINE q == [st EXCEPT !.conn = "closed"]
    <3>1. /\ StShape(q) /\ q.established = st.established /\ q.timer = st.timer /\ q.pc = st.pc
          /\ q.listening = st.listening /\ q.reading = st.reading
          /\ q.settled = st.settled /\ q.wired = st.wired
      BY DEF StartupInv, StShape, StFields
    <3>2. st' = onStartupError(q, "error")
      BY <1>3, <2>2 DEF ErrorEvent
    <3> HIDE DEF q
    <3>3. Startup(q)
      BY <2>2, <3>1 DEF StartupInv, Startup
    <3> QED
      BY <3>1, <3>2, <3>3, StartupError DEF StartupInv
  <2> QED
    BY <2>1, <2>2
<1>4. CASE CloseEvent
  <2> DEFINE q == [st EXCEPT !.conn = "closed"]
             u == [q EXCEPT !.pc = "disconnected"]
  <2>1. /\ StShape(q) /\ q.established = st.established /\ q.timer = st.timer /\ q.pc = st.pc
        /\ q.listening = st.listening /\ q.reading = st.reading
        /\ q.settled = st.settled /\ q.wired = st.wired /\ q.conn = "closed"
    BY DEF StartupInv, StShape, StFields
  <2>2. st' = IF ~ st.listening THEN q ELSE IF st.established THEN u ELSE onStartupError(q, "ECONNCLOSED")
    BY <1>4 DEF CloseEvent
  <2> HIDE DEF q
  <2>3. Startup(q)
    BY <2>1 DEF StartupInv, Startup
  <2>4. /\ StShape(u) /\ u.established = q.established /\ u.timer = q.timer /\ u.pc = "disconnected"
        /\ u.listening = q.listening /\ u.reading = q.reading /\ u.settled = q.settled /\ u.wired = q.wired
    BY <2>1 DEF StShape, StFields
  <2> HIDE DEF u
  <2>5. CASE ~ st.listening
    BY <2>1, <2>2, <2>3, <2>5 DEF StartupInv
  <2>6. CASE st.listening /\ st.established
    <3>1. st.pc # "failed" /\ Startup(u)
      BY <2>1, <2>3, <2>4, <2>6 DEF StartupInv, Startup
    <3> QED
      BY <2>2, <2>4, <2>6, <3>1 DEF StartupInv
  <2>7. CASE st.listening /\ ~ st.established
    BY <2>1, <2>2, <2>3, <2>7, StartupError DEF StartupInv
  <2> QED
    BY <2>5, <2>6, <2>7
<1>5. CASE onStreamClose
  <2>1. \E why : why # "ready" /\ st' = settle(st, why)
    BY <1>5 DEF onStreamClose
  <2> QED
    BY <1>5, <2>1, StartupSettled DEF StartupInv, onStreamClose
<1>6. CASE \E x \in StreamNames, n \in 1..6 : onData(x, n)
  BY <1>6, StartupData
<1> QED
  BY <1>1, <1>2, <1>3, <1>4, <1>5, <1>6 DEF StNext

(* A failed startup leaves no timer, no listener and no open connection,   *)
(* and a successful one no timer and the response handlers on the channel, *)
(* for everything the shell and the server may print (ZSshClient.create).  *)
THEOREM ClientStartReleases == StSpec => []StartupReleases
<1>1. StInit => StartupInv
  <2> DEFINE first(s, none) ==
               [pc |-> "connect", established |-> FALSE, timer |-> TRUE, listening |-> TRUE, conn |-> "up",
                script |-> s, wire |-> [x \in StreamNames |-> s[x]], output |-> <<>>, reading |-> FALSE,
                settled |-> FALSE, wired |-> FALSE, err |-> none, told |-> FALSE, cut |-> FALSE]
  <2>1. ASSUME NEW s, NEW none
        PROVE  StShape(first(s, none)) /\ Startup(first(s, none))
    <3> DEFINE w == [x \in StreamNames |-> s[x]]
               q == [pc |-> "connect", established |-> FALSE, timer |-> TRUE, listening |-> TRUE, conn |-> "up",
                     script |-> s, wire |-> w, output |-> <<>>, reading |-> FALSE, settled |-> FALSE,
                     wired |-> FALSE, err |-> none, told |-> FALSE, cut |-> FALSE]
    <3> HIDE DEF w
    <3>1. StShape(q)
      BY DEF StShape, StFields
    <3>2. Startup(q)
      BY DEF Startup
    <3> QED
      BY <3>1, <3>2 DEF w
  <2>2. StInit => \E s \in StScripts : st = first(s, "")
    BY Zenon DEF StInit
  <2> HIDE DEF first
  <2> QED
    BY <2>1, <2>2, Zenon DEF StartupInv
<1>2. StartupInv /\ [StNext]_st => StartupInv'
  <2>1. ASSUME StartupInv, UNCHANGED st
        PROVE  StartupInv'
    BY <2>1 DEF StartupInv
  <2> QED
    BY <2>1, StartupStep
<1>3. StartupInv => StartupReleases
  BY DEF StartupInv, Startup, StartupReleases
<1> QED
  BY <1>1, <1>2, <1>3, PTL DEF StSpec

-----------------------------------------------------------------------------
(* The choice of a profile *)

CfgFields == {"name", "host", "user", "key", "phrase", "pw", "agent"}
Creds == {"user", "key", "phrase", "pw", "agent"}
IsCfg(c) == c = [f \in CfgFields |-> c[f]]

\* What is not there is none of what the host knows.
LEMMA Undefined == Undef # "u" /\ Undef # "p" /\ Undef # "ph" /\ (\A w : Resolved(w, Undef) = Undef)
<1>1. Undef # "u" /\ Undef # "p" /\ Undef # "ph"
  BY Zenon DEF Undef
<1>2. \A w : Resolved(w, Undef) = Undef
  BY DEF Resolved
<1> QED
  BY <1>1, <1>2

\* The fields of one record over another.
LEMMA SpreadFields ==
  ASSUME NEW c, NEW m, IsCfg(c), DOMAIN m \subseteq CfgFields
  PROVE  /\ IsCfg(Spread(c, m))
         /\ \A f \in CfgFields : Spread(c, m)[f] = IF f \in DOMAIN m THEN m[f] ELSE c[f]
<1>1. DOMAIN c = CfgFields
  BY DEF IsCfg
<1>2. Spread(c, m) = [f \in CfgFields |-> IF f \in DOMAIN m THEN m[f] ELSE c[f]]
  BY <1>1 DEF Spread
<1> QED
  BY <1>2 DEF IsCfg

\* A connection with an agent looks at the user only.
LEMMA ByAgent ==
  ASSUME NEW w, NEW a, NEW b, Resolved(w, a.agent) # Undef, Resolved(w, b.agent) # Undef, a.user = b.user
  PROVE  Connection(w, a) = Connection(w, b)
BY DEF Connection

\* A connection with a key looks at the user, the key and its passphrase.
LEMMA ByKey ==
  ASSUME NEW w, NEW a, NEW b, Resolved(w, a.agent) = Undef, Resolved(w, b.agent) = Undef,
         a.user = b.user, a.key = b.key, a.key # Undef, a.phrase = b.phrase
  PROVE  Connection(w, a) = Connection(w, b)
BY DEF Connection

\* A connection with a password looks at the user and the password.
LEMMA ByPassword ==
  ASSUME NEW w, NEW a, NEW b, Resolved(w, a.agent) = Undef, Resolved(w, b.agent) = Undef,
         a.user = b.user, a.key = Undef, b.key = Undef, a.pw = b.pw
  PROVE  Connection(w, a) = Connection(w, b)
BY DEF Connection

\* Who connects is the host's user, and by password with the right one.
LEMMA WhoConnects ==
  ASSUME NEW w, NEW a, Connection(w, a) = "ok"
  PROVE  /\ a.user = "u"
         /\ Resolved(w, a.agent) = Undef /\ a.key = Undef => a.pw = "p"
BY DEF Connection

\* What connects by any method connects by the first that is there alone.
LEMMA SameLogin ==
  ASSUME NEW w, NEW a, NEW b, a.user = b.user, a.key = b.key, a.phrase = b.phrase, a.pw = b.pw, a.agent = b.agent
  PROVE  Connection(w, a) = Connection(w, b)
BY DEF Connection

-----------------------------------------------------------------------------
(* The results of a validation *)

ValFields == {"end", "ok", "mods", "file", "accepted"}
IsVal(s) == s = [x \in ValFields |-> s[x]] /\ s.end \in BOOLEAN /\ s.ok \in BOOLEAN /\ s.accepted \in BOOLEAN

\* A file f of profiles.
IsFile(f) == f \in [DOMAIN f -> StoredProfile]

\* The profiles of file f may have a key.
HasKeys(f) == \A n \in DOMAIN f : "key" \in DOMAIN f[n]

\* What the validation of c made of file f: at most the key of the profile of
\* that name is moved to a comment, and nothing unless that was accepted.
FileKept(c, f, g, accepted) ==
  /\ DOMAIN g = DOMAIN f
  /\ \A n \in DOMAIN f : n # c.name => g[n] = f[n]
  /\ c.name \in DOMAIN f =>
       /\ DOMAIN g[c.name] = DOMAIN f[c.name]
       /\ \A x \in DOMAIN f[c.name] \ {"key", "comments"} : g[c.name][x] = f[c.name][x]
  /\ c.name \notin DOMAIN f => g = f
  /\ HasKeys(f) /\ ~ accepted => Restored(f, g)

\* The three endings of a question about a key.
LEMMA KeyMoved ==
  ASSUME NEW c, NEW f, NEW h \in handleInvalidPrivateKey(f, c)
  PROVE  FileKept(c, f, h.file, h.accepted) /\ h.accepted \in BOOLEAN /\ h.go \in BOOLEAN
<1> DEFINE n == c.name
           k == f[n].key
           out == commentOutProperty(f, n)
           del == deleteCommentedLine(out, n, k)
           undo == uncommentProperty(out, n, k)
           on == [go |-> TRUE, file |-> f, accepted |-> FALSE]
           off == [go |-> FALSE, file |-> f, accepted |-> FALSE]
           moved == [go |-> TRUE, file |-> out, accepted |-> TRUE]
           deleted == [go |-> TRUE, file |-> del, accepted |-> TRUE]
           undone == [go |-> FALSE, file |-> undo, accepted |-> FALSE]
<1>a. handleInvalidPrivateKey(f, c) =
        IF c.key = Undef \/ c.name = Undef \/ ~ pf.autoStore THEN {on}
        ELSE IF n \notin DOMAIN f THEN {off}
        ELSE IF k = Undef THEN {off}
        ELSE {moved, deleted, undone}
  BY Zenon DEF handleInvalidPrivateKey
<1>b. /\ on.go = TRUE /\ on.file = f /\ on.accepted = FALSE
      /\ off.go = FALSE /\ off.file = f /\ off.accepted = FALSE
      /\ moved.go = TRUE /\ moved.file = out /\ moved.accepted = TRUE
      /\ deleted.go = TRUE /\ deleted.file = del /\ deleted.accepted = TRUE
      /\ undone.go = FALSE /\ undone.file = undo /\ undone.accepted = FALSE
  <2> HIDE DEF out, del, undo
  <2> QED
    OBVIOUS
<1> HIDE DEF on, off, moved, deleted, undone
<1>c. h \in {on, off} \/ (n \in DOMAIN f /\ h \in {moved, deleted, undone})
  BY <1>a
<1>1. CASE h \in {on, off}
  BY <1>1, <1>b DEF FileKept, Restored
<1>2. CASE n \in DOMAIN f /\ h \in {moved, deleted, undone}
  <2>1. FileKept(c, f, out, TRUE)
    BY <1>2 DEF FileKept, commentOutProperty
  <2>2. FileKept(c, f, del, TRUE)
    BY <1>2 DEF FileKept, commentOutProperty, deleteCommentedLine
  <2>3. FileKept(c, f, undo, TRUE)
    BY <1>2 DEF FileKept, commentOutProperty, uncommentProperty
  <2>4. ASSUME HasKeys(f) PROVE Restored(f, undo)
    <3> DEFINE p == f[n]
               q == [p EXCEPT !.key = Undef, !.comments = @ \cup {k}]
               r == [q EXCEPT !.key = k, !.comments = @ \ {k}]
    <3>1. r = [p EXCEPT !.comments = @ \ {k}]
      BY <1>2, <2>4 DEF HasKeys
    <3>2. out = [f EXCEPT ![n] = q]
      BY DEF commentOutProperty
    <3>3. undo = [out EXCEPT ![n] = [out[n] EXCEPT !.key = k, !.comments = @ \ {k}]]
      BY DEF uncommentProperty
    <3> HIDE DEF q, out, undo
    <3>4. out[n] = q
      BY <1>2, <3>2
    <3>5. undo = [out EXCEPT ![n] = r]
      BY <3>3, <3>4
    <3> HIDE DEF r
    <3> QED
      BY <1>2, <3>1, <3>2, <3>5 DEF Restored
  <2> HIDE DEF out, del, undo
  <2>5. CASE h \in {moved, deleted}
    BY <1>b, <2>1, <2>2, <2>5
  <2>6. CASE h = undone
    BY <1>b, <2>3, <2>4, <2>6 DEF FileKept
  <2> QED
    BY <1>2, <2>5, <2>6
<1> QED
  BY <1>c, <1>1, <1>2

\* What the password that is asked for leads to.
Prompted(a, s, v) ==
  v = Stop(s) \/ (v = Accept(s, [pw |-> "p"]) /\ attemptConnection([a EXCEPT !.pw = "p"]) = "ok")

\* What a method that did not connect may lead to.
AfterFailure(t, c, a, s, ask, v) ==
  \/ v = Stop(s)
  \/ \E h \in handleInvalidPrivateKey(s.file, c) : v = Stop(Handled(s, h))
  \/ \E u : v = Accept(s, [user |-> u]) /\ attemptConnection([a EXCEPT !.user = u]) = "ok"
  \/ /\ t = "key" /\ v = Accept(s, [key |-> c.key, phrase |-> "ph"])
     /\ attemptConnection([a EXCEPT !.phrase = "ph"]) = "ok"
  \/ t = "agent" /\ v = [s EXCEPT !.mods = Spread(@, [agent |-> Undef])]
  \/ t = "key" /\ \E h \in handleInvalidPrivateKey(s.file, c) :
       v = [Handled(s, h) EXCEPT !.mods = Spread(@, [key |-> Undef, phrase |-> Undef])]
  \/ t = "pw" /\ ask /\ Prompted(a, s, v)
  \/ t = "pw" /\ ~ ask /\ v = s

\* The cases of the catch of one attempt.
LEMMA FailedCases ==
  ASSUME NEW t, NEW c, NEW a, NEW s, NEW ask, NEW e, NEW v \in Failed(t, c, a, s, ask, e)
  PROVE  AfterFailure(t, c, a, s, ask, v)
<1> DEFINE asked == {Stop(s)} \cup
                      {IF attemptConnection([a EXCEPT !.user = u]) = "ok" THEN Accept(s, [user |-> u]) ELSE Stop(s)
                       : u \in Users \ {Undef}}
           stopped == {Stop(Handled(s, h)) : h \in handleInvalidPrivateKey(s.file, c)}
           opened == stopped \cup (IF attemptConnection([a EXCEPT !.phrase = "ph"]) = "ok"
                                   THEN {Accept(s, [key |-> c.key, phrase |-> "ph"])} ELSE {})
           noAgent == {[s EXCEPT !.mods = Spread(@, [agent |-> Undef])]}
           noKey == {IF h.go THEN [Handled(s, h) EXCEPT !.mods = Spread(@, [key |-> Undef, phrase |-> Undef])]
                     ELSE Stop(Handled(s, h)) : h \in handleInvalidPrivateKey(s.file, c)}
           noPw == IF ask THEN promptForPassword(a, s) ELSE {s}
<1>1. Failed(t, c, a, s, ask, e) =
        CASE e = "Invalid username" -> asked
          [] t = "key" /\ e \in {"no passphrase", "integrity"} -> opened
          [] e = "refused" /\ t = "agent" -> noAgent
          [] e = "refused" /\ t = "key" -> noKey
          [] e = "refused" /\ t = "pw" -> noPw
          [] e = "malformed" -> stopped
          [] OTHER -> {Stop(s)}
  BY DEF Failed
<1>2. ASSUME v \in asked PROVE AfterFailure(t, c, a, s, ask, v)
  BY <1>2 DEF AfterFailure
<1>3. ASSUME v \in stopped PROVE AfterFailure(t, c, a, s, ask, v)
  BY <1>3 DEF AfterFailure
<1>4. ASSUME t = "key", v \in opened PROVE AfterFailure(t, c, a, s, ask, v)
  <2> HIDE DEF stopped
  <2>1. \/ v \in stopped
        \/ /\ v = Accept(s, [key |-> c.key, phrase |-> "ph"])
           /\ attemptConnection([a EXCEPT !.phrase = "ph"]) = "ok"
    BY <1>4
  <2> QED
    BY <1>3, <1>4, <2>1 DEF AfterFailure
<1>5. ASSUME t = "agent", v \in noAgent PROVE AfterFailure(t, c, a, s, ask, v)
  BY <1>5 DEF AfterFailure
<1>6. ASSUME t = "key", v \in noKey PROVE AfterFailure(t, c, a, s, ask, v)
  BY <1>6 DEF AfterFailure
<1>7. ASSUME t = "pw", v \in noPw PROVE AfterFailure(t, c, a, s, ask, v)
  BY <1>7 DEF AfterFailure, promptForPassword, Prompted
<1>8. ASSUME v \in {Stop(s)} PROVE AfterFailure(t, c, a, s, ask, v)
  BY <1>8 DEF AfterFailure
<1> HIDE DEF asked, stopped, opened, noAgent, noKey, noPw
<1>9. \/ v \in asked \/ v \in stopped \/ (t = "key" /\ v \in opened) \/ (t = "agent" /\ v \in noAgent)
      \/ (t = "key" /\ v \in noKey) \/ (t = "pw" /\ v \in noPw) \/ v \in {Stop(s)}
  BY <1>1
<1> QED
  BY <1>2, <1>3, <1>4, <1>5, <1>6, <1>7, <1>8, <1>9

\* A profile c, as s changed it, with one method only.
Alone(t, c, s) ==
  [Spread(c, s.mods) EXCEPT !.agent = IF t = "agent" THEN c.agent ELSE Undef,
                            !.key = IF t = "key" THEN c.key ELSE Undef,
                            !.phrase = IF t = "key" THEN c.phrase ELSE Undef,
                            !.pw = IF t = "pw" THEN c.pw ELSE Undef]
Listed(t, c, ask) ==
  CASE t = "agent" -> Resolved(pf.world, c.agent) # Undef [] t = "key" -> c.key # Undef [] OTHER -> c.pw # Undef \/ ask

\* The cases of one pass of the loop.
LEMMA MethodCases ==
  ASSUME NEW t, NEW c, NEW s, NEW ask, NEW v \in WithMethod(t, c, s, ask)
  PROVE  LET a == Alone(t, c, s)
             none == t = "pw" /\ a.pw = Undef
         IN  \/ v = s /\ (s.end \/ ~ Listed(t, c, ask))
             \/ /\ ~ s.end /\ Listed(t, c, ask)
                /\ \/ none /\ Prompted(a, s, v)
                   \/ ~ none /\ attemptConnection(a) = "ok" /\ v = Accept(s, NoMods)
                   \/ ~ none /\ attemptConnection(a) # "ok" /\ AfterFailure(t, c, a, s, ask, v)
<1> DEFINE a == Alone(t, c, s)
           listed == Listed(t, c, ask)
<1>1. WithMethod(t, c, s, ask) =
        IF s.end \/ ~ listed THEN {s}
        ELSE IF t = "pw" /\ a.pw = Undef THEN promptForPassword(a, s)
        ELSE IF attemptConnection(a) = "ok" THEN {Accept(s, NoMods)}
        ELSE Failed(t, c, a, s, ask, attemptConnection(a))
  BY Zenon DEF WithMethod, Alone, Listed
<1> HIDE DEF a, listed
<1>2. v \in promptForPassword(a, s) => Prompted(a, s, v)
  BY DEF promptForPassword, Prompted
<1>3. v \in Failed(t, c, a, s, ask, attemptConnection(a)) => AfterFailure(t, c, a, s, ask, v)
  BY FailedCases
<1>4. \/ v = s /\ (s.end \/ ~ listed)
      \/ /\ ~ s.end /\ listed
         /\ \/ t = "pw" /\ a.pw = Undef /\ Prompted(a, s, v)
            \/ ~ (t = "pw" /\ a.pw = Undef) /\ attemptConnection(a) = "ok" /\ v = Accept(s, NoMods)
            \/ /\ ~ (t = "pw" /\ a.pw = Undef) /\ attemptConnection(a) # "ok"
               /\ AfterFailure(t, c, a, s, ask, v)
  BY <1>1, <1>2, <1>3
<1> QED
  BY <1>4 DEF a, listed

\* The changes m that the validation of c may make: an agent and a key only
\* lose, a password only if one may be asked for.
ModsOk(c, ask, m) ==
  /\ DOMAIN m \subseteq Creds
  /\ "agent" \in DOMAIN m => m.agent = Undef /\ Resolved(pf.world, c.agent) # Undef
  /\ "key" \in DOMAIN m => c.key # Undef /\ m.key \in {Undef, c.key}
  /\ "phrase" \in DOMAIN m => "key" \in DOMAIN m
  /\ "pw" \in DOMAIN m => ask

\* Profile c with the changes m; a password that was asked for stands alone.
Used(c, m) == IF "pw" \in DOMAIN m THEN Spread(Spread(c, m), NoKeys) ELSE Spread(c, m)

\* The changes m make profile c connect; a key that was given up was replaced
\* by a password.
Works(c, ask, m) ==
  /\ attemptConnection(Used(c, m)) = "ok"
  /\ "key" \in DOMAIN m /\ m.key = Undef => ask \/ c.pw # Undef

\* Where the validation of c, with file f, may stand.
Val(c, f, ask, s) ==
  /\ IsVal(s)
  /\ s.ok => s.end
  /\ ModsOk(c, ask, s.mods)
  /\ s.ok => Works(c, ask, s.mods)
  /\ FileKept(c, f, s.file, s.accepted)
  /\ s.ok \/ ~ s.end => s.file = f \/ "key" \in DOMAIN s.mods
  /\ attemptConnection(c) = "ok" => (s.end => s.ok) /\ (~ s.end => DOMAIN s.mods = {})

\* The methods tried so far did not connect, and their credentials are gone.
NoneTried(s) == ~ s.end => DOMAIN s.mods \subseteq {"user"}
AgentTried(c, s) ==
  ~ s.end =>
    /\ DOMAIN s.mods \subseteq {"user", "agent"}
    /\ Resolved(pf.world, c.agent) # Undef => "agent" \in DOMAIN s.mods
KeyTried(c, s) ==
  ~ s.end =>
    /\ DOMAIN s.mods \subseteq {"user", "agent", "key", "phrase"}
    /\ Resolved(pf.world, c.agent) # Undef => "agent" \in DOMAIN s.mods
    /\ c.key # Undef => "key" \in DOMAIN s.mods /\ s.mods.key = Undef

\* The fields of what a pass leaves.
LEMMA StopFields ==
  ASSUME NEW s, IsVal(s)
  PROVE  /\ IsVal(Stop(s)) /\ Stop(s).end = TRUE /\ Stop(s).ok = s.ok /\ Stop(s).mods = s.mods
         /\ Stop(s).file = s.file /\ Stop(s).accepted = s.accepted
BY DEF IsVal, ValFields, Stop

\* The fields of an accepted validation.
LEMMA AcceptFields ==
  ASSUME NEW s, NEW more, IsVal(s)
  PROVE  /\ IsVal(Accept(s, more)) /\ Accept(s, more).end = TRUE /\ Accept(s, more).ok = TRUE
         /\ Accept(s, more).mods = Spread(s.mods, more)
         /\ Accept(s, more).file = s.file /\ Accept(s, more).accepted = s.accepted
BY DEF IsVal, ValFields, Accept

\* The fields of a validation that gives up a method.
LEMMA ModsFields ==
  ASSUME NEW s, NEW more, IsVal(s)
  PROVE  LET v == [s EXCEPT !.mods = Spread(@, more)]
         IN  /\ IsVal(v) /\ v.end = s.end /\ v.ok = s.ok /\ v.mods = Spread(s.mods, more)
             /\ v.file = s.file /\ v.accepted = s.accepted
BY DEF IsVal, ValFields

\* The fields of a validation that asked about a key.
LEMMA HandledFields ==
  ASSUME NEW s, NEW h, IsVal(s), h.accepted \in BOOLEAN
  PROVE  /\ IsVal(Handled(s, h)) /\ Handled(s, h).end = s.end /\ Handled(s, h).ok = s.ok
         /\ Handled(s, h).mods = s.mods /\ Handled(s, h).file = h.file
         /\ Handled(s, h).accepted = (s.accepted \/ h.accepted)
<1> DEFINE b == s.accepted \/ h.accepted
           v == [s EXCEPT !.file = h.file, !.accepted = b]
<1>1. b \in BOOLEAN
  BY DEF IsVal
<1>2. Handled(s, h) = v
  BY DEF Handled
<1> HIDE DEF b
<1>3. /\ IsVal(v) /\ v.end = s.end /\ v.ok = s.ok /\ v.mods = s.mods
      /\ v.file = h.file /\ v.accepted = b
  BY <1>1 DEF IsVal, ValFields
<1> QED
  BY <1>2, <1>3 DEF b

\* A file that is restored twice is restored.
LEMMA RestoredTwice ==
  ASSUME NEW f, NEW g, NEW h, HasKeys(f), Restored(f, g), Restored(g, h)
  PROVE  Restored(f, h)
<1>1. ASSUME NEW n \in DOMAIN f
      PROVE  h[n] = f[n] \/ h[n] = [f[n] EXCEPT !.comments = @ \ {f[n].key}]
  <2> DEFINE p == f[n]
             q == [p EXCEPT !.comments = @ \ {p.key}]
  <2>1. (g[n] = p \/ g[n] = q) /\ (h[n] = g[n] \/ h[n] = [g[n] EXCEPT !.comments = @ \ {g[n].key}])
    BY <1>1 DEF Restored
  <2>2. [q EXCEPT !.comments = @ \ {q.key}] = q
    BY <1>1 DEF HasKeys
  <2> QED
    BY <2>1, <2>2
<1> QED
  BY <1>1 DEF Restored

\* A file that is kept twice is kept.
LEMMA KeptTwice ==
  ASSUME NEW c, NEW f, NEW g, NEW h, NEW one \in BOOLEAN, NEW two \in BOOLEAN,
         FileKept(c, f, g, one), FileKept(c, g, h, two)
  PROVE  FileKept(c, f, h, one \/ two)
<1>1. ASSUME HasKeys(f), ~ one, ~ two
      PROVE  Restored(f, h)
  <2>1. Restored(f, g)
    BY <1>1 DEF FileKept
  <2>2. HasKeys(g)
    BY <1>1, <2>1 DEF HasKeys, Restored
  <2>3. Restored(g, h)
    BY <1>1, <2>2 DEF FileKept
  <2> QED
    BY <1>1, <2>1, <2>3, RestoredTwice
<1> QED
  BY <1>1 DEF FileKept

\* A validation that ends without a result.
LEMMA ValStop ==
  ASSUME NEW c, NEW f, NEW ask, NEW s, Val(c, f, ask, s), ~ s.end, attemptConnection(c) # "ok"
  PROVE  /\ Val(c, f, ask, Stop(s)) /\ Stop(s).end
         /\ \A h \in handleInvalidPrivateKey(s.file, c) :
              Val(c, f, ask, Stop(Handled(s, h))) /\ Stop(Handled(s, h)).end
<1>1. IsVal(s) /\ ~ s.ok
  BY DEF Val
<1>2. Val(c, f, ask, Stop(s)) /\ Stop(s).end
  BY <1>1, StopFields DEF Val
<1>3. ASSUME NEW h \in handleInvalidPrivateKey(s.file, c)
      PROVE  Val(c, f, ask, Stop(Handled(s, h))) /\ Stop(Handled(s, h)).end
  <2> DEFINE u == Handled(s, h)
             v == Stop(u)
  <2>1. FileKept(c, s.file, h.file, h.accepted) /\ h.accepted \in BOOLEAN
    BY KeyMoved
  <2>2. /\ IsVal(u) /\ u.end = s.end /\ u.ok = s.ok /\ u.mods = s.mods
        /\ u.file = h.file /\ u.accepted = (s.accepted \/ h.accepted)
    BY <1>1, <2>1, HandledFields
  <2> HIDE DEF u
  <2>3. /\ IsVal(v) /\ v.end = TRUE /\ v.ok = u.ok /\ v.mods = u.mods
        /\ v.file = u.file /\ v.accepted = u.accepted
    BY <2>2, StopFields
  <2> HIDE DEF v
  <2>4. FileKept(c, f, v.file, v.accepted)
    BY <1>1, <2>1, <2>2, <2>3, KeptTwice DEF Val, IsVal
  <2>5. Val(c, f, ask, v) /\ v.end
    BY <1>1, <2>2, <2>3, <2>4 DEF Val
  <2> QED
    BY <2>5 DEF u, v
<1> QED
  BY <1>2, <1>3

\* A validation that ends with a result.
LEMMA ValAccept ==
  ASSUME NEW c, NEW f, NEW ask, NEW s, NEW more, Val(c, f, ask, s), ~ s.end,
         ModsOk(c, ask, Spread(s.mods, more)), Works(c, ask, Spread(s.mods, more))
  PROVE  Val(c, f, ask, Accept(s, more)) /\ Accept(s, more).end
<1> DEFINE v == Accept(s, more)
<1>1. /\ IsVal(v) /\ v.end = TRUE /\ v.ok = TRUE /\ v.mods = Spread(s.mods, more)
      /\ v.file = s.file /\ v.accepted = s.accepted
  BY AcceptFields DEF Val
<1>2. DOMAIN s.mods \subseteq DOMAIN v.mods
  BY <1>1 DEF Spread
<1> HIDE DEF v
<1>3. Val(c, f, ask, v) /\ v.end
  BY <1>1, <1>2 DEF Val
<1> QED
  BY <1>3 DEF v

\* The fields of a profile with one method only.
LEMMA AloneFields ==
  ASSUME NEW t, NEW c, NEW s, IsCfg(c), DOMAIN s.mods \subseteq Creds
  PROVE  LET a == Alone(t, c, s)
         IN  /\ IsCfg(a)
             /\ a.user = IF "user" \in DOMAIN s.mods THEN s.mods.user ELSE c.user
             /\ a.agent = IF t = "agent" THEN c.agent ELSE Undef
             /\ a.key = IF t = "key" THEN c.key ELSE Undef
             /\ a.phrase = IF t = "key" THEN c.phrase ELSE Undef
             /\ a.pw = IF t = "pw" THEN c.pw ELSE Undef
<1> DEFINE b == Spread(c, s.mods)
<1>1. IsCfg(b) /\ b.user = IF "user" \in DOMAIN s.mods THEN s.mods.user ELSE c.user
  BY SpreadFields DEF Creds, CfgFields
<1>2. Alone(t, c, s) =
        [b EXCEPT !.agent = IF t = "agent" THEN c.agent ELSE Undef, !.key = IF t = "key" THEN c.key ELSE Undef,
                  !.phrase = IF t = "key" THEN c.phrase ELSE Undef, !.pw = IF t = "pw" THEN c.pw ELSE Undef]
  BY DEF Alone
<1> HIDE DEF b
<1>3. DOMAIN b = CfgFields
  BY <1>1 DEF IsCfg
<1> QED
  BY <1>1, <1>2, <1>3 DEF IsCfg, CfgFields

\* The credentials of a profile that connects with the changes m.
LEMMA UsedFields ==
  ASSUME NEW c, NEW m, IsCfg(c), DOMAIN m \subseteq Creds
  PROVE  /\ IsCfg(Used(c, m))
         /\ Used(c, m).user = IF "user" \in DOMAIN m THEN m.user ELSE c.user
         /\ Used(c, m).pw = IF "pw" \in DOMAIN m THEN m.pw ELSE c.pw
         /\ "pw" \notin DOMAIN m =>
              /\ Used(c, m).agent = IF "agent" \in DOMAIN m THEN m.agent ELSE c.agent
              /\ Used(c, m).key = IF "key" \in DOMAIN m THEN m.key ELSE c.key
              /\ Used(c, m).phrase = IF "phrase" \in DOMAIN m THEN m.phrase ELSE c.phrase
         /\ "pw" \in DOMAIN m =>
              Used(c, m).agent = Undef /\ Used(c, m).key = Undef /\ Used(c, m).phrase = Undef
<1> DEFINE b == Spread(c, m)
<1>1. IsCfg(b) /\ \A f \in CfgFields : b[f] = IF f \in DOMAIN m THEN m[f] ELSE c[f]
  BY SpreadFields DEF Creds, CfgFields
<1> HIDE DEF b
<1>2. DOMAIN NoKeys = {"agent", "key", "phrase"} /\ NoKeys.agent = Undef /\ NoKeys.key = Undef /\ NoKeys.phrase = Undef
  BY DEF NoKeys
<1>3. /\ IsCfg(Spread(b, NoKeys))
      /\ \A f \in CfgFields : Spread(b, NoKeys)[f] = IF f \in DOMAIN NoKeys THEN NoKeys[f] ELSE b[f]
  BY <1>1, <1>2, SpreadFields DEF CfgFields
<1>4. Used(c, m) = IF "pw" \in DOMAIN m THEN Spread(b, NoKeys) ELSE b
  BY DEF Used, b
<1>5. CASE "pw" \in DOMAIN m
  BY <1>1, <1>2, <1>3, <1>4, <1>5 DEF CfgFields
<1>6. CASE "pw" \notin DOMAIN m
  BY <1>1, <1>4, <1>6 DEF CfgFields
<1> QED
  BY <1>5, <1>6

\* The changes of one record over another.
LEMMA SpreadMods ==
  ASSUME NEW m, NEW more
  PROVE  /\ DOMAIN Spread(m, more) = DOMAIN m \cup DOMAIN more
         /\ \A x : x \in DOMAIN Spread(m, more) <=> x \in DOMAIN m \/ x \in DOMAIN more
         /\ \A x : x \in DOMAIN more => Spread(m, more)[x] = more[x]
         /\ \A x : x \in DOMAIN m /\ x \notin DOMAIN more => Spread(m, more)[x] = m[x]
BY DEF Spread

\* A profile that connects does so by the first method that is there.
LEMMA FirstWorks ==
  ASSUME NEW t \in {"agent", "key", "pw"}, NEW c, NEW f, NEW ask, NEW s, IsCfg(c), Val(c, f, ask, s), ~ s.end,
         attemptConnection(c) = "ok", Listed(t, c, ask),
         t = "key" => AgentTried(c, s), t = "pw" => KeyTried(c, s)
  PROVE  attemptConnection(Alone(t, c, s)) = "ok" /\ ~ (t = "pw" /\ Alone(t, c, s).pw = Undef)
<1> DEFINE a == Alone(t, c, s)
<1>1. DOMAIN s.mods = {}
  BY DEF Val
<1>2. /\ a.user = c.user
      /\ a.agent = IF t = "agent" THEN c.agent ELSE Undef
      /\ a.key = IF t = "key" THEN c.key ELSE Undef
      /\ a.phrase = IF t = "key" THEN c.phrase ELSE Undef
      /\ a.pw = IF t = "pw" THEN c.pw ELSE Undef
  BY <1>1, AloneFields
<1> HIDE DEF a
<1>3. CASE t = "agent"
  BY <1>2, <1>3, ByAgent DEF Listed, attemptConnection, a
<1>4. CASE t = "key"
  <2>1. Resolved(pf.world, c.agent) = Undef /\ c.key # Undef
    BY <1>1, <1>4 DEF AgentTried, Listed
  <2> QED
    BY <1>2, <1>4, <2>1, ByKey, Undefined DEF attemptConnection, a
<1>5. CASE t = "pw"
  <2>1. Resolved(pf.world, c.agent) = Undef /\ c.key = Undef
    BY <1>1, <1>5 DEF KeyTried
  <2>2. attemptConnection(a) = "ok"
    BY <1>2, <1>5, <2>1, ByPassword, Undefined DEF attemptConnection
  <2>3. a.pw # Undef
    BY <1>2, <1>5, <2>2, WhoConnects, Undefined DEF attemptConnection
  <2> QED
    BY <1>5, <2>2, <2>3 DEF a
<1> QED
  BY <1>3, <1>4, <1>5

\* The first pass: an agent that connects is kept, one that is refused is given
\* up.
LEMMA AgentPass ==
  ASSUME NEW c, NEW f, NEW ask \in BOOLEAN, NEW s, NEW v \in WithMethod("agent", c, s, ask), IsCfg(c),
         Val(c, f, ask, s), NoneTried(s)
  PROVE  Val(c, f, ask, v) /\ AgentTried(c, v)
<1> DEFINE a == Alone("agent", c, s)
<1>1. IsVal(s) /\ ModsOk(c, ask, s.mods)
  BY DEF Val
<1>2. /\ a.user = IF "user" \in DOMAIN s.mods THEN s.mods.user ELSE c.user
      /\ a.agent = c.agent /\ IsCfg(a)
  BY <1>1, AloneFields DEF ModsOk
<1>3. Listed("agent", c, ask) <=> Resolved(pf.world, c.agent) # Undef
  BY DEF Listed
<1>4. CASE v = s /\ (s.end \/ ~ Listed("agent", c, ask))
  BY <1>3, <1>4 DEF AgentTried, NoneTried
<1>5. CASE ~ s.end /\ Listed("agent", c, ask)
  <2>1. DOMAIN s.mods \subseteq {"user"}
    BY <1>5 DEF NoneTried
  <2>2. ASSUME NEW more, DOMAIN more \subseteq {"user"}, NEW b, attemptConnection(b) = "ok",
               b.agent = c.agent, b.user = Used(c, Spread(s.mods, more)).user
        PROVE  Val(c, f, ask, Accept(s, more)) /\ AgentTried(c, Accept(s, more))
    <3> DEFINE m == Spread(s.mods, more)
    <3>1. DOMAIN m \subseteq {"user"}
      <4>1. DOMAIN m = DOMAIN s.mods \cup DOMAIN more
        BY SpreadMods
      <4> QED
        BY <2>1, <2>2, <4>1
    <3>2. Used(c, m).agent = c.agent
      BY <3>1, UsedFields DEF Creds
    <3>3. attemptConnection(Used(c, m)) = "ok"
      BY <1>3, <1>5, <2>2, <3>2, ByAgent DEF attemptConnection
    <3>4. ModsOk(c, ask, m) /\ Works(c, ask, m)
      BY <3>1, <3>3 DEF ModsOk, Works, Creds
    <3> QED
      BY <1>5, <3>4, ValAccept DEF AgentTried
  <2>3. CASE attemptConnection(a) = "ok" /\ v = Accept(s, NoMods)
    <3>1. DOMAIN NoMods = {}
      BY DEF NoMods
    <3>2. Used(c, Spread(s.mods, NoMods)).user = a.user
      <4> DEFINE m == Spread(s.mods, NoMods)
      <4>1. /\ DOMAIN m \subseteq Creds
            /\ "user" \in DOMAIN m <=> "user" \in DOMAIN s.mods
            /\ "user" \in DOMAIN s.mods => m.user = s.mods.user
        BY <2>1, <3>1 DEF Creds, Spread
      <4> HIDE DEF m, a
      <4> QED
        BY <1>2, <4>1, UsedFields DEF m
    <3> QED
      BY <1>2, <2>2, <2>3, <3>1, <3>2
  <2>4. CASE attemptConnection(a) # "ok" /\ AfterFailure("agent", c, a, s, ask, v)
    <3>1. attemptConnection(c) # "ok"
      BY <1>5, <2>4, FirstWorks
    <3>2. CASE v = Stop(s) \/ \E h \in handleInvalidPrivateKey(s.file, c) : v = Stop(Handled(s, h))
      BY <1>5, <3>1, <3>2, ValStop DEF AgentTried
    <3>3. ASSUME NEW u, v = Accept(s, [user |-> u]), attemptConnection([a EXCEPT !.user = u]) = "ok"
          PROVE  Val(c, f, ask, v) /\ AgentTried(c, v)
      <4> DEFINE b == [a EXCEPT !.user = u]
                 more == [user |-> u]
      <4>1. b.user = u /\ b.agent = c.agent
        BY <1>2 DEF IsCfg, CfgFields
      <4>2. DOMAIN more = {"user"} /\ more.user = u
        OBVIOUS
      <4> HIDE DEF b, more
      <4>3. Used(c, Spread(s.mods, more)).user = u
        <5> DEFINE m == Spread(s.mods, more)
        <5>1. DOMAIN m \subseteq Creds /\ "user" \in DOMAIN m /\ m.user = u
          BY <2>1, <4>2 DEF Creds, Spread
        <5> HIDE DEF m
        <5> QED
          BY <5>1, UsedFields DEF m
      <4> QED
        BY <2>2, <3>3, <4>1, <4>2, <4>3 DEF b, more
    <3>4. CASE v = [s EXCEPT !.mods = Spread(@, [agent |-> Undef])]
      <4> DEFINE more == [agent |-> Undef]
      <4>1. DOMAIN more = {"agent"} /\ more.agent = Undef
        OBVIOUS
      <4>2. v = [s EXCEPT !.mods = Spread(@, more)]
        BY <3>4
      <4> HIDE DEF more
      <4>3. /\ IsVal(v) /\ v.end = s.end /\ v.ok = s.ok /\ v.mods = Spread(s.mods, more)
            /\ v.file = s.file /\ v.accepted = s.accepted
        BY <1>1, <4>2, ModsFields
      <4>4. /\ DOMAIN v.mods \subseteq {"user", "agent"} /\ "agent" \in DOMAIN v.mods /\ v.mods.agent = Undef
            /\ DOMAIN s.mods \subseteq DOMAIN v.mods
        <5>1. DOMAIN v.mods = DOMAIN s.mods \cup DOMAIN more
          BY <4>3, SpreadMods
        <5>2. v.mods.agent = Undef
          BY <4>1, <4>3 DEF Spread
        <5> QED
          BY <2>1, <4>1, <5>1, <5>2
      <4>5. ModsOk(c, ask, v.mods)
        BY <1>3, <1>5, <4>4 DEF ModsOk, Creds
      <4> QED
        BY <1>5, <3>1, <4>3, <4>4, <4>5 DEF Val, AgentTried
    <3> QED
      BY <2>4, <3>2, <3>3, <3>4 DEF AfterFailure
  <2> QED
    BY <1>5, <2>3, <2>4, MethodCases
<1> QED
  BY <1>4, <1>5, MethodCases

\* The second pass: a key that connects is kept, with the passphrase that was
\* asked for; one that is refused is given up.
LEMMA KeyPass ==
  ASSUME NEW c, NEW f, NEW ask \in BOOLEAN, NEW s, NEW v \in WithMethod("key", c, s, ask), IsCfg(c),
         Val(c, f, ask, s), AgentTried(c, s)
  PROVE  Val(c, f, ask, v) /\ KeyTried(c, v)
<1> DEFINE a == Alone("key", c, s)
<1>1. IsVal(s) /\ ModsOk(c, ask, s.mods)
  BY DEF Val
<1>2. /\ a.user = IF "user" \in DOMAIN s.mods THEN s.mods.user ELSE c.user
      /\ a.agent = Undef /\ a.key = c.key /\ a.phrase = c.phrase /\ IsCfg(a)
  BY <1>1, AloneFields DEF ModsOk
<1>3. Listed("key", c, ask) <=> c.key # Undef
  BY DEF Listed
<1> HIDE DEF a
<1>4. CASE v = s /\ (s.end \/ ~ Listed("key", c, ask))
  BY <1>3, <1>4 DEF AgentTried, KeyTried
<1>5. CASE ~ s.end /\ Listed("key", c, ask)
  <2>1. /\ DOMAIN s.mods \subseteq {"user", "agent"}
        /\ Resolved(pf.world, c.agent) # Undef => "agent" \in DOMAIN s.mods
    BY <1>5 DEF AgentTried
  <2>2. ASSUME NEW more, DOMAIN more \subseteq {"user", "key", "phrase"},
               "key" \in DOMAIN more => more.key = c.key,
               "phrase" \in DOMAIN more => "key" \in DOMAIN more,
               NEW b, attemptConnection(b) = "ok", b.agent = Undef, b.key = c.key,
               b.user = Used(c, Spread(s.mods, more)).user, b.phrase = Used(c, Spread(s.mods, more)).phrase
        PROVE  Val(c, f, ask, Accept(s, more)) /\ KeyTried(c, Accept(s, more))
    <3> DEFINE m == Spread(s.mods, more)
    <3>1. /\ DOMAIN m = DOMAIN s.mods \cup DOMAIN more
          /\ "key" \in DOMAIN m => "key" \in DOMAIN more /\ m.key = c.key
          /\ "agent" \in DOMAIN m <=> "agent" \in DOMAIN s.mods
          /\ "agent" \in DOMAIN m => m.agent = Undef
      BY <1>1, <2>1, <2>2 DEF Spread, ModsOk
    <3> HIDE DEF m
    <3>2. DOMAIN m \subseteq {"user", "agent", "key", "phrase"}
      BY <2>1, <2>2, <3>1
    <3>3. /\ Used(c, m).agent = IF "agent" \in DOMAIN m THEN Undef ELSE c.agent
          /\ Used(c, m).key = c.key
      BY <3>1, <3>2, UsedFields DEF Creds
    <3>4. Resolved(pf.world, Used(c, m).agent) = Undef /\ Resolved(pf.world, b.agent) = Undef
      BY <2>1, <2>2, <3>1, <3>3, Undefined
    <3>5. attemptConnection(Used(c, m)) = "ok"
      BY <1>3, <1>5, <2>2, <3>3, <3>4, ByKey DEF attemptConnection, m
    <3>6. ModsOk(c, ask, m)
      BY <1>1, <1>3, <1>5, <2>1, <2>2, <3>1, <3>2 DEF ModsOk, Creds
    <3>7. Works(c, ask, m)
      BY <1>3, <1>5, <3>1, <3>5 DEF Works
    <3> QED
      BY <1>5, <3>6, <3>7, ValAccept DEF KeyTried, m
  <2>3. CASE attemptConnection(a) = "ok" /\ v = Accept(s, NoMods)
    <3> DEFINE m == Spread(s.mods, NoMods)
    <3>1. DOMAIN NoMods = {}
      BY DEF NoMods
    <3>2. /\ DOMAIN m \subseteq {"user", "agent"}
          /\ "user" \in DOMAIN m <=> "user" \in DOMAIN s.mods
          /\ "user" \in DOMAIN s.mods => m.user = s.mods.user
      BY <2>1, <3>1 DEF Spread
    <3> HIDE DEF m
    <3>3. Used(c, m).user = a.user /\ Used(c, m).phrase = a.phrase
      BY <1>2, <3>2, UsedFields DEF Creds
    <3> QED
      BY <1>2, <2>2, <2>3, <3>1, <3>3 DEF m
  <2>4. CASE attemptConnection(a) # "ok" /\ AfterFailure("key", c, a, s, ask, v)
    <3>1. attemptConnection(c) # "ok"
      BY <1>5, <2>4, FirstWorks DEF a
    <3>2. CASE v = Stop(s) \/ \E h \in handleInvalidPrivateKey(s.file, c) : v = Stop(Handled(s, h))
      BY <1>5, <3>1, <3>2, ValStop DEF KeyTried
    <3>3. ASSUME NEW u, v = Accept(s, [user |-> u]), attemptConnection([a EXCEPT !.user = u]) = "ok"
          PROVE  Val(c, f, ask, v) /\ KeyTried(c, v)
      <4> DEFINE b == [a EXCEPT !.user = u]
                 more == [user |-> u]
                 m == Spread(s.mods, more)
      <4>1. b.user = u /\ b.agent = Undef /\ b.key = c.key /\ b.phrase = c.phrase
        BY <1>2 DEF IsCfg, CfgFields
      <4>2. DOMAIN more = {"user"} /\ more.user = u
        OBVIOUS
      <4> HIDE DEF b, more
      <4>3. DOMAIN m \subseteq {"user", "agent"} /\ "user" \in DOMAIN m /\ m.user = u
        BY <2>1, <4>2 DEF Spread
      <4> HIDE DEF m
      <4>4. Used(c, m).user = u /\ Used(c, m).phrase = c.phrase
        BY <4>3, UsedFields DEF Creds
      <4> QED
        BY <2>2, <3>3, <4>1, <4>2, <4>4 DEF b, more, m
    <3>4. CASE /\ v = Accept(s, [key |-> c.key, phrase |-> "ph"])
               /\ attemptConnection([a EXCEPT !.phrase = "ph"]) = "ok"
      <4> DEFINE b == [a EXCEPT !.phrase = "ph"]
                 more == [key |-> c.key, phrase |-> "ph"]
                 m == Spread(s.mods, more)
      <4>1. b.user = a.user /\ b.agent = Undef /\ b.key = c.key /\ b.phrase = "ph"
        BY <1>2 DEF IsCfg, CfgFields
      <4>2. DOMAIN more = {"key", "phrase"} /\ more.key = c.key /\ more.phrase = "ph"
        OBVIOUS
      <4> HIDE DEF b, more
      <4>3. /\ DOMAIN m \subseteq {"user", "agent", "key", "phrase"}
            /\ "phrase" \in DOMAIN m /\ m.phrase = "ph"
            /\ "user" \in DOMAIN m <=> "user" \in DOMAIN s.mods
            /\ "user" \in DOMAIN s.mods => m.user = s.mods.user
        BY <2>1, <4>2 DEF Spread
      <4> HIDE DEF m
      <4>4. Used(c, m).user = a.user /\ Used(c, m).phrase = "ph"
        BY <1>2, <4>3, UsedFields DEF Creds
      <4> QED
        BY <2>2, <3>4, <4>1, <4>2, <4>4 DEF b, more, m
    <3>5. ASSUME NEW h \in handleInvalidPrivateKey(s.file, c),
                 v = [Handled(s, h) EXCEPT !.mods = Spread(@, [key |-> Undef, phrase |-> Undef])]
          PROVE  Val(c, f, ask, v) /\ KeyTried(c, v)
      <4> DEFINE more == [key |-> Undef, phrase |-> Undef]
                 g == Handled(s, h)
      <4>1. DOMAIN more = {"key", "phrase"} /\ more.key = Undef /\ more.phrase = Undef
        OBVIOUS
      <4>2. v = [g EXCEPT !.mods = Spread(@, more)]
        BY <3>5
      <4>3. FileKept(c, s.file, h.file, h.accepted) /\ h.accepted \in BOOLEAN
        BY KeyMoved
      <4>4. /\ IsVal(g) /\ g.end = s.end /\ g.ok = s.ok /\ g.mods = s.mods /\ g.file = h.file
            /\ g.accepted = (s.accepted \/ h.accepted)
        BY <1>1, <4>3, HandledFields
      <4> HIDE DEF more, g
      <4>5. /\ IsVal(v) /\ v.end = g.end /\ v.ok = g.ok /\ v.mods = Spread(g.mods, more)
            /\ v.file = g.file /\ v.accepted = g.accepted
        BY <4>2, <4>4, ModsFields
      <4>6. FileKept(c, f, v.file, v.accepted)
        BY <1>1, <4>3, <4>4, <4>5, KeptTwice DEF Val, IsVal
      <4>7. /\ DOMAIN v.mods = DOMAIN s.mods \cup {"key", "phrase"} /\ v.mods.key = Undef
            /\ "agent" \in DOMAIN s.mods => v.mods.agent = s.mods.agent
        BY <4>1, <4>4, <4>5 DEF Spread
      <4>8. ModsOk(c, ask, v.mods)
        BY <1>1, <1>3, <1>5, <2>1, <4>7 DEF ModsOk, Creds
      <4> QED
        BY <1>5, <2>1, <3>1, <4>4, <4>5, <4>6, <4>7, <4>8 DEF Val, KeyTried
    <3> QED
      BY <2>4, <3>2, <3>3, <3>4, <3>5 DEF AfterFailure
  <2> QED
    BY <1>5, <2>3, <2>4, MethodCases DEF a
<1> QED
  BY <1>4, <1>5, MethodCases DEF a

\* The last pass: the password of the profile, or the one that is asked for.
LEMMA PasswordPass ==
  ASSUME NEW c, NEW f, NEW ask \in BOOLEAN, NEW s, NEW v \in WithMethod("pw", c, s, ask), IsCfg(c),
         Val(c, f, ask, s), KeyTried(c, s)
  PROVE  Val(c, f, ask, v) /\ (attemptConnection(c) = "ok" => v.ok)
<1> DEFINE a == Alone("pw", c, s)
<1>1. IsVal(s) /\ ModsOk(c, ask, s.mods)
  BY DEF Val
<1>2. /\ a.user = IF "user" \in DOMAIN s.mods THEN s.mods.user ELSE c.user
      /\ a.agent = Undef /\ a.key = Undef /\ a.pw = c.pw /\ IsCfg(a)
  BY <1>1, AloneFields DEF ModsOk
<1>3. Listed("pw", c, ask) <=> c.pw # Undef \/ ask
  BY DEF Listed
<1> HIDE DEF a
<1>4. CASE s.end
  BY <1>4, MethodCases DEF Val, a
<1>5. CASE ~ s.end
  <2>1. /\ DOMAIN s.mods \subseteq {"user", "agent", "key", "phrase"}
        /\ Resolved(pf.world, c.agent) # Undef => "agent" \in DOMAIN s.mods
        /\ c.key # Undef => "key" \in DOMAIN s.mods /\ s.mods.key = Undef
    BY <1>5 DEF KeyTried
  <2>2. ASSUME Listed("pw", c, ask), NEW more, DOMAIN more \subseteq {"user", "pw"}, "pw" \in DOMAIN more => ask,
               NEW b, attemptConnection(b) = "ok", b.agent = Undef, b.key = Undef,
               b.user = Used(c, Spread(s.mods, more)).user, b.pw = Used(c, Spread(s.mods, more)).pw
        PROVE  Val(c, f, ask, Accept(s, more)) /\ Accept(s, more).ok
    <3> DEFINE m == Spread(s.mods, more)
    <3>1. /\ DOMAIN m = DOMAIN s.mods \cup DOMAIN more
          /\ "key" \in DOMAIN m <=> "key" \in DOMAIN s.mods
          /\ "agent" \in DOMAIN m <=> "agent" \in DOMAIN s.mods
          /\ "agent" \in DOMAIN m => m.agent = s.mods.agent
          /\ "key" \in DOMAIN m => m.key = s.mods.key
      BY <2>1, <2>2 DEF Spread
    <3> HIDE DEF m
    <3>2. DOMAIN m \subseteq Creds
      BY <2>1, <2>2, <3>1 DEF Creds
    <3>3. ModsOk(c, ask, m)
      BY <1>1, <2>1, <2>2, <3>1, <3>2 DEF ModsOk
    <3>4. Resolved(pf.world, Used(c, m).agent) = Undef /\ Used(c, m).key = Undef
      BY <2>1, <3>1, <3>2, <3>3, UsedFields, Undefined DEF ModsOk
    <3>5. attemptConnection(Used(c, m)) = "ok"
      BY <2>2, <3>4, ByPassword, Undefined DEF attemptConnection, m
    <3>6. Works(c, ask, m)
      BY <1>3, <2>2, <3>5 DEF Works
    <3>7. Val(c, f, ask, Accept(s, more))
      BY <1>5, <3>3, <3>6, ValAccept DEF m
    <3> QED
      BY <1>1, <3>7, AcceptFields
  <2>3. ASSUME attemptConnection(a) = "ok", v = Accept(s, NoMods), Listed("pw", c, ask)
        PROVE  Val(c, f, ask, v) /\ v.ok
    <3> DEFINE m == Spread(s.mods, NoMods)
    <3>1. DOMAIN NoMods = {}
      BY DEF NoMods
    <3>2. /\ DOMAIN m = DOMAIN s.mods
          /\ "user" \in DOMAIN s.mods => m.user = s.mods.user
      BY <2>1, <3>1 DEF Spread
    <3> HIDE DEF m
    <3>3. Used(c, m).user = a.user /\ Used(c, m).pw = a.pw
      BY <1>2, <2>1, <3>2, UsedFields DEF Creds
    <3> QED
      BY <1>2, <2>2, <2>3, <3>1, <3>3 DEF m
  <2>4. ASSUME ask, Listed("pw", c, ask), Prompted(a, s, v), attemptConnection(c) # "ok"
        PROVE  Val(c, f, ask, v)
    <3>1. CASE v = Stop(s)
      BY <1>5, <2>4, <3>1, ValStop
    <3>2. CASE v = Accept(s, [pw |-> "p"]) /\ attemptConnection([a EXCEPT !.pw = "p"]) = "ok"
      <4> DEFINE b == [a EXCEPT !.pw = "p"]
                 more == [pw |-> "p"]
                 m == Spread(s.mods, more)
      <4>1. b.user = a.user /\ b.agent = Undef /\ b.key = Undef /\ b.pw = "p"
        BY <1>2 DEF IsCfg, CfgFields
      <4>2. DOMAIN more = {"pw"} /\ more.pw = "p"
        OBVIOUS
      <4> HIDE DEF b, more
      <4>3. /\ DOMAIN m = DOMAIN s.mods \cup {"pw"} /\ m.pw = "p"
            /\ "user" \in DOMAIN s.mods => m.user = s.mods.user
        BY <2>1, <4>2 DEF Spread
      <4> HIDE DEF m
      <4>4. Used(c, m).user = a.user /\ Used(c, m).pw = "p"
        BY <1>2, <2>1, <4>3, UsedFields DEF Creds
      <4> QED
        BY <2>2, <2>4, <3>2, <4>1, <4>2, <4>4 DEF b, more, m
    <3> QED
      BY <2>4, <3>1, <3>2 DEF Prompted
  <2>5. CASE ~ Listed("pw", c, ask)
    <3>1. v = s
      BY <2>5, MethodCases
    <3>2. ASSUME attemptConnection(c) = "ok"
          PROVE  FALSE
      <4>1. DOMAIN s.mods = {}
        BY <1>5, <3>2 DEF Val
      <4>2. Resolved(pf.world, c.agent) = Undef /\ c.key = Undef
        BY <2>1, <4>1
      <4>3. c.pw = "p"
        BY <3>2, <4>2, WhoConnects DEF attemptConnection
      <4> QED
        BY <1>3, <2>5, <4>3, Undefined
    <3> QED
      BY <3>1, <3>2
  <2>6. CASE Listed("pw", c, ask)
    <3>1. attemptConnection(c) = "ok" => attemptConnection(a) = "ok" /\ a.pw # Undef
      BY <1>5, <2>6, FirstWorks DEF a
    <3>2. CASE a.pw = Undef /\ Prompted(a, s, v)
      BY <1>2, <1>3, <2>4, <2>6, <3>1, <3>2
    <3>3. CASE attemptConnection(a) = "ok" /\ v = Accept(s, NoMods)
      BY <2>3, <2>6, <3>3
    <3>4. CASE attemptConnection(a) # "ok" /\ AfterFailure("pw", c, a, s, ask, v)
      <4>1. CASE v = Stop(s) \/ \E h \in handleInvalidPrivateKey(s.file, c) : v = Stop(Handled(s, h))
        BY <1>5, <3>1, <3>4, <4>1, ValStop
      <4>2. ASSUME NEW u, v = Accept(s, [user |-> u]), attemptConnection([a EXCEPT !.user = u]) = "ok"
            PROVE  Val(c, f, ask, v)
        <5> DEFINE b == [a EXCEPT !.user = u]
                   more == [user |-> u]
                   m == Spread(s.mods, more)
        <5>1. b.user = u /\ b.agent = Undef /\ b.key = Undef /\ b.pw = c.pw
          BY <1>2 DEF IsCfg, CfgFields
        <5>2. DOMAIN more = {"user"} /\ more.user = u
          OBVIOUS
        <5> HIDE DEF b, more
        <5>3. DOMAIN m = DOMAIN s.mods \cup {"user"} /\ m.user = u
          BY <2>1, <5>2 DEF Spread
        <5> HIDE DEF m
        <5>4. Used(c, m).user = u /\ Used(c, m).pw = c.pw
          BY <2>1, <5>3, UsedFields DEF Creds
        <5> QED
          BY <2>2, <2>6, <4>2, <5>1, <5>2, <5>4 DEF b, more, m
      <4>3. CASE ask /\ Prompted(a, s, v)
        BY <2>4, <2>6, <3>1, <3>4, <4>3
      <4>4. CASE ~ ask /\ v = s
        BY <3>1, <3>4, <4>4
      <4> QED
        BY <3>1, <3>4, <4>1, <4>2, <4>3, <4>4 DEF AfterFailure
    <3> QED
      BY <1>5, <2>6, <3>2, <3>3, <3>4, MethodCases DEF a
  <2> QED
    BY <2>5, <2>6
<1> QED
  BY <1>4, <1>5

\* What validateConfig returns for profile c and file f.
LEMMA Validated ==
  ASSUME NEW c, NEW f, NEW ask \in BOOLEAN, NEW v \in validateConfig(c, f, ask), IsCfg(c)
  PROVE  Val(c, f, ask, v) /\ (attemptConnection(c) = "ok" => v.ok)
<1> DEFINE first(m) == [end |-> FALSE, ok |-> FALSE, mods |-> m, file |-> f, accepted |-> FALSE]
           asked == IF c.user = Undef THEN {[user |-> u] : u \in Users} ELSE {NoMods}
<1>1. PICK m \in asked : \E s1 \in WithMethod("agent", c, first(m), ask) :
        \E s2 \in WithMethod("key", c, s1, ask) : v \in WithMethod("pw", c, s2, ask)
  <2> DEFINE start == {first(m) : m \in asked}
             agent == UNION {WithMethod("agent", c, s, ask) : s \in start}
             key == UNION {WithMethod("key", c, s, ask) : s \in agent}
  <2>1. v \in UNION {WithMethod("pw", c, s, ask) : s \in key}
    BY Zenon DEF validateConfig
  <2> HIDE DEF asked, first
  <2>2. PICK s2 \in key : v \in WithMethod("pw", c, s2, ask)
    <3> HIDE DEF key
    <3> QED
      BY <2>1
  <2>3. PICK s1 \in agent : s2 \in WithMethod("key", c, s1, ask)
    <3> HIDE DEF agent
    <3> QED
      BY <2>2
  <2>4. PICK s0 \in start : s1 \in WithMethod("agent", c, s0, ask)
    <3> HIDE DEF start
    <3> QED
      BY <2>3
  <2>5. PICK m \in asked : s0 = first(m)
    BY <2>4
  <2> QED
    BY <2>2, <2>3, <2>4, <2>5
<1>2. DOMAIN m \subseteq {"user"} /\ (c.user # Undef => DOMAIN m = {})
  BY DEF NoMods
<1> DEFINE s == first(m)
<1>3. /\ IsVal(s) /\ s.end = FALSE /\ s.ok = FALSE /\ s.mods = m /\ s.file = f /\ s.accepted = FALSE
  BY DEF IsVal, ValFields
<1> HIDE DEF asked, s
<1>4. attemptConnection(c) = "ok" => DOMAIN m = {}
  BY <1>2, WhoConnects, Undefined DEF attemptConnection
<1>5. Val(c, f, ask, s) /\ NoneTried(s)
  BY <1>2, <1>3, <1>4 DEF Val, NoneTried, ModsOk, Creds, FileKept, Restored
<1>6. PICK s1 \in WithMethod("agent", c, s, ask) :
        \E s2 \in WithMethod("key", c, s1, ask) : v \in WithMethod("pw", c, s2, ask)
  BY <1>1 DEF s
<1>7. Val(c, f, ask, s1) /\ AgentTried(c, s1)
  BY <1>5, AgentPass
<1>8. PICK s2 \in WithMethod("key", c, s1, ask) : v \in WithMethod("pw", c, s2, ask)
  BY <1>6
<1>9. Val(c, f, ask, s2) /\ KeyTried(c, s2)
  BY <1>7, KeyPass
<1> QED
  BY <1>8, <1>9, PasswordPass

-----------------------------------------------------------------------------
(* The dialogue *)

\* Profiles with the same credentials connect alike.
LEMMA SameConnects ==
  ASSUME NEW a, NEW b, Creds \subseteq DOMAIN a, Creds \subseteq DOMAIN b, \A x \in Creds : a[x] = b[x]
  PROVE  Connects(a) => Connects(b)
<1> DEFINE aa == IF a.user = Undef THEN [a EXCEPT !.user = "u"] ELSE a
           bb == IF b.user = Undef THEN [b EXCEPT !.user = "u"] ELSE b
<1>1. a.user = b.user /\ a.key = b.key /\ a.phrase = b.phrase /\ a.pw = b.pw /\ a.agent = b.agent
  BY DEF Creds
<1>2. /\ "user" \in DOMAIN a /\ "key" \in DOMAIN a /\ "phrase" \in DOMAIN a /\ "pw" \in DOMAIN a /\ "agent" \in DOMAIN a
      /\ "user" \in DOMAIN b /\ "key" \in DOMAIN b /\ "phrase" \in DOMAIN b /\ "pw" \in DOMAIN b /\ "agent" \in DOMAIN b
  BY DEF Creds
<1>3. /\ aa.user = bb.user /\ aa.key = bb.key /\ aa.phrase = bb.phrase /\ aa.pw = bb.pw
      /\ aa.agent = bb.agent
  BY <1>1, <1>2
<1>4. (Connects(a) <=> attemptConnection(aa) = "ok") /\ (Connects(b) <=> attemptConnection(bb) = "ok")
  BY DEF Connects
<1> HIDE DEF aa, bb
<1> QED
  BY <1>3, <1>4, SameLogin DEF attemptConnection

\* A profile that connects without a question connects.
LEMMA ConnectsIf ==
  ASSUME NEW a, attemptConnection(a) = "ok"
  PROVE  Connects(a)
BY WhoConnects, Undefined DEF Connects, attemptConnection

PfFields == {"pc", "world", "file", "before", "autoStore", "sel", "valid", "tries", "accepted", "overwrites", "result"}
MigratedNames == {m.name : m \in Range(Migrated)}

\* A key to try for the profile that will have that name: without a password,
\* it can only connect by the key.
Try(t, name) ==
  /\ t.found \in BOOLEAN /\ IsCfg(t.c) /\ t.c.pw = Undef /\ t.c.agent = Undef
  /\ t.c.name = name \/ t.c.name \in MigratedNames
  /\ t.found => t.c.name = name
Tries(tries, name) == \E S : tries \in Seq(S) /\ \A t \in S : Try(t, name)

\* What the dialogue so far made of the file: nothing unless a moved key was
\* accepted, and then of the new profile's name or one of ~/.ssh/config.
Since(file, before, accepted, overwrites, name) ==
  /\ DOMAIN file = DOMAIN before
  /\ ~ accepted => Restored(before, file)
  /\ ~ overwrites =>
       /\ name \notin DOMAIN file
       /\ \A n \in DOMAIN before \ MigratedNames : file[n] = before[n]

Dialogue ==
  /\ pf = [x \in PfFields |-> pf[x]]
  /\ pf.accepted \in BOOLEAN /\ pf.overwrites \in BOOLEAN
  /\ pf.pc \in {"menu", "name", "own", "found", "save", "end"}
  /\ IsFile(pf.before)
  /\ pf.pc \in {"menu", "name"} => pf.file = pf.before /\ ~ pf.accepted /\ ~ pf.overwrites
  /\ pf.pc \in {"name", "own", "found", "save"} => IsCfg(pf.sel)
  /\ pf.pc \in {"name", "own", "found"} => pf.sel.pw = Undef
  /\ pf.pc \in {"own", "found"} => Tries(pf.tries, pf.sel.name)
  /\ pf.pc \in {"own", "found", "save"} => Since(pf.file, pf.before, pf.accepted, pf.overwrites, pf.sel.name)
  /\ pf.pc = "save" /\ pf.valid => Connects(pf.sel)
  /\ pf.pc # "end" => pf.result \notin {"cancelled", "profile"}
  /\ ProfilesSound

\* One more validation leaves of the file what the dialogue promised.
LEMMA SinceKept ==
  ASSUME NEW c, NEW file, NEW before, NEW accepted \in BOOLEAN, NEW overwrites \in BOOLEAN, NEW name,
         NEW g, NEW more \in BOOLEAN, IsFile(before), Since(file, before, accepted, overwrites, name),
         FileKept(c, file, g, more), c.name = name \/ c.name \in MigratedNames
  PROVE  Since(g, before, accepted \/ more, overwrites, name)
<1>1. HasKeys(before)
  BY DEF IsFile, HasKeys, StoredProfile
<1>2. ASSUME ~ accepted, ~ more
      PROVE  Restored(before, g)
  <2>1. Restored(before, file)
    BY <1>2 DEF Since
  <2>2. HasKeys(file)
    BY <1>1, <2>1 DEF HasKeys, Restored
  <2>3. Restored(file, g)
    BY <1>2, <2>2 DEF FileKept
  <2> QED
    BY <1>1, <2>1, <2>3, RestoredTwice
<1> QED
  BY <1>2 DEF Since, FileKept

\* The keys of ~/.ssh, and those of ~/.ssh/config.
LEMMA KeysAreTries ==
  ASSUME NEW c, IsCfg(c), c.pw = Undef
  PROVE  Tries(KeysToTry(c), c.name)
<1> DEFINE one(i) == [found |-> TRUE, c |-> [c EXCEPT !.key = FoundKeys[i], !.agent = Undef]]
           two(i) == [found |-> FALSE, c |-> [Migrated[i] EXCEPT !.agent = Undef]]
           S == {one(i) : i \in DOMAIN FoundKeys} \cup {two(i) : i \in DOMAIN Migrated}
           s1 == [i \in DOMAIN FoundKeys |-> one(i)]
           s2 == [i \in DOMAIN Migrated |-> two(i)]
<1>1. /\ Len(FoundKeys) \in Nat /\ DOMAIN FoundKeys = 1..Len(FoundKeys)
      /\ Len(Migrated) \in Nat /\ DOMAIN Migrated = 1..Len(Migrated)
      /\ \A i \in DOMAIN Migrated : Migrated[i] \in Profile /\ Migrated[i].pw = Undef
  BY ProfileAssumption
<1>2. ASSUME NEW i PROVE Try(one(i), c.name)
  <2> DEFINE d == [c EXCEPT !.key = FoundKeys[i], !.agent = Undef]
  <2>1. IsCfg(d) /\ d.pw = Undef /\ d.agent = Undef /\ d.name = c.name
    BY DEF IsCfg, CfgFields
  <2> HIDE DEF d
  <2>2. one(i) = [found |-> TRUE, c |-> d]
    BY DEF d
  <2> QED
    BY <2>1, <2>2 DEF Try
<1>3. ASSUME NEW i \in DOMAIN Migrated PROVE Try(two(i), c.name)
  <2> DEFINE d == [Migrated[i] EXCEPT !.agent = Undef]
  <2>1. IsCfg(d) /\ d.pw = Undef /\ d.agent = Undef /\ d.name = Migrated[i].name
    BY <1>1, <1>3 DEF IsCfg, CfgFields, Profile
  <2>2. Migrated[i].name \in MigratedNames
    BY <1>3 DEF MigratedNames, Range
  <2> HIDE DEF d
  <2>3. two(i) = [found |-> FALSE, c |-> d]
    BY DEF d
  <2> QED
    BY <2>1, <2>2, <2>3 DEF Try
<1> HIDE DEF one, two
<1>4. s1 \in Seq(S) /\ s2 \in Seq(S)
  BY <1>1
<1>5. \A t \in S : Try(t, c.name)
  BY <1>2, <1>3
<1>6. KeysToTry(c) = s1 \o s2
  BY DEF KeysToTry, one, two
<1> HIDE DEF S, s1, s2
<1>7. KeysToTry(c) \in Seq(S)
  BY <1>4, <1>6
<1> QED
  BY <1>5, <1>7 DEF Tries

\* The fields of the dialogue after a validation.
LEMMA SettledFields ==
  ASSUME NEW s, Dialogue, IsVal(s)
  PROVE  LET p == Settled(s)
         IN  /\ p = [x \in PfFields |-> p[x]]
             /\ p.file = s.file /\ p.accepted = (pf.accepted \/ s.accepted) /\ p.accepted \in BOOLEAN
             /\ p.pc = pf.pc /\ p.world = pf.world /\ p.before = pf.before /\ p.sel = pf.sel
             /\ p.valid = pf.valid /\ p.tries = pf.tries /\ p.overwrites = pf.overwrites
             /\ p.result = pf.result
<1> DEFINE b == pf.accepted \/ s.accepted
           p == [pf EXCEPT !.file = s.file, !.accepted = b]
<1>1. b \in BOOLEAN
  BY DEF Dialogue, IsVal
<1>2. Settled(s) = p
  BY DEF Settled
<1> HIDE DEF b
<1>3. /\ p = [x \in PfFields |-> p[x]]
      /\ p.file = s.file /\ p.accepted = b
      /\ p.pc = pf.pc /\ p.world = pf.world /\ p.before = pf.before /\ p.sel = pf.sel
      /\ p.valid = pf.valid /\ p.tries = pf.tries /\ p.overwrites = pf.overwrites
      /\ p.result = pf.result
  BY DEF Dialogue, PfFields
<1> QED
  BY <1>1, <1>2, <1>3 DEF b

\* A dialogue that goes on claims nothing.
LEMMA GoesOn ==
  ASSUME Dialogue, pf.pc # "end", pf'.result = pf.result
  PROVE  ProfilesSound' /\ pf'.result \notin {"cancelled", "profile"}
BY DEF Dialogue, ProfilesSound, SavedConnects, CancelledKeeps

\* Choosing from the menu.
LEMMA DialogueChoose ==
  ASSUME Dialogue, Choose
  PROVE  Dialogue'
<1>1. CASE pf' = PfEnd(pf, "cancelled")
  <2>1. /\ pf' = [x \in PfFields |-> pf'[x]] /\ pf'.pc = "end" /\ pf'.result = "cancelled"
        /\ pf'.file = pf.file /\ pf'.before = pf.before /\ pf'.world = pf.world
        /\ pf'.accepted = pf.accepted /\ pf'.overwrites = pf.overwrites
    BY <1>1 DEF PfEnd, Dialogue, PfFields
  <2>2. pf.file = pf.before
    BY DEF Choose, Dialogue
  <2>3. ProfilesSound'
    BY <2>1, <2>2 DEF ProfilesSound, SavedConnects, CancelledKeeps, attemptConnection, Restored
  <2> QED
    BY <2>1, <2>3 DEF Dialogue
<1>2. ASSUME NEW c \in Typed \cup {m \in Range(Migrated) : m.host \notin HostsKnown},
             pf' = [pf EXCEPT !.pc = "name", !.sel = c]
      PROVE  Dialogue'
  <2>1. c \in Profile /\ c.pw = Undef
    <3>1. \A i \in DOMAIN Migrated : Migrated[i] \in Profile /\ Migrated[i].pw = Undef
      BY ProfileAssumption
    <3>2. CASE c \in Typed
      BY <3>2, ProfileAssumption
    <3>3. CASE c \in Range(Migrated)
      BY <3>1, <3>3 DEF Range
    <3> QED
      BY <1>2, <3>2, <3>3
  <2>2. IsCfg(c)
    BY <2>1 DEF Profile, IsCfg, CfgFields
  <2>3. /\ pf' = [x \in PfFields |-> pf'[x]] /\ pf'.pc = "name" /\ pf'.result = pf.result
        /\ pf'.file = pf.file /\ pf'.before = pf.before /\ pf'.sel = c
        /\ pf'.accepted = pf.accepted /\ pf'.overwrites = pf.overwrites
    BY <1>2 DEF Dialogue, PfFields
  <2>4. pf.pc = "menu"
    BY DEF Choose
  <2> QED
    BY <2>1, <2>2, <2>3, <2>4, GoesOn DEF Dialogue
<1> QED
  BY <1>1, <1>2 DEF Choose

\* The profile of a name in the file has the credentials of the file.
LEMMA ProfileOfFields ==
  ASSUME NEW n \in DOMAIN pf.file, IsFile(pf.file)
  PROVE  /\ IsCfg(ProfileOf(n)) /\ ProfileOf(n).name = n
         /\ \A x \in Creds : ProfileOf(n)[x] = pf.file[n][x] /\ x \in DOMAIN pf.file[n]
<1>1. pf.file[n] \in StoredProfile
  BY DEF IsFile
<1> QED
  BY <1>1 DEF ProfileOf, IsCfg, CfgFields, Creds, StoredProfile

\* An existing profile is validated, and what changed is saved; if nothing
\* helped, at most its key was moved, and that did not connect.
LEMMA DialogueExisting ==
  ASSUME Dialogue, ChooseExisting
  PROVE  Dialogue'
<1> DEFINE mods(s) == IF "pw" \in DOMAIN s.mods THEN Spread(s.mods, NoKeys) ELSE s.mods
<1> DEFINE outcome(n, s) ==
             pf' = IF ~ s.ok THEN PfEnd(Settled(s), "cancelled")
                   ELSE [PfEnd(Settled(s), "profile") EXCEPT
                           !.file[n] = [f \in DOMAIN @ |-> IF f \in DOMAIN mods(s) THEN mods(s)[f] ELSE @[f]],
                           !.sel = Spread(ProfileOf(n), mods(s)), !.valid = TRUE]
<1>a. PICK n \in DOMAIN pf.file : \E s \in validateConfig(ProfileOf(n), pf.file, TRUE) : outcome(n, s)
  BY DEF ChooseExisting
<1>1. PICK s \in validateConfig(ProfileOf(n), pf.file, TRUE) : outcome(n, s)
  BY <1>a
<1> DEFINE c == ProfileOf(n)
           m == mods(s)
           p == Settled(s)
<1>2. pf.pc = "menu" /\ pf.file = pf.before /\ ~ pf.accepted /\ IsFile(pf.file)
  BY DEF ChooseExisting, Dialogue
<1>3. IsCfg(c) /\ c.name = n /\ \A x \in Creds : c[x] = pf.file[n][x] /\ x \in DOMAIN pf.file[n]
  BY <1>2, ProfileOfFields
<1>4. Val(c, pf.file, TRUE, s) /\ (attemptConnection(c) = "ok" => s.ok)
  BY <1>1, <1>3, Validated
<1>5. IsVal(s) /\ FileKept(c, pf.file, s.file, s.accepted) /\ ModsOk(c, TRUE, s.mods)
  BY <1>4 DEF Val
<1>6. /\ p = [x \in PfFields |-> p[x]]
      /\ p.file = s.file /\ p.accepted = s.accepted /\ p.accepted \in BOOLEAN
      /\ p.world = pf.world /\ p.before = pf.before /\ p.overwrites = pf.overwrites
  <2>1. s.accepted \in BOOLEAN
    BY <1>5 DEF IsVal
  <2> HIDE DEF c, m
  <2> QED
    BY <1>2, <1>5, <2>1, SettledFields
<1>7. pf' = IF ~ s.ok THEN PfEnd(p, "cancelled")
            ELSE [PfEnd(p, "profile") EXCEPT
                    !.file[n] = [f \in DOMAIN @ |-> IF f \in DOMAIN m THEN m[f] ELSE @[f]],
                    !.sel = Spread(c, m), !.valid = TRUE]
  BY <1>1
<1>8. m = IF "pw" \in DOMAIN s.mods THEN Spread(s.mods, NoKeys) ELSE s.mods
  OBVIOUS
<1> HIDE DEF c, m, p
<1>9. CASE ~ s.ok
  <2>1. /\ pf' = [x \in PfFields |-> pf'[x]] /\ pf'.pc = "end" /\ pf'.result = "cancelled"
        /\ pf'.file = s.file /\ pf'.before = pf.before /\ pf'.world = pf.world
        /\ pf'.accepted = s.accepted /\ pf'.overwrites = pf.overwrites
    BY <1>6, <1>7, <1>9 DEF PfEnd, PfFields
  <2>2. ~ s.accepted => Restored(pf.before, s.file)
    BY <1>2, <1>5 DEF FileKept, IsFile, HasKeys, StoredProfile
  <2>3. ASSUME NEW k \in DOMAIN pf.before, attemptConnection(pf.before[k]) = "ok"
        PROVE  attemptConnection(s.file[k]) = "ok"
    <3>1. CASE k = n
      <4>1. attemptConnection(c) = attemptConnection(pf.before[k])
        BY <1>2, <1>3, <3>1, SameLogin DEF Creds, attemptConnection
      <4> QED
        BY <1>4, <1>9, <2>3, <4>1
    <3>2. CASE k # n
      BY <1>2, <1>3, <1>5, <2>3, <3>2 DEF FileKept
    <3> QED
      BY <3>1, <3>2
  <2>4. ProfilesSound'
    BY <2>1, <2>2, <2>3 DEF ProfilesSound, SavedConnects, CancelledKeeps, attemptConnection
  <2> QED
    BY <1>5, <2>1, <2>4 DEF Dialogue, IsVal
<1>10. CASE s.ok
  <2> DEFINE e == [f \in DOMAIN s.file[n] |-> IF f \in DOMAIN m THEN m[f] ELSE s.file[n][f]]
             sel == Spread(c, m)
  <2>1. /\ DOMAIN m \subseteq Creds /\ DOMAIN s.mods \subseteq DOMAIN m
        /\ \A x \in DOMAIN m : m[x] = IF "pw" \in DOMAIN s.mods /\ x \in {"agent", "key", "phrase"} THEN Undef
                                      ELSE s.mods[x]
        /\ "pw" \in DOMAIN s.mods => {"agent", "key", "phrase"} \subseteq DOMAIN m
        /\ "pw" \notin DOMAIN s.mods => m = s.mods
    BY <1>5, <1>8 DEF Spread, NoKeys, ModsOk, Creds
  <2>2. /\ IsCfg(sel) /\ sel.name = n
        /\ \A x \in Creds : sel[x] = IF x \in DOMAIN m THEN m[x] ELSE c[x]
    <3>1. DOMAIN m \subseteq CfgFields /\ "name" \notin DOMAIN m
      BY <2>1 DEF Creds, CfgFields
    <3> QED
      BY <1>3, <3>1, SpreadFields DEF Creds, CfgFields
  <2>3. Used(c, s.mods) = IF "pw" \in DOMAIN s.mods THEN Spread(Spread(c, s.mods), NoKeys) ELSE Spread(c, s.mods)
    BY DEF Used
  <2>4. /\ sel.user = Used(c, s.mods).user /\ sel.key = Used(c, s.mods).key
        /\ sel.phrase = Used(c, s.mods).phrase /\ sel.pw = Used(c, s.mods).pw
        /\ sel.agent = Used(c, s.mods).agent
    <3>1. DOMAIN s.mods \subseteq Creds
      BY <1>5 DEF ModsOk
    <3>2. CASE "pw" \in DOMAIN s.mods
      <4>1. /\ sel.agent = Undef /\ sel.key = Undef /\ sel.phrase = Undef /\ sel.pw = s.mods.pw
            /\ sel.user = IF "user" \in DOMAIN s.mods THEN s.mods.user ELSE c.user
        <5>1. "user" \in DOMAIN m <=> "user" \in DOMAIN s.mods
          BY <1>8, <3>2 DEF Spread, NoKeys
        <5> QED
          BY <2>1, <2>2, <3>2, <5>1 DEF Creds
      <4> QED
        BY <1>3, <3>1, <3>2, <4>1, UsedFields
    <3>3. CASE "pw" \notin DOMAIN s.mods
      BY <2>1, <2>3, <3>3
    <3> QED
      BY <3>2, <3>3
  <2> HIDE DEF e, sel
  <2>5. attemptConnection(sel) = "ok"
    BY <1>4, <1>10, <2>4, SameLogin DEF Val, Works, attemptConnection
  <2>6. n \in DOMAIN s.file /\ Creds \subseteq DOMAIN s.file[n]
    BY <1>3, <1>5 DEF FileKept
  <2>7. DOMAIN e = DOMAIN s.file[n] /\ \A x \in Creds : e[x] = sel[x]
    <3>1. DOMAIN e = DOMAIN s.file[n] /\ \A x \in Creds : e[x] = IF x \in DOMAIN m THEN m[x] ELSE s.file[n][x]
      BY <2>6 DEF e
    <3>2. ASSUME NEW x \in Creds, x \notin DOMAIN m
          PROVE  s.file[n][x] = c[x]
      <4>1. CASE x = "key"
        BY <1>3, <1>4, <1>10, <2>1, <3>2, <4>1 DEF Val
      <4>2. CASE x # "key"
        BY <1>3, <1>5, <3>2, <4>2 DEF FileKept, Creds
      <4> QED
        BY <4>1, <4>2
    <3> QED
      BY <2>2, <3>1, <3>2
  <2>8. /\ pf' = [x \in PfFields |-> pf'[x]] /\ pf'.pc = "end" /\ pf'.result = "profile"
        /\ pf'.file = [s.file EXCEPT ![n] = e] /\ pf'.before = pf.before /\ pf'.world = pf.world
        /\ pf'.accepted = s.accepted /\ pf'.overwrites = pf.overwrites /\ pf'.sel = sel
    <3>1. pf' = [PfEnd(p, "profile") EXCEPT !.file[n] = [f \in DOMAIN @ |-> IF f \in DOMAIN m THEN m[f] ELSE @[f]],
                                            !.sel = sel, !.valid = TRUE]
      BY <1>7, <1>10 DEF sel
    <3> QED
      BY <1>6, <3>1 DEF PfEnd, PfFields, e
  <2>9. pf'.file[pf'.sel.name] = e
    BY <2>2, <2>6, <2>8
  <2>10. Connects(sel) /\ Connects(e)
    <3>1. Connects(sel)
      BY <2>5, ConnectsIf
    <3>2. Creds \subseteq DOMAIN sel
      BY <2>2 DEF IsCfg, Creds, CfgFields
    <3> QED
      BY <2>6, <2>7, <3>1, <3>2, SameConnects
  <2>11. ProfilesSound'
    BY <2>8, <2>9, <2>10 DEF ProfilesSound, SavedConnects, CancelledKeeps, Connects, attemptConnection
  <2> QED
    BY <1>5, <2>8, <2>11 DEF Dialogue, IsVal
<1> QED
  BY <1>9, <1>10, <1>5 DEF IsVal

\* Giving up before a profile has a name changes nothing.
LEMMA DialogueDismissed ==
  ASSUME Dialogue, pf.pc \in {"menu", "name"}, pf' = PfEnd(pf, "cancelled")
  PROVE  Dialogue'
<1>1. /\ pf' = [x \in PfFields |-> pf'[x]] /\ pf'.pc = "end" /\ pf'.result = "cancelled"
      /\ pf'.file = pf.file /\ pf'.before = pf.before /\ pf'.world = pf.world
      /\ pf'.accepted = pf.accepted /\ pf'.overwrites = pf.overwrites
  BY DEF PfEnd, Dialogue, PfFields
<1>2. pf.file = pf.before
  BY DEF Dialogue
<1>3. ProfilesSound'
  BY <1>1, <1>2 DEF ProfilesSound, SavedConnects, CancelledKeeps, attemptConnection, Restored
<1> QED
  BY <1>1, <1>3 DEF Dialogue

\* A dialogue that goes on with a named profile.
LEMMA DialogueOn ==
  ASSUME Dialogue, pf.pc # "end",
         pf' = [x \in PfFields |-> pf'[x]], pf'.accepted \in BOOLEAN, pf'.overwrites \in BOOLEAN,
         pf'.pc \in {"own", "found", "save"}, pf'.result = pf.result, pf'.before = pf.before, pf'.world = pf.world,
         IsCfg(pf'.sel), pf'.pc \in {"own", "found"} => pf'.sel.pw = Undef /\ Tries(pf'.tries, pf'.sel.name),
         Since(pf'.file, pf.before, pf'.accepted, pf'.overwrites, pf'.sel.name),
         pf'.pc = "save" /\ pf'.valid => Connects(pf'.sel)
  PROVE  Dialogue'
<1>1. ProfilesSound' /\ pf'.result \notin {"cancelled", "profile"}
  BY GoesOn
<1>2. pf'.pc = "save" /\ pf'.valid => Connects(pf.sel)'
  BY DEF Connects, attemptConnection
<1> QED
  BY <1>1, <1>2 DEF Dialogue

\* Naming the profile.
LEMMA DialogueName ==
  ASSUME Dialogue, getNewProfileName
  PROVE  Dialogue'
<1>1. pf.pc = "name" /\ pf.file = pf.before /\ IsCfg(pf.sel) /\ pf.sel.pw = Undef /\ ~ pf.accepted
  BY DEF getNewProfileName, Dialogue
<1>2. ASSUME NEW n, pf' = [pf EXCEPT !.sel.name = n, !.overwrites = n \in DOMAIN pf.file,
                           !.pc = IF pf.sel.agent # Undef \/ pf.sel.key # Undef THEN "own" ELSE "found",
                           !.tries = KeysToTry([pf.sel EXCEPT !.name = n])]
      PROVE  Dialogue'
  <2> DEFINE c == [pf.sel EXCEPT !.name = n]
             over == n \in DOMAIN pf.file
             stage == IF pf.sel.agent # Undef \/ pf.sel.key # Undef THEN "own" ELSE "found"
             tries == KeysToTry(c)
  <2>1. IsCfg(c) /\ c.pw = Undef /\ c.name = n
    BY <1>1 DEF IsCfg, CfgFields
  <2>2. pf' = [pf EXCEPT !.sel = c, !.overwrites = over, !.pc = stage, !.tries = tries]
    BY <1>2
  <2>3. over \in BOOLEAN /\ stage \in {"own", "found"}
    OBVIOUS
  <2>4. Since(pf.file, pf.before, FALSE, over, n)
    BY <1>1 DEF Since, Restored
  <2> HIDE DEF c, stage
  <2>5. Tries(tries, n)
    BY <2>1, KeysAreTries
  <2> HIDE DEF over, tries
  <2>6. /\ pf' = [x \in PfFields |-> pf'[x]] /\ pf'.pc = stage /\ pf'.result = pf.result
        /\ pf'.file = pf.file /\ pf'.before = pf.before /\ pf'.world = pf.world /\ pf'.sel = c
        /\ pf'.accepted = pf.accepted /\ pf'.overwrites = over /\ pf'.tries = tries
    BY <2>2 DEF Dialogue, PfFields
  <2>7. pf.accepted = FALSE
    BY <1>1 DEF Dialogue
  <2> QED
    BY <1>1, <2>1, <2>3, <2>4, <2>5, <2>6, <2>7, DialogueOn
<1> QED
  BY <1>1, <1>2, DialogueDismissed DEF getNewProfileName

\* One more validation leaves of the file what the dialogue promised.
LEMMA SettledSince ==
  ASSUME NEW c, NEW ask \in BOOLEAN, NEW s \in validateConfig(c, pf.file, ask), Dialogue, IsCfg(c),
         pf.pc \in {"own", "found"}, c.name = pf.sel.name \/ c.name \in MigratedNames
  PROVE  Since(s.file, pf.before, pf.accepted \/ s.accepted, pf.overwrites, pf.sel.name)
<1>1. FileKept(c, pf.file, s.file, s.accepted) /\ s.accepted \in BOOLEAN
  BY Validated DEF Val, IsVal
<1>2. /\ Since(pf.file, pf.before, pf.accepted, pf.overwrites, pf.sel.name) /\ IsFile(pf.before)
      /\ pf.accepted \in BOOLEAN /\ pf.overwrites \in BOOLEAN
  BY DEF Dialogue
<1> QED
  BY <1>1, <1>2, SinceKept

\* What a validation without a question accepted connects with the changes.
LEMMA Unasked ==
  ASSUME NEW c, NEW s \in validateConfig(c, pf.file, FALSE), IsCfg(c), s.ok
  PROVE  /\ Connects(Spread(c, s.mods)) /\ attemptConnection(Spread(c, s.mods)) = "ok"
         /\ DOMAIN s.mods \subseteq Creds \ {"pw"}
         /\ "agent" \in DOMAIN s.mods => s.mods.agent = Undef
         /\ c.pw = Undef /\ "key" \in DOMAIN s.mods => s.mods.key = c.key
<1>1. ModsOk(c, FALSE, s.mods) /\ Works(c, FALSE, s.mods)
  BY Validated DEF Val
<1>2. "pw" \notin DOMAIN s.mods /\ DOMAIN s.mods \subseteq Creds
  BY <1>1 DEF ModsOk
<1>3. attemptConnection(Spread(c, s.mods)) = "ok"
  BY <1>1, <1>2 DEF Works, Used
<1> QED
  BY <1>1, <1>2, <1>3, ConnectsIf DEF ModsOk, Works

\* Trying the credentials that came with the profile.
LEMMA DialogueOwn ==
  ASSUME Dialogue, OwnCredentials
  PROVE  Dialogue'
<1>1. pf.pc = "own" /\ IsCfg(pf.sel) /\ pf.sel.pw = Undef /\ Tries(pf.tries, pf.sel.name) /\ pf.overwrites \in BOOLEAN
  BY DEF OwnCredentials, Dialogue
<1>2. PICK s \in validateConfig(pf.sel, pf.file, FALSE) :
        pf' = IF s.ok THEN [Settled(s) EXCEPT !.pc = "save", !.valid = TRUE, !.sel = Spread(@, s.mods)]
              ELSE [Settled(s) EXCEPT !.pc = "found"]
  BY DEF OwnCredentials
<1>3. Since(s.file, pf.before, pf.accepted \/ s.accepted, pf.overwrites, pf.sel.name)
  BY <1>1, SettledSince
<1>4. IsVal(s)
  BY <1>1, Validated DEF Val
<1> DEFINE p == Settled(s)
           c == Spread(pf.sel, s.mods)
<1>5. /\ p = [x \in PfFields |-> p[x]] /\ p.accepted \in BOOLEAN
      /\ p.file = s.file /\ p.accepted = (pf.accepted \/ s.accepted)
      /\ p.pc = pf.pc /\ p.world = pf.world /\ p.before = pf.before /\ p.sel = pf.sel
      /\ p.valid = pf.valid /\ p.tries = pf.tries /\ p.overwrites = pf.overwrites
      /\ p.result = pf.result
  BY <1>4, SettledFields
<1>6. pf' = IF s.ok THEN [p EXCEPT !.pc = "save", !.valid = TRUE, !.sel = Spread(@, s.mods)]
            ELSE [p EXCEPT !.pc = "found"]
  BY <1>2
<1> HIDE DEF p
<1>7. CASE s.ok
  <2>1. pf' = [p EXCEPT !.pc = "save", !.valid = TRUE, !.sel = c]
    BY <1>5, <1>6, <1>7
  <2>2. IsCfg(c) /\ c.name = pf.sel.name /\ Connects(c)
    <3>1. DOMAIN s.mods \subseteq Creds \ {"pw"} /\ Connects(c)
      BY <1>1, <1>7, Unasked
    <3>2. DOMAIN s.mods \subseteq CfgFields /\ "name" \notin DOMAIN s.mods /\ "name" \in CfgFields
      BY <3>1 DEF Creds, CfgFields
    <3> QED
      BY <1>1, <3>1, <3>2, SpreadFields
  <2> HIDE DEF c
  <2>3. /\ pf' = [x \in PfFields |-> pf'[x]] /\ pf'.pc = "save" /\ pf'.result = pf.result
        /\ pf'.file = s.file /\ pf'.before = pf.before /\ pf'.world = pf.world /\ pf'.sel = c
        /\ pf'.accepted = p.accepted /\ pf'.overwrites = pf.overwrites
    BY <1>5, <2>1 DEF PfFields
  <2> QED
    BY <1>1, <1>3, <1>5, <2>2, <2>3, DialogueOn
<1>8. CASE ~ s.ok
  <2>1. /\ pf' = [x \in PfFields |-> pf'[x]] /\ pf'.pc = "found" /\ pf'.result = pf.result
        /\ pf'.file = s.file /\ pf'.before = pf.before /\ pf'.world = pf.world /\ pf'.sel = pf.sel
        /\ pf'.accepted = p.accepted /\ pf'.overwrites = pf.overwrites /\ pf'.tries = pf.tries
    BY <1>5, <1>6, <1>8 DEF PfFields
  <2> QED
    BY <1>1, <1>3, <1>5, <2>1, DialogueOn
<1> QED
  BY <1>7, <1>8

\* What a key of ~/.ssh, or of ~/.ssh/config, makes of the profile connects.
LEMMA TakenOver ==
  ASSUME NEW t, NEW s \in validateConfig(t.c, pf.file, FALSE), s.ok, IsCfg(pf.sel), Try(t, pf.sel.name), Matches(t),
         NEW sel, sel = IF t.found THEN Spread(Spread(t.c, s.mods), [key |-> t.c.key])
                        ELSE Spread([pf.sel EXCEPT !.key = t.c.key, !.phrase = t.c.phrase,
                                                   !.agent = Undef, !.pw = Undef], s.mods)
  PROVE  IsCfg(sel) /\ sel.name = pf.sel.name /\ Connects(sel)
<1> DEFINE u == Spread(t.c, s.mods)
<1>1. IsCfg(t.c) /\ t.c.pw = Undef /\ t.c.agent = Undef /\ t.found \in BOOLEAN /\ (t.found => t.c.name = pf.sel.name)
  BY DEF Try
<1>2. /\ DOMAIN s.mods \subseteq Creds \ {"pw"} /\ Connects(u) /\ attemptConnection(u) = "ok"
      /\ "agent" \in DOMAIN s.mods => s.mods.agent = Undef
      /\ "key" \in DOMAIN s.mods => s.mods.key = t.c.key
  BY <1>1, Unasked
<1>3. DOMAIN s.mods \subseteq CfgFields /\ "name" \notin DOMAIN s.mods /\ "pw" \notin DOMAIN s.mods
  BY <1>2 DEF Creds, CfgFields
<1>4. IsCfg(u) /\ \A f \in CfgFields : u[f] = IF f \in DOMAIN s.mods THEN s.mods[f] ELSE t.c[f]
  BY <1>1, <1>3, SpreadFields
<1> HIDE DEF u
<1>5. Creds \subseteq CfgFields /\ "name" \in CfgFields
  BY DEF Creds, CfgFields
<1>6. Creds \subseteq DOMAIN u
  BY <1>4, <1>5 DEF IsCfg
<1>7. CASE t.found
  <2> DEFINE more == [key |-> t.c.key]
  <2>1. DOMAIN more = {"key"} /\ more.key = t.c.key
    OBVIOUS
  <2>2. sel = Spread(u, more)
    BY <1>7 DEF u
  <2> HIDE DEF more
  <2>3. IsCfg(sel) /\ \A f \in CfgFields : sel[f] = IF f \in DOMAIN more THEN more[f] ELSE u[f]
    BY <1>4, <2>1, <2>2, SpreadFields DEF CfgFields
  <2>4. \A x \in Creds : u[x] = sel[x]
    BY <1>2, <1>4, <1>5, <2>1, <2>3
  <2>5. Creds \subseteq DOMAIN sel
    BY <1>5, <2>3 DEF IsCfg
  <2>6. sel.name = pf.sel.name
    BY <1>1, <1>3, <1>4, <1>5, <1>7, <2>1, <2>3
  <2> QED
    BY <1>2, <1>6, <2>3, <2>4, <2>5, <2>6, SameConnects
<1>8. CASE ~ t.found
  <2> DEFINE b == [pf.sel EXCEPT !.key = t.c.key, !.phrase = t.c.phrase, !.agent = Undef, !.pw = Undef]
  <2>1. /\ IsCfg(b) /\ b.name = pf.sel.name /\ b.user = pf.sel.user /\ b.key = t.c.key
        /\ b.phrase = t.c.phrase /\ b.agent = Undef /\ b.pw = Undef
    BY DEF IsCfg, CfgFields
  <2>2. sel = Spread(b, s.mods)
    BY <1>8
  <2> HIDE DEF b
  <2>3. IsCfg(sel) /\ \A f \in CfgFields : sel[f] = IF f \in DOMAIN s.mods THEN s.mods[f] ELSE b[f]
    BY <1>3, <2>1, <2>2, SpreadFields
  <2>4. Creds \subseteq DOMAIN sel /\ sel.name = pf.sel.name
    BY <1>3, <1>5, <2>1, <2>3 DEF IsCfg
  <2>5. \A x \in Creds \ {"user"} : u[x] = sel[x]
    BY <1>1, <1>2, <1>4, <2>1, <2>3 DEF Creds, CfgFields
  <2>6. pf.sel.user = Undef \/ t.c.user = pf.sel.user
    BY <1>8 DEF Matches
  <2>7. u.user = "u"
    BY <1>2, WhoConnects DEF attemptConnection
  <2>8. sel.user = u.user \/ sel.user = Undef
    <3>1. "user" \in CfgFields
      BY DEF CfgFields
    <3> QED
      BY <1>4, <2>1, <2>3, <2>6, <3>1
  <2>9. CASE sel.user = u.user
    BY <1>2, <1>6, <2>3, <2>4, <2>5, <2>9, SameConnects
  <2>10. CASE sel.user = Undef
    <3> DEFINE d == [sel EXCEPT !.user = "u"]
    <3>1. d.user = "u" /\ d.key = sel.key /\ d.phrase = sel.phrase /\ d.pw = sel.pw /\ d.agent = sel.agent
      BY <2>4 DEF Creds
    <3> HIDE DEF d
    <3>2. attemptConnection(u) = attemptConnection(d)
      BY <2>5, <2>7, <3>1, SameLogin DEF attemptConnection, Creds
    <3>3. Connects(sel)
      BY <1>2, <2>10, <3>2 DEF Connects, d
    <3> QED
      BY <2>3, <2>4, <3>3
  <2> QED
    BY <2>8, <2>9, <2>10
<1> QED
  BY <1>1, <1>7, <1>8

\* Trying the keys of ~/.ssh and those of ~/.ssh/config.
LEMMA DialogueFound ==
  ASSUME Dialogue, validateFoundPrivateKeys
  PROVE  Dialogue'
<1>1. /\ pf.pc = "found" /\ IsCfg(pf.sel) /\ pf.sel.pw = Undef /\ Tries(pf.tries, pf.sel.name) /\ pf.tries # <<>>
      /\ Since(pf.file, pf.before, pf.accepted, pf.overwrites, pf.sel.name)
      /\ pf.accepted \in BOOLEAN /\ pf.overwrites \in BOOLEAN
  BY DEF validateFoundPrivateKeys, Dialogue
<1> DEFINE t == Head(pf.tries)
           rest == Tail(pf.tries)
<1>2. Try(t, pf.sel.name) /\ Tries(rest, pf.sel.name)
  <2>1. PICK S : pf.tries \in Seq(S) /\ \A x \in S : Try(x, pf.sel.name)
    BY <1>1 DEF Tries
  <2>2. t \in S /\ rest \in Seq(S)
    BY <1>1, <2>1
  <2> QED
    BY <2>1, <2>2 DEF Tries
<1>3. \/ ~ Matches(t) /\ pf' = [pf EXCEPT !.tries = rest]
      \/ /\ Matches(t)
         /\ \E s \in validateConfig(t.c, pf.file, FALSE) :
              pf' = IF ~ s.ok THEN [Settled(s) EXCEPT !.tries = Tail(@)]
                    ELSE [Settled(s) EXCEPT !.pc = "save", !.valid = TRUE, !.tries = <<>>,
                            !.sel = IF t.found THEN Spread(Spread(t.c, s.mods), [key |-> t.c.key])
                                    ELSE Spread([@ EXCEPT !.key = t.c.key, !.phrase = t.c.phrase,
                                                          !.agent = Undef, !.pw = Undef], s.mods)]
  BY DEF validateFoundPrivateKeys
<1> HIDE DEF t, rest
<1>4. CASE pf' = [pf EXCEPT !.tries = rest]
  <2>1. /\ pf' = [x \in PfFields |-> pf'[x]] /\ pf'.pc = "found" /\ pf'.result = pf.result
        /\ pf'.file = pf.file /\ pf'.before = pf.before /\ pf'.world = pf.world /\ pf'.sel = pf.sel
        /\ pf'.accepted = pf.accepted /\ pf'.overwrites = pf.overwrites /\ pf'.tries = rest
    BY <1>1, <1>4 DEF Dialogue, PfFields
  <2> QED
    BY <1>1, <1>2, <2>1, DialogueOn
<1>5. ASSUME Matches(t), NEW s \in validateConfig(t.c, pf.file, FALSE),
             pf' = IF ~ s.ok THEN [Settled(s) EXCEPT !.tries = Tail(@)]
                   ELSE [Settled(s) EXCEPT !.pc = "save", !.valid = TRUE, !.tries = <<>>,
                           !.sel = IF t.found THEN Spread(Spread(t.c, s.mods), [key |-> t.c.key])
                                   ELSE Spread([@ EXCEPT !.key = t.c.key, !.phrase = t.c.phrase,
                                                         !.agent = Undef, !.pw = Undef], s.mods)]
      PROVE  Dialogue'
  <2> DEFINE p == Settled(s)
             sel == IF t.found THEN Spread(Spread(t.c, s.mods), [key |-> t.c.key])
                    ELSE Spread([pf.sel EXCEPT !.key = t.c.key, !.phrase = t.c.phrase,
                                               !.agent = Undef, !.pw = Undef], s.mods)
  <2>1. IsCfg(t.c) /\ (t.c.name = pf.sel.name \/ t.c.name \in MigratedNames)
    BY <1>2 DEF Try
  <2>2. Since(s.file, pf.before, pf.accepted \/ s.accepted, pf.overwrites, pf.sel.name)
    BY <1>1, <2>1, SettledSince
  <2>3. IsVal(s)
    BY <2>1, Validated DEF Val
  <2>4. /\ p = [x \in PfFields |-> p[x]] /\ p.accepted \in BOOLEAN
        /\ p.file = s.file /\ p.accepted = (pf.accepted \/ s.accepted)
        /\ p.pc = pf.pc /\ p.world = pf.world /\ p.before = pf.before /\ p.sel = pf.sel
        /\ p.valid = pf.valid /\ p.tries = pf.tries /\ p.overwrites = pf.overwrites
        /\ p.result = pf.result
    BY <2>3, SettledFields
  <2>5. pf' = IF ~ s.ok THEN [p EXCEPT !.tries = rest]
              ELSE [p EXCEPT !.pc = "save", !.valid = TRUE, !.tries = <<>>, !.sel = sel]
    <3>1. p.sel = pf.sel /\ Tail(p.tries) = rest
      BY <2>4 DEF rest
    <3> QED
      BY <1>5, <3>1
  <2>6. s.ok => IsCfg(sel) /\ sel.name = pf.sel.name /\ Connects(sel)
    BY <1>1, <1>2, <1>5, TakenOver
  <2> HIDE DEF p, sel
  <2>7. CASE s.ok
    <3>1. /\ pf' = [x \in PfFields |-> pf'[x]] /\ pf'.pc = "save" /\ pf'.result = pf.result
          /\ pf'.file = s.file /\ pf'.before = pf.before /\ pf'.world = pf.world /\ pf'.sel = sel
          /\ pf'.accepted = p.accepted /\ pf'.overwrites = pf.overwrites
      BY <2>4, <2>5, <2>7 DEF PfFields
    <3> QED
      BY <1>1, <2>2, <2>4, <2>6, <2>7, <3>1, DialogueOn
  <2>8. CASE ~ s.ok
    <3>1. /\ pf' = [x \in PfFields |-> pf'[x]] /\ pf'.pc = "found" /\ pf'.result = pf.result
          /\ pf'.file = s.file /\ pf'.before = pf.before /\ pf'.world = pf.world /\ pf'.sel = pf.sel
          /\ pf'.accepted = p.accepted /\ pf'.overwrites = pf.overwrites /\ pf'.tries = rest
      BY <1>1, <2>4, <2>5, <2>8 DEF PfFields
    <3> QED
      BY <1>1, <1>2, <2>2, <2>4, <3>1, DialogueOn
  <2> QED
    BY <2>7, <2>8
<1> QED
  BY <1>3, <1>4, <1>5

\* The last resort, a password.
LEMMA DialoguePassword ==
  ASSUME Dialogue, AskPassword
  PROVE  Dialogue'
<1> DEFINE c == [pf.sel EXCEPT !.agent = Undef, !.key = Undef, !.phrase = Undef]
<1>1. pf.pc = "found" /\ IsCfg(pf.sel) /\ pf.sel.pw = Undef /\ pf.overwrites \in BOOLEAN
  BY DEF AskPassword, Dialogue
<1>2. /\ IsCfg(c) /\ c.name = pf.sel.name /\ c.user = pf.sel.user /\ c.pw = Undef
      /\ c.agent = Undef /\ c.key = Undef /\ c.phrase = Undef
  BY <1>1 DEF IsCfg, CfgFields
<1>3. PICK s \in validateConfig(c, pf.file, TRUE) :
        pf' = [Settled(s) EXCEPT !.pc = "save", !.valid = s.ok, !.sel = IF s.ok THEN PasswordOnly(s) ELSE @]
  BY DEF AskPassword
<1> HIDE DEF c
<1>4. Since(s.file, pf.before, pf.accepted \/ s.accepted, pf.overwrites, pf.sel.name)
  BY <1>1, <1>2, SettledSince
<1>5. Val(c, pf.file, TRUE, s)
  BY <1>2, Validated
<1> DEFINE p == Settled(s)
           sel == IF s.ok THEN PasswordOnly(s) ELSE pf.sel
<1>6. /\ p = [x \in PfFields |-> p[x]] /\ p.accepted \in BOOLEAN
      /\ p.file = s.file /\ p.accepted = (pf.accepted \/ s.accepted)
      /\ p.pc = pf.pc /\ p.world = pf.world /\ p.before = pf.before /\ p.sel = pf.sel
      /\ p.valid = pf.valid /\ p.tries = pf.tries /\ p.overwrites = pf.overwrites
      /\ p.result = pf.result
  BY <1>5, SettledFields DEF Val
<1>7. pf' = [p EXCEPT !.pc = "save", !.valid = s.ok, !.sel = sel]
  <2>1. p.sel = pf.sel /\ "sel" \in DOMAIN p
    BY <1>6 DEF PfFields
  <2> QED
    BY <1>3, <2>1
<1>8. IsCfg(sel) /\ sel.name = pf.sel.name /\ (s.ok => Connects(sel))
  <2>1. CASE ~ s.ok
    BY <1>1, <2>1
  <2>2. CASE s.ok
    <3> DEFINE b == Spread(pf.sel, s.mods)
    <3>1. ModsOk(c, TRUE, s.mods) /\ attemptConnection(Used(c, s.mods)) = "ok"
      BY <1>5, <2>2 DEF Val, Works
    <3>2. DOMAIN s.mods \subseteq {"user", "pw"}
      BY <1>2, <3>1, Undefined DEF ModsOk, Creds
    <3>3. DOMAIN s.mods \subseteq Creds /\ DOMAIN s.mods \subseteq CfgFields
      BY <3>2 DEF Creds, CfgFields
    <3>4. IsCfg(b) /\ \A f \in CfgFields : b[f] = IF f \in DOMAIN s.mods THEN s.mods[f] ELSE pf.sel[f]
      BY <1>1, <3>3, SpreadFields
    <3>5. DOMAIN NoKeys = {"agent", "key", "phrase"} /\ NoKeys.agent = Undef /\ NoKeys.key = Undef /\ NoKeys.phrase = Undef
      BY DEF NoKeys
    <3>6. sel = Spread(b, NoKeys)
      BY <2>2 DEF PasswordOnly
    <3> HIDE DEF b, sel
    <3>7. IsCfg(sel) /\ \A f \in CfgFields : sel[f] = IF f \in DOMAIN NoKeys THEN NoKeys[f] ELSE b[f]
      BY <3>4, <3>5, <3>6, SpreadFields DEF CfgFields
    <3>8. /\ sel.agent = Undef /\ sel.key = Undef /\ sel.phrase = Undef /\ sel.name = pf.sel.name
          /\ sel.user = IF "user" \in DOMAIN s.mods THEN s.mods.user ELSE c.user
          /\ sel.pw = IF "pw" \in DOMAIN s.mods THEN s.mods.pw ELSE c.pw
      BY <1>1, <1>2, <3>2, <3>4, <3>5, <3>7 DEF CfgFields
    <3>9. /\ Used(c, s.mods).agent = Undef /\ Used(c, s.mods).key = Undef /\ Used(c, s.mods).phrase = Undef
          /\ Used(c, s.mods).user = sel.user /\ Used(c, s.mods).pw = sel.pw
      BY <1>2, <3>2, <3>3, <3>8, UsedFields
    <3>10. attemptConnection(sel) = "ok"
      BY <3>1, <3>8, <3>9, SameLogin DEF attemptConnection
    <3> QED
      BY <3>7, <3>8, <3>10, ConnectsIf
  <2> QED
    BY <2>1, <2>2
<1> HIDE DEF p, sel
<1>9. /\ pf' = [x \in PfFields |-> pf'[x]] /\ pf'.pc = "save" /\ pf'.result = pf.result
      /\ pf'.file = s.file /\ pf'.before = pf.before /\ pf'.world = pf.world /\ pf'.sel = sel
      /\ pf'.accepted = p.accepted /\ pf'.overwrites = pf.overwrites /\ pf'.valid = s.ok
  BY <1>6, <1>7 DEF PfFields
<1> QED
  BY <1>1, <1>4, <1>6, <1>8, <1>9, DialogueOn

\* The profile is saved as it connected, or there is nothing to save.
LEMMA DialogueSave ==
  ASSUME Dialogue, setProfile
  PROVE  Dialogue'
<1>1. /\ pf.pc = "save" /\ IsCfg(pf.sel) /\ (pf.valid => Connects(pf.sel))
      /\ Since(pf.file, pf.before, pf.accepted, pf.overwrites, pf.sel.name)
  BY DEF setProfile, Dialogue
<1>2. CASE pf' = PfEnd(pf, "cancelled")
  <2>1. /\ pf' = [x \in PfFields |-> pf'[x]] /\ pf'.pc = "end" /\ pf'.result = "cancelled"
        /\ pf'.file = pf.file /\ pf'.before = pf.before /\ pf'.world = pf.world
        /\ pf'.accepted = pf.accepted /\ pf'.overwrites = pf.overwrites
    BY <1>2 DEF PfEnd, Dialogue, PfFields
  <2>2. ProfilesSound'
    BY <1>1, <2>1 DEF ProfilesSound, SavedConnects, CancelledKeeps, attemptConnection, Since, MigratedNames
  <2> QED
    BY <2>1, <2>2 DEF Dialogue
<1> DEFINE e == InFile(pf.sel)
           file == Spread(pf.file, [n \in {pf.sel.name} |-> e])
<1>3. CASE pf' = [PfEnd(pf, "profile") EXCEPT !.file = Spread(@, [n \in {pf.sel.name} |-> InFile(pf.sel)])]
  <2>1. pf' = [pf EXCEPT !.pc = "end", !.result = "profile", !.file = file]
    BY <1>3 DEF PfEnd, Dialogue, PfFields
  <2>2. file[pf.sel.name] = e
    BY DEF Spread
  <2>3. Creds \subseteq DOMAIN e /\ \A x \in Creds : e[x] = pf.sel[x]
    BY <1>1 DEF InFile, Spread, IsCfg, Creds, CfgFields
  <2>4. Creds \subseteq DOMAIN pf.sel
    BY <1>1 DEF IsCfg, Creds, CfgFields
  <2> HIDE DEF e
  <2>5. pf.valid => Connects(e)
    BY <1>1, <2>3, <2>4, SameConnects
  <2> HIDE DEF file
  <2>6. /\ pf' = [x \in PfFields |-> pf'[x]] /\ pf'.pc = "end" /\ pf'.result = "profile"
        /\ pf'.file = file /\ pf'.before = pf.before /\ pf'.world = pf.world /\ pf'.sel = pf.sel
        /\ pf'.accepted = pf.accepted /\ pf'.overwrites = pf.overwrites /\ pf'.valid = pf.valid
    BY <2>1 DEF Dialogue, PfFields
  <2>7. ProfilesSound'
    BY <1>1, <2>2, <2>5, <2>6 DEF ProfilesSound, SavedConnects, CancelledKeeps, Connects, attemptConnection
  <2> QED
    BY <2>6, <2>7 DEF Dialogue
<1> QED
  BY <1>2, <1>3 DEF setProfile

\* No step of the dialogue breaks what it promises.
LEMMA DialogueStep ==
  ASSUME Dialogue, [PfNext]_pf
  PROVE  Dialogue'
<1>1. CASE UNCHANGED pf
  BY <1>1 DEF Dialogue, ProfilesSound, SavedConnects, CancelledKeeps, Connects, attemptConnection
<1> QED
  BY <1>1, DialogueChoose, DialogueExisting, DialogueName, DialogueOwn, DialogueFound, DialoguePassword,
     DialogueSave DEF PfNext

\* The dialogue starts with nothing promised.
LEMMA DialogueInit ==
  ASSUME PfInit
  PROVE  Dialogue
<1> DEFINE none == Undef
           start(w, f, a) ==
             [pc |-> "menu", world |-> w, file |-> f, before |-> f, autoStore |-> a, sel |-> <<>>, valid |-> FALSE,
              tries |-> <<>>, accepted |-> FALSE, overwrites |-> FALSE, result |-> none]
<1>1. none # "cancelled" /\ none # "profile"
  BY Zenon DEF Undef
<1>2. PICK w \in PfWorlds, f \in PfFiles, a \in BOOLEAN : pf = start(w, f, a)
  BY DEF PfInit
<1>3. IsFile(f)
  BY ProfileAssumption DEF IsFile
<1> HIDE DEF none
<1>4. /\ pf = [x \in PfFields |-> pf[x]] /\ pf.pc = "menu" /\ pf.file = f /\ pf.before = f
      /\ pf.accepted = FALSE /\ pf.overwrites = FALSE /\ pf.result = none
  BY <1>2 DEF PfFields
<1> QED
  BY <1>1, <1>3, <1>4 DEF Dialogue, ProfilesSound, SavedConnects, CancelledKeeps

\* What promptForProfile keeps is what it tried: a profile returned after a
\* validation succeeded connects as it was saved; and a dialogue given up leaves
\* the configuration, and every profile that connected, as it was
\* (AbstractConfigManager.promptForProfile).
THEOREM ProfilesHonest == PfSpec => []ProfilesSound
<1>1. PfInit => Dialogue
  BY DialogueInit
<1>2. Dialogue /\ [PfNext]_pf => Dialogue'
  BY DialogueStep
<1>3. Dialogue => ProfilesSound
  BY DEF Dialogue
<1> QED
  BY <1>1, <1>2, <1>3, PTL DEF PfSpec
=============================================================================
