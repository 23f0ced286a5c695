----------------------------- MODULE ZSshClient -----------------------------
(***************************************************************************)
(* The SDK's client of the zowex server after its startup:                 *)
(* packages/sdk/src/ZSshClient.ts and RpcStreamManager.ts.                 *)
(*                                                                         *)
(* The client is one JavaScript thread: an action is one callback (a call  *)
(* by the application, a timer, a chunk of data, a close event) together   *)
(* with the promise reactions it causes, which run before the next         *)
(* callback.                                                               *)
(*                                                                         *)
(* The server's two output streams are sequences of fragments.  Each line  *)
(* of the protocol is two fragments, the second of which ends with the     *)
(* newline, so that a chunk of any number of fragments can begin or end in *)
(* the middle of a line.  Lines of different streams are not ordered.      *)
(***************************************************************************)
EXTENDS Integers, Sequences, FiniteSets, SequencesExt

CONSTANTS
  Requests,        \* the requests the application makes, each once
  StreamRequests,  \* those with a stream (readFile, writeDataset, ...)
  Nil,             \* the null id of a response to an unreadable request
  MaxAnswers,      \* bound: responses the server sends in all
  MaxNullErrors,   \* bound: errors with a null id
  MaxCollects      \* bound: calls of collectAllRequests

ASSUME ClientAssumption ==
  /\ StreamRequests \subseteq Requests
  /\ Nil \notin Requests
  /\ Nil \notin [fits : BOOLEAN, who : {"client", "collector"}]
  /\ MaxAnswers \in Nat /\ MaxNullErrors \in Nat /\ MaxCollects \in Nat

VARIABLES
  req,                \* [Requests -> record]: promise, map entry, timer, stream
  mClosed,
  mDisconnectHandled,
  onClose,            \* the onClose hook: "not_called", "running", "returned"
  mPartialStdout, mPartialStderr,   \* fragments of an unfinished line
  disposed,           \* dispose() was called: mSshClient.end()
  connection,         \* the SSH transport: "up" or "closed"
  channel,            \* the server's channel: "open", "gone" (process ended,
                      \* nothing noticed yet), "unwritable", "closed"
  wire,               \* [out, err]: fragments on their way to the client
  sent,               \* messages the server has sent
  collects            \* budget

client == <<mClosed, mDisconnectHandled, onClose, mPartialStdout, mPartialStderr>>
peer   == <<disposed, connection, channel, wire, sent>>
vars   == <<req, client, peer, collects>>

Message ==
  [kind : {"notification"}, id : StreamRequests, fits : {TRUE}]
    \cup [kind : {"result"}, id : Requests, fits : BOOLEAN]
    \cup [kind : {"error"}, id : Requests \cup {Nil}, fits : {TRUE}]

Lines(m) == <<[msg |-> m, part |-> 1], [msg |-> m, part |-> 2]>>

NewRequest ==
  [promise   |-> "none",      \* the promise request() returned
   written   |-> FALSE,       \* written to the server's stdin
   mapped    |-> FALSE,       \* has an entry in mRequestMap
   silenced  |-> FALSE,
   timer     |-> FALSE,       \* timeoutId is armed
   collected |-> FALSE,       \* handed out by collectAllRequests
   claimed   |-> FALSE,       \* ... at least once with silence
   linked    |-> FALSE,       \* rpc.resolve waits for the stream
   stream    |-> "none",      \* "registered" in mPendingStreamMap, then "open"
   awaiting  |-> Nil,         \* response held until the stream ends
   by        |-> "nobody"]    \* who settled the promise

-----------------------------------------------------------------------------
(* Promises.  Settling one runs request()'s finally: clearTimeout.          *)

Settle(q, outcome, who) ==
  IF q.promise # "pending" THEN q
  ELSE [q EXCEPT !.promise = outcome, !.timer = FALSE, !.by = who]

\* Mutant: the response is taken for the end of the transfer.
ResolveAtOnce(q, fits, who) == Settle(q, "resolved", who)

\* rpc.resolve.  After linkStreamToPromise it awaits the stream and compares
\* the content lengths ("fits").
Resolve(q, fits, who) ==
  IF ~q.linked THEN Settle(q, "resolved", who)
  ELSE IF q.stream = "failed" THEN Settle(q, "rejected", who)
  ELSE IF q.stream = "done"
       THEN Settle(q, IF fits THEN "resolved" ELSE "rejected", who)
  ELSE IF q.awaiting = Nil THEN [q EXCEPT !.awaiting = [fits |-> fits, who |-> who]]
  ELSE q

-----------------------------------------------------------------------------
(* Lines from the server *)

\* linkStreamToPromise starts the transfer; without a registered stream it
\* throws and handleNotification only reports that.
handleNotification(q) ==
  IF q.stream = "registered" THEN [q EXCEPT !.linked = TRUE, !.stream = "open"]
  ELSE q

\* Mutant: a silenced request is settled like any other.
RespondAlsoIfSilenced(q, m) ==
  [(IF m.kind = "error" THEN Settle(q, "rejected", "client")
    ELSE Resolve(q, m.fits, "client")) EXCEPT !.mapped = FALSE]

handleResponse(q, m) ==
  LET settled == IF q.silenced THEN q
                 ELSE IF m.kind = "error" THEN Settle(q, "rejected", "client")
                 ELSE Resolve(q, m.fits, "client")
  IN  [settled EXCEPT !.mapped = FALSE]

\* One complete line: invalid JSON and ids that are not in mRequestMap are
\* only reported to the error handler.
HandleLine(rq, line) ==
  LET m == Last(line).msg IN
  IF line # Lines(m) \/ m.id = Nil THEN rq
  ELSE IF ~rq[m.id].mapped THEN rq
  ELSE [rq EXCEPT ![m.id] = IF m.kind = "notification"
                            THEN handleNotification(rq[m.id])
                            ELSE handleResponse(rq[m.id], m)]

\* One more fragment: a newline ends the line it belongs to.
TakeFragment(acc, f) ==
  IF f.part = 2
  THEN [req |-> HandleLine(acc.req, Append(acc.partial, f)), partial |-> <<>>]
  ELSE [req |-> acc.req, partial |-> Append(acc.partial, f)]

\* The fragments of a chunk, in order.
TakeChunk(start, chunk) ==
  LET after[k \in 0 .. Len(chunk)] ==
        IF k = 0 THEN start ELSE TakeFragment(after[k - 1], chunk[k])
  IN  after[Len(chunk)]

\* Mutant: the fragment of an unfinished line is forgotten.
ForgetPartial(partial, chunk) == TakeChunk([req |-> req, partial |-> <<>>], chunk)

\* Split what is left over and the chunk into lines; the last, unfinished one
\* is returned.
processResponses(partial, chunk) == TakeChunk([req |-> req, partial |-> partial], chunk)

Arrives(ch, n) ==
  /\ connection = "up" /\ n <= Len(wire[ch])
  /\ wire' = [wire EXCEPT ![ch] = SubSeq(@, n + 1, Len(@))]

onOutData(n) ==
  /\ Arrives("out", n)
  /\ LET result == processResponses(mPartialStdout, SubSeq(wire["out"], 1, n))
     IN  req' = result.req /\ mPartialStdout' = result.partial
  /\ UNCHANGED <<mClosed, mDisconnectHandled, onClose, mPartialStderr, disposed,
                 connection, channel, sent, collects>>

NothingPending == \A r \in Requests : ~req[r].mapped

\* With no request in the map the chunk is only logged: mPartialStderr stays.
onErrData(n) ==
  /\ Arrives("err", n)
  /\ IF NothingPending THEN UNCHANGED <<req, mPartialStderr>>
     ELSE LET result == processResponses(mPartialStderr,
                                         SubSeq(wire["err"], 1, n))
          IN  req' = result.req /\ mPartialStderr' = result.partial
  /\ UNCHANGED <<mClosed, mDisconnectHandled, onClose, mPartialStdout, disposed,
                 connection, channel, sent, collects>>

-----------------------------------------------------------------------------
(* Calls by the application *)

\* Mutant: the timer is armed only for requests without a stream.
RequestWithoutTimer(r) ==
  /\ req[r].promise = "none"
  /\ req' = [req EXCEPT ![r] =
       IF mClosed \/ channel \in {"unwritable", "closed"}
       THEN [NewRequest EXCEPT !.promise = "rejected", !.by = "client"]
       ELSE [NewRequest EXCEPT !.promise = "pending", !.mapped = TRUE,
               !.written = TRUE, !.timer = r \notin StreamRequests,
               !.stream = IF r \in StreamRequests THEN "registered" ELSE "none"]]
  /\ UNCHANGED <<client, peer, collects>>

\* Throws on a closed client or a dead channel, else registers and writes.
request(r) ==
  /\ req[r].promise = "none"
  /\ req' = [req EXCEPT ![r] =
       IF mClosed \/ channel \in {"unwritable", "closed"}
       THEN [NewRequest EXCEPT !.promise = "rejected", !.by = "client"]
       ELSE [NewRequest EXCEPT !.promise = "pending", !.mapped = TRUE,
               !.written = TRUE, !.timer = TRUE,
               !.stream = IF r \in StreamRequests THEN "registered" ELSE "none"]]
  /\ UNCHANGED <<client, peer, collects>>

\* setTimeout's callback.
RequestTimedOut(r) ==
  /\ req[r].timer
  /\ req' = [req EXCEPT ![r] =
       IF ~req[r].mapped THEN [req[r] EXCEPT !.timer = FALSE]
       ELSE IF req[r].silenced
       THEN [req[r] EXCEPT !.mapped = FALSE, !.timer = FALSE]
       ELSE [Settle(req[r], "rejected", "client") EXCEPT !.mapped = FALSE]]
  /\ UNCHANGED <<client, peer, collects>>

collectAllRequests(silence) ==
  /\ collects < MaxCollects /\ collects' = collects + 1
  /\ req' = [r \in Requests |->
       IF ~req[r].mapped THEN req[r]
       ELSE [req[r] EXCEPT !.silenced = silence, !.timer = FALSE,
                           !.collected = TRUE,
                           !.claimed = req[r].claimed \/ silence]]
  /\ UNCHANGED <<client, peer>>

dispose ==
  /\ ~disposed     \* a second call finds an empty map and a closed client
  /\ mClosed' = TRUE /\ disposed' = TRUE
  /\ req' = [r \in Requests |->
       IF ~req[r].mapped THEN req[r]
       ELSE [(IF req[r].silenced THEN req[r]
              ELSE Settle(req[r], "rejected", "client")) EXCEPT !.mapped = FALSE]]
  /\ UNCHANGED <<mDisconnectHandled, onClose, mPartialStdout, mPartialStderr,
                 connection, channel, wire, sent, collects>>

\* Whoever collected a request settles it: create() of the next client replays
\* its command and passes the outcome to the same rpc.resolve and rpc.reject.
ReplaySettles(r, ok) ==
  /\ req[r].collected /\ req[r].promise = "pending"
  /\ req' = [req EXCEPT ![r] = IF ok THEN Resolve(req[r], TRUE, "collector")
                               ELSE Settle(req[r], "rejected", "collector")]
  /\ UNCHANGED <<client, peer, collects>>

-----------------------------------------------------------------------------
(* Transfers: uploadStream and downloadStream after the exec of "cat"       *)

\* Mutant: a response that already waits for the stream is forgotten.
StreamEndsUnheard(r, how) ==
  /\ req[r].stream = "open"
  /\ how = "done" => connection = "up"
  /\ req' = [req EXCEPT ![r] = [@ EXCEPT !.stream = how, !.awaiting = Nil]]
  /\ UNCHANGED <<client, peer, collects>>

\* The streamPromise settles, and with it a response that awaits it.
StreamEnds(r, how) ==
  /\ req[r].stream = "open"
  /\ how = "done" => connection = "up"
  /\ req' = [req EXCEPT ![r] =
       LET q == [req[r] EXCEPT !.stream = how, !.awaiting = Nil]
           a == req[r].awaiting
       IN  IF a = Nil THEN q ELSE Resolve(q, a.fits, a.who)]
  /\ UNCHANGED <<client, peer, collects>>

-----------------------------------------------------------------------------
(* Disconnects *)

\* Mutant: dispose's mClosed is taken for a disconnect already handled.
SkipIfClosed ==
  IF mClosed THEN UNCHANGED <<mClosed, mDisconnectHandled, onClose>>
  ELSE /\ mClosed' = TRUE /\ mDisconnectHandled' = TRUE
       /\ onClose' = "running"

\* Runs the hook; the rest happens when the hook's promise settles.
handleDisconnect ==
  IF mDisconnectHandled THEN UNCHANGED <<mClosed, mDisconnectHandled, onClose>>
  ELSE /\ mClosed' = TRUE /\ mDisconnectHandled' = TRUE
       /\ onClose' = "running"

\* "close" of the SSH client: what was on the wire is lost.
TransportCloses ==
  /\ connection = "up"
  /\ connection' = "closed"
  /\ wire' = [out |-> <<>>, err |-> <<>>]
  /\ handleDisconnect
  /\ UNCHANGED <<req, mPartialStdout, mPartialStderr, disposed, channel, sent,
                 collects>>

\* Mutant: nobody watches the channel.
ChannelClosesUnwatched ==
  /\ channel \in {"gone", "unwritable"}
  /\ channel' = "closed"
  /\ UNCHANGED <<req, client, disposed, connection, wire, sent, collects>>

\* watchServerChannel: "close" or "exit" of the server's channel.
ChannelCloses ==
  /\ channel \in {"gone", "unwritable"}
  /\ channel' = "closed"
  /\ handleDisconnect
  /\ UNCHANGED <<req, mPartialStdout, mPartialStderr, disposed, connection, wire,
                 sent, collects>>

\* The hook's promise settles: rejectPendingRequests.
rejectPendingRequests ==
  /\ onClose = "running"
  /\ onClose' = "returned"
  /\ req' = [r \in Requests |->
       IF ~req[r].mapped \/ req[r].silenced THEN req[r]
       ELSE [Settle(req[r], "rejected", "client") EXCEPT !.mapped = FALSE]]
  /\ UNCHANGED <<mClosed, mDisconnectHandled, mPartialStdout, mPartialStderr,
                 peer, collects>>

-----------------------------------------------------------------------------
(* The server and the network (external to the client)                      *)

Send(ch, m) ==
  /\ channel = "open" /\ connection = "up"
  /\ m \notin sent
  /\ sent' = sent \cup {m}
  /\ wire' = [wire EXCEPT ![ch] = @ \o Lines(m)]
  /\ UNCHANGED <<req, client, disposed, connection, channel, collects>>

\* rpc_server.cpp writes notifications and results to stdout, errors to
\* stderr; a notification precedes the result.  A request that timed out on
\* the server can have an error and a result.
ServerNotifies(r) ==
  /\ req[r].written /\ r \in StreamRequests
  /\ ~\E m \in sent : m.kind = "result" /\ m.id = r
  /\ Send("out", [kind |-> "notification", id |-> r, fits |-> TRUE])

ServerAnswers(r, kind, fits) ==
  /\ req[r].written
  /\ Cardinality({m \in sent : m.kind # "notification" /\ m.id # Nil}) < MaxAnswers
  /\ ~\E m \in sent : m.kind = kind /\ m.id = r
  /\ kind = "error" => fits
  /\ Send(IF kind = "error" THEN "err" ELSE "out",
          [kind |-> kind, id |-> r, fits |-> fits])

ServerReportsNull ==
  /\ MaxNullErrors > 0
  /\ Send("err", [kind |-> "error", id |-> Nil, fits |-> TRUE])

ServerEnds ==
  /\ channel = "open" /\ channel' = "gone"
  /\ UNCHANGED <<req, client, disposed, connection, wire, sent, collects>>

\* The write side notices first (request() tests stdin.writable).
StdinEnds ==
  /\ channel = "gone" /\ channel' = "unwritable"
  /\ UNCHANGED <<req, client, disposed, connection, wire, sent, collects>>

-----------------------------------------------------------------------------
\* create() has returned: the banner was read and the listeners are attached.
Init ==
  /\ req = [r \in Requests |-> NewRequest]
  /\ mClosed = FALSE /\ mDisconnectHandled = FALSE /\ onClose = "not_called"
  /\ mPartialStdout = <<>> /\ mPartialStderr = <<>>
  /\ disposed = FALSE /\ connection = "up" /\ channel = "open"
  /\ wire = [out |-> <<>>, err |-> <<>>] /\ sent = {}
  /\ collects = 0

Application ==
  \/ \E r \in Requests : request(r)
  \/ \E silence \in BOOLEAN : collectAllRequests(silence)
  \/ dispose
  \/ \E r \in Requests, ok \in BOOLEAN : ReplaySettles(r, ok)

Server ==
  \/ \E r \in Requests : \/ ServerNotifies(r)
                         \/ \E kind \in {"result", "error"}, fits \in BOOLEAN :
                              ServerAnswers(r, kind, fits)
  \/ ServerReportsNull \/ ServerEnds \/ StdinEnds

Data == \/ \E n \in 1 .. Len(wire["out"]) : onOutData(n)
        \/ \E n \in 1 .. Len(wire["err"]) : onErrData(n)

Next ==
  \/ Application \/ Server \/ Data
  \/ \E r \in Requests : \/ RequestTimedOut(r)
                         \/ \E how \in {"done", "failed"} : StreamEnds(r, how)
  \/ TransportCloses \/ ChannelCloses \/ rejectPendingRequests

Spec == Init /\ [][Next]_vars

(* Fairness: timers run out, close events are delivered (a transport that   *)
(* was ended closes), the application's hook returns, and transfers over a  *)
(* closed connection fail.  The server never has to do anything, and a      *)
(* transfer over a live connection may take for ever.                       *)
FairSpec ==
  /\ Spec
  /\ \A r \in Requests : WF_vars(RequestTimedOut(r))
  /\ WF_vars(ChannelCloses)
  /\ WF_vars(disposed /\ TransportCloses)
  /\ WF_vars(rejectPendingRequests)
  /\ \A r \in Requests : WF_vars(connection = "closed" /\ StreamEnds(r, "failed"))

-----------------------------------------------------------------------------
(* Properties *)

Fragment == [msg : Message, part : {1, 2}]

\* A promise that is still pending can still be settled: its request is in
\* mRequestMap, or its response awaits the stream, or it was handed out,
\* silenced, to a collector who holds its resolve and reject.
PendingHasOwner ==
  \A r \in Requests : req[r].promise = "pending" =>
    \/ req[r].mapped
    \/ req[r].awaiting # Nil /\ req[r].stream = "open"
    \/ req[r].silenced /\ req[r].collected

\* A request resolves only if the server answered it, and if the server had
\* announced a transfer only after that transfer was complete, with the length
\* the server reports.
ResolvedMeansTransferred ==
  \A r \in Requests :
    (req[r].promise = "resolved" /\ req[r].by = "client") =>
      \E m \in sent :
        /\ m.kind = "result" /\ m.id = r
        /\ (\E n \in sent : n.kind = "notification" /\ n.id = r)
             => req[r].stream = "done" /\ m.fits

\* The client never settles a silenced request: not for a response, a timeout,
\* a disconnect or dispose.
SilencedLeftAlone ==
  [][\A r \in Requests :
       (req[r].silenced /\ req[r].promise = "pending"
          /\ req'[r].promise # "pending") => req'[r].by = "collector"]_vars

\* A result line that has arrived completely, however it was cut into chunks,
\* is applied to the request that waits for it.
Consumed(ch, r, kind) ==
  \E k \in DOMAIN wire[ch] :
    /\ wire[ch][k].part = 2
    /\ wire[ch][k].msg.kind = kind /\ wire[ch][k].msg.id = r
    /\ k <= Len(wire[ch]) - Len(wire'[ch]) /\ connection' = "up"
Applied(ch, kind) ==
  \A r \in Requests :
    (Consumed(ch, r, kind) /\ req[r].mapped) => ~req'[r].mapped
ResultsDelivered == [][Applied("out", "result")]_vars

\* The same of error lines, which the server writes to stderr.
ErrorsDelivered == [][Applied("err", "error")]_vars

\* Once the server's process has ended, every request the application has not
\* claimed (collected with silence) leaves the map, whether or not its timer
\* still runs.
DisconnectRejects ==
  (channel \in {"gone", "unwritable"})
    ~> (\A r \in Requests : req[r].mapped => req[r].claimed)

\* Every call of request() settles, whatever the server does, unless the
\* application collected it or its announced transfer is still running.
EventuallySettled ==
  \A r \in Requests :
    (req[r].promise = "pending")
      ~> (req[r].promise # "pending" \/ req[r].collected \/ req[r].awaiting # Nil)

\* After dispose the disconnect it causes still reaches the onClose hook.
DisposeReachesOnClose == disposed ~> onClose # "not_called"
=============================================================================
