----------------------------- MODULE ServerProofs -----------------------------
(***************************************************************************)
(* Proofs, for every set of requests and every capacity of the ring, about *)
(* what RpcServer.tla says of process_request, of HandleFifo's named pipes *)
(* and of the supervisor's send_timeout_error; for any plug-ins, about     *)
(* what Plugins.tla says of PluginManager and the plug-in bridge; and, for *)
(* any jobs, about what Tools.tla says of the tool commands.               *)
(***************************************************************************)
EXTENDS RpcServer, Plugins, Tools, Recursion, SequenceTheorems, FiniteSetTheorems

(* The states of a request and of the supervisor.                          *)
BeforePipe == {"unread", "lookup", "fifo"}
WithPipe   == {"notify", "handler", "output"}
Answering  == {"respond", "print", "write", "done", "discarded"}
Replied    == {"print", "write", "done", "discarded"}
JobPC      == BeforePipe \cup WithPipe \cup Answering
Message    == [kind : MessageKind, id : Requests \cup {Nil}]
JobRecord  ==
  [pc : JobPC, pipe : BOOLEAN, pending : BOOLEAN,
   outcome : {"none", "ok", "failed", "threw"}, reply : Message \cup {Nil},
   wrote : {"nothing", "stream", "empty input"}, timedout : BOOLEAN]

TypeOK ==
  /\ job \in [Requests -> JobRecord]
  /\ sup \in [pc : {"idle", "print", "write", "mark"}, r : Requests \cup {Nil}]
  /\ sup.pc # "idle" => sup.r \in Requests
  /\ fifos \subseteq {[path |-> PipePath(r), owner |-> r] : r \in Requests}
  /\ wire \subseteq Message

(* A reply is the request's own, or one without an id.                     *)
OwnAnswer(r) ==
  \/ job[r].reply = Error(Nil)
  \/ job[r].reply.id = r /\ job[r].reply.kind # "notification"
ReplyIsOwn ==
  \A r \in Requests :
    job[r].pc \in Replied => job[r].reply \in Message /\ OwnAnswer(r)

(* An id is in the ring, or about to be put there, only when the client    *)
(* has been answered: that is what lets a worker throw its answer away.    *)
RingMeansTold ==
  /\ \A r \in Requests : is_abandoned(abandoned, r) => Told(r)
  /\ sup.pc = "mark" => Told(sup.r)

AnswerInv ==
  /\ TypeOK /\ ReplyIsOwn /\ RingMeansTold /\ AcceptedIsAnswered

(* Which request a pipe belongs to, and where that request is.             *)
PipeHasOwner ==
  \A f \in fifos :
    /\ job[f.owner].pipe
    /\ \/ job[f.owner].pc \in WithPipe
       \/ job[f.owner].pc \in Answering /\ job[f.owner].outcome = "threw"
NoPipeYet == \A r \in Requests : job[r].pc \in BeforePipe => ~job[r].pipe

PipeInv == TypeOK /\ PipeHasOwner /\ NoPipeYet /\ FifoLivesWhileUsed

-----------------------------------------------------------------------------
(* Type correctness *)

\* Constructors and the updates of a request's record stay within the types.
LEMMA UpdatesTyped ==
  ASSUME NEW x \in JobRecord
  PROVE  /\ \A p \in JobPC : [x EXCEPT !.pc = p] \in JobRecord
         /\ \A m \in Message : [x EXCEPT !.reply = m, !.pc = "print"] \in JobRecord
         /\ \A d \in BOOLEAN, p \in JobPC :
              [x EXCEPT !.pipe = TRUE, !.pending = d, !.pc = p] \in JobRecord
         /\ [x EXCEPT !.pending = FALSE] \in JobRecord
         /\ [x EXCEPT !.timedout = TRUE] \in JobRecord
         /\ \A o \in {"ok", "failed"}, v \in {"nothing", "stream", "empty input"} :
              [x EXCEPT !.outcome = o, !.wrote = v, !.pc = "output"] \in JobRecord
         /\ [x EXCEPT !.outcome = "threw", !.pc = "respond"] \in JobRecord
<1>1. \A p \in JobPC : [x EXCEPT !.pc = p] \in JobRecord
  BY DEF JobRecord
<1>2. \A m \in Message : [x EXCEPT !.reply = m, !.pc = "print"] \in JobRecord
  BY DEF JobRecord, JobPC, Answering
<1>3. \A d \in BOOLEAN, p \in JobPC :
        [x EXCEPT !.pipe = TRUE, !.pending = d, !.pc = p] \in JobRecord
  BY DEF JobRecord
<1>4. [x EXCEPT !.pending = FALSE] \in JobRecord /\ [x EXCEPT !.timedout = TRUE] \in JobRecord
  BY DEF JobRecord
<1>5. \A o \in {"ok", "failed"}, v \in {"nothing", "stream", "empty input"} :
        [x EXCEPT !.outcome = o, !.wrote = v, !.pc = "output"] \in JobRecord
  BY DEF JobRecord, JobPC, WithPipe
<1>6. [x EXCEPT !.outcome = "threw", !.pc = "respond"] \in JobRecord
  BY DEF JobRecord, JobPC, Answering
<1> QED
  BY <1>1, <1>2, <1>3, <1>4, <1>5, <1>6

\* The replies that the server builds are messages.
LEMMA MessagesTyped ==
  /\ Error(Nil) \in Message
  /\ \A r \in Requests :
       /\ Error(r) \in Message /\ Response(r) \in Message
       /\ [kind |-> "notification", id |-> r] \in Message
       /\ [kind |-> "timeout", id |-> r] \in Message
BY DEF Error, Response, Message, MessageKind

\* The server starts well typed.
LEMMA InitTyped == Init => TypeOK
BY DEF Init, TypeOK, NewJob, JobRecord, JobPC, BeforePipe, WithPipe, Answering

\* Every step of process_request and of the supervisor keeps the types.
LEMMA StepTyped ==
  ASSUME TypeOK, ReplyIsOwn, [Next]_vars
  PROVE  TypeOK'
<1>j. ASSUME NEW r \in Requests, NEW x \in JobRecord, job' = [job EXCEPT ![r] = x]
      PROVE  job' \in [Requests -> JobRecord]
  BY <1>j DEF TypeOK
<1>1. ASSUME NEW r \in Requests, process_request(r) PROVE TypeOK'
  <2> DEFINE x == job[r]
  <2>0. x \in JobRecord
    BY DEF TypeOK
  <2>g. ASSUME NEW p \in JobPC, Goto(r, p) PROVE job' \in [Requests -> JobRecord]
    BY <2>0, <2>g, <1>j, UpdatesTyped DEF Goto
  <2>r. ASSUME NEW m \in Message, Reply(r, m) PROVE job' \in [Requests -> JobRecord]
    BY <2>0, <2>r, <1>j, UpdatesTyped DEF Reply
  <2>p. JobPC = {"unread", "lookup", "fifo", "notify", "handler", "output",
                 "respond", "print", "write", "done", "discarded"}
    BY DEF JobPC, BeforePipe, WithPipe, Answering
  <2>1. CASE ParseFails(r)
    BY <2>1, <2>r, MessagesTyped DEF ParseFails, TypeOK
  <2>2. CASE ParseRequest(r)
    BY <2>2, <2>g, <2>p DEF ParseRequest, TypeOK
  <2>3. CASE RejectRequest(r)
    BY <2>3, <2>r, MessagesTyped DEF RejectRequest, TypeOK
  <2>4. CASE ExceptionOutsideHandler(r)
    BY <2>4, <2>r, MessagesTyped DEF ExceptionOutsideHandler, TypeOK
  <2>5. CASE Dispatch(r)
    BY <2>5, <2>g, <2>p DEF Dispatch, TypeOK
  <2>6. CASE CreateFifo(r)
    <3>1. job' = [job EXCEPT ![r] =
                    [x EXCEPT !.pipe = TRUE, !.pending = r \in Deferred,
                              !.pc = IF r \in Deferred THEN "handler" ELSE "notify"]]
      BY <2>6 DEF CreateFifo
    <3> DEFINE d == r \in Deferred
               p == IF r \in Deferred THEN "handler" ELSE "notify"
    <3>a. d \in BOOLEAN /\ p \in JobPC
      BY <2>p
    <3>b. [x EXCEPT !.pipe = TRUE, !.pending = d, !.pc = p] \in JobRecord
      <4> HIDE DEF d, p, x
      <4> QED
        BY <3>a, <2>0, UpdatesTyped
    <3>2. job' \in [Requests -> JobRecord]
      BY <3>1, <3>b, <1>j
    <3>3. fifos' \subseteq {[path |-> PipePath(q), owner |-> q] : q \in Requests}
      BY <2>6 DEF CreateFifo, TypeOK, unlink
    <3> QED
      BY <2>6, <3>2, <3>3 DEF CreateFifo, TypeOK
  <2>7. CASE CreateFifoFails(r)
    BY <2>7, <2>g, <2>p DEF CreateFifoFails, TypeOK
  <2>8. CASE send_notification(r)
    BY <2>8, <2>g, <2>p, MessagesTyped DEF send_notification, TypeOK
  <2>9. CASE set_content_len(r)
    <3>1. job' = [job EXCEPT ![r] = [x EXCEPT !.pending = FALSE]]
      BY <2>9 DEF set_content_len
    <3>2. job' \in [Requests -> JobRecord]
      BY <3>1, <2>0, <1>j, UpdatesTyped
    <3> QED
      BY <2>9, <3>2, MessagesTyped DEF set_content_len, TypeOK
  <2>10. CASE HandlerThrows(r)
    <3>1. job' \in [Requests -> JobRecord]
      BY <2>10, <2>0, <1>j, UpdatesTyped DEF HandlerThrows
    <3> QED
      BY <2>10, <3>1 DEF HandlerThrows, TypeOK
  <2>11. ASSUME NEW rc \in {"ok", "failed"}, HandlerReturns(r, rc) PROVE TypeOK'
    <3>1. Stored(r, rc) \in {"nothing", "stream", "empty input"}
      BY DEF Stored
    <3>2. job' \in [Requests -> JobRecord]
      BY <2>11, <3>1, <2>0, <1>j, UpdatesTyped DEF HandlerReturns
    <3> QED
      BY <2>11, <3>2 DEF HandlerReturns, TypeOK
  <2>12. CASE apply_output_transforms(r)
    <3>1. fifos' \subseteq fifos
      BY <2>12 DEF apply_output_transforms, unlink
    <3> QED
      BY <2>12, <3>1, <2>g, <2>p DEF apply_output_transforms, TypeOK
  <2>13. CASE BuildResponse(r)
    BY <2>13, <2>r, MessagesTyped DEF BuildResponse, TypeOK
  <2>14. CASE print_response(r)
    BY <2>14, <2>g, <2>p DEF print_response, TypeOK
  <2>15. CASE WriteResponse(r)
    <3>1. job[r].reply \in Message
      BY <2>15 DEF WriteResponse, ReplyIsOwn, Replied
    <3> QED
      BY <2>15, <3>1, <2>g, <2>p DEF WriteResponse, TypeOK
  <2> QED
    BY <1>1, <2>1, <2>2, <2>3, <2>4, <2>5, <2>6, <2>7, <2>8, <2>9, <2>10, <2>11,
       <2>12, <2>13, <2>14, <2>15 DEF process_request
<1>2. ASSUME NEW r \in Requests, TimeOut(r) PROVE TypeOK'
  <2>1. job[r] \in JobRecord
    BY DEF TypeOK
  <2>2. job' = [job EXCEPT ![r] = [job[r] EXCEPT !.timedout = TRUE]]
    BY <1>2 DEF TimeOut
  <2>3. job' \in [Requests -> JobRecord]
    BY <2>1, <2>2, <1>j, UpdatesTyped
  <2> QED
    BY <1>2, <2>3 DEF TimeOut, TypeOK
<1>3. CASE TimeoutPrint
  BY <1>3 DEF TimeoutPrint, TypeOK
<1>4. CASE TimeoutWrite
  BY <1>4, MessagesTyped DEF TimeoutWrite, TypeOK
<1>5. CASE TimeoutMark
  BY <1>5 DEF TimeoutMark, TypeOK
<1>6. CASE UNCHANGED vars
  BY <1>6 DEF vars, TypeOK
<1> QED
  BY <1>1, <1>2, <1>3, <1>4, <1>5, <1>6 DEF Next, send_timeout_error, Finished

-----------------------------------------------------------------------------
(* What the steps do to the fields the invariants read *)

\* The fields of a request's record after its place, or also its reply, is set.
LEMMA UpdatedFields ==
  ASSUME NEW x \in JobRecord, NEW p \in JobPC, NEW m \in Message
  PROVE  /\ LET y == [x EXCEPT !.pc = p]
            IN  y.pc = p /\ y.reply = x.reply /\ y.pipe = x.pipe /\ y.outcome = x.outcome
         /\ LET y == [x EXCEPT !.reply = m, !.pc = "print"]
            IN  y.pc = "print" /\ y.reply = m /\ y.pipe = x.pipe /\ y.outcome = x.outcome
BY DEF JobRecord

\* A request that moves on keeps everything but its place.
LEMMA GotoEffect ==
  ASSUME TypeOK, NEW r \in Requests, NEW p \in JobPC, Goto(r, p)
  PROVE  /\ job'[r].pc = p
         /\ job'[r].reply = job[r].reply
         /\ job'[r].pipe = job[r].pipe /\ job'[r].outcome = job[r].outcome
         /\ \A q \in Requests \ {r} : job'[q] = job[q]
<1>1. job[r] \in JobRecord /\ job' = [job EXCEPT ![r] = [job[r] EXCEPT !.pc = p]]
  BY DEF TypeOK, Goto
<1>2. job'[r] = [job[r] EXCEPT !.pc = p]
  BY <1>1 DEF TypeOK
<1>3. \A q \in Requests \ {r} : job'[q] = job[q]
  BY <1>1 DEF TypeOK
<1> DEFINE x == job[r]  y == [x EXCEPT !.pc = p]
<1>4. y.pc = p /\ y.reply = x.reply /\ y.pipe = x.pipe /\ y.outcome = x.outcome
  <2>1. x \in JobRecord
    BY <1>1
  <2> HIDE DEF x
  <2> QED
    BY <2>1, UpdatedFields, MessagesTyped
<1>5. job'[r] = y
  BY <1>2
<1> HIDE DEF y
<1> QED
  BY <1>3, <1>4, <1>5

\* A request that is given its reply goes to print_response with it.
LEMMA ReplyEffect ==
  ASSUME TypeOK, NEW r \in Requests, NEW m \in Message, Reply(r, m)
  PROVE  /\ job'[r].pc = "print"
         /\ job'[r].reply = m
         /\ job'[r].pipe = job[r].pipe /\ job'[r].outcome = job[r].outcome
         /\ \A q \in Requests \ {r} : job'[q] = job[q]
<1>1. /\ job[r] \in JobRecord
      /\ job' = [job EXCEPT ![r] = [job[r] EXCEPT !.reply = m, !.pc = "print"]]
  BY DEF TypeOK, Reply
<1>2. job'[r] = [job[r] EXCEPT !.reply = m, !.pc = "print"]
  BY <1>1 DEF TypeOK
<1>3. \A q \in Requests \ {r} : job'[q] = job[q]
  BY <1>1 DEF TypeOK
<1>4. "print" \in JobPC
  BY DEF JobPC, Answering
<1> DEFINE x == job[r]  y == [x EXCEPT !.reply = m, !.pc = "print"]
<1>5. y.pc = "print" /\ y.reply = m /\ y.pipe = x.pipe /\ y.outcome = x.outcome
  <2>1. x \in JobRecord
    BY <1>1
  <2> HIDE DEF x
  <2> QED
    BY <2>1, <1>4, UpdatedFields
<1>6. job'[r] = y
  BY <1>2
<1> HIDE DEF y
<1> QED
  BY <1>3, <1>5, <1>6

\* Setting a request's pipe up: the argument is set and the handler, or the
\* notification before it, comes next.
LEMMA CreateFifoEffect ==
  ASSUME TypeOK, NEW r \in Requests, CreateFifo(r)
  PROVE  /\ job'[r].pc \in {"handler", "notify"} /\ job'[r].pipe
         /\ \A q \in Requests \ {r} : job'[q] = job[q]
<1> DEFINE d == r \in Deferred
           p == IF r \in Deferred THEN "handler" ELSE "notify"
<1>0. p \in {"handler", "notify"}
  OBVIOUS
<1>1. /\ job[r] \in JobRecord
      /\ job' = [job EXCEPT ![r] = [job[r] EXCEPT !.pipe = TRUE, !.pending = d, !.pc = p]]
  BY DEF TypeOK, CreateFifo
<1> HIDE DEF d, p
<1>2. job'[r] = [job[r] EXCEPT !.pipe = TRUE, !.pending = d, !.pc = p]
  BY <1>1 DEF TypeOK
<1>3. \A q \in Requests \ {r} : job'[q] = job[q]
  BY <1>1 DEF TypeOK
<1>4. job'[r].pc = p /\ job'[r].pipe = TRUE
  BY <1>1, <1>2 DEF JobRecord
<1> QED
  BY <1>0, <1>3, <1>4

\* The handler's return or exception decides the outcome and the next place.
LEMMA HandlerEffect ==
  ASSUME TypeOK, NEW r \in Requests,
         HandlerThrows(r) \/ \E rc \in {"ok", "failed"} : HandlerReturns(r, rc)
  PROVE  /\ \/ job'[r].pc = "output"
            \/ job'[r].pc = "respond" /\ job'[r].outcome = "threw"
         /\ job'[r].pipe = job[r].pipe
         /\ \A q \in Requests \ {r} : job'[q] = job[q]
<1>0. job[r] \in JobRecord
  BY DEF TypeOK
<1>1. CASE HandlerThrows(r)
  <2>1. job' = [job EXCEPT ![r] = [job[r] EXCEPT !.outcome = "threw", !.pc = "respond"]]
    BY <1>1 DEF HandlerThrows
  <2>2. job'[r] = [job[r] EXCEPT !.outcome = "threw", !.pc = "respond"]
    BY <2>1 DEF TypeOK
  <2>3. \A q \in Requests \ {r} : job'[q] = job[q]
    BY <2>1 DEF TypeOK
  <2> QED
    BY <1>0, <2>2, <2>3 DEF JobRecord
<1>2. ASSUME NEW rc \in {"ok", "failed"}, HandlerReturns(r, rc)
      PROVE  /\ job'[r].pc = "output" /\ job'[r].pipe = job[r].pipe
             /\ \A q \in Requests \ {r} : job'[q] = job[q]
  <2> DEFINE v == Stored(r, rc)
  <2>1. job' = [job EXCEPT ![r] = [job[r] EXCEPT !.outcome = rc, !.wrote = v, !.pc = "output"]]
    BY <1>2 DEF HandlerReturns
  <2> HIDE DEF v
  <2>2. job'[r] = [job[r] EXCEPT !.outcome = rc, !.wrote = v, !.pc = "output"]
    BY <2>1 DEF TypeOK
  <2>3. \A q \in Requests \ {r} : job'[q] = job[q]
    BY <2>1 DEF TypeOK
  <2> QED
    BY <1>0, <2>2, <2>3 DEF JobRecord
<1> QED
  BY <1>1, <1>2

\* Sending a deferred notification and timing a request out change neither
\* its place, nor its reply, nor its pipe.
LEMMA FlagEffect ==
  ASSUME TypeOK, NEW r \in Requests, set_content_len(r) \/ TimeOut(r)
  PROVE  \A q \in Requests :
           /\ job'[q].pc = job[q].pc /\ job'[q].reply = job[q].reply
           /\ job'[q].pipe = job[q].pipe /\ job'[q].outcome = job[q].outcome
<1>0. job[r] \in JobRecord
  BY DEF TypeOK
<1>1. CASE set_content_len(r)
  <2>1. job' = [job EXCEPT ![r] = [job[r] EXCEPT !.pending = FALSE]]
    BY <1>1 DEF set_content_len
  <2>2. /\ job'[r] = [job[r] EXCEPT !.pending = FALSE]
        /\ \A q \in Requests \ {r} : job'[q] = job[q]
    BY <2>1 DEF TypeOK
  <2> QED
    BY <1>0, <2>2, ZenonT(30) DEF JobRecord
<1>2. CASE TimeOut(r)
  <2>1. job' = [job EXCEPT ![r] = [job[r] EXCEPT !.timedout = TRUE]]
    BY <1>2 DEF TimeOut
  <2>2. /\ job'[r] = [job[r] EXCEPT !.timedout = TRUE]
        /\ \A q \in Requests \ {r} : job'[q] = job[q]
    BY <2>1 DEF TypeOK
  <2> QED
    BY <1>0, <2>2, ZenonT(30) DEF JobRecord
<1> QED
  BY <1>1, <1>2

-----------------------------------------------------------------------------
(* The ring of abandoned ids *)

\* A request that starts over is forgotten, and no id is added.
LEMMA ClearForgets ==
  ASSUME NEW ring, NEW id, NEW q, is_abandoned(clear_abandoned(ring, id), q)
  PROVE  is_abandoned(ring, q)
BY DEF is_abandoned, clear_abandoned

\* Marking adds one id, and evicting adds none.
LEMMA MarkAddsOne ==
  ASSUME NEW ring, NEW id, NEW q, is_abandoned(mark_abandoned(ring, id), q)
  PROVE  q = id \/ is_abandoned(ring, q)
BY DEF is_abandoned, mark_abandoned, EvictOldest

-----------------------------------------------------------------------------
(* Every accepted request is answered *)

\* An answer that was sent stays sent.
LEMMA ToldStays ==
  ASSUME wire \subseteq wire'
  PROVE  \A r : Told(r) => Told(r)'
BY DEF Told

\* A step keeps AnswerInv for the requests whose place and reply it leaves
\* alone.
LEMMA OthersAnswered ==
  ASSUME AnswerInv, wire \subseteq wire', NEW q \in Requests,
         job'[q].pc = job[q].pc, job'[q].reply = job[q].reply
  PROVE  /\ (job[q].pc \in Replied => job[q].reply \in Message /\ OwnAnswer(q))'
         /\ (job[q].pc \in {"done", "discarded"} => Told(q) \/ job[q].reply = Error(Nil))'
BY ToldStays DEF AnswerInv, ReplyIsOwn, AcceptedIsAnswered, OwnAnswer, Error

\* The server starts with nothing to answer and an empty ring.
LEMMA InitAnswered == Init => AnswerInv
<1> SUFFICES ASSUME Init PROVE AnswerInv
  OBVIOUS
<1>1. TypeOK
  BY InitTyped
<1>2. \A r \in Requests : job[r].pc = "unread"
  BY DEF Init, NewJob
<1>3. ReplyIsOwn /\ AcceptedIsAnswered
  BY <1>2 DEF ReplyIsOwn, AcceptedIsAnswered, Replied
<1>4. RingMeansTold
  BY DEF Init, RingMeansTold, is_abandoned, EmptyRing
<1> QED
  BY <1>1, <1>3, <1>4 DEF AnswerInv

\* No step leaves a request that was understood without its answer.
LEMMA StepAnswered ==
  ASSUME AnswerInv, [Next]_vars
  PROVE  AnswerInv'
<1>t. TypeOK /\ TypeOK'
  BY StepTyped DEF AnswerInv
<1> DEFINE Fine(q) ==
      /\ job[q].pc \in Replied => job[q].reply \in Message /\ OwnAnswer(q)
      /\ job[q].pc \in {"done", "discarded"} => Told(q) \/ job[q].reply = Error(Nil)
<1>f. ASSUME NEW r \in Requests, wire \subseteq wire',
             \A q \in Requests \ {r} : job'[q] = job[q], Fine(r)'
      PROVE  ReplyIsOwn' /\ AcceptedIsAnswered'
  BY <1>f, OthersAnswered DEF ReplyIsOwn, AcceptedIsAnswered
<1>k. ASSUME wire \subseteq wire', abandoned' = abandoned, sup' = sup
      PROVE  RingMeansTold'
  BY <1>k, ToldStays DEF AnswerInv, RingMeansTold
<1>p. /\ JobPC = {"unread", "lookup", "fifo", "notify", "handler", "output",
                  "respond", "print", "write", "done", "discarded"}
      /\ Replied = {"print", "write", "done", "discarded"}
  BY DEF JobPC, BeforePipe, WithPipe, Answering, Replied
<1>1. ASSUME NEW r \in Requests, process_request(r) PROVE AnswerInv'
  <2>g. ASSUME NEW p \in JobPC \ Replied, Goto(r, p), wire \subseteq wire'
        PROVE  ReplyIsOwn' /\ AcceptedIsAnswered'
    <3>1. Fine(r)'
      BY <2>g, <1>t, <1>p, GotoEffect
    <3> QED
      BY <2>g, <3>1, <1>f, <1>t, GotoEffect
  <2>r. ASSUME NEW m \in Message, Reply(r, m), wire' = wire,
               m = Error(Nil) \/ (m.id = r /\ m.kind # "notification")
        PROVE  ReplyIsOwn' /\ AcceptedIsAnswered'
    <3>1. job'[r].pc = "print" /\ job'[r].reply = m
      BY <2>r, <1>t, ReplyEffect
    <3>2. OwnAnswer(r)'
      BY <2>r, <3>1 DEF OwnAnswer, Error
    <3>3. Fine(r)'
      BY <3>1, <3>2, <2>r
    <3> QED
      BY <2>r, <3>3, <1>f, <1>t, ReplyEffect
  <2>m. /\ Error(r).id = r /\ Error(r).kind # "notification"
        /\ Response(r).id = r /\ Response(r).kind # "notification"
    BY DEF Error, Response
  <2>1. CASE ParseFails(r)
    BY <2>1, <2>r, <1>k, <1>t, MessagesTyped DEF ParseFails, AnswerInv
  <2>2. CASE ParseRequest(r)
    <3>1. ReplyIsOwn' /\ AcceptedIsAnswered'
      BY <2>2, <2>g, <1>p DEF ParseRequest
    <3>2. RingMeansTold'
      BY <2>2, ToldStays, ClearForgets DEF ParseRequest, AnswerInv, RingMeansTold
    <3> QED
      BY <1>t, <3>1, <3>2 DEF AnswerInv
  <2>3. CASE RejectRequest(r)
    BY <2>3, <2>r, <2>m, <1>k, <1>t, MessagesTyped DEF RejectRequest, AnswerInv
  <2>4. CASE ExceptionOutsideHandler(r)
    BY <2>4, <2>r, <1>k, <1>t, MessagesTyped DEF ExceptionOutsideHandler, AnswerInv
  <2>5. CASE Dispatch(r)
    BY <2>5, <2>g, <1>p, <1>k, <1>t DEF Dispatch, AnswerInv
  <2>6. CASE CreateFifo(r)
    <3>1. Fine(r)'
      BY <2>6, <1>t, <1>p, CreateFifoEffect
    <3> QED
      BY <2>6, <3>1, <1>f, <1>k, <1>t, CreateFifoEffect DEF CreateFifo, AnswerInv
  <2>7. CASE CreateFifoFails(r)
    BY <2>7, <2>g, <1>p, <1>k, <1>t DEF CreateFifoFails, AnswerInv
  <2>8. CASE send_notification(r)
    BY <2>8, <2>g, <1>p, <1>k, <1>t DEF send_notification, AnswerInv
  <2>9. CASE set_content_len(r)
    <3>1. wire \subseteq wire'
      BY <2>9 DEF set_content_len
    <3>2. ReplyIsOwn' /\ AcceptedIsAnswered'
      BY <2>9, <3>1, <1>t, FlagEffect, OthersAnswered DEF ReplyIsOwn, AcceptedIsAnswered
    <3> QED
      BY <2>9, <3>1, <3>2, <1>k, <1>t DEF set_content_len, AnswerInv
  <2>10. CASE HandlerThrows(r) \/ \E rc \in {"ok", "failed"} : HandlerReturns(r, rc)
    <3>1. Fine(r)'
      BY <2>10, <1>t, <1>p, HandlerEffect
    <3>2. UNCHANGED <<sup, abandoned, wire>>
      BY <2>10 DEF HandlerThrows, HandlerReturns
    <3> QED
      BY <2>10, <3>1, <3>2, <1>f, <1>k, <1>t, HandlerEffect DEF AnswerInv
  <2>11. CASE apply_output_transforms(r)
    BY <2>11, <2>g, <1>p, <1>k, <1>t DEF apply_output_transforms, AnswerInv
  <2>12. CASE BuildResponse(r)
    BY <2>12, <2>r, <2>m, <1>k, <1>t, MessagesTyped DEF BuildResponse, AnswerInv
  <2>13. CASE print_response(r)
    <3> DEFINE p == IF job[r].reply.id # Nil /\ is_abandoned(abandoned, r)
                    THEN "discarded" ELSE "write"
    <3>1. p \in JobPC /\ Goto(r, p) /\ wire' = wire
      BY <2>13, <1>p DEF print_response
    <3>2. p = "discarded" => Told(r)
      BY DEF AnswerInv, RingMeansTold
    <3>3. job'[r].pc = p /\ job'[r].reply = job[r].reply
          /\ \A q \in Requests \ {r} : job'[q] = job[q]
      <4> HIDE DEF p
      <4> QED
        BY <1>t, <3>1, GotoEffect
    <3>4. Told(r) => Told(r)'
      BY <3>1, ToldStays
    <3>5. job[r].reply \in Message /\ OwnAnswer(r)
      BY <2>13, <1>p DEF AnswerInv, ReplyIsOwn, print_response
    <3>6. Fine(r)'
      <4>1. OwnAnswer(r)'
        BY <3>3, <3>5 DEF OwnAnswer, Error
      <4>2. p \in {"discarded", "write"}
        OBVIOUS
      <4> HIDE DEF p
      <4> QED
        BY <4>1, <4>2, <3>2, <3>3, <3>4, <3>5
    <3> QED
      BY <2>13, <3>1, <3>3, <3>6, <1>f, <1>k, <1>t DEF print_response, AnswerInv
  <2>14. CASE WriteResponse(r)
    <3>1. Goto(r, "done") /\ wire' = wire \cup {job[r].reply}
      BY <2>14 DEF WriteResponse
    <3>2. job'[r].pc = "done" /\ job'[r].reply = job[r].reply
          /\ \A q \in Requests \ {r} : job'[q] = job[q]
      BY <3>1, <1>t, <1>p, GotoEffect
    <3>3. job[r].reply \in Message /\ OwnAnswer(r)
      BY <2>14, <1>p DEF AnswerInv, ReplyIsOwn, WriteResponse
    <3>4. Told(r)' \/ job'[r].reply = Error(Nil)
      BY <3>1, <3>2, <3>3 DEF OwnAnswer, Told
    <3>5. OwnAnswer(r)'
      BY <3>2, <3>3 DEF OwnAnswer, Error
    <3>6. Fine(r)'
      BY <3>2, <3>3, <3>4, <3>5 DEF Error
    <3> QED
      BY <2>14, <3>1, <3>2, <3>6, <1>f, <1>k, <1>t DEF WriteResponse, AnswerInv
  <2> QED
    BY <1>1, <2>1, <2>2, <2>3, <2>4, <2>5, <2>6, <2>7, <2>8, <2>9, <2>10, <2>11,
       <2>12, <2>13, <2>14 DEF process_request
<1>u. ASSUME job' = job, wire \subseteq wire' PROVE ReplyIsOwn' /\ AcceptedIsAnswered'
  BY <1>u, OthersAnswered DEF ReplyIsOwn, AcceptedIsAnswered
<1>2. ASSUME NEW r \in Requests, TimeOut(r) PROVE AnswerInv'
  <2>1. wire' = wire /\ abandoned' = abandoned /\ sup'.pc = "print"
    BY <1>2 DEF TimeOut
  <2>2. ReplyIsOwn' /\ AcceptedIsAnswered'
    BY <1>2, <2>1, <1>t, FlagEffect, OthersAnswered DEF ReplyIsOwn, AcceptedIsAnswered
  <2>3. RingMeansTold'
    BY <2>1, ToldStays DEF AnswerInv, RingMeansTold
  <2> QED
    BY <1>t, <2>2, <2>3 DEF AnswerInv
<1>3. CASE TimeoutPrint
  <2>1. sup'.r = sup.r /\ (sup'.pc = "mark" => is_abandoned(abandoned, sup.r))
    BY <1>3, <1>t DEF TimeoutPrint, TypeOK
  <2>2. sup.r \in Requests
    BY <1>3, <1>t DEF TimeoutPrint, TypeOK
  <2>3. RingMeansTold'
    BY <1>3, <2>1, <2>2, ToldStays DEF TimeoutPrint, AnswerInv, RingMeansTold
  <2> QED
    BY <1>3, <1>t, <1>u, <2>3 DEF TimeoutPrint, AnswerInv
<1>4. CASE TimeoutWrite
  <2>0. sup'.r = sup.r
    BY <1>4, <1>t DEF TimeoutWrite, TypeOK
  <2>1. Told(sup.r)'
    <3> DEFINE m == [kind |-> "timeout", id |-> sup.r]
    <3>1. m \in wire' /\ m.id = sup'.r /\ m.kind # "notification"
      BY <1>4, <2>0 DEF TimeoutWrite
    <3> HIDE DEF m
    <3> QED
      BY <3>1 DEF Told
  <2>2. RingMeansTold'
    BY <1>4, <2>1, ToldStays DEF TimeoutWrite, AnswerInv, RingMeansTold
  <2> QED
    BY <1>4, <1>t, <1>u, <2>2 DEF TimeoutWrite, AnswerInv
<1>5. CASE TimeoutMark
  <2>1. Told(sup.r) /\ wire' = wire /\ sup'.pc = "idle"
    BY <1>5 DEF TimeoutMark, AnswerInv, RingMeansTold
  <2>2. \A q \in Requests : is_abandoned(abandoned', q) => q = sup.r \/ is_abandoned(abandoned, q)
    BY <1>5, MarkAddsOne DEF TimeoutMark
  <2>3. RingMeansTold'
    BY <2>1, <2>2, ToldStays DEF AnswerInv, RingMeansTold
  <2> QED
    BY <1>5, <1>t, <1>u, <2>3 DEF TimeoutMark, AnswerInv
<1>6. CASE UNCHANGED vars
  BY <1>6, <1>t, <1>u, <1>k DEF vars, AnswerInv
<1> QED
  BY <1>1, <1>2, <1>3, <1>4, <1>5, <1>6 DEF Next, send_timeout_error, Finished

\* The answers and the ring stay consistent in every behaviour of the server.
THEOREM RpcAnswersInductive == Spec => []AnswerInv
<1>1. AnswerInv /\ [Next]_vars => AnswerInv'
  BY StepAnswered
<1> QED
  BY <1>1, InitAnswered, PTL DEF Spec

\* A request whose worker is done with it, or threw its response away as late,
\* was answered: with its result, its error, or the supervisor's timeout error
\* (print_response, send_timeout_error, mark_abandoned), unless an exception
\* outside the handler was reported without the id.
THEOREM RpcAcceptedIsAnswered == Spec => []AcceptedIsAnswered
<1>1. AnswerInv => AcceptedIsAnswered
  BY DEF AnswerInv
<1> QED
  BY <1>1, RpcAnswersInductive, PTL

-----------------------------------------------------------------------------
(* The named pipes *)

\* The pipes known to the server are the requests' own.
LEMMA FifoShape ==
  ASSUME TypeOK, NEW f \in fifos
  PROVE  /\ f.owner \in Requests /\ f.path = f.owner
         /\ f = [path |-> PipePath(f.owner), owner |-> f.owner]
BY DEF TypeOK, PipePath

\* The part of PipeInv that is about one request.
PipeOf(r) ==
  /\ \A f \in fifos : f.owner = r =>
       /\ job[r].pipe
       /\ \/ job[r].pc \in WithPipe
          \/ job[r].pc \in Answering /\ job[r].outcome = "threw"
  /\ job[r].pc \in BeforePipe => ~job[r].pipe
  /\ job[r].pipe /\ job[r].pc \in {"notify", "handler"}
       => [path |-> PipePath(r), owner |-> r] \in fifos

\* PipeInv request by request.
LEMMA PipeInvSplit ==
  ASSUME TypeOK
  PROVE  PipeHasOwner /\ NoPipeYet /\ FifoLivesWhileUsed
           <=> \A r \in Requests : PipeOf(r)
BY FifoShape DEF PipeHasOwner, NoPipeYet, FifoLivesWhileUsed, PipeOf

\* No pipe exists when the server starts.
LEMMA InitPipes == Init => PipeInv
<1> SUFFICES ASSUME Init PROVE PipeInv
  OBVIOUS
<1>1. \A r \in Requests : job[r].pc = "unread" /\ ~job[r].pipe
  BY DEF Init, NewJob
<1>2. PipeHasOwner
  BY DEF Init, PipeHasOwner
<1> QED
  BY <1>1, <1>2, InitTyped DEF PipeInv, NoPipeYet, FifoLivesWhileUsed

\* A step of one request that touches no pipe, or its own pipe only, keeps the
\* others' pipes as they were.
LEMMA OthersPipes ==
  ASSUME PipeInv, TypeOK', NEW r \in Requests,
         \A q \in Requests \ {r} :
           /\ job'[q].pc = job[q].pc /\ job'[q].pipe = job[q].pipe
           /\ job'[q].outcome = job[q].outcome,
         \A f : f.path # PipePath(r) \/ f.owner # r => (f \in fifos' <=> f \in fifos),
         PipeOf(r)'
  PROVE  PipeInv'
<1>1. \A q \in Requests : PipeOf(q)
  BY PipeInvSplit DEF PipeInv
<1>2. ASSUME NEW q \in Requests \ {r} PROVE PipeOf(q)'
  <2>1. \A f : f.owner = q => (f \in fifos' <=> f \in fifos)
    OBVIOUS
  <2>2. [path |-> PipePath(q), owner |-> q] \in fifos
          => [path |-> PipePath(q), owner |-> q] \in fifos'
    BY <2>1
  <2> QED
    BY <1>1, <2>1, <2>2 DEF PipeOf, PipePath
<1>3. \A q \in Requests : PipeOf(q)'
  BY <1>2
<1>o. \A f \in fifos' : f.owner \in Requests
  BY DEF TypeOK
<1>4. (PipeHasOwner /\ NoPipeYet /\ FifoLivesWhileUsed)'
  BY <1>3, <1>o DEF PipeHasOwner, NoPipeYet, FifoLivesWhileUsed, PipeOf
<1> QED
  BY <1>4 DEF PipeInv

\* No step makes a pipe outlive its request or vanish under it.
LEMMA StepPipes ==
  ASSUME AnswerInv, PipeInv, [Next]_vars
  PROVE  PipeInv'
<1>t. TypeOK /\ TypeOK'
  BY StepTyped DEF AnswerInv
<1>i. \A q \in Requests : PipeOf(q)
  BY PipeInvSplit DEF PipeInv
<1>p. /\ JobPC = {"unread", "lookup", "fifo", "notify", "handler", "output",
                  "respond", "print", "write", "done", "discarded"}
      /\ BeforePipe = {"unread", "lookup", "fifo"}
      /\ WithPipe = {"notify", "handler", "output"}
      /\ Answering = {"respond", "print", "write", "done", "discarded"}
  BY DEF JobPC, BeforePipe, WithPipe, Answering
<1>s. ASSUME \A q \in Requests :
               /\ job'[q].pc = job[q].pc /\ job'[q].pipe = job[q].pipe
               /\ job'[q].outcome = job[q].outcome,
             fifos' = fifos
      PROVE  PipeInv'
  <2>1. ASSUME NEW q \in Requests PROVE PipeOf(q)'
    <3>1. PipeOf(q) /\ fifos' = fifos
      BY <1>s, <1>i
    <3>2. /\ job'[q].pc = job[q].pc /\ job'[q].pipe = job[q].pipe
          /\ job'[q].outcome = job[q].outcome
      BY <1>s
    <3> QED
      BY <3>1, <3>2 DEF PipeOf, PipePath
  <2>2. \A f \in fifos' : f.owner \in Requests
    BY <1>t DEF TypeOK
  <2> QED
    BY <1>t, <2>1, <2>2 DEF PipeInv, PipeHasOwner, NoPipeYet, FifoLivesWhileUsed, PipeOf
<1>1. ASSUME NEW r \in Requests, process_request(r) PROVE PipeInv'
  <2>o. ASSUME \A q \in Requests \ {r} : job'[q] = job[q], fifos' = fifos, PipeOf(r)'
        PROVE  PipeInv'
    BY <2>o, <1>t, OthersPipes
  \* A step of the request that changes its place only: where it may go.
  <2>g. ASSUME NEW p \in JobPC, Goto(r, p), fifos' = fifos,
               \/ job[r].pc \in BeforePipe
               \/ job[r].pc \in Answering /\ p \in Answering
               \/ job[r].pc = "notify" /\ p = "handler",
               p \notin BeforePipe \/ job[r].pc \in BeforePipe
        PROVE  PipeInv'
    <3>1. /\ job'[r].pc = p /\ job'[r].pipe = job[r].pipe
          /\ job'[r].outcome = job[r].outcome
          /\ \A q \in Requests \ {r} : job'[q] = job[q]
      BY <2>g, <1>t, GotoEffect
    <3>2. PipeOf(r)'
      BY <2>g, <3>1, <1>i, <1>p DEF PipeOf, PipePath
    <3> QED
      BY <2>g, <3>1, <3>2, <2>o
  <2>r. ASSUME NEW m \in Message, Reply(r, m), fifos' = fifos,
               job[r].pc \in BeforePipe \cup Answering
        PROVE  PipeInv'
    <3>1. /\ job'[r].pc = "print" /\ job'[r].pipe = job[r].pipe
          /\ job'[r].outcome = job[r].outcome
          /\ \A q \in Requests \ {r} : job'[q] = job[q]
      BY <2>r, <1>t, ReplyEffect
    <3>2. PipeOf(r)'
      BY <2>r, <3>1, <1>i, <1>p DEF PipeOf, PipePath
    <3> QED
      BY <2>r, <3>1, <3>2, <2>o
  <2>1. CASE ParseFails(r)
    BY <2>1, <2>r, <1>p, MessagesTyped DEF ParseFails
  <2>2. CASE ParseRequest(r)
    BY <2>2, <2>g, <1>p DEF ParseRequest
  <2>3. CASE RejectRequest(r)
    BY <2>3, <2>r, <1>p, MessagesTyped DEF RejectRequest
  <2>4. CASE ExceptionOutsideHandler(r)
    BY <2>4, <2>r, <1>p, MessagesTyped DEF ExceptionOutsideHandler
  <2>5. CASE Dispatch(r)
    BY <2>5, <2>g, <1>p DEF Dispatch
  <2>6. CASE CreateFifo(r)
    <3> DEFINE mine == [path |-> PipePath(r), owner |-> r]
    <3>1. /\ job'[r].pc \in {"handler", "notify"} /\ job'[r].pipe
          /\ \A q \in Requests \ {r} : job'[q] = job[q]
      BY <2>6, <1>t, CreateFifoEffect
    <3>2. fifos' = unlink(PipePath(r)) \cup {mine}
      BY <2>6 DEF CreateFifo
    <3>3. \A f \in fifos : f.path = PipePath(r) => f.owner = r
      BY <1>t, FifoShape DEF PipePath
    <3>4. mine \in fifos' /\ mine.path = PipePath(r) /\ mine.owner = r
      BY <3>2
    <3>5. \A f : f.path # PipePath(r) \/ f.owner # r => (f \in fifos' <=> f \in fifos)
      <4> HIDE DEF mine
      <4> QED
        BY <3>2, <3>3, <3>4 DEF unlink
    <3>6. PipeOf(r)'
      <4>1. [path |-> PipePath(r), owner |-> r] \in fifos'
        BY <3>4
      <4> QED
        BY <3>1, <4>1, <1>p DEF PipeOf, PipePath
    <3> QED
      BY <3>1, <3>5, <3>6, <1>t, OthersPipes
  <2>7. CASE CreateFifoFails(r)
    BY <2>7, <2>g, <1>p DEF CreateFifoFails
  <2>8. CASE send_notification(r)
    BY <2>8, <2>g, <1>p DEF send_notification
  <2>9. CASE set_content_len(r)
    BY <2>9, <1>s, <1>t, FlagEffect DEF set_content_len
  <2>10. CASE HandlerThrows(r) \/ \E rc \in {"ok", "failed"} : HandlerReturns(r, rc)
    <3>1. fifos' = fifos /\ job[r].pc = "handler"
      BY <2>10 DEF HandlerThrows, HandlerReturns
    <3>2. PipeOf(r)'
      BY <2>10, <3>1, <1>i, <1>t, <1>p, HandlerEffect DEF PipeOf, PipePath
    <3> QED
      BY <2>10, <3>1, <3>2, <2>o, <1>t, HandlerEffect
  <2>11. CASE apply_output_transforms(r)
    <3>1. /\ job'[r].pc = "respond" /\ job'[r].pipe = job[r].pipe
          /\ \A q \in Requests \ {r} : job'[q] = job[q]
      BY <2>11, <1>t, <1>p, GotoEffect DEF apply_output_transforms
    <3>2. \A f \in fifos : f.path = PipePath(r) <=> f.owner = r
      BY <1>t, FifoShape DEF PipePath
    <3>3. \A f \in fifos : f.owner = r => job[r].pipe
      BY <1>i DEF PipeOf
    <3>4. \A f \in fifos' : f \in fifos /\ f.owner # r
      BY <2>11, <3>2, <3>3 DEF apply_output_transforms, unlink
    <3>5. \A f : f.path # PipePath(r) \/ f.owner # r => (f \in fifos' <=> f \in fifos)
      BY <2>11, <3>2 DEF apply_output_transforms, unlink
    <3>6. PipeOf(r)'
      BY <3>1, <3>4, <1>p DEF PipeOf
    <3> QED
      BY <3>1, <3>5, <3>6, <1>t, OthersPipes
  <2>12. CASE BuildResponse(r)
    BY <2>12, <2>r, <1>p, MessagesTyped DEF BuildResponse
  <2>13. CASE print_response(r)
    BY <2>13, <2>g, <1>p DEF print_response
  <2>14. CASE WriteResponse(r)
    BY <2>14, <2>g, <1>p DEF WriteResponse
  <2> QED
    BY <1>1, <2>1, <2>2, <2>3, <2>4, <2>5, <2>6, <2>7, <2>8, <2>9, <2>10, <2>11,
       <2>12, <2>13, <2>14 DEF process_request
<1>2. ASSUME NEW r \in Requests, TimeOut(r) PROVE PipeInv'
  BY <1>2, <1>s, <1>t, FlagEffect DEF TimeOut
<1>3. CASE TimeoutPrint \/ TimeoutWrite \/ TimeoutMark \/ UNCHANGED vars
  <2>1. job' = job /\ fifos' = fifos
    BY <1>3 DEF TimeoutPrint, TimeoutWrite, TimeoutMark, vars
  <2> QED
    BY <2>1, <1>s
<1> QED
  BY <1>1, <1>2, <1>3 DEF Next, send_timeout_error, Finished

\* The streaming requests' named pipes (HandleFifo in builder.cpp and
\* dispatcher.cpp): the pipe given to a handler exists and is its own as long as
\* the handler runs, whatever the other workers create and unlink, and no pipe is
\* left once the response is printed unless the handler threw.
THEOREM RpcPipesSound == Spec => []PipesSound
<1>1. Init => AnswerInv /\ PipeInv
  BY InitAnswered, InitPipes
<1>2. AnswerInv /\ PipeInv /\ [Next]_vars => AnswerInv' /\ PipeInv'
  BY StepAnswered, StepPipes
<1>3. PipeInv => PipesSound
  <2> SUFFICES ASSUME PipeInv PROVE FifoRemoved
    BY DEF PipesSound, PipeInv
  <2>1. \A f \in fifos : f.owner \in Requests
    BY FifoShape DEF PipeInv
  <2> QED
    BY <2>1 DEF PipeInv, PipeHasOwner, FifoRemoved, InProgress, WithPipe, Answering
<1> QED
  BY <1>1, <1>2, <1>3, PTL DEF Spec

-----------------------------------------------------------------------------
(* Plug-ins (Plugins.tla)                                                  *)

Files == DOMAIN PlugFiles
Named == {p.file : p \in pl.loaded}

(* The state of the manager, of the registration, of the root and of the   *)
(* server's table.                                                         *)
LoadVars == <<pl.left, pl.open, pl.provs, pl.loaded, pl.snap>>
CmdVars  == <<pl.recs, pl.base>>
RootVars == <<pl.root, pl.claimed, pl.pend, pl.server, pl.refused>>

Loading == {"dir", "scan", "enter"}
Registering == {"register", "script", "aborted"}

PlFields ==
  {"pc", "present", "left", "diruid", "file", "step", "open", "provs", "loaded", "display",
   "pending", "rejected", "snap", "turn", "base", "recs", "root", "claimed", "pend", "server",
   "refused", "rpc", "aborted"}
PlShape ==
  /\ pl = [x \in PlFields |-> pl[x]]
  /\ pl.step \in Nat \ {0} /\ pl.turn \in Nat \ {0} /\ pl.base \in Nat /\ pl.snap \in Nat
  /\ pl.pc \in Loading \cup Registering \cup {"commit", "serve", "up", "unloaded"}

(* A handle is open for each plug-in that was recorded, and for the one    *)
(* being asked to register itself, whose providers come last.              *)
PlLoaded ==
  /\ pl.provs \in Seq(Files) /\ pl.left \subseteq Files
  /\ \A n \in 1 .. Len(pl.provs) : pl.provs[n] \in pl.open
  /\ pl.pc = "dir" => Named = {}
  /\ pl.pc \in Loading => pl.left \cap Named = {}
  /\ pl.pc \notin {"enter", "unloaded"} => pl.open = Named
  /\ pl.pc = "enter" =>
       /\ pl.file \in Files /\ pl.file \notin Named \cup pl.left
       /\ pl.open = Named \cup {pl.file}
       /\ pl.snap <= Len(pl.provs) /\ \A n \in 1 .. pl.snap : pl.provs[n] \in Named

CmdNames  == {PlugFiles[f].script[n].name : f \in Files, n \in Nat}
CmdTokens == {PlugFiles[f].script[n].token : f \in Files, n \in Nat}
Cmd == [name : CmdNames, aliases : SUBSET CmdTokens, kids : SUBSET Nat, file : Files]
Cmds == 1 .. Len(pl.recs)

(* Commands belong to open plug-ins, siblings have different names, and    *)
(* the running script has created what it refers to.                       *)
PlCommands ==
  /\ pl.recs \in Seq(Cmd)
  /\ \A r \in Cmds : pl.recs[r].kids \subseteq Cmds
  /\ \A r \in Cmds : \A a, b \in pl.recs[r].kids : pl.recs[a].name = pl.recs[b].name => a = b
  /\ pl.pc \in Loading => pl.recs = <<>>
  /\ pl.pc # "unloaded" => \A r \in Cmds : pl.recs[r].file \in pl.open
  /\ pl.pc = "script" =>
       /\ pl.file \in Files /\ pl.file \in pl.open
       /\ Len(pl.recs) = pl.base + Created(PlugFiles[pl.file].script, pl.step)

(* The tokens of the root are claimed, and only by one command each.       *)
PlRooted ==
  /\ pl.pend \in Seq(Nat) /\ \A n \in 1 .. Len(pl.pend) : pl.pend[n] \in Cmds
  /\ pl.root \cup pl.server \cup pl.refused \subseteq Cmds
  /\ pl.refused \cap pl.server = {}
  /\ Builtin \subseteq pl.claimed
  /\ \A r \in pl.root : Tokens(r) \subseteq pl.claimed /\ Tokens(r) \cap Builtin = {}
  /\ \A r, s \in pl.root : r # s => Tokens(r) \cap Tokens(s) = {}
  /\ pl.pc \in Loading \cup Registering \cup {"unloaded"} => pl.root = {}
  /\ pl.pc \in Loading \cup Registering => pl.refused = {}

(* The server's table.                                                     *)
PlServed ==
  /\ pl.pc \notin {"serve", "up"} => pl.rpc = {}
  /\ \A p \in pl.rpc : /\ p.rec \in Cmds /\ p.path \notin RpcBuiltin
                       /\ Len(p.path) = 1 => p.rec \notin pl.refused
  /\ \A p, q \in pl.rpc : p.path = q.path => p = q

PlInv == PlShape /\ PlLoaded /\ PlCommands /\ PlRooted /\ PlServed

-----------------------------------------------------------------------------
(* The paths of a command                                                  *)

PathRec == [path : Seq(CmdNames), rec : Cmds]
Below(P) == UNION {{[path |-> Append(p.path, pl.recs[kid].name), rec |-> kid] :
                       kid \in pl.recs[p.rec].kids} : p \in P}

\* What is below paths are paths.
LEMMA BelowPaths ==
  ASSUME PlCommands, NEW P \in SUBSET PathRec
  PROVE  Below(P) \in SUBSET PathRec
<1> SUFFICES ASSUME NEW z \in Below(P) PROVE z \in PathRec
  OBVIOUS
<1>1. PICK p \in P : z \in {[path |-> Append(p.path, pl.recs[kid].name), rec |-> kid] :
                              kid \in pl.recs[p.rec].kids}
  BY DEF Below
<1>2. PICK kid \in pl.recs[p.rec].kids :
             z = [path |-> Append(p.path, pl.recs[kid].name), rec |-> kid]
  BY <1>1
<1>3. p.path \in Seq(CmdNames) /\ p.rec \in Cmds
  BY DEF PathRec
<1>4. kid \in Cmds
  BY <1>3 DEF PlCommands
<1>5. pl.recs[kid] \in Cmd
  BY <1>4 DEF PlCommands, Cmds
<1>6. pl.recs[kid].name \in CmdNames
  BY <1>5 DEF Cmd
<1>7. Append(p.path, pl.recs[kid].name) \in Seq(CmdNames)
  BY <1>3, <1>6
<1> QED
  BY <1>2, <1>4, <1>7 DEF PathRec

\* The paths of depth d are those below the paths of depth d - 1
\* (traverse_and_register).
LEMMA PathsByDepth ==
  ASSUME PlugAssumption, PlCommands, NEW r \in Cmds
  PROVE  \E h \in [0 .. MaxDepth -> SUBSET PathRec] :
           /\ h[0] = {[path |-> <<pl.recs[r].name>>, rec |-> r]}
           /\ \A d \in 1 .. MaxDepth : h[d] = Below(h[d - 1])
           /\ Paths(r) = UNION {h[d] : d \in 0 .. MaxDepth}
<1> DEFINE n == MaxDepth
           S == SUBSET PathRec
           start == {[path |-> <<pl.recs[r].name>>, rec |-> r]}
           step == [k \in 1 .. n |-> [P \in S |-> Below(P)]]
           under[d \in 0 .. n] == IF d = 0 THEN start ELSE Below(under[d - 1])
<1>n. n \in Nat
  BY PlugAssumption
<1>0. start \in S
  <2>1. pl.recs[r] \in Cmd
    BY DEF PlCommands, Cmds
  <2>2. pl.recs[r].name \in CmdNames
    BY <2>1 DEF Cmd
  <2> QED
    BY <2>2 DEF PathRec
<1>1. step \in Iterations(S, n)
  BY <1>n, BelowPaths DEF Iterations
<1>2. \A k \in 1 .. n, P \in S : step[k][P] = Below(P)
  OBVIOUS
<1> HIDE DEF step, start, S
<1>3. PICK g : History(g, S, n, start, step)
  BY <1>n, <1>0, <1>1, RecursionExists
<1>4. g \in [0 .. n -> S] /\ g[0] = start /\ \A k \in 1 .. n : g[k] = Below(g[k - 1])
  BY <1>2, <1>3, <1>n DEF History
<1>5. g = [d \in 0 .. n |-> IF d = 0 THEN start ELSE Below(g[d - 1])]
  BY <1>4, <1>n
<1>6. under = [d \in 0 .. n |-> IF d = 0 THEN start ELSE Below(under[d - 1])]
  BY <1>5 DEF under
<1>7. Paths(r) = UNION {under[d] : d \in 0 .. n}
  BY DEF Paths, Below, start
<1> HIDE DEF under
<1>8. under[0] = start /\ \A d \in 1 .. n : under[d] = Below(under[d - 1])
  BY <1>6, <1>n
<1>9. 0 .. n \subseteq {d \in 0 .. n : under[d] \in S}
  <2> DEFINE G == {d \in 0 .. n : under[d] \in S}
  <2>1. 0 \in G
    BY <1>0, <1>8, <1>n
  <2>2. \A k \in 1 .. n : k - 1 \in G => k \in G
    BY <1>8, <1>n, BelowPaths DEF S
  <2> HIDE DEF G
  <2> QED
    BY <2>1, <2>2, <1>n, SetInduction DEF G
<1>10. under \in [0 .. n -> S]
  BY <1>6, <1>9
<1> QED
  BY <1>7, <1>8, <1>10 DEF S, start

\* A path names one command, and one word alone is the command itself.
LEMMA PathsNameOne ==
  ASSUME PlugAssumption, PlCommands, NEW r \in Cmds
  PROVE  \A p \in Paths(r) :
           /\ p.rec \in Cmds /\ (Len(p.path) = 1 => p.rec = r)
           /\ \A q \in Paths(r) : p.path = q.path => p = q
<1>1. PICK h \in [0 .. MaxDepth -> SUBSET PathRec] :
        /\ h[0] = {[path |-> <<pl.recs[r].name>>, rec |-> r]}
        /\ \A d \in 1 .. MaxDepth : h[d] = Below(h[d - 1])
        /\ Paths(r) = UNION {h[d] : d \in 0 .. MaxDepth}
  BY PathsByDepth
<1> DEFINE Good(d) == /\ \A p \in h[d] : Len(p.path) = d + 1
                      /\ \A p, q \in h[d] : p.path = q.path => p = q
           G == {d \in 0 .. MaxDepth : Good(d)}
<1>n. MaxDepth \in Nat
  BY PlugAssumption
<1>2. Good(0)
  BY <1>1
<1>3. ASSUME NEW d \in 1 .. MaxDepth, Good(d - 1) PROVE Good(d)
  <2>1. h[d] = Below(h[d - 1]) /\ h[d - 1] \subseteq PathRec /\ d - 1 \in 0 .. MaxDepth
    BY <1>1, <1>n
  <2>2. \A z \in h[d] : \E p \in h[d - 1] : \E kid \in pl.recs[p.rec].kids :
          z = [path |-> Append(p.path, pl.recs[kid].name), rec |-> kid]
    BY <2>1 DEF Below
  <2>3. ASSUME NEW y \in h[d], NEW z \in h[d]
        PROVE  Len(y.path) = d + 1 /\ (y.path = z.path => y = z)
    <3>1. PICK p \in h[d - 1] : \E kid \in pl.recs[p.rec].kids :
            y = [path |-> Append(p.path, pl.recs[kid].name), rec |-> kid]
      BY <2>2
    <3>2. PICK q \in h[d - 1] : \E kid \in pl.recs[q.rec].kids :
            z = [path |-> Append(q.path, pl.recs[kid].name), rec |-> kid]
      BY <2>2
    <3>a. PICK a \in pl.recs[p.rec].kids :
            y = [path |-> Append(p.path, pl.recs[a].name), rec |-> a]
      BY <3>1
    <3>b. PICK b \in pl.recs[q.rec].kids :
            z = [path |-> Append(q.path, pl.recs[b].name), rec |-> b]
      BY <3>2
    <3>3. p.path \in Seq(CmdNames) /\ q.path \in Seq(CmdNames) /\ p.rec \in Cmds /\ q.rec \in Cmds
      BY <2>1 DEF PathRec
    <3>4. Len(p.path) = d /\ Len(q.path) = d
      BY <1>3
    <3>c. pl.recs[a].name \in CmdNames /\ pl.recs[b].name \in CmdNames
      <4>1. a \in Cmds /\ b \in Cmds
        BY <3>3 DEF PlCommands
      <4>2. pl.recs[a] \in Cmd /\ pl.recs[b] \in Cmd
        BY <4>1 DEF PlCommands, Cmds
      <4> QED
        BY <4>2 DEF Cmd
    <3>5. Len(y.path) = d + 1
      BY <3>a, <3>c, <3>3, <3>4
    <3>6. ASSUME y.path = z.path PROVE y = z
      <4>1. Append(p.path, pl.recs[a].name) = Append(q.path, pl.recs[b].name)
        BY <3>a, <3>b, <3>6
      <4>2. p.path = q.path /\ pl.recs[a].name = pl.recs[b].name
        <5> DEFINE s == p.path
                   t == q.path
                   e == pl.recs[a].name
                   f == pl.recs[b].name
        <5>1. s \in Seq(CmdNames) /\ t \in Seq(CmdNames) /\ e \in CmdNames /\ f \in CmdNames
              /\ Append(s, e) = Append(t, f)
          BY <4>1, <3>3, <3>c
        <5> HIDE DEF s, t, e, f
        <5>2. s = t /\ e = f
          BY <5>1, AppendInjective
        <5> QED
          BY <5>2 DEF s, t, e, f
      <4>3. p = q
        BY <4>2, <1>3
      <4>4. a = b
        BY <4>2, <4>3, <3>3 DEF PlCommands
      <4> QED
        BY <3>a, <3>b, <4>3, <4>4
    <3> QED
      BY <3>5, <3>6
  <2> QED
    BY <2>3
<1>4. 0 .. MaxDepth \subseteq G
  <2>1. 0 \in G /\ \A k \in 1 .. MaxDepth : k - 1 \in G => k \in G
    <3> HIDE DEF Good
    <3> QED
      BY <1>2, <1>3, <1>n
  <2> HIDE DEF G
  <2> QED
    BY <2>1, <1>n, SetInduction
<1>5. \A d \in 0 .. MaxDepth : Good(d)
  BY <1>4
<1> HIDE DEF G
<1> SUFFICES ASSUME NEW p \in Paths(r)
             PROVE  /\ p.rec \in Cmds /\ (Len(p.path) = 1 => p.rec = r)
                    /\ \A q \in Paths(r) : p.path = q.path => p = q
  OBVIOUS
<1>6. PICK d \in 0 .. MaxDepth : p \in h[d]
  BY <1>1
<1>7. p.rec \in Cmds
  BY <1>6 DEF PathRec
<1>8. Len(p.path) = 1 => p.rec = r
  <2>1. Len(p.path) = d + 1
    BY <1>5, <1>6
  <2>2. d = 0 => p.rec = r
    BY <1>1, <1>6
  <2>3. d + 1 = 1 => d = 0
    BY <1>n
  <2> QED
    BY <2>1, <2>2, <2>3, Zenon
<1>9. ASSUME NEW q \in Paths(r), p.path = q.path PROVE p = q
  <2>1. PICK e \in 0 .. MaxDepth : q \in h[e]
    BY <1>1
  <2>2. Len(p.path) = d + 1 /\ Len(q.path) = e + 1
    BY <1>5, <1>6, <2>1
  <2>3. d = e
    BY <1>9, <2>2
  <2> QED
    BY <1>5, <1>6, <1>9, <2>1, <2>3
<1> QED
  BY <1>7, <1>8, <1>9

-----------------------------------------------------------------------------
(* What the steps keep *)

\* Steps that leave the loaded plug-ins alone.
LEMMA PlLoadedKept ==
  ASSUME PlLoaded, UNCHANGED LoadVars,
         pl'.pc \in Loading => pl'.pc = pl.pc /\ pl'.file = pl.file,
         pl.pc \in Loading => pl'.pc = pl.pc, pl.pc # "unloaded", pl'.pc # "unloaded"
  PROVE  PlLoaded'
BY DEF PlLoaded, LoadVars, Named, Loading

\* Steps that leave the commands alone.
LEMMA PlCommandsKept ==
  ASSUME PlCommands, pl'.recs = pl.recs,
         pl'.pc \in Loading => pl.pc \in Loading,
         pl'.pc # "unloaded" => pl.pc # "unloaded" /\ (pl'.open = pl.open \/ pl.pc \in Loading),
         pl'.pc # "script"
  PROVE  PlCommands'
<1>1. Cmds' = Cmds
  BY DEF Cmds
<1>2. pl'.pc # "unloaded" => \A r \in Cmds : pl.recs[r].file \in pl'.open
  <2>1. CASE pl.pc \in Loading
    <3>1. Cmds = {}
      BY <2>1 DEF PlCommands, Cmds
    <3> QED
      BY <3>1
  <2>2. CASE pl.pc \notin Loading
    BY <2>2 DEF PlCommands
  <2> QED
    BY <2>1, <2>2
<1> QED
  BY <1>1, <1>2 DEF PlCommands

\* Steps that leave the root alone.
LEMMA PlRootedKept ==
  ASSUME PlRooted, UNCHANGED RootVars, pl'.recs = pl.recs,
         pl'.pc \in Loading \cup Registering => pl.pc \in Loading \cup Registering,
         pl'.pc # "unloaded"
  PROVE  PlRooted'
<1>1. Cmds' = Cmds
  BY DEF Cmds
<1>2. \A r : Tokens(r)' = Tokens(r)
  BY DEF Tokens
<1> QED
  BY <1>1, <1>2 DEF PlRooted, RootVars

\* Steps while nothing is in the root: commands come, and gain aliases and
\* subcommands.
LEMMA PlRootedGrows ==
  ASSUME PlRooted, pl.pc \in Registering, pl'.pc \in Registering,
         pl'.root = pl.root, pl'.claimed = pl.claimed, pl'.refused = pl.refused,
         Cmds \subseteq Cmds', pl'.server \subseteq Cmds',
         pl'.pend \in Seq(Nat), \A n \in 1 .. Len(pl'.pend) : pl'.pend[n] \in Cmds'
  PROVE  PlRooted'
<1>1. pl.root = {} /\ pl.refused = {}
  BY DEF PlRooted, Registering, Loading
<1> QED
  BY <1>1 DEF PlRooted

\* Steps before the server has a table.
LEMMA PlServedKept ==
  ASSUME PlServed, pl'.rpc = pl.rpc, pl.pc \notin {"serve", "up"}
  PROVE  PlServed'
<1>1. pl'.rpc = {}
  BY DEF PlServed
<1> QED
  BY <1>1 DEF PlServed

\* A field of the state, whatever is written.
LEMMA PlShapeKept ==
  ASSUME PlShape, NEW x, x = [f \in PlFields |-> x[f]], pl' = x,
         x.step \in Nat \ {0}, x.turn \in Nat \ {0}, x.base \in Nat, x.snap \in Nat,
         x.pc \in Loading \cup Registering \cup {"commit", "serve", "up", "unloaded"}
  PROVE  PlShape'
BY DEF PlShape

\* Vetting the directory and scanning it load nothing yet.
LEMMA PlScanKept ==
  ASSUME PlInv, load_plugins \/ Scanned
  PROVE  PlInv'
<1>1. /\ pl.pc \in {"dir", "scan"} /\ pl'.pc \in {"scan", "register"}
      /\ pl'.left \subseteq Files /\ (pl'.left # {} => pl.pc = "dir" \/ pl'.left = pl.left)
      /\ pl'.pc = "scan" => pl.pc = "dir"
      /\ PlShape'
      /\ UNCHANGED <<pl.open, pl.provs, pl.loaded, pl.snap, pl.file, pl.recs, pl.rpc>>
      /\ UNCHANGED RootVars
  <2>1. CASE load_plugins
    <3>1. PICK dir \in PlugDirs, files \in SUBSET Files :
            pl' = IF validate_plugins_directory(dir)
                  THEN [pl EXCEPT !.pc = "scan", !.present = files, !.left = files, !.diruid = dir.owner]
                  ELSE [pl EXCEPT !.pc = "register", !.present = files]
      BY <2>1 DEF load_plugins, Files
    <3>2. pl.pc = "dir" /\ pl.left \subseteq Files
      BY <2>1 DEF load_plugins, PlInv, PlLoaded
    <3>3. CASE pl' = [pl EXCEPT !.pc = "scan", !.present = files, !.left = files, !.diruid = dir.owner]
      BY <3>2, <3>3 DEF PlInv, PlShape, PlFields, RootVars, Loading, Registering
    <3>4. CASE pl' = [pl EXCEPT !.pc = "register", !.present = files]
      BY <3>2, <3>4 DEF PlInv, PlShape, PlFields, RootVars, Loading, Registering
    <3> QED
      BY <3>1, <3>3, <3>4
  <2>2. CASE Scanned
    BY <2>2 DEF Scanned, PlInv, PlShape, PlLoaded, PlFields, RootVars, Loading, Registering
  <2> QED
    BY <2>1, <2>2
<1>2. PlLoaded'
  BY <1>1 DEF PlInv, PlLoaded, Named, Loading
<1>3. PlCommands'
  BY <1>1, PlCommandsKept DEF PlInv, Loading
<1>4. PlRooted' /\ PlServed'
  BY <1>1, PlRootedKept, PlServedKept DEF PlInv, Loading, Registering
<1> QED
  BY <1>1, <1>2, <1>3, <1>4 DEF PlInv

\* A file that is opened is asked to register itself (load_plugin_file).
LEMMA PlOpenKept ==
  ASSUME PlInv, load_plugin_file
  PROVE  PlInv'
<1>0. pl.pc = "scan" /\ PlShape
  BY DEF load_plugin_file, PlInv
<1>1. PICK f \in pl.left :
        \/ pl' = [pl EXCEPT !.pc = "enter", !.left = @ \ {f}, !.file = f, !.step = 1,
                     !.open = @ \cup {f}, !.display = NoDisplay, !.pending = FALSE,
                     !.rejected = FALSE, !.snap = Len(pl.provs)]
        \/ pl' = [pl EXCEPT !.left = @ \ {f}]
  BY Zenon DEF load_plugin_file
<1>2. f \in Files /\ f \notin Named /\ pl.open = Named /\ pl.provs \in Seq(Files)
  BY <1>0 DEF PlInv, PlLoaded, Loading
<1>3. CASE pl' = [pl EXCEPT !.left = @ \ {f}]
  <2>1. /\ PlShape' /\ pl'.left = pl.left \ {f} /\ pl'.pc = "scan"
        /\ UNCHANGED <<pl.open, pl.provs, pl.loaded, pl.snap, pl.file, pl.recs, pl.rpc>>
        /\ UNCHANGED RootVars
    BY <1>0, <1>3 DEF PlShape, PlFields, RootVars
  <2>2. PlLoaded'
    BY <1>0, <2>1 DEF PlInv, PlLoaded, Named, Loading
  <2> QED
    BY <1>0, <2>1, <2>2, PlCommandsKept, PlRootedKept, PlServedKept DEF PlInv, Loading, Registering
<1>4. CASE pl' = [pl EXCEPT !.pc = "enter", !.left = @ \ {f}, !.file = f, !.step = 1,
                     !.open = @ \cup {f}, !.display = NoDisplay, !.pending = FALSE,
                     !.rejected = FALSE, !.snap = Len(pl.provs)]
  <2> DEFINE n == Len(pl.provs)
  <2>n. n \in Nat
    BY <1>2
  <2>1. /\ pl'.pc = "enter" /\ pl'.left = pl.left \ {f} /\ pl'.file = f /\ pl'.step = 1
        /\ pl'.open = pl.open \cup {f} /\ pl'.snap = n
        /\ UNCHANGED <<pl.provs, pl.loaded, pl.recs, pl.rpc, pl.turn, pl.base>>
        /\ UNCHANGED RootVars
    BY <1>0, <1>4 DEF PlShape, PlFields, RootVars
  <2>2. PlShape'
    <3>1. pl' = [x \in PlFields |-> pl'[x]]
      BY <1>0, <1>4 DEF PlShape
    <3> QED
      BY <1>0, <2>1, <2>n, <3>1 DEF PlShape, Loading
  <2>3. PlLoaded'
    <3>1. Named' = Named
      BY <2>1 DEF Named
    <3>2. pl'.left \subseteq Files /\ pl'.left \cap Named = {} /\ f \notin pl'.left
      BY <1>0, <2>1 DEF PlInv, PlLoaded, Loading
    <3>3. \A k \in 1 .. Len(pl.provs) : pl.provs[k] \in Named
      BY <1>2 DEF PlInv, PlLoaded
    <3> QED
      BY <1>2, <2>1, <2>n, <3>1, <3>2, <3>3 DEF PlLoaded, Loading
  <2> QED
    BY <1>0, <2>1, <2>2, <2>3, PlCommandsKept, PlRootedKept, PlServedKept
    DEF PlInv, Loading, Registering
<1> QED
  BY <1>1, <1>3, <1>4

\* What a plug-in says of itself, and the providers it registers.
LEMMA PlEnterKept ==
  ASSUME PlInv, register_plugin_metadata \/ register_command_provider
  PROVE  PlInv'
<1>0. /\ pl.pc = "enter" /\ PlShape /\ pl.file \in Files /\ pl.open = Named \cup {pl.file}
      /\ pl.provs \in Seq(Files) /\ pl.step + 1 \in Nat \ {0}
  BY DEF register_plugin_metadata, register_command_provider, Entering, PlInv, PlLoaded, PlShape
<1>1. /\ PlShape' /\ pl'.pc = "enter"
      /\ pl'.provs \in {pl.provs, Append(pl.provs, pl.file)}
      /\ UNCHANGED <<pl.left, pl.open, pl.loaded, pl.snap, pl.file, pl.recs, pl.rpc>>
      /\ UNCHANGED RootVars
  <2> DEFINE n == pl.step + 1
  <2>n. n \in Nat \ {0}
    BY <1>0
  <2>1. CASE register_plugin_metadata
    <3>1. \/ pl' = [pl EXCEPT !.step = n]
          \/ pl' = [pl EXCEPT !.step = n, !.rejected = TRUE, !.pending = FALSE, !.display = NoDisplay]
          \/ pl' = [pl EXCEPT !.step = n, !.pending = TRUE, !.display = EnterCall.display]
      BY <2>1, Zenon DEF register_plugin_metadata
    <3> HIDE DEF n
    <3> DEFINE d == EnterCall.display
    <3>2. CASE pl' = [pl EXCEPT !.step = n]
      BY <1>0, <2>n, <3>2 DEF PlShape, PlFields, RootVars, Loading
    <3>3. CASE pl' = [pl EXCEPT !.step = n, !.rejected = TRUE, !.pending = FALSE,
                                !.display = NoDisplay]
      BY <1>0, <2>n, <3>3 DEF PlShape, PlFields, RootVars, Loading
    <3>4. CASE pl' = [pl EXCEPT !.step = n, !.pending = TRUE, !.display = d]
      <4> HIDE DEF d
      <4> QED
        BY <1>0, <2>n, <3>4 DEF PlShape, PlFields, RootVars, Loading
    <3> QED
      BY <3>1, <3>2, <3>3, <3>4
  <2>2. CASE register_command_provider
    <3> DEFINE ps == IF pl.rejected THEN pl.provs ELSE Append(pl.provs, pl.file)
    <3>1. pl' = [pl EXCEPT !.step = n, !.provs = ps]
      BY <2>2 DEF register_command_provider
    <3>2. ps \in {pl.provs, Append(pl.provs, pl.file)}
      OBVIOUS
    <3> HIDE DEF n, ps
    <3> QED
      BY <1>0, <2>n, <3>1, <3>2 DEF PlShape, PlFields, RootVars, Loading
  <2> QED
    BY <2>1, <2>2
<1>2. PlLoaded'
  <2>1. Named' = Named
    BY <1>1 DEF Named
  <2>2. /\ pl'.provs \in Seq(Files) /\ Len(pl'.provs) \in Nat /\ Len(pl'.provs) >= Len(pl.provs)
        /\ \A k \in 1 .. Len(pl.provs) : pl'.provs[k] = pl.provs[k]
        /\ \A k \in 1 .. Len(pl'.provs) : k \in 1 .. Len(pl.provs) \/ pl'.provs[k] = pl.file
    <3> DEFINE s == pl.provs
               t == pl'.provs
               f == pl.file
    <3>1. s \in Seq(Files) /\ f \in Files /\ t \in {s, Append(s, f)}
      BY <1>0, <1>1
    <3> HIDE DEF s, t, f
    <3>2. CASE t = s
      BY <3>1, <3>2 DEF s, t, f
    <3>3. CASE t = Append(s, f)
      <4>1. /\ t \in Seq(Files) /\ Len(t) = Len(s) + 1 /\ Len(s) \in Nat
            /\ \A k \in 1 .. Len(s) : t[k] = s[k]
            /\ t[Len(s) + 1] = f
        BY <3>1, <3>3
      <4> QED
        BY <4>1 DEF s, t, f
    <3> QED
      BY <3>1, <3>2, <3>3
  <2>3. pl.snap <= Len(pl.provs) /\ pl.snap \in Nat /\ Len(pl.provs) \in Nat
    BY <1>0 DEF PlInv, PlLoaded, PlShape
  <2>4. \A k \in 1 .. pl.snap : k \in 1 .. Len(pl.provs)
    BY <2>3
  <2>5. pl'.snap <= Len(pl'.provs)
    BY <1>1, <2>2, <2>3
  <2> QED
    BY <1>0, <1>1, <2>1, <2>2, <2>4, <2>5 DEF PlInv, PlLoaded, Loading
<1> QED
  BY <1>0, <1>1, <1>2, PlCommandsKept, PlRootedKept, PlServedKept DEF PlInv, Loading, Registering

\* A rejected plug-in's providers go before its code (record_loaded_plugin).
LEMMA PlRecordKept ==
  ASSUME PlInv, record_loaded_plugin
  PROVE  PlInv'
<1>0. /\ pl.pc = "enter" /\ PlShape /\ pl.file \in Files /\ pl.open = Named \cup {pl.file}
      /\ pl.file \notin Named \cup pl.left /\ pl.left \cap Named = {}
      /\ pl.provs \in Seq(Files) /\ pl.snap \in Nat /\ pl.snap <= Len(pl.provs)
      /\ Len(pl.provs) \in Nat
  <2>1. pl.pc = "enter" /\ PlShape /\ PlLoaded
    BY DEF record_loaded_plugin, PlInv
  <2>2. pl.snap \in Nat
    BY <2>1 DEF PlShape
  <2> QED
    BY <2>1, <2>2 DEF PlLoaded, Loading
<1>1. CASE pl' = [pl EXCEPT !.pc = "scan", !.provs = discard_command_providers_from(pl.snap),
                            !.open = @ \ {pl.file}]
  <2> DEFINE ps == discard_command_providers_from(pl.snap)
  <2>1. ps \in Seq(Files) /\ Len(ps) = pl.snap /\ \A k \in 1 .. pl.snap : ps[k] = pl.provs[k]
    BY <1>0 DEF discard_command_providers_from
  <2> HIDE DEF ps
  <2>2. pl' = [pl EXCEPT !.pc = "scan", !.provs = ps, !.open = @ \ {pl.file}]
    BY <1>1 DEF ps
  <2>3. /\ PlShape' /\ pl'.pc = "scan" /\ pl'.provs = ps /\ pl'.open = Named
        /\ UNCHANGED <<pl.left, pl.loaded, pl.snap, pl.file, pl.recs, pl.rpc>>
        /\ UNCHANGED RootVars
    <3>1. /\ pl'.pc = "scan" /\ pl'.provs = ps /\ pl'.open = Named
          /\ pl'.step = pl.step /\ pl'.turn = pl.turn /\ pl'.base = pl.base
          /\ UNCHANGED <<pl.left, pl.loaded, pl.snap, pl.file, pl.recs, pl.rpc>>
          /\ UNCHANGED RootVars
      BY <1>0, <2>2 DEF PlShape, PlFields, RootVars
    <3>2. pl' = [x \in PlFields |-> pl'[x]]
      BY <1>0, <2>2 DEF PlShape
    <3>3. PlShape'
      BY <1>0, <3>1, <3>2 DEF PlShape, Loading
    <3> QED
      BY <3>1, <3>3
  <2>4. PlLoaded'
    <3>1. Named' = Named
      BY <2>3 DEF Named
    <3> QED
      BY <1>0, <2>1, <2>3, <3>1 DEF PlInv, PlLoaded, Loading
  <2> QED
    BY <1>0, <2>3, <2>4, PlCommandsKept, PlRootedKept, PlServedKept DEF PlInv, Loading, Registering
<1>2. CASE pl' = [pl EXCEPT !.pc = "scan", !.pending = FALSE, !.display = NoDisplay,
                   !.loaded = @ \cup {[display |-> IF pl.pending THEN pl.display ELSE pl.file,
                                       file |-> pl.file]}]
  <2> DEFINE new == [display |-> IF pl.pending THEN pl.display ELSE pl.file, file |-> pl.file]
  <2>1. new.file = pl.file
    OBVIOUS
  <2> HIDE DEF new
  <2>2. pl' = [pl EXCEPT !.pc = "scan", !.pending = FALSE, !.display = NoDisplay,
                         !.loaded = @ \cup {new}]
    BY <1>2 DEF new
  <2>3. /\ PlShape' /\ pl'.pc = "scan" /\ pl'.loaded = pl.loaded \cup {new}
        /\ UNCHANGED <<pl.left, pl.open, pl.provs, pl.snap, pl.file, pl.recs, pl.rpc>>
        /\ UNCHANGED RootVars
    BY <1>0, <2>2 DEF PlShape, PlFields, RootVars, Loading
  <2>4. PlLoaded'
    <3>1. Named' = Named \cup {pl.file}
      BY <2>1, <2>3 DEF Named
    <3> QED
      BY <1>0, <2>3, <3>1 DEF PlInv, PlLoaded, Loading
  <2> QED
    BY <1>0, <2>3, <2>4, PlCommandsKept, PlRootedKept, PlServedKept DEF PlInv, Loading, Registering
<1> QED
  BY <1>1, <1>2, Zenon DEF record_loaded_plugin

-----------------------------------------------------------------------------
(* The scripts of the providers                                            *)

\* Each creating call of a script adds one command.
LEMMA CreatedSteps ==
  ASSUME NEW s, NEW n \in Nat \ {0}
  PROVE  /\ Created(s, 1) = 0 /\ Created(s, n) \in Nat
         /\ Created(s, n + 1) = IF s[n].op = "create" THEN Created(s, n) + 1 ELSE Created(s, n)
<1> DEFINE made(m) == {k \in 1 .. m : s[k].op = "create"}
<1>1. Created(s, 1) = 0
  <2>1. {m \in 1 .. 1 - 1 : s[m].op = "create"} = {}
    OBVIOUS
  <2> QED
    BY <2>1, FS_EmptySet DEF Created
<1>2. IsFiniteSet(made(n - 1)) /\ Cardinality(made(n - 1)) \in Nat
  <2>1. IsFiniteSet(1 .. n - 1) /\ made(n - 1) \subseteq 1 .. n - 1
    BY FS_Interval
  <2> QED
    BY <2>1, FS_Subset, FS_CardinalityType
<1>3. made(n) = IF s[n].op = "create" THEN made(n - 1) \cup {n} ELSE made(n - 1)
  <2>1. 1 .. n = (1 .. n - 1) \cup {n}
    OBVIOUS
  <2> QED
    BY <2>1
<1>4. n \notin made(n - 1)
  OBVIOUS
<1>5. Created(s, n) = Cardinality(made(n - 1)) /\ Created(s, n + 1) = Cardinality(made(n))
  <2>1. (n + 1) - 1 = n
    OBVIOUS
  <2> QED
    BY <2>1, Zenon DEF Created
<1> HIDE DEF made
<1>6. Cardinality(made(n - 1) \cup {n}) = Cardinality(made(n - 1)) + 1
  BY <1>2, <1>4, FS_AddElement
<1> QED
  BY <1>1, <1>2, <1>3, <1>5, <1>6

\* The provider whose turn it is, and the end of its script.
LEMMA PlTurnKept ==
  ASSUME PlInv, NextProvider \/ ProviderDone
  PROVE  PlInv'
<1>0. pl.pc \in {"register", "script"} /\ PlShape
  BY DEF NextProvider, ProviderDone, PlInv
<1>1. CASE pl' = [pl EXCEPT !.pc = "commit"] \/ pl' = [pl EXCEPT !.pc = "register"]
  <2>1. /\ PlShape' /\ pl'.pc \in {"commit", "register"}
        /\ UNCHANGED <<pl.left, pl.open, pl.provs, pl.loaded, pl.snap, pl.file, pl.recs, pl.rpc>>
        /\ UNCHANGED RootVars
    BY <1>0, <1>1 DEF PlShape, PlFields, RootVars, Loading, Registering
  <2>2. PlLoaded'
    BY <1>0, <2>1, PlLoadedKept DEF PlInv, LoadVars, Loading
  <2> QED
    BY <1>0, <2>1, <2>2, PlCommandsKept, PlRootedKept, PlServedKept DEF PlInv, Loading, Registering
<1>2. CASE /\ pl.pc = "register" /\ pl.turn <= Len(pl.provs)
           /\ pl' = [pl EXCEPT !.pc = "script", !.file = pl.provs[pl.turn], !.turn = @ + 1,
                               !.step = 1, !.base = Len(pl.recs)]
  <2> DEFINE f == pl.provs[pl.turn]
             n == pl.turn + 1
             b == Len(pl.recs)
  <2>1. f \in Files /\ f \in pl.open
    <3>1. pl.provs \in Seq(Files) /\ pl.turn \in 1 .. Len(pl.provs)
      BY <1>0, <1>2 DEF PlInv, PlLoaded, PlShape
    <3> QED
      BY <3>1 DEF PlInv, PlLoaded
  <2>2. n \in Nat \ {0} /\ b \in Nat
    BY <1>0 DEF PlInv, PlShape, PlCommands
  <2> HIDE DEF f, n, b
  <2>3. pl' = [pl EXCEPT !.pc = "script", !.file = f, !.turn = n, !.step = 1, !.base = b]
    BY <1>2 DEF f, n, b
  <2>4. /\ PlShape' /\ pl'.pc = "script" /\ pl'.file = f /\ pl'.step = 1 /\ pl'.base = b
        /\ UNCHANGED <<pl.left, pl.open, pl.provs, pl.loaded, pl.snap, pl.recs, pl.rpc>>
        /\ UNCHANGED RootVars
    <3>1. /\ pl'.pc = "script" /\ pl'.file = f /\ pl'.step = 1 /\ pl'.base = b /\ pl'.turn = n
          /\ UNCHANGED <<pl.left, pl.open, pl.provs, pl.loaded, pl.snap, pl.recs, pl.rpc>>
          /\ UNCHANGED RootVars
      BY <1>0, <2>3 DEF PlShape, PlFields, RootVars
    <3>2. pl' = [x \in PlFields |-> pl'[x]]
      BY <1>0, <2>3 DEF PlShape
    <3>3. PlShape'
      BY <1>0, <2>2, <3>1, <3>2 DEF PlShape, Registering
    <3> QED
      BY <3>1, <3>3
  <2>5. PlLoaded'
    BY <1>2, <2>4, PlLoadedKept DEF PlInv, LoadVars, Loading
  <2>6. PlCommands'
    <3>1. Created(PlugFiles[f].script, 1) = 0
      BY CreatedSteps
    <3>2. Len(pl'.recs) = pl'.base + Created(PlugFiles[pl'.file].script, pl'.step)
      BY <2>2, <2>4, <3>1 DEF b
    <3>3. Cmds' = Cmds
      BY <2>4 DEF Cmds
    <3> QED
      BY <1>2, <2>1, <2>4, <3>2, <3>3 DEF PlInv, PlCommands, Loading
  <2> QED
    BY <1>2, <2>4, <2>5, <2>6, PlRootedKept, PlServedKept DEF PlInv, Loading, Registering
<1>3. CASE NextProvider /\ ~(pl.turn > Len(pl.provs))
  <2>1. pl.turn <= Len(pl.provs)
    BY <1>0, <1>3 DEF PlInv, PlShape, PlLoaded
  <2> QED
    BY <1>2, <1>3, <2>1 DEF NextProvider
<1> QED
  BY <1>1, <1>3 DEF NextProvider, ProviderDone

(* What a call of a script may do: the script moves on or is aborted, the  *)
(* commands it knew stay where they are, and what it hands over exists.    *)
ScriptStep(recs) ==
  /\ PlShape' /\ pl'.recs = recs
  /\ UNCHANGED LoadVars /\ UNCHANGED <<pl.rpc, pl.root, pl.claimed, pl.refused>>
  /\ \/ pl'.pc = "aborted"
     \/ pl'.pc = "script" /\ pl'.step = pl.step + 1 /\ pl'.file = pl.file /\ pl'.base = pl.base

\* One more command keeps those there are.
LEMMA OneMore ==
  ASSUME NEW a \in Nat, NEW b \in {a, a + 1}
  PROVE  1 .. a \subseteq 1 .. b
OBVIOUS

\* A call that keeps commands well formed keeps the rest.
LEMMA PlScriptKept ==
  ASSUME PlInv, Scripting, NEW recs \in Seq(Cmd), ScriptStep(recs),
         \/ Call.op = "create" /\ Len(recs) = Len(pl.recs) + 1
         \/ Call.op # "create" /\ Len(recs) = Len(pl.recs),
         \A r \in 1 .. Len(recs) : /\ recs[r].kids \subseteq 1 .. Len(recs)
                                   /\ recs[r].file \in pl.open,
         \A r \in 1 .. Len(recs) : \A a, b \in recs[r].kids : recs[a].name = recs[b].name => a = b,
         pl'.server \subseteq 1 .. Len(recs),
         pl'.pend \in Seq(Nat), \A n \in 1 .. Len(pl'.pend) : pl'.pend[n] \in 1 .. Len(recs)
  PROVE  PlInv'
<1>0. pl.pc = "script" /\ PlShape
  BY DEF Scripting, PlInv
<1>1. PlShape' /\ PlLoaded'
  BY <1>0, PlLoadedKept DEF ScriptStep, PlInv, Loading
<1>2. Cmds' = 1 .. Len(recs) /\ Cmds \subseteq Cmds'
  <2>1. Len(pl.recs) \in Nat
    BY DEF PlInv, PlCommands
  <2>2. Cmds' = 1 .. Len(recs)
    BY DEF ScriptStep, Cmds
  <2>3. Len(recs) \in {Len(pl.recs), Len(pl.recs) + 1}
    BY Zenon
  <2>4. 1 .. Len(pl.recs) \subseteq 1 .. Len(recs)
    BY <2>1, <2>3, OneMore
  <2> QED
    BY <2>2, <2>4 DEF Cmds
<1>3. PlCommands'
  <2>1. pl'.pc = "script" =>
          Len(pl'.recs) = pl'.base + Created(PlugFiles[pl'.file].script, pl'.step)
    <3> SUFFICES ASSUME pl'.pc = "script"
                 PROVE  Len(pl'.recs) = pl'.base + Created(PlugFiles[pl'.file].script, pl'.step)
      OBVIOUS
    <3> DEFINE sc == PlugFiles[pl.file].script
    <3>1. /\ pl'.step = pl.step + 1 /\ pl'.file = pl.file /\ pl'.base = pl.base /\ pl'.recs = recs
      BY DEF ScriptStep
    <3>2. /\ Created(sc, pl.step) \in Nat
          /\ Created(sc, pl.step + 1)
               = IF sc[pl.step].op = "create" THEN Created(sc, pl.step) + 1 ELSE Created(sc, pl.step)
      BY <1>0, CreatedSteps DEF PlShape
    <3>3. Len(pl.recs) = pl.base + Created(sc, pl.step) /\ pl.base \in Nat
      BY <1>0 DEF PlInv, PlCommands, PlShape
    <3>4. Call = sc[pl.step]
      BY DEF Call
    <3>5. Len(recs) = pl.base + Created(sc, pl.step + 1)
      <4> HIDE DEF sc
      <4> QED
        BY <3>2, <3>3, <3>4
    <3> QED
      BY <3>1, <3>5
  <2>2. pl'.recs = recs /\ pl'.open = pl.open /\ pl'.pc \in {"script", "aborted"}
        /\ (pl'.pc = "script" => pl'.file = pl.file)
    BY DEF ScriptStep, LoadVars
  <2>3. pl.file \in Files /\ pl.file \in pl.open
    BY <1>0 DEF PlInv, PlCommands
  <2> QED
    BY <1>2, <2>1, <2>2, <2>3 DEF PlCommands, Loading
<1>4. PlRooted'
  BY <1>0, <1>2, PlRootedGrows DEF ScriptStep, PlInv, Registering
<1>5. PlServed'
  BY <1>0, PlServedKept DEF ScriptStep, PlInv
<1> QED
  BY <1>1, <1>3, <1>4, <1>5 DEF PlInv

\* A script's call refers to commands its provider has created.
LEMMA HandlesExist ==
  ASSUME PlugAssumption, PlInv, Scripting
  PROVE  /\ pl.file \in Files /\ pl.step \in Nat /\ pl.file \in pl.open
         /\ Call.op \in {"alias", "sub", "server"} => At(Call.k) \in Cmds
         /\ Call.op = "sub" /\ Call.parent # 0 => At(Call.parent) \in Cmds
<1> DEFINE s == PlugFiles[pl.file].script
           c == Created(s, pl.step)
<1>1. pl.pc = "script" /\ pl.step <= Len(s)
  BY DEF Scripting
<1>2. /\ pl.file \in Files /\ pl.file \in pl.open /\ pl.step \in Nat \ {0} /\ pl.base \in Nat
      /\ Len(pl.recs) = pl.base + c
  BY <1>1 DEF PlInv, PlShape, PlCommands
<1>3. pl.step \in 1 .. Len(s)
  BY <1>1, <1>2
<1>4. /\ s[pl.step].op \in {"alias", "sub", "server"} => s[pl.step].k \in 1 .. c
      /\ s[pl.step].op = "sub" => s[pl.step].parent \in 0 .. c
  BY <1>2, <1>3 DEF PlugAssumption, Files
<1>5. c \in Nat
  BY <1>2, CreatedSteps
<1> HIDE DEF c
<1>6. \A k \in 1 .. c : pl.base + k \in 1 .. Len(pl.recs)
  BY <1>2, <1>5
<1>7. Call = s[pl.step]
  BY DEF Call
<1> HIDE DEF s
<1>8. Call.op = "sub" /\ Call.parent # 0 => Call.parent \in 1 .. c
  BY <1>4, <1>5, <1>7
<1> QED
  BY <1>2, <1>4, <1>6, <1>7, <1>8 DEF At, Cmds

\* A new command (create_command).
LEMMA PlCreateKept ==
  ASSUME PlugAssumption, PlInv, create_command
  PROVE  PlInv'
<1>0. Scripting /\ Call.op = "create" /\ pl.pc = "script" /\ PlShape
  BY DEF create_command, Scripting, PlInv
<1> DEFINE n == pl.step + 1
           c == Rec(Call.name, pl.file)
           recs == Append(pl.recs, c)
<1>1. c \in Cmd /\ c.kids = {} /\ c.file \in pl.open
  <2>1. pl.file \in Files /\ pl.step \in Nat /\ pl.file \in pl.open
    BY <1>0, HandlesExist
  <2>2. Call.name \in CmdNames
    BY <2>1 DEF Call, CmdNames
  <2> QED
    BY <2>1, <2>2 DEF Rec, Cmd
<1>2. /\ pl.recs \in Seq(Cmd) /\ \A r \in Cmds : pl.recs[r].kids \subseteq Cmds
      /\ \A r \in Cmds : \A a, b \in pl.recs[r].kids : pl.recs[a].name = pl.recs[b].name => a = b
      /\ \A r \in Cmds : pl.recs[r].file \in pl.open
  BY <1>0 DEF PlInv, PlCommands
<1> HIDE DEF c
<1>3. /\ recs \in Seq(Cmd) /\ Len(recs) = Len(pl.recs) + 1 /\ Len(pl.recs) \in Nat
      /\ \A r \in Cmds : recs[r] = pl.recs[r]
      /\ recs[Len(pl.recs) + 1] = c
      /\ Cmds \subseteq 1 .. Len(recs)
      /\ \A r \in 1 .. Len(recs) : r \in Cmds \/ r = Len(pl.recs) + 1
  BY <1>1, <1>2 DEF Cmds
<1>4. pl' = [pl EXCEPT !.step = n, !.recs = recs]
  BY DEF create_command, c
<1>5. n \in Nat \ {0}
  BY <1>0 DEF PlShape
<1> HIDE DEF n, recs
<1>6. ScriptStep(recs) /\ pl'.server = pl.server /\ pl'.pend = pl.pend
  BY <1>0, <1>4, <1>5 DEF ScriptStep, PlShape, PlFields, LoadVars, Registering, n
<1>7. \A r \in 1 .. Len(recs) : recs[r].kids \subseteq Cmds /\ recs[r].file \in pl.open
  BY <1>1, <1>2, <1>3
<1>8. \A r \in 1 .. Len(recs) : \A a, b \in recs[r].kids : recs[a].name = recs[b].name => a = b
  <2> SUFFICES ASSUME NEW r \in 1 .. Len(recs), NEW a \in recs[r].kids, NEW b \in recs[r].kids,
                      recs[a].name = recs[b].name
               PROVE  a = b
    OBVIOUS
  <2>1. r \in Cmds /\ recs[r] = pl.recs[r]
    BY <1>1, <1>3
  <2>2. a \in Cmds /\ b \in Cmds
    BY <1>7
  <2> QED
    BY <1>2, <1>3, <2>1, <2>2
<1>9. /\ pl'.server \subseteq Cmds /\ pl'.pend \in Seq(Nat)
      /\ \A k \in 1 .. Len(pl'.pend) : pl'.pend[k] \in Cmds
  BY <1>6 DEF PlInv, PlRooted
<1> QED
  BY <1>0, <1>3, <1>6, <1>7, <1>8, <1>9, PlScriptKept

\* A command of the script with other aliases or subcommands.
LEMMA PlChangedCommand ==
  ASSUME PlInv, Scripting, Call.op # "create", NEW i \in Cmds, NEW c \in Cmd,
         c.name = pl.recs[i].name, c.file = pl.recs[i].file, c.kids \subseteq Cmds,
         \A a, b \in c.kids : pl.recs[a].name = pl.recs[b].name => a = b,
         ScriptStep([pl.recs EXCEPT ![i] = c]), pl'.server = pl.server, pl'.pend = pl.pend
  PROVE  PlInv'
<1> DEFINE recs == [pl.recs EXCEPT ![i] = c]
<1>1. /\ pl.recs \in Seq(Cmd) /\ \A r \in Cmds : pl.recs[r].kids \subseteq Cmds
      /\ \A r \in Cmds : \A a, b \in pl.recs[r].kids : pl.recs[a].name = pl.recs[b].name => a = b
      /\ \A r \in Cmds : pl.recs[r].file \in pl.open
  BY DEF PlInv, PlCommands, Scripting
<1>2. recs \in Seq(Cmd) /\ Len(recs) = Len(pl.recs)
  BY <1>1, ExceptSeq DEF Cmds
<1>3. \A r \in Cmds : recs[r] = IF r = i THEN c ELSE pl.recs[r]
  BY <1>1 DEF Cmds
<1>4. ScriptStep(recs) /\ 1 .. Len(recs) = Cmds
  BY <1>2 DEF Cmds
<1> HIDE DEF recs
<1>5. \A r \in Cmds : recs[r].kids \subseteq Cmds /\ recs[r].file \in pl.open
  BY <1>1, <1>3
<1>6. \A r \in Cmds : recs[r].name = pl.recs[r].name
  BY <1>3
<1>7. \A r \in Cmds : \A a, b \in recs[r].kids : recs[a].name = recs[b].name => a = b
  <2> SUFFICES ASSUME NEW r \in Cmds, NEW a \in recs[r].kids, NEW b \in recs[r].kids,
                      recs[a].name = recs[b].name
               PROVE  a = b
    OBVIOUS
  <2>1. a \in Cmds /\ b \in Cmds
    BY <1>5
  <2>2. pl.recs[a].name = pl.recs[b].name
    BY <1>6, <2>1
  <2> QED
    BY <1>1, <1>3, <2>2
<1>8. /\ pl'.server \subseteq Cmds /\ pl'.pend \in Seq(Nat)
      /\ \A k \in 1 .. Len(pl'.pend) : pl'.pend[k] \in Cmds
  BY DEF PlInv, PlRooted
<1> QED
  BY <1>2, <1>4, <1>5, <1>7, <1>8, PlScriptKept

\* An alias is added, or the whole program is aborted (add_alias).
LEMMA PlAliasKept ==
  ASSUME PlugAssumption, PlInv, add_alias
  PROVE  PlInv'
<1>0. Scripting /\ Call.op = "alias" /\ pl.pc = "script" /\ PlShape
  BY DEF add_alias, Scripting, PlInv
<1> DEFINE n == pl.step + 1
           i == At(Call.k)
           c == [pl.recs[i] EXCEPT !.aliases = @ \cup {Call.token}]
           recs == [pl.recs EXCEPT ![i] = c]
<1>n. n \in Nat \ {0}
  BY <1>0 DEF PlShape
<1>1. i \in Cmds /\ pl.file \in Files /\ pl.step \in Nat
  BY <1>0, HandlesExist
<1>2. pl.recs \in Seq(Cmd) /\ pl.recs[i] \in Cmd
  BY <1>1 DEF PlInv, PlCommands, Cmds
<1>3. /\ c \in Cmd /\ c.name = pl.recs[i].name /\ c.file = pl.recs[i].file
      /\ c.kids = pl.recs[i].kids
  <2> DEFINE x == pl.recs[i]
             t == Call.token
  <2>1. t \in CmdTokens
    <3>1. t = PlugFiles[pl.file].script[pl.step].token
      BY DEF Call
    <3>2. \A f \in Files, m \in Nat : PlugFiles[f].script[m].token \in CmdTokens
      BY DEF CmdTokens
    <3> QED
      BY <1>1, <3>1, <3>2, Zenon
  <2>2. x \in Cmd
    BY <1>2
  <2> HIDE DEF x, t
  <2>3. c = [x EXCEPT !.aliases = x.aliases \cup {t}]
    BY DEF x, t
  <2>4. x.aliases \cup {t} \in SUBSET CmdTokens
    BY <2>1, <2>2 DEF Cmd
  <2> DEFINE as == x.aliases \cup {t}
             y == [x EXCEPT !.aliases = as]
  <2> HIDE DEF as
  <2>5. y \in Cmd /\ y.name = x.name /\ y.file = x.file /\ y.kids = x.kids
    BY <2>2, <2>4 DEF Cmd, as
  <2>6. c = y
    BY <2>3 DEF as
  <2> QED
    BY <2>5, <2>6 DEF x
<1>4. /\ c.kids \subseteq Cmds
      /\ \A a, b \in c.kids : pl.recs[a].name = pl.recs[b].name => a = b
  BY <1>1, <1>3 DEF PlInv, PlCommands
<1>5. CASE pl' = [pl EXCEPT !.pc = "aborted", !.aborted = TRUE]
  <2>1. ScriptStep(pl.recs) /\ pl'.server = pl.server /\ pl'.pend = pl.pend
    BY <1>0, <1>5 DEF ScriptStep, PlShape, PlFields, LoadVars, Registering
  <2>2. /\ \A r \in Cmds : pl.recs[r].kids \subseteq Cmds /\ pl.recs[r].file \in pl.open
        /\ \A r \in Cmds : \A a, b \in pl.recs[r].kids : pl.recs[a].name = pl.recs[b].name => a = b
    BY <1>0 DEF PlInv, PlCommands
  <2>3. /\ pl'.server \subseteq Cmds /\ pl'.pend \in Seq(Nat)
        /\ \A k \in 1 .. Len(pl'.pend) : pl'.pend[k] \in Cmds
    BY <2>1 DEF PlInv, PlRooted
  <2> QED
    BY <1>0, <1>2, <2>1, <2>2, <2>3, PlScriptKept DEF Cmds
<1>6. CASE pl' = [pl EXCEPT !.step = @ + 1, !.recs[At(Call.k)].aliases = @ \cup {Call.token}]
  <2>1. pl' = [pl EXCEPT !.step = n, !.recs = recs]
    BY <1>0, <1>1, <1>2, <1>6 DEF PlShape, PlFields
  <2> HIDE DEF n, recs
  <2>2. ScriptStep(recs) /\ pl'.server = pl.server /\ pl'.pend = pl.pend
    BY <1>0, <1>n, <2>1 DEF ScriptStep, PlShape, PlFields, LoadVars, Registering, n
  <2> HIDE DEF c, i
  <2> QED
    BY <1>0, <1>1, <1>3, <1>4, <2>2, PlChangedCommand DEF recs
<1> QED
  BY <1>5, <1>6, Zenon DEF add_alias

\* A subcommand is added below a command of the plug-in, unless a sibling has
\* one of its words, or is left for the root (add_subcommand).
LEMMA PlSubcommandKept ==
  ASSUME PlugAssumption, PlInv, add_subcommand
  PROVE  PlInv'
<1>0. Scripting /\ Call.op = "sub" /\ pl.pc = "script" /\ PlShape
  BY DEF add_subcommand, Scripting, PlInv
<1> DEFINE n == pl.step + 1
           k == At(Call.k)
           i == At(Call.parent)
<1>n. n \in Nat \ {0}
  BY <1>0 DEF PlShape
<1>1. k \in Cmds /\ (Call.parent # 0 => i \in Cmds)
  BY <1>0, HandlesExist
<1>2. /\ pl.recs \in Seq(Cmd)
      /\ \A r \in Cmds : pl.recs[r].kids \subseteq Cmds /\ pl.recs[r].file \in pl.open
      /\ \A r \in Cmds : \A a, b \in pl.recs[r].kids : pl.recs[a].name = pl.recs[b].name => a = b
  BY <1>0 DEF PlInv, PlCommands
<1>3. /\ pl.server \subseteq Cmds /\ pl.pend \in Seq(Nat)
      /\ \A m \in 1 .. Len(pl.pend) : pl.pend[m] \in Cmds
  BY DEF PlInv, PlRooted
<1>4. ASSUME ScriptStep(pl.recs), pl'.server = pl.server, pl'.pend \in Seq(Nat),
             \A m \in 1 .. Len(pl'.pend) : pl'.pend[m] \in Cmds
      PROVE  PlInv'
  BY <1>0, <1>2, <1>3, <1>4, PlScriptKept DEF Cmds
<1>5. CASE pl' = [pl EXCEPT !.step = n]
  <2> HIDE DEF n
  <2>1. ScriptStep(pl.recs) /\ pl'.server = pl.server /\ pl'.pend = pl.pend
    BY <1>0, <1>n, <1>5 DEF ScriptStep, PlShape, PlFields, LoadVars, Registering, n
  <2> QED
    BY <1>3, <1>4, <2>1
<1>6. CASE pl' = [pl EXCEPT !.step = n, !.pend = Append(@, k)]
  <2> DEFINE ps == Append(pl.pend, k)
  <2>1. k \in Nat
    BY <1>1 DEF Cmds
  <2> HIDE DEF n, k
  <2>2. ps \in Seq(Nat) /\ \A m \in 1 .. Len(ps) : ps[m] \in Cmds
    BY <1>1, <1>3, <2>1
  <2> HIDE DEF ps
  <2>3. pl' = [pl EXCEPT !.step = n, !.pend = ps]
    BY <1>6 DEF ps
  <2>4. ScriptStep(pl.recs) /\ pl'.server = pl.server /\ pl'.pend = ps
    BY <1>0, <1>n, <2>3 DEF ScriptStep, PlShape, PlFields, LoadVars, Registering, n
  <2> QED
    BY <1>4, <2>2, <2>4
<1>7. CASE /\ Call.parent # 0 /\ ~Clash(i, k)
           /\ pl' = [pl EXCEPT !.step = n, !.recs[i].kids = @ \cup {k}]
  <2> DEFINE c == [pl.recs[i] EXCEPT !.kids = @ \cup {k}]
             recs == [pl.recs EXCEPT ![i] = c]
  <2>1. i \in Cmds /\ pl.recs[i] \in Cmd /\ k \in Nat /\ pl.recs[i].kids \subseteq Cmds
    BY <1>1, <1>2, <1>7 DEF Cmds
  <2>2. /\ c \in Cmd /\ c.name = pl.recs[i].name /\ c.file = pl.recs[i].file
        /\ c.kids = pl.recs[i].kids \cup {k}
    BY <2>1 DEF Cmd
  <2>3. \A b \in pl.recs[i].kids : pl.recs[b].name # pl.recs[k].name
    BY <1>7 DEF Clash, Tokens
  <2>4. pl' = [pl EXCEPT !.step = n, !.recs = recs]
    BY <1>0, <1>2, <1>7, <2>1 DEF PlShape, PlFields
  <2> HIDE DEF c, k, i
  <2>5. /\ c.kids \subseteq Cmds
        /\ \A a, b \in c.kids : pl.recs[a].name = pl.recs[b].name => a = b
    BY <1>1, <1>2, <2>1, <2>2, <2>3
  <2> HIDE DEF recs, n
  <2>6. ScriptStep(recs) /\ pl'.server = pl.server /\ pl'.pend = pl.pend
    BY <1>0, <1>n, <2>4 DEF ScriptStep, PlShape, PlFields, LoadVars, Registering, n
  <2> QED
    BY <1>0, <2>1, <2>2, <2>5, <2>6, PlChangedCommand DEF recs
<1> QED
  BY <1>5, <1>6, <1>7, Zenon DEF add_subcommand

\* A command is given to the server (add_to_server).
LEMMA PlServerKept ==
  ASSUME PlugAssumption, PlInv, add_to_server
  PROVE  PlInv'
<1>0. Scripting /\ Call.op = "server" /\ pl.pc = "script" /\ PlShape
  BY DEF add_to_server, Scripting, PlInv
<1> DEFINE n == pl.step + 1
           k == At(Call.k)
<1>n. n \in Nat \ {0}
  BY <1>0 DEF PlShape
<1>1. k \in Cmds
  BY <1>0, HandlesExist
<1>2. pl' = [pl EXCEPT !.step = n, !.server = @ \cup {k}]
  BY DEF add_to_server
<1> HIDE DEF n, k
<1>3. ScriptStep(pl.recs) /\ pl'.server = pl.server \cup {k} /\ pl'.pend = pl.pend
  BY <1>0, <1>n, <1>2 DEF ScriptStep, PlShape, PlFields, LoadVars, Registering, n
<1>4. /\ pl.recs \in Seq(Cmd)
      /\ \A r \in Cmds : pl.recs[r].kids \subseteq Cmds /\ pl.recs[r].file \in pl.open
      /\ \A r \in Cmds : \A a, b \in pl.recs[r].kids : pl.recs[a].name = pl.recs[b].name => a = b
  BY <1>0 DEF PlInv, PlCommands
<1>5. /\ pl'.server \subseteq Cmds /\ pl'.pend \in Seq(Nat)
      /\ \A m \in 1 .. Len(pl'.pend) : pl'.pend[m] \in Cmds
  BY <1>1, <1>3 DEF PlInv, PlRooted
<1> QED
  BY <1>0, <1>3, <1>4, <1>5, PlScriptKept DEF Cmds

-----------------------------------------------------------------------------
(* The root and the server                                                 *)

\* A command comes to the root only if none of its words is claimed
\* (commit_root_commands).
LEMMA PlCommitKept ==
  ASSUME PlInv, commit_root_commands
  PROVE  PlInv'
<1>0. pl.pc = "commit" /\ PlShape
  BY DEF commit_root_commands, PlInv
<1>1. ASSUME PlShape', pl'.pc \in {"commit", "serve"},
             UNCHANGED <<pl.left, pl.open, pl.provs, pl.loaded, pl.snap, pl.file, pl.recs, pl.rpc>>,
             PlRooted'
      PROVE  PlInv'
  <2>1. PlLoaded'
    BY <1>0, <1>1, PlLoadedKept DEF PlInv, LoadVars, Loading
  <2> QED
    BY <1>0, <1>1, <2>1, PlCommandsKept, PlServedKept DEF PlInv, Loading
<1>2. CASE pl.pend = <<>>
  <2>1. pl' = [pl EXCEPT !.pc = "serve"]
    BY <1>2 DEF commit_root_commands
  <2>2. /\ PlShape' /\ pl'.pc = "serve"
        /\ UNCHANGED <<pl.left, pl.open, pl.provs, pl.loaded, pl.snap, pl.file, pl.recs, pl.rpc>>
        /\ UNCHANGED RootVars
    BY <1>0, <2>1 DEF PlShape, PlFields, RootVars
  <2>3. PlRooted'
    BY <1>0, <2>2, PlRootedKept DEF PlInv, Loading, Registering
  <2> QED
    BY <1>1, <2>2, <2>3
<1>3. CASE pl.pend # <<>>
  <2> DEFINE r == Head(pl.pend)
             ps == Tail(pl.pend)
  <2>1. /\ r \in Cmds /\ ps \in Seq(Nat)
        /\ \A n \in 1 .. Len(ps) : ps[n] \in Cmds
    <3> DEFINE s == pl.pend
    <3>1. s \in Seq(Nat) /\ s # <<>> /\ \A n \in 1 .. Len(s) : s[n] \in Cmds
      BY <1>3 DEF PlInv, PlRooted
    <3> HIDE DEF s
    <3>2. /\ Head(s) = s[1] /\ Tail(s) \in Seq(Nat) /\ 1 \in 1 .. Len(s)
          /\ \A n \in 1 .. Len(Tail(s)) : n + 1 \in 1 .. Len(s) /\ Tail(s)[n] = s[n + 1]
      BY <3>1
    <3> QED
      BY <3>1, <3>2 DEF s
  <2> HIDE DEF r, ps
  <2>2. /\ pl.root \cup pl.server \cup pl.refused \subseteq Cmds /\ pl.refused \cap pl.server = {}
        /\ Builtin \subseteq pl.claimed
        /\ \A c \in pl.root : Tokens(c) \subseteq pl.claimed /\ Tokens(c) \cap Builtin = {}
        /\ \A a, b \in pl.root : a # b => Tokens(a) \cap Tokens(b) = {}
    BY DEF PlInv, PlRooted
  <2>3. CASE find_collision(r)
    <3>1. pl' = [pl EXCEPT !.pend = ps, !.refused = @ \cup {r}, !.server = @ \ {r}]
      BY <1>3, <2>3, Zenon DEF commit_root_commands, reject_pending_command, r, ps
    <3>2. /\ PlShape' /\ pl'.pc = "commit" /\ pl'.pend = ps
          /\ pl'.refused = pl.refused \cup {r} /\ pl'.server = pl.server \ {r}
          /\ UNCHANGED <<pl.left, pl.open, pl.provs, pl.loaded, pl.snap, pl.file, pl.recs, pl.rpc>>
          /\ UNCHANGED <<pl.root, pl.claimed>>
      BY <1>0, <3>1 DEF PlShape, PlFields
    <3>3. Cmds' = Cmds /\ \A c : Tokens(c)' = Tokens(c)
      BY <3>2 DEF Cmds, Tokens
    <3>4. PlRooted'
      BY <2>1, <2>2, <3>2, <3>3 DEF PlRooted, Loading, Registering
    <3> QED
      BY <1>1, <3>2, <3>4
  <2>4. CASE ~find_collision(r)
    <3>1. pl' = [pl EXCEPT !.pend = ps, !.root = @ \cup {r}, !.claimed = @ \cup Tokens(r)]
      BY <1>3, <2>4, Zenon DEF commit_root_commands, r, ps
    <3>2. /\ PlShape' /\ pl'.pc = "commit" /\ pl'.pend = ps
          /\ pl'.root = pl.root \cup {r} /\ pl'.claimed = pl.claimed \cup Tokens(r)
          /\ UNCHANGED <<pl.left, pl.open, pl.provs, pl.loaded, pl.snap, pl.file, pl.recs, pl.rpc>>
          /\ UNCHANGED <<pl.server, pl.refused>>
      BY <1>0, <3>1 DEF PlShape, PlFields
    <3>3. Cmds' = Cmds /\ \A c : Tokens(c)' = Tokens(c)
      BY <3>2 DEF Cmds, Tokens
    <3>4. Tokens(r) \cap pl.claimed = {}
      BY <2>4 DEF find_collision
    <3>5. \A c \in pl'.root : Tokens(c) \subseteq pl'.claimed /\ Tokens(c) \cap Builtin = {}
      BY <2>2, <3>2, <3>4
    <3>6. \A a, b \in pl'.root : a # b => Tokens(a) \cap Tokens(b) = {}
      BY <2>2, <3>2, <3>4
    <3>7. PlRooted'
      BY <2>1, <2>2, <3>2, <3>3, <3>5, <3>6 DEF PlRooted, Loading, Registering
    <3> QED
      BY <1>1, <3>2, <3>7
  <2> QED
    BY <2>3, <2>4
<1> QED
  BY <1>2, <1>3

\* The paths of a command join the server's table where they are free
\* (register_commands_with_server).
LEMMA PlServeKept ==
  ASSUME PlugAssumption, PlInv, register_commands_with_server
  PROVE  PlInv'
<1>0. pl.pc = "serve" /\ PlShape
  BY DEF register_commands_with_server, PlInv
<1>1. ASSUME PlShape', pl'.pc \in {"serve", "up"}, pl'.server \subseteq pl.server,
             UNCHANGED <<pl.left, pl.open, pl.provs, pl.loaded, pl.snap, pl.file, pl.recs>>,
             UNCHANGED <<pl.root, pl.claimed, pl.pend, pl.refused>>,
             PlServed'
      PROVE  PlInv'
  <2>1. PlLoaded'
    BY <1>0, <1>1, PlLoadedKept DEF PlInv, LoadVars, Loading
  <2>2. PlCommands'
    BY <1>0, <1>1, PlCommandsKept DEF PlInv, Loading
  <2>3. PlRooted'
    <3>1. Cmds' = Cmds /\ \A c : Tokens(c)' = Tokens(c)
      BY <1>1 DEF Cmds, Tokens
    <3> QED
      BY <1>1, <3>1 DEF PlInv, PlRooted, Loading, Registering
  <2> QED
    BY <1>1, <2>1, <2>2, <2>3 DEF PlInv
<1>2. CASE pl.server = {}
  <2>1. pl' = [pl EXCEPT !.pc = "up"]
    BY <1>2 DEF register_commands_with_server
  <2>2. /\ PlShape' /\ pl'.pc = "up" /\ pl'.server = pl.server /\ pl'.rpc = pl.rpc
        /\ UNCHANGED <<pl.left, pl.open, pl.provs, pl.loaded, pl.snap, pl.file, pl.recs>>
        /\ UNCHANGED <<pl.root, pl.claimed, pl.pend, pl.refused>>
    BY <1>0, <2>1 DEF PlShape, PlFields
  <2>3. PlServed'
    BY <2>2 DEF PlInv, PlServed, Cmds
  <2> QED
    BY <1>1, <2>2, <2>3
<1>3. CASE pl.server # {}
  <2>1. PICK r \in pl.server :
          pl' = [pl EXCEPT !.server = @ \ {r},
                           !.rpc = @ \cup {p \in Paths(r) : p.path \notin Taken}]
    BY <1>3 DEF register_commands_with_server
  <2> DEFINE new == {p \in Paths(r) : p.path \notin Taken}
  <2>2. r \in Cmds /\ r \notin pl.refused
    BY DEF PlInv, PlRooted
  <2>3. \A p \in Paths(r) :
          /\ p.rec \in Cmds /\ (Len(p.path) = 1 => p.rec = r)
          /\ \A q \in Paths(r) : p.path = q.path => p = q
    BY <2>2, PathsNameOne DEF PlInv
  <2>4. \A p \in new : /\ p.rec \in Cmds /\ p.path \notin RpcBuiltin
                       /\ Len(p.path) = 1 => p.rec \notin pl.refused
                       /\ \A q \in pl.rpc : p.path # q.path
                       /\ \A q \in new : p.path = q.path => p = q
    BY <2>2, <2>3 DEF Taken
  <2> HIDE DEF new
  <2>5. pl' = [pl EXCEPT !.server = @ \ {r}, !.rpc = @ \cup new]
    BY <2>1 DEF new
  <2>6. /\ PlShape' /\ pl'.pc = "serve" /\ pl'.server = pl.server \ {r} /\ pl'.rpc = pl.rpc \cup new
        /\ UNCHANGED <<pl.left, pl.open, pl.provs, pl.loaded, pl.snap, pl.file, pl.recs>>
        /\ UNCHANGED <<pl.root, pl.claimed, pl.pend, pl.refused>>
    BY <1>0, <2>5 DEF PlShape, PlFields
  <2>7. PlServed'
    <3>1. Cmds' = Cmds
      BY <2>6 DEF Cmds
    <3>2. \A p \in pl.rpc : /\ p.rec \in Cmds /\ p.path \notin RpcBuiltin
                            /\ Len(p.path) = 1 => p.rec \notin pl.refused
                            /\ \A q \in pl.rpc : p.path = q.path => p = q
      BY DEF PlInv, PlServed
    <3> QED
      BY <2>4, <2>6, <3>1, <3>2 DEF PlServed
  <2> QED
    BY <1>1, <2>6, <2>7
<1> QED
  BY <1>2, <1>3

\* Everything made of a plug-in's code goes before the code (unload_plugins).
LEMMA PlUnloadKept ==
  ASSUME PlInv, unload_plugins
  PROVE  PlInv'
<1>0. pl.pc = "up" /\ PlShape
  BY DEF unload_plugins, PlInv
<1>1. pl' = [pl EXCEPT !.pc = "unloaded", !.provs = <<>>, !.open = {}, !.root = {}, !.rpc = {}]
  BY DEF unload_plugins
<1>2. /\ PlShape' /\ pl'.pc = "unloaded" /\ pl'.provs = <<>> /\ pl'.root = {} /\ pl'.rpc = {}
      /\ UNCHANGED <<pl.left, pl.loaded, pl.file, pl.recs>>
      /\ UNCHANGED <<pl.claimed, pl.pend, pl.server, pl.refused>>
  BY <1>0, <1>1 DEF PlShape, PlFields
<1>3. Cmds' = Cmds
  BY <1>2 DEF Cmds
<1>4. PlLoaded'
  <2>1. <<>> \in Seq(Files) /\ Len(<<>>) = 0
    OBVIOUS
  <2> QED
    BY <1>2, <2>1 DEF PlInv, PlLoaded, Loading
<1>5. PlCommands'
  BY <1>2, PlCommandsKept DEF PlInv, Loading
<1>6. PlRooted' /\ PlServed'
  BY <1>2, <1>3 DEF PlInv, PlRooted, PlServed, Loading, Registering
<1> QED
  BY <1>2, <1>4, <1>5, <1>6 DEF PlInv

-----------------------------------------------------------------------------
(* Theorems                                                                *)

\* Whatever plug-ins do, their handles, commands, claimed words and paths
\* agree at every step of loading, registration and unloading.
THEOREM PluginsInductive == PlSpec => []PlInv
<1>1. PlInit => PlInv
  <2> SUFFICES ASSUME PlInit PROVE PlInv
    OBVIOUS
  <2>1. /\ pl = [x \in PlFields |-> pl[x]]
        /\ pl.pc = "dir" /\ pl.left = {} /\ pl.step = 1 /\ pl.open = {} /\ pl.provs = <<>>
        /\ pl.loaded = {} /\ pl.snap = 0 /\ pl.turn = 1 /\ pl.base = 0 /\ pl.recs = <<>>
    BY DEF PlInit, PlFields
  <2>2. /\ pl.root = {} /\ pl.claimed = Builtin /\ pl.pend = <<>> /\ pl.server = {}
        /\ pl.refused = {} /\ pl.rpc = {}
    BY DEF PlInit
  <2>3. \A S : <<>> \in Seq(S) /\ 1 .. Len(<<>>) = {}
    OBVIOUS
  <2>4. PlShape
    BY <2>1 DEF PlShape, Loading
  <2>5. PlLoaded
    BY <2>1, <2>3 DEF PlLoaded, Named
  <2>6. PlCommands
    BY <2>1, <2>3 DEF PlCommands, Cmds
  <2>7. PlRooted /\ PlServed
    BY <2>1, <2>2, <2>3 DEF PlRooted, PlServed
  <2> QED
    BY <2>4, <2>5, <2>6, <2>7 DEF PlInv
<1>2. PlInv /\ [PlNext]_plVars => PlInv'
  <2> SUFFICES ASSUME PlInv, [PlNext]_plVars PROVE PlInv'
    OBVIOUS
  <2>1. CASE UNCHANGED plVars
    <3>1. pl' = pl
      BY <2>1 DEF plVars
    <3>2. Named' = Named /\ Cmds' = Cmds /\ \A r : Tokens(r)' = Tokens(r)
      BY <3>1 DEF Named, Cmds, Tokens
    <3>3. PlShape' /\ PlLoaded'
      BY <3>1, <3>2 DEF PlInv, PlShape, PlLoaded
    <3>4. PlCommands' /\ PlRooted' /\ PlServed'
      BY <3>1, <3>2 DEF PlInv, PlCommands, PlRooted, PlServed
    <3> QED
      BY <3>3, <3>4 DEF PlInv
  <2> QED
    BY <2>1, PlugAssumption, PlScanKept, PlOpenKept, PlEnterKept, PlRecordKept, PlTurnKept,
       PlCreateKept, PlAliasKept, PlSubcommandKept, PlServerKept, PlCommitKept, PlServeKept,
       PlUnloadKept
    DEF PlNext
<1> QED
  BY <1>1, <1>2, PTL DEF PlSpec

\* For any plug-ins, read in any order: no provider, root command or RPC handler
\* belongs to a closed library, no top-level word is a built-in's or claimed
\* twice, and a refused command is not served under its own name
\* (PluginManager, RegistrationContextImpl, plugin_bridge.cpp).
THEOREM PluginsAreSound == PlSpec => []PluginsSound
<1>1. PlInv => PluginsSound
  <2> SUFFICES ASSUME PlInv PROVE PluginsSound
    OBVIOUS
  <2>1. PluginCodeAlive
    <3>1. \A n \in DOMAIN pl.provs : pl.provs[n] \in pl.open
      BY DEF PlInv, PlLoaded
    <3>2. \A r \in pl.root \cup {p.rec : p \in pl.rpc} : pl.recs[r].file \in pl.open
      BY DEF PlInv, PlCommands, PlRooted, PlServed
    <3>3. pl.pc \in {"register", "commit", "serve", "up"} => pl.open = handle_plugins_list.named
      BY DEF PlInv, PlLoaded, Named, handle_plugins_list
    <3> QED
      BY <3>1, <3>2, <3>3 DEF PluginCodeAlive
  <2>2. NoShadowing
    BY DEF PlInv, PlRooted, PlServed, NoShadowing
  <2> QED
    BY <2>1, <2>2 DEF PluginsSound
<1> QED
  BY <1>1, PluginsInductive, PTL

-----------------------------------------------------------------------------
(* The tool commands *)

ToFields == {"pc", "job", "i", "n", "rc", "written", "ran", "shown", "leak"}

\* The programs whose outcome a handler reports.
Reporting(t) == t.job.op \in {"search", "amblist", "run"}

\* What a handler says of the program it ran.
Outcome(t) ==
  Reporting(t) =>
    /\ t.rc = 0 /\ (t.job.outdd \/ t.job.op # "run") => t.shown
    /\ t.rc = 0 /\ ~ t.job.sysout /\ t.job.op \in {"run", "amblist"} => t.ran = 0

\* The DDs of a command t before its k-th are not among those allocated.
Freed(t, held, k) == \A j \in DOMAIN t.job.dds : j < k => t.job.dds[j].name \notin held

\* A command t with the DDs held: what was freed stays free until the command
\* is over.
ToolSound(t, held) ==
  /\ t = [f \in ToFields |-> t[f]]
  /\ t.i \in Nat
  /\ t.pc # "idle" => t.job \in ToolJobs
  /\ t.pc = "show" => t.job.op = "run" /\ t.rc = t.ran
  /\ t.pc = "free" => Freed(t, held, t.i) /\ Outcome(t)
  /\ t.pc = "end" /\ Reporting(t) =>
       Outcome(t) /\ (~ t.leak => Freed(t, held, Len(t.job.dds) + 1))
ToolInv == ToolSound(tl, alloc)

\* The handler of a program goes on to free every DD with the outcome it
\* reports.
LEMMA ToolEnded ==
  ASSUME ToolInv, tl.pc # "idle", NEW written, NEW ran, NEW shown, NEW rc,
         Ended(written, ran, shown, rc),
         Reporting(tl) =>
           /\ rc = 0 /\ (tl.job.outdd \/ tl.job.op # "run") => shown
           /\ rc = 0 /\ ~ tl.job.sysout /\ tl.job.op \in {"run", "amblist"} => ran = 0
  PROVE  ToolInv'
<1> DEFINE t == [tl EXCEPT !.pc = "free", !.i = 1, !.written = written, !.ran = ran,
                           !.shown = shown, !.rc = rc]
<1>1. /\ t = [f \in ToFields |-> t[f]] /\ t.pc = "free" /\ t.i = 1 /\ t.ran = ran
      /\ t.shown = shown /\ t.rc = rc /\ t.job = tl.job
  BY DEF ToolInv, ToolSound, ToFields
<1>2. tl' = t /\ alloc' = alloc
  BY DEF Ended
<1> HIDE DEF t
<1>3. Outcome(t)
  BY <1>1 DEF Outcome, Reporting
<1>4. Freed(t, alloc, 1)
  <2>1. t.job.dds \in Seq([name : STRING, key : STRING])
    BY <1>1, ToolAssumption DEF ToolInv, ToolSound
  <2>2. \A j \in DOMAIN t.job.dds : ~ (j < 1)
    BY <2>1
  <2> QED
    BY <2>2 DEF Freed
<1> QED
  BY <1>1, <1>2, <1>3, <1>4 DEF ToolInv, ToolSound

\* A handler that reports an error claims nothing.
LEMMA ToolFailed ==
  ASSUME ToolInv, tl.pc # "idle", NEW written, NEW ran, NEW shown, Ended(written, ran, shown, 1)
  PROVE  ToolInv'
<1> DEFINE rc == 1
<1>1. Ended(written, ran, shown, rc)
  OBVIOUS
<1>2. rc # 0
  OBVIOUS
<1> HIDE DEF rc
<1> QED
  BY <1>1, <1>2, ToolEnded

\* A command that ends early leaves its DDs, and says so.
LEMMA ToolLeft ==
  ASSUME ToolInv, tl.pc # "idle", alloc' = alloc,
         tl' = [tl EXCEPT !.pc = "end", !.rc = 1, !.leak = TRUE]
  PROVE  ToolInv'
<1> DEFINE t == [tl EXCEPT !.pc = "end", !.rc = 1, !.leak = TRUE]
<1>1. /\ t = [f \in ToFields |-> t[f]] /\ t.pc = "end" /\ t.i = tl.i /\ t.rc = 1 /\ t.leak = TRUE
      /\ t.job = tl.job
  BY DEF ToolInv, ToolSound, ToFields
<1>2. tl' = t
  OBVIOUS
<1> HIDE DEF t
<1>3. Outcome(t)
  BY <1>1 DEF Outcome
<1> QED
  BY <1>1, <1>2, <1>3 DEF ToolInv, ToolSound

\* Freeing the DDs one after the other.
LEMMA ToolFree ==
  ASSUME ToolInv, zut_free_dynalloc_dds
  PROVE  ToolInv'
<1> DEFINE dds == tl.job.dds
           over == \/ tl.i > Len(dds)
                   \/ tl.i = 1 /\ \E k \in DOMAIN dds : dds[k].key # "dd"
<1>1. tl.pc = "free" /\ tl.i \in Nat /\ Freed(tl, alloc, tl.i) /\ Outcome(tl)
  BY DEF zut_free_dynalloc_dds, ToolInv, ToolSound
<1>2. dds \in Seq([name : STRING, key : STRING])
  BY <1>1, ToolAssumption DEF ToolInv, ToolSound
<1>3. Len(dds) \in Nat /\ DOMAIN dds = 1..Len(dds)
  BY <1>2
<1> HIDE DEF dds
<1>4. ASSUME NEW leak, tl' = [tl EXCEPT !.pc = "end", !.leak = leak], alloc' = alloc,
             leak = FALSE => tl.i > Len(dds), leak \in BOOLEAN
      PROVE  ToolInv'
  <2> DEFINE t == [tl EXCEPT !.pc = "end", !.leak = leak]
  <2>1. /\ t = [f \in ToFields |-> t[f]] /\ t.pc = "end" /\ t.i = tl.i /\ t.rc = tl.rc /\ t.leak = leak
        /\ t.job = tl.job /\ t.ran = tl.ran /\ t.shown = tl.shown
    BY DEF ToolInv, ToolSound, ToFields
  <2>2. tl' = t
    BY <1>4
  <2> HIDE DEF t
  <2>3. Outcome(t)
    BY <1>1, <2>1 DEF Outcome, Reporting
  <2>4. ~ t.leak => Freed(t, alloc, Len(t.job.dds) + 1)
    BY <1>1, <1>3, <1>4, <2>1 DEF Freed, dds
  <2>5. t.job \in ToolJobs
    BY <1>1, <2>1 DEF ToolInv, ToolSound
  <2> QED
    BY <1>1, <1>4, <2>1, <2>2, <2>3, <2>4, <2>5 DEF ToolInv, ToolSound
<1>5. CASE over
  <2> DEFINE leak == tl.i <= Len(dds)
  <2>1. tl' = [tl EXCEPT !.pc = "end", !.leak = leak] /\ alloc' = alloc
    BY <1>5 DEF zut_free_dynalloc_dds, dds
  <2>2. leak \in BOOLEAN /\ (leak = FALSE => tl.i > Len(dds))
    BY <1>1, <1>3
  <2> HIDE DEF leak
  <2> QED
    BY <1>4, <2>1, <2>2
<1>6. CASE ~ over /\ tl' = [tl EXCEPT !.pc = "end", !.leak = TRUE] /\ UNCHANGED alloc
  BY <1>4, <1>6
<1>7. CASE ~ over /\ tl' = [tl EXCEPT !.i = @ + 1] /\ alloc' = alloc \ {dds[tl.i].name}
  <2> DEFINE t == [tl EXCEPT !.i = @ + 1]
             name == dds[tl.i].name
  <2>1. /\ t = [f \in ToFields |-> t[f]] /\ t.pc = "free" /\ t.i = tl.i + 1 /\ t.rc = tl.rc
        /\ t.job = tl.job /\ t.ran = tl.ran /\ t.shown = tl.shown
    BY <1>1 DEF ToolInv, ToolSound, ToFields
  <2>2. tl' = t /\ alloc' = alloc \ {name}
    BY <1>7
  <2> HIDE DEF t
  <2>3. Outcome(t)
    BY <1>1, <2>1 DEF Outcome, Reporting
  <2>4. Freed(t, alloc \ {name}, t.i)
    <3> SUFFICES ASSUME NEW j \in DOMAIN t.job.dds, j < t.i
                 PROVE  t.job.dds[j].name \notin alloc \ {name}
      BY DEF Freed
    <3>1. CASE j = tl.i
      BY <2>1, <3>1 DEF dds
    <3>2. CASE j # tl.i
      <4>1. j < tl.i /\ j \in DOMAIN tl.job.dds
        BY <1>1, <1>3, <2>1, <3>2 DEF dds
      <4> QED
        BY <1>1, <2>1, <4>1 DEF Freed
    <3> QED
      BY <3>1, <3>2
  <2>5. t.job \in ToolJobs
    BY <1>1, <2>1 DEF ToolInv, ToolSound
  <2> HIDE DEF name
  <2> QED
    BY <1>1, <2>1, <2>2, <2>3, <2>4, <2>5 DEF ToolInv, ToolSound
<1> QED
  BY <1>5, <1>6, <1>7 DEF zut_free_dynalloc_dds, dds

\* Every step of a tool command keeps the invariant.
LEMMA ToolStep ==
  ASSUME ToolInv, ToNext
  PROVE  ToolInv'
<1>1. CASE StartTool
  <2>1. PICK one \in ToolJobs : tl' = [ToolIdle EXCEPT !.pc = "alloc", !.job = one, !.i = 1, !.n = tl.n + 1]
    BY <1>1 DEF StartTool
  <2>2. /\ tl' = [f \in ToFields |-> tl'[f]] /\ tl'.pc = "alloc" /\ tl'.job = one /\ tl'.i = 1
    BY <2>1 DEF ToolIdle, ToFields
  <2> QED
    BY <2>2 DEF ToolInv, ToolSound
<1>2. CASE zut_loop_dynalloc
  <2>1. CASE tl' = [tl EXCEPT !.pc = "end", !.rc = 1, !.leak = TRUE] /\ UNCHANGED alloc
    BY <1>2, <2>1, ToolLeft DEF zut_loop_dynalloc
  <2>2. CASE tl' = [tl EXCEPT !.i = @ + 1]
    <3>1. /\ tl' = [f \in ToFields |-> tl'[f]] /\ tl'.pc = "alloc" /\ tl'.i = tl.i + 1 /\ tl'.job = tl.job
      BY <1>2, <2>2 DEF ToolInv, ToolSound, ToFields, zut_loop_dynalloc
    <3> QED
      BY <1>2, <3>1 DEF ToolInv, ToolSound, zut_loop_dynalloc
  <2> QED
    BY <1>2, <2>1, <2>2 DEF zut_loop_dynalloc
<1>3. CASE handle_tool_convert_dsect
  BY <1>3, ToolEnded DEF handle_tool_convert_dsect, Allocated, Reporting
<1>4. CASE handle_tool_search
  <2>1. PICK written \in BOOLEAN, ran \in {0, 1, 4, 8, 28}, read \in BOOLEAN :
          IF ran = 8 THEN Ended(written, ran, FALSE, 1)
          ELSE Ended(written, ran, read, IF read THEN 0 ELSE 1)
    BY <1>4 DEF handle_tool_search
  <2>2. tl.pc # "idle" /\ tl.job.op = "search"
    BY <1>4 DEF handle_tool_search, Allocated
  <2>3. CASE ran = 8
    BY <2>1, <2>2, <2>3, ToolFailed
  <2>4. CASE ran # 8 /\ read
    BY <2>1, <2>2, <2>4, ToolEnded
  <2>5. CASE ran # 8 /\ ~ read
    BY <2>1, <2>2, <2>5, ToolFailed
  <2> QED
    BY <2>3, <2>4, <2>5
<1>5. CASE handle_tool_amblist
  <2>1. PICK written \in BOOLEAN, ran \in {0, 4}, read \in BOOLEAN :
          IF ran # 0 THEN Ended(written, ran, FALSE, 1)
          ELSE Ended(written, ran, read, IF read THEN 0 ELSE 1)
    BY <1>5 DEF handle_tool_amblist
  <2>2. tl.pc # "idle" /\ tl.job.op = "amblist"
    BY <1>5 DEF handle_tool_amblist, Allocated
  <2>3. CASE ran # 0
    BY <2>1, <2>2, <2>3, ToolFailed
  <2>4. CASE ran = 0 /\ read
    BY <2>1, <2>2, <2>4, ToolEnded
  <2>5. CASE ran = 0 /\ ~ read
    BY <2>1, <2>2, <2>5, ToolFailed
  <2> QED
    BY <2>3, <2>4, <2>5
<1>6. CASE handle_tool_run
  <2>1. tl.pc # "idle" /\ tl.job.op = "run"
    BY <1>6 DEF handle_tool_run, Allocated
  <2>2. CASE Ended(FALSE, 0, FALSE, 1)
    BY <2>1, <2>2, ToolFailed
  <2>3. ASSUME NEW ran \in {0, 4}, ~ tl.job.outdd, Ended(TRUE, ran, FALSE, ran)
        PROVE  ToolInv'
    BY <2>1, <2>3, ToolEnded
  <2>4. ASSUME NEW ran \in {0, 4}, UNCHANGED alloc,
               tl' = [tl EXCEPT !.pc = "show", !.written = TRUE, !.ran = ran, !.rc = ran]
        PROVE  ToolInv'
    <3>1. /\ tl' = [f \in ToFields |-> tl'[f]] /\ tl'.pc = "show" /\ tl'.i = tl.i /\ tl'.job = tl.job
          /\ tl'.ran = ran /\ tl'.rc = ran
      BY <2>4 DEF ToolInv, ToolSound, ToFields
    <3> QED
      BY <2>1, <3>1 DEF ToolInv, ToolSound
  <2> QED
    BY <1>6, <2>2, <2>3, <2>4 DEF handle_tool_run
<1>7. CASE ShowOutDd
  <2>1. tl.pc = "show" /\ tl.job.op = "run" /\ tl.rc = tl.ran
    BY <1>7 DEF ShowOutDd, ToolInv, ToolSound
  <2>2. CASE Ended(TRUE, tl.ran, FALSE, 1)
    BY <2>1, <2>2, ToolFailed
  <2>3. CASE ~ tl.job.sysout /\ Ended(TRUE, tl.ran, TRUE, tl.ran)
    BY <2>1, <2>3, ToolEnded
  <2>4. CASE tl.job.sysout /\ Ended(TRUE, tl.ran, TRUE, 0)
    BY <2>1, <2>4, ToolEnded
  <2>5. CASE tl' = [tl EXCEPT !.pc = "end", !.rc = 1, !.leak = TRUE] /\ UNCHANGED alloc
    BY <2>1, <2>5, ToolLeft
  <2> QED
    BY <1>7, <2>2, <2>3, <2>4, <2>5 DEF ShowOutDd
<1>8. CASE handle_tool_dynalloc
  <2>1. PICK rc \in {0, 1} : tl' = [tl EXCEPT !.pc = "end", !.rc = rc]
    BY <1>8 DEF handle_tool_dynalloc
  <2>2. tl.pc = "alloc" /\ tl.job.op = "bpxwdy2"
    BY <1>8 DEF handle_tool_dynalloc, Allocated
  <2>3. /\ tl' = [f \in ToFields |-> tl'[f]] /\ tl'.pc = "end" /\ tl'.i = tl.i /\ tl'.job = tl.job
    BY <2>1 DEF ToolInv, ToolSound, ToFields
  <2> QED
    BY <2>2, <2>3 DEF ToolInv, ToolSound, Reporting
<1>9. CASE zut_free_dynalloc_dds
  BY <1>9, ToolFree
<1>10. CASE ToolDone
  <2>1. /\ tl' = [f \in ToFields |-> tl'[f]] /\ tl'.pc = "idle" /\ tl'.i = 0
    BY <1>10 DEF ToolDone, ToolIdle, ToFields
  <2> QED
    BY <2>1 DEF ToolInv, ToolSound
<1> QED
  BY <1>1, <1>2, <1>3, <1>4, <1>5, <1>6, <1>7, <1>8, <1>9, <1>10 DEF ToNext

(* A search, AMBLIST or program run keeps no DD when its allocations and   *)
(* frees were accepted, and one that reports success ran its program and   *)
(* showed what it was asked to, for any commands of a session (tool.cpp).  *)
THEOREM ToolsEndClean == ToSpec => []ToolEndsClean
<1>1. ToInit => ToolInv
  <2>1. /\ ToolIdle = [f \in ToFields |-> ToolIdle[f]] /\ ToolIdle.pc = "idle" /\ ToolIdle.i = 0
    BY DEF ToolIdle, ToFields
  <2> QED
    BY <2>1 DEF ToInit, ToolInv, ToolSound
<1>2. ToolInv /\ [ToNext]_toVars => ToolInv'
  <2>1. ASSUME ToolInv, UNCHANGED toVars
        PROVE  ToolInv'
    BY <2>1 DEF ToolInv, toVars
  <2> QED
    BY <2>1, ToolStep
<1>3. ToolInv => ToolEndsClean
  <2> SUFFICES ASSUME ToolInv, tl.pc = "end", Reporting(tl)
               PROVE  /\ ~ tl.leak => DdNames \cap alloc = {}
                      /\ Outcome(tl)
    BY DEF ToolEndsClean, Outcome, Reporting
  <2>1. Outcome(tl) /\ (~ tl.leak => Freed(tl, alloc, Len(tl.job.dds) + 1))
    BY DEF ToolInv, ToolSound
  <2>2. DOMAIN tl.job.dds = 1..Len(tl.job.dds) /\ Len(tl.job.dds) \in Nat
    BY ToolAssumption DEF ToolInv, ToolSound
  <2> QED
    BY <2>1, <2>2 DEF Freed, DdNames
<1> QED
  BY <1>1, <1>2, <1>3, PTL DEF ToSpec
=============================================================================
