------------------------------ MODULE RpcServer ------------------------------
(***************************************************************************)
(* What one request goes through inside a worker of the zowex server:      *)
(* RpcServer::process_request (native/c/server/rpc_server.cpp), the        *)
(* dispatcher with its input and output transforms (dispatcher.cpp,        *)
(* builder.cpp) and MiddlewareContext (rpcio.cpp), for several requests on *)
(* concurrent workers, while the supervisor times requests out.            *)
(*                                                                         *)
(* A request is identified with its JSON-RPC id, which the client also     *)
(* sends as the id of its stream.  The worker pool is WorkerPool.tla; here *)
(* every request simply has a worker, which goes on after a timeout, as a  *)
(* detached one does.                                                      *)
(***************************************************************************)
EXTENDS Integers, Sequences, FiniteSets, SequencesExt, AbandonedRing

CONSTANTS
  Requests,   \* the requests the client sends, each once
  Uploads,    \* writeDataset, writeFile with a stream: HandleFifo, PUT
  Downloads,  \* readDataset, readFile with a stream: HandleFifo, GET
  Deferred,   \* downloads announced once their length is known (readFile)
  Nil         \* the id of a response that has none; no reply yet

ASSUME RpcAssumption ==
  /\ Uploads \cup Downloads \subseteq Requests /\ Uploads \cap Downloads = {}
  /\ Deferred \subseteq Downloads
  /\ Nil \notin Requests

VARIABLES
  job,        \* [Requests -> the request's progress through process_request]
  sup,        \* the supervisor inside send_timeout_error
  abandoned,  \* the ring of timed-out ids
  fifos,      \* the named pipes that exist: {[path, owner]}
  wire        \* the messages written under output_mutex so far

vars == <<job, sup, abandoned, fifos, wire>>

Streams == Uploads \cup Downloads

NewJob ==
  [pc       |-> "unread",
   pipe     |-> FALSE,     \* the argument "pipe-path" is set
   pending  |-> FALSE,     \* m_pending_notification
   outcome  |-> "none",    \* of the handler: "ok", "failed" or "threw"
   reply    |-> Nil,       \* the response being printed
   wrote    |-> "nothing", \* what an upload's handler stored
   timedout |-> FALSE]

Response(r) == [kind |-> "result", id |-> r]
Error(id)   == [kind |-> "error", id |-> id]

Goto(r, pc) == job' = [job EXCEPT ![r].pc = pc]
Reply(r, m) == job' = [job EXCEPT ![r] = [@ EXCEPT !.reply = m, !.pc = "print"]]

-----------------------------------------------------------------------------
(* process_request up to the dispatch *)

\* from_str fails: the id is unknown.
ParseFails(r) ==
  /\ job[r].pc = "unread"
  /\ Reply(r, Error(Nil))
  /\ UNCHANGED <<sup, abandoned, fifos, wire>>

ParseRequest(r) ==
  /\ job[r].pc = "unread"
  /\ Goto(r, "lookup")
  /\ abandoned' = clear_abandoned(abandoned, r)
  /\ UNCHANGED <<sup, fifos, wire>>

\* Unknown method, or parameters that do not match the schema.
RejectRequest(r) ==
  /\ job[r].pc = "lookup"
  /\ Reply(r, Error(r))
  /\ UNCHANGED <<sup, abandoned, fifos, wire>>

\* An exception outside the dispatcher (convert_json_params_to_argument_map,
\* serialize_json) is reported by process_request as a parse error, without
\* the id.
ExceptionOutsideHandler(r) ==
  /\ \/ job[r].pc = "lookup"
     \/ job[r].pc = "print" /\ job[r].reply.id # Nil
  /\ Reply(r, Error(Nil))
  /\ UNCHANGED <<sup, abandoned, fifos, wire>>

Dispatch(r) ==
  /\ job[r].pc = "lookup"
  /\ Goto(r, IF r \in Streams THEN "fifo" ELSE "handler")
  /\ UNCHANGED <<sup, abandoned, fifos, wire>>

-----------------------------------------------------------------------------
(* apply_input_transforms, HandleFifo *)

\* Mutant: the path names the process only.
PipePathOfProcess(r) == "zowex_fifo"

\* /tmp/zowex_<uid>_<pid>_<stream id>_fifo
PipePath(r) == r

unlink(path) == {f \in fifos : f.path # path}

\* unlink what is there, mkfifo, set "pipe-path".
CreateFifo(r) ==
  /\ job[r].pc = "fifo"
  /\ fifos' = unlink(PipePath(r)) \cup {[path |-> PipePath(r), owner |-> r]}
  /\ job' = [job EXCEPT ![r] =
       [@ EXCEPT !.pipe = TRUE, !.pending = r \in Deferred,
                 !.pc = IF r \in Deferred THEN "handler" ELSE "notify"]]
  /\ UNCHANGED <<sup, abandoned, wire>>

\* unlink or mkfifo fails, or the stream id is no integer: the error text is
\* stored and the handler is called all the same.
CreateFifoFails(r) ==
  /\ job[r].pc = "fifo"
  /\ Goto(r, "handler")
  /\ UNCHANGED <<sup, abandoned, fifos, wire>>

\* send_notification: receiveStream or sendStream, with the path.
send_notification(r) ==
  /\ job[r].pc = "notify"
  /\ wire' = wire \cup {[kind |-> "notification", id |-> r]}
  /\ Goto(r, "handler")
  /\ UNCHANGED <<sup, abandoned, fifos>>

-----------------------------------------------------------------------------
(* The handler *)

\* The handler knows the length: a deferred notification is sent now.
set_content_len(r) ==
  /\ job[r].pc = "handler" /\ job[r].pending
  /\ wire' = wire \cup {[kind |-> "notification", id |-> r]}
  /\ job' = [job EXCEPT ![r].pending = FALSE]
  /\ UNCHANGED <<sup, abandoned, fifos>>

\* handle_data_set_write, handle_uss_write: with "pipe-path" the contents come
\* from the pipe, without it from the input stream, empty for a request that
\* has a stream and no data.
Stored(r, rc) ==
  IF r \notin Uploads \/ rc # "ok" THEN "nothing"
  ELSE IF job[r].pipe THEN "stream" ELSE "empty input"

HandlerReturns(r, rc) ==
  /\ job[r].pc = "handler"
  /\ job' = [job EXCEPT ![r] =
       [@ EXCEPT !.outcome = rc, !.wrote = Stored(r, rc), !.pc = "output"]]
  /\ UNCHANGED <<sup, abandoned, fifos, wire>>

\* dispatch catches the exception; the output transforms are skipped.
HandlerThrows(r) ==
  /\ job[r].pc = "handler"
  /\ job' = [job EXCEPT ![r] = [@ EXCEPT !.outcome = "threw", !.pc = "respond"]]
  /\ UNCHANGED <<sup, abandoned, fifos, wire>>

\* HandleFifo unlinks.  (The early return for a result that is no object is
\* not reached: every registered handler sets an object or nothing.)
apply_output_transforms(r) ==
  /\ job[r].pc = "output"
  /\ fifos' = IF job[r].pipe THEN unlink(PipePath(r)) ELSE fifos
  /\ Goto(r, "respond")
  /\ UNCHANGED <<sup, abandoned, wire>>

-----------------------------------------------------------------------------
(* The response *)

\* An error for a result other than 0 or one that fails its schema.
BuildResponse(r) ==
  /\ job[r].pc = "respond"
  /\ \/ job[r].outcome = "ok" /\ Reply(r, Response(r))
     \/ Reply(r, Error(r))
  /\ UNCHANGED <<sup, abandoned, fifos, wire>>

\* print_response looks the id up and lets go of abandoned_mutex ...
print_response(r) ==
  /\ job[r].pc = "print"
  /\ Goto(r, IF job[r].reply.id # Nil /\ is_abandoned(abandoned, r)
             THEN "discarded" ELSE "write")
  /\ UNCHANGED <<sup, abandoned, fifos, wire>>

\* ... and writes the line under output_mutex.
WriteResponse(r) ==
  /\ job[r].pc = "write"
  /\ wire' = wire \cup {job[r].reply}
  /\ Goto(r, "done")
  /\ UNCHANGED <<sup, abandoned, fifos>>

-----------------------------------------------------------------------------
(* The supervisor: send_timeout_error *)

InProgress(r) == job[r].pc \notin {"unread", "done", "discarded"}

\* At most once for a request: its worker is detached afterwards.
TimeOut(r) ==
  /\ sup.pc = "idle"
  /\ InProgress(r) /\ job[r].reply # Error(Nil) /\ ~job[r].timedout
  /\ sup' = [pc |-> "print", r |-> r]
  /\ job' = [job EXCEPT ![r].timedout = TRUE]
  /\ UNCHANGED <<abandoned, fifos, wire>>

TimeoutPrint ==
  /\ sup.pc = "print"
  /\ sup' = [sup EXCEPT !.pc = IF is_abandoned(abandoned, sup.r) THEN "mark"
                               ELSE "write"]
  /\ UNCHANGED <<job, abandoned, fifos, wire>>

\* Mutant: the id is marked without the error having been written.
MarkOnly ==
  /\ sup.pc = "write"
  /\ sup' = [sup EXCEPT !.pc = "mark"]
  /\ UNCHANGED <<job, abandoned, fifos, wire>>

TimeoutWrite ==
  /\ sup.pc = "write"
  /\ wire' = wire \cup {[kind |-> "timeout", id |-> sup.r]}
  /\ sup' = [sup EXCEPT !.pc = "mark"]
  /\ UNCHANGED <<job, abandoned, fifos>>

TimeoutMark ==
  /\ sup.pc = "mark"
  /\ abandoned' = mark_abandoned(abandoned, sup.r)
  /\ sup' = [pc |-> "idle", r |-> Nil]
  /\ UNCHANGED <<job, fifos, wire>>

-----------------------------------------------------------------------------
Init ==
  /\ job = [r \in Requests |-> NewJob]
  /\ sup = [pc |-> "idle", r |-> Nil]
  /\ abandoned = EmptyRing
  /\ fifos = {}
  /\ wire = {}

process_request(r) ==
  \/ ParseFails(r) \/ ParseRequest(r) \/ RejectRequest(r)
  \/ ExceptionOutsideHandler(r) \/ Dispatch(r)
  \/ CreateFifo(r) \/ CreateFifoFails(r) \/ send_notification(r)
  \/ set_content_len(r) \/ HandlerThrows(r)
  \/ \E rc \in {"ok", "failed"} : HandlerReturns(r, rc)
  \/ apply_output_transforms(r) \/ BuildResponse(r)
  \/ print_response(r) \/ WriteResponse(r)

send_timeout_error ==
  \/ \E r \in Requests : TimeOut(r)
  \/ TimeoutPrint \/ TimeoutWrite \/ TimeoutMark

Finished == /\ \A r \in Requests : job[r].pc \in {"done", "discarded"}
            /\ sup.pc = "idle"
            /\ UNCHANGED vars

Next == (\E r \in Requests : process_request(r)) \/ send_timeout_error \/ Finished

Spec == Init /\ [][Next]_vars

-----------------------------------------------------------------------------
(* Properties *)

MessageKind == {"notification", "result", "error", "timeout"}

\* A request that was understood never ends in silence: when its worker is
\* done with it, the client has been sent its result, its error or its timeout
\* error.  (An exception outside the handler is reported without the id.)
Told(r) == \E m \in wire : m.id = r /\ m.kind # "notification"
AcceptedIsAnswered ==
  \A r \in Requests :
    job[r].pc \in {"done", "discarded"} => Told(r) \/ job[r].reply = Error(Nil)

\* As long as a handler that was given a pipe runs, that pipe exists and is its
\* own: no other request's set-up or clean-up removes it under the handler or
\* under the client that was sent its path.
FifoLivesWhileUsed ==
  \A r \in Requests :
    (job[r].pipe /\ job[r].pc \in {"notify", "handler"})
      => [path |-> PipePath(r), owner |-> r] \in fifos

\* A command that returned, successfully or not, leaves no pipe behind; only
\* an exception in the handler skips the clean-up.
FifoRemoved ==
  \A f \in fifos :
    \/ InProgress(f.owner) /\ job[f.owner].pc # "print"
    \/ job[f.owner].outcome = "threw"

\* Named pipes of streaming requests (builder.cpp:277, dispatcher.cpp:80).
PipesSound == FifoLivesWhileUsed /\ FifoRemoved

\* What an upload stores comes from the stream the client announced.
UploadComesFromStream == \A r \in Uploads : job[r].wrote # "empty input"
=============================================================================
