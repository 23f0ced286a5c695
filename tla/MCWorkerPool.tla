---------------------------- MODULE MCWorkerPool ----------------------------
(* WorkerPool for TLC: requests are interchangeable.                        *)
EXTENDS WorkerPool, TLC

RequestSymmetry == Permutations(Requests)

\* The service as the client sees it.
Service ==
  INSTANCE RequestService WITH
    asked    <- {r \in Requests : req[r].received},
    runs     <- [r \in Requests |-> req[r].runs],
    answers  <- [r \in Requests |-> req[r].responses],
    timeouts <- [r \in Requests |-> req[r].timeouts]

\* The pool implements the service: whatever faults, hangs, replacements and
\* redistributions come between, every step is invisible to the client or one
\* step of RequestService (worker.cpp: worker_loop, recover_requests_from_worker,
\* redistribute_requests; rpc_server.cpp: print_response, send_timeout_error).
ImplementsService == Service!Spec
\* The size of the delivery run: how many requests, faults and failed
\* initializations one behaviour holds together.
MaxIncidents == 3
Incidents ==
  Cardinality({r \in Requests : req[r].received}) + faults + init_failures

\* Handlers return and the client stays connected: what becomes of a request
\* after the client has hung up is no question of EveryRequestAnswered.
DeliverySpec ==
  /\ Init
  /\ [][Next /\ ~stdin_closed' /\ Incidents' <= MaxIncidents]_vars
  /\ ThreadsRun /\ HandlersReturn
=============================================================================
