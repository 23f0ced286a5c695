--------------------------- MODULE RequestService ---------------------------
(***************************************************************************)
(* What the server promises the client of each request it reads, without   *)
(* threads, queues and replacements: a request is carried out as often as  *)
(* failures make it necessary but never after its response, it gets at     *)
(* most one response and at most one timeout error, and neither before it  *)
(* was asked.  A response may still come after the timeout error (the two  *)
(* race, and the ring that filters late ones is bounded), and a request    *)
(* may get nothing if the process ends.                                    *)
(***************************************************************************)
EXTENDS Naturals

CONSTANT Requests

VARIABLES asked,      \* the requests read
          runs,       \* [Requests -> times the handler was entered]
          answers,    \* [Requests -> responses sent]
          timeouts    \* [Requests -> timeout errors sent]

client == <<asked, runs, answers, timeouts>>

Init ==
  /\ asked = {}
  /\ runs = [r \in Requests |-> 0]
  /\ answers = [r \in Requests |-> 0]
  /\ timeouts = [r \in Requests |-> 0]

Ask(r) ==
  /\ r \notin asked /\ asked' = asked \cup {r}
  /\ UNCHANGED <<runs, answers, timeouts>>

Execute(r) ==
  /\ r \in asked /\ answers[r] = 0
  /\ runs' = [runs EXCEPT ![r] = @ + 1]
  /\ UNCHANGED <<asked, answers, timeouts>>

Answer(r) ==
  /\ runs[r] > 0 /\ answers[r] = 0
  /\ answers' = [answers EXCEPT ![r] = 1]
  /\ UNCHANGED <<asked, runs, timeouts>>

TimeOut(r) ==
  /\ r \in asked /\ timeouts[r] = 0
  /\ timeouts' = [timeouts EXCEPT ![r] = 1]
  /\ UNCHANGED <<asked, runs, answers>>

Next == \E r \in Requests : Ask(r) \/ Execute(r) \/ Answer(r) \/ TimeOut(r)

Spec == Init /\ [][Next]_client
=============================================================================
