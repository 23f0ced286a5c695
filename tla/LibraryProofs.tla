--------------------------- MODULE LibraryProofs ---------------------------
(***************************************************************************)
(* Proofs, for every set of tasks and of requests, of what the z/OS        *)
(* libraries of MCLibrary.tla keep apart and give back: the member writer  *)
(* (MemberWriter.tla), data sets and their fixed DDs (DataSets.tla), UNIX  *)
(* files (UssFiles.tla).                                                   *)
(*                                                                         *)
(* The data of a request (lines, attributes, contents) is unconstrained    *)
(* here: of a session or a task the proofs know which fields it has.       *)
(***************************************************************************)
EXTENDS MCLibrary, FiniteSetTheorems, SequenceTheorems, TLAPS

-----------------------------------------------------------------------------
(* The member writer *)

SessionFields == {"pc", "m", "streamed", "in", "ended", "blanks", "q", "prev", "trunc",
                  "rc", "stowed", "stuck"}
IoFields == {"enq", "reserve", "open", "abend", "buf", "bytes", "out", "lines"}

(* What a session s with the control block i holds, and how it accounts    *)
(* for what it could not give back.                                        *)
Accounted(s) == s.stuck /\ s.rc = "failure"
SessionOk(s, i) ==
  /\ SessionFields \subseteq DOMAIN s /\ IoFields \subseteq DOMAIN i
  /\ s.pc = "idle" => ~i.enq /\ ~i.reserve /\ ~i.open
  /\ s.pc \in {"open", "read", "write"} => i.reserve
  /\ (i.open /\ s.pc \notin {"deq", "free", "done"}) => i.reserve
  /\ (i.open /\ s.pc \in {"deqres", "deq", "free", "done"}) => Accounted(s)
  /\ (i.reserve /\ s.pc \in {"deq", "free", "done"}) => Accounted(s)
  /\ (i.enq /\ s.pc \in {"free", "done"}) => Accounted(s)

(* Every session is in order, and the RESERVE has one holder.              *)
WriterInv ==
  /\ DOMAIN ss = Tasks /\ DOMAIN ioc = Tasks
  /\ \A t \in Tasks : SessionOk(ss[t], ioc[t])
  /\ \A t, u \in Tasks : ioc[t].reserve /\ ioc[u].reserve => t = u

\* A step of one session.
LEMMA OneSession ==
  ASSUME WriterInv, NEW t \in Tasks, NEW s, NEW i,
         ss' = [ss EXCEPT ![t] = s], ioc' = [ioc EXCEPT ![t] = i],
         SessionOk(s, i), i.reserve => ioc[t].reserve \/ ReserveFree(t)
  PROVE  WriterInv'
<1>1. \A u \in Tasks : /\ ss'[u] = IF u = t THEN s ELSE ss[u]
                       /\ ioc'[u] = IF u = t THEN i ELSE ioc[u]
  BY DEF WriterInv
<1>2. DOMAIN ss' = Tasks /\ DOMAIN ioc' = Tasks
  BY DEF WriterInv
<1>3. \A u \in Tasks : SessionOk(ss'[u], ioc'[u])
  BY <1>1 DEF WriterInv
<1>4. \A u, v \in Tasks : ioc'[u].reserve /\ ioc'[v].reserve => u = v
  BY <1>1 DEF WriterInv, ReserveFree
<1> QED
  BY <1>2, <1>3, <1>4 DEF WriterInv

\* A step that leaves the control block alone.
LEMMA SameBlock ==
  ASSUME WriterInv, NEW t \in Tasks, NEW s, ss' = [ss EXCEPT ![t] = s],
         ioc' = ioc, SessionOk(s, ioc[t])
  PROVE  WriterInv'
<1>1. \A u \in Tasks : ss'[u] = IF u = t THEN s ELSE ss[u]
  BY DEF WriterInv
<1>2. DOMAIN ss' = Tasks
  BY DEF WriterInv
<1>3. \A u \in Tasks : SessionOk(ss'[u], ioc'[u])
  BY <1>1 DEF WriterInv
<1> QED
  BY <1>2, <1>3 DEF WriterInv

(* The control block i becomes j without giving up or taking anything.     *)
SameHolds(i, j) ==
  /\ IoFields \subseteq DOMAIN j
  /\ j.enq = i.enq /\ j.reserve = i.reserve /\ j.open = i.open

\* Blocks go out and records go in; what is held stays held.
LEMMA WriteBlockHolds ==
  ASSUME NEW i, IoFields \subseteq DOMAIN i PROVE SameHolds(i, write_block(i))
BY DEF SameHolds, write_block, IoFields

\* A record of a fixed format.
LEMMA FixedHolds ==
  ASSUME NEW i, NEW n, IoFields \subseteq DOMAIN i
  PROVE  SameHolds(i, handle_fixed_record(i, n))
<1> DEFINE j == [i EXCEPT !.lines = @ + 1, !.buf = Append(@, n), !.bytes = @ + dcb.lrecl]
<1>1. SameHolds(i, j)
  BY DEF SameHolds, IoFields
<1>2. handle_fixed_record(i, n) = IF j.bytes >= dcb.blksize THEN write_block(j) ELSE j
  BY DEF handle_fixed_record
<1> HIDE DEF j
<1>3. SameHolds(j, write_block(j))
  BY <1>1, WriteBlockHolds DEF SameHolds
<1> QED
  BY <1>1, <1>2, <1>3 DEF SameHolds

\* A record of a variable format.
LEMMA VariableHolds ==
  ASSUME NEW i, NEW n, IoFields \subseteq DOMAIN i
  PROVE  SameHolds(i, handle_variable_record(i, n))
<1>1. \A x : IoFields \subseteq DOMAIN x => SameHolds(x, init_bdw(x))
  BY DEF SameHolds, init_bdw, IoFields
<1>2. \A x : IoFields \subseteq DOMAIN x => SameHolds(x, copy_variable_record(x, n))
  BY DEF SameHolds, copy_variable_record, IoFields
<1> DEFINE a == init_bdw(i)
           b == IF n + RDW >= dcb.blksize - a.bytes THEN write_block(a) ELSE a
<1>3. handle_variable_record(i, n) \in
        {write_block(copy_variable_record(a, n)), copy_variable_record(b, n), b}
  BY DEF handle_variable_record
<1>4. SameHolds(i, a) /\ IoFields \subseteq DOMAIN a
  BY <1>1 DEF SameHolds
<1>5. b \in {a, write_block(a)}
  OBVIOUS
<1> HIDE DEF a, b
<1>6. SameHolds(a, write_block(a)) /\ SameHolds(a, a)
  BY <1>4, WriteBlockHolds DEF SameHolds
<1>7. SameHolds(i, b) /\ IoFields \subseteq DOMAIN b
  BY <1>4, <1>5, <1>6 DEF SameHolds
<1>8. SameHolds(i, copy_variable_record(b, n))
  BY <1>2, <1>7 DEF SameHolds
<1>9. SameHolds(a, copy_variable_record(a, n))
  BY <1>2, <1>4
<1>10. SameHolds(copy_variable_record(a, n), write_block(copy_variable_record(a, n)))
  BY <1>9, WriteBlockHolds DEF SameHolds
<1>11. SameHolds(i, write_block(copy_variable_record(a, n)))
  BY <1>4, <1>9, <1>10 DEF SameHolds
<1> QED
  BY <1>3, <1>7, <1>8, <1>11

\* One call of write_output_bpam.
LEMMA WriteHolds ==
  ASSUME NEW i, NEW n, IoFields \subseteq DOMAIN i
  PROVE  SameHolds(i, write_output_bpam(i, n))
BY FixedHolds, VariableHolds DEF write_output_bpam

\* The line loop changes what a session has to write, and nothing it answers.
LEMMA TakeLineKeeps ==
  ASSUME NEW s, NEW line, SessionFields \subseteq DOMAIN s
  PROVE  /\ SessionFields \subseteq DOMAIN TakeLine(s, line)
         /\ TakeLine(s, line).pc = s.pc
BY DEF TakeLine, SessionFields

(* A session x goes on at pc: it has given up on nothing it answers for.   *)
GoesTo(x, s, pc) ==
  /\ SessionFields \subseteq DOMAIN s
  /\ s.pc = pc /\ s.rc \in {x.rc, "failure"}
  /\ x.stuck => s.stuck

\* Going on, with or without an error to report.
LEMMA GotoForm ==
  ASSUME WriterInv, NEW t \in Tasks, NEW pc, Goto(t, pc) \/ Fail(t, pc)
  PROVE  \E s : ss' = [ss EXCEPT ![t] = s] /\ GoesTo(ss[t], s, pc)
<1> DEFINE x == ss[t]
<1>0. SessionFields \subseteq DOMAIN x
  BY DEF WriterInv, SessionOk
<1>1. CASE Goto(t, pc)
  <2> DEFINE s == [x EXCEPT !.pc = pc]
  <2>1. ss' = [ss EXCEPT ![t] = s]
    BY <1>1 DEF Goto
  <2>2. GoesTo(x, s, pc)
    BY <1>0 DEF GoesTo, SessionFields
  <2> QED
    BY <2>1, <2>2
<1>2. CASE Fail(t, pc)
  <2> DEFINE s == [x EXCEPT !.pc = pc, !.rc = IF @ = "ok" THEN "failure" ELSE @]
  <2>1. ss' = [ss EXCEPT ![t] = s]
    BY <1>2 DEF Fail, WriterInv
  <2>2. GoesTo(x, s, pc)
    BY <1>0 DEF GoesTo, SessionFields
  <2> QED
    BY <2>1, <2>2
<1> QED
  BY <1>1, <1>2

\* Opening: each resource is obtained after the one it depends on.
LEMMA OpenStep ==
  ASSUME WriterInv, NEW t \in Tasks,
         \/ alloc_dd(t) \/ read_output_jfcb(t) \/ enq_data_set(t) \/ get_ucb(t)
         \/ reserve_data_set(t) \/ open_data_set(t)
  PROVE  WriterInv'
<1> DEFINE x == ss[t]
           i == ioc[t]
<1>0. SessionOk(x, i) /\ SessionFields \subseteq DOMAIN x /\ IoFields \subseteq DOMAIN i
  BY DEF WriterInv, SessionOk
<1>1. CASE alloc_dd(t)
  <2>1. \E s : /\ ss' = [ss EXCEPT ![t] = s] /\ SessionFields \subseteq DOMAIN s
               /\ s.pc \in {"jfcb", "done"}
    <3>1. CASE \E m, streamed : ss' = [ss EXCEPT ![t].pc = "jfcb", ![t].m = m,
                                              ![t].streamed = streamed]
      <4>1. PICK m, streamed : ss' = [ss EXCEPT ![t].pc = "jfcb", ![t].m = m,
                                                ![t].streamed = streamed]
        BY <3>1
      <4> DEFINE s == [x EXCEPT !.pc = "jfcb", !.m = m, !.streamed = streamed]
      <4>2. ss' = [ss EXCEPT ![t] = s]
        BY <4>1 DEF WriterInv
      <4>3. SessionFields \subseteq DOMAIN s /\ s.pc = "jfcb"
        BY <1>0 DEF SessionFields
      <4> HIDE DEF s
      <4> QED
        BY <4>2, <4>3
    <3>2. CASE ss' = [ss EXCEPT ![t].pc = "done", ![t].rc = "failure"]
      <4> DEFINE s == [x EXCEPT !.pc = "done", !.rc = "failure"]
      <4>2. ss' = [ss EXCEPT ![t] = s]
        BY <3>2 DEF WriterInv
      <4>3. SessionFields \subseteq DOMAIN s /\ s.pc = "done"
        BY <1>0 DEF SessionFields
      <4> HIDE DEF s
      <4> QED
        BY <4>2, <4>3
    <3> QED
      BY <1>1, <3>1, <3>2 DEF alloc_dd
  <2>2. PICK s : /\ ss' = [ss EXCEPT ![t] = s] /\ SessionFields \subseteq DOMAIN s
                 /\ s.pc \in {"jfcb", "done"}
    BY <2>1
  <2>3. SessionOk(s, i)
    BY <1>0, <1>1, <2>2 DEF SessionOk, alloc_dd
  <2> QED
    BY <1>1, <2>2, <2>3, SameBlock DEF alloc_dd
<1>2. ASSUME NEW pc \in {"enq", "ucb", "reserve", "flush"}, NEW s,
             x.pc \in {"jfcb", "enq", "ucb", "reserve", "open"}, GoesTo(x, s, pc)
      PROVE  SessionOk(s, i)
  BY <1>0, <1>2 DEF SessionOk, GoesTo
<1>3. CASE read_output_jfcb(t) \/ get_ucb(t)
  <2>1. PICK pc \in {"enq", "reserve", "flush"} : Goto(t, pc) \/ Fail(t, pc)
    BY <1>3 DEF read_output_jfcb, get_ucb
  <2>2. PICK s : ss' = [ss EXCEPT ![t] = s] /\ GoesTo(x, s, pc)
    BY <2>1, GotoForm
  <2>3. SessionOk(s, i)
    BY <1>2, <1>3, <2>2 DEF read_output_jfcb, get_ucb
  <2> QED
    BY <1>3, <2>2, <2>3, SameBlock DEF read_output_jfcb, get_ucb
<1>4. CASE Fail(t, "flush") /\ ioc' = ioc /\ x.pc \in {"enq", "reserve", "open"}
  <2>1. PICK s : ss' = [ss EXCEPT ![t] = s] /\ GoesTo(x, s, "flush")
    BY <1>4, GotoForm
  <2>2. SessionOk(s, i)
    BY <1>2, <1>4, <2>1
  <2> QED
    BY <1>4, <2>1, <2>2, SameBlock
<1>5. CASE x.pc = "enq" /\ ioc' = [ioc EXCEPT ![t].enq = TRUE] /\ Goto(t, "ucb")
  <2> DEFINE j == [i EXCEPT !.enq = TRUE]
  <2>1. ioc' = [ioc EXCEPT ![t] = j]
    BY <1>5
  <2>2. IoFields \subseteq DOMAIN j /\ j.reserve = i.reserve /\ j.open = i.open
    BY <1>0 DEF IoFields
  <2> HIDE DEF j
  <2>3. PICK s : ss' = [ss EXCEPT ![t] = s] /\ GoesTo(x, s, "ucb")
    BY <1>5, GotoForm
  <2>4. SessionOk(s, j)
    BY <1>0, <1>5, <2>2, <2>3 DEF SessionOk, GoesTo
  <2> QED
    BY <2>1, <2>2, <2>3, <2>4, OneSession
<1>6. CASE /\ x.pc = "reserve" /\ ReserveFree(t)
           /\ ioc' = [ioc EXCEPT ![t].reserve = TRUE] /\ Goto(t, "open")
  <2> DEFINE j == [i EXCEPT !.reserve = TRUE]
  <2>1. ioc' = [ioc EXCEPT ![t] = j]
    BY <1>6
  <2>2. IoFields \subseteq DOMAIN j /\ j.reserve = TRUE /\ j.open = i.open
    BY <1>0 DEF IoFields
  <2> HIDE DEF j
  <2>3. PICK s : ss' = [ss EXCEPT ![t] = s] /\ GoesTo(x, s, "open")
    BY <1>6, GotoForm
  <2>4. SessionOk(s, j)
    BY <1>0, <1>6, <2>2, <2>3 DEF SessionOk, GoesTo
  <2> QED
    BY <1>6, <2>1, <2>2, <2>3, <2>4, OneSession
<1>7. CASE x.pc = "open" /\ \/ ioc' = [ioc EXCEPT ![t].open = TRUE]
                            \/ ioc' = [ioc EXCEPT ![t] = Abended(@, FALSE)]
      /\ (Goto(t, "read") \/ Fail(t, "flush"))
  <2>1. \E j : /\ ioc' = [ioc EXCEPT ![t] = j]
               /\ IoFields \subseteq DOMAIN j /\ j.reserve = i.reserve
    <3>1. CASE ioc' = [ioc EXCEPT ![t].open = TRUE]
      <4> DEFINE j == [i EXCEPT !.open = TRUE]
      <4>1. ioc' = [ioc EXCEPT ![t] = j]
        BY <3>1
      <4>2. IoFields \subseteq DOMAIN j /\ j.reserve = i.reserve
        BY <1>0 DEF IoFields
      <4> HIDE DEF j
      <4> QED
        BY <4>1, <4>2
    <3>2. CASE ioc' = [ioc EXCEPT ![t] = Abended(@, FALSE)]
      <4> DEFINE j == Abended(i, FALSE)
      <4>1. ioc' = [ioc EXCEPT ![t] = j]
        BY <3>2
      <4>2. IoFields \subseteq DOMAIN j /\ j.reserve = i.reserve
        BY <1>0 DEF IoFields, Abended
      <4> HIDE DEF j
      <4> QED
        BY <4>1, <4>2
    <3> QED
      BY <1>7, <3>1, <3>2
  <2>2. PICK j : /\ ioc' = [ioc EXCEPT ![t] = j]
                 /\ IoFields \subseteq DOMAIN j /\ j.reserve = i.reserve
    BY <2>1
  <2>3. PICK pc, s : pc \in {"read", "flush"} /\ ss' = [ss EXCEPT ![t] = s] /\ GoesTo(x, s, pc)
    BY <1>7, GotoForm
  <2>4. SessionOk(s, j)
    BY <1>0, <1>7, <2>2, <2>3 DEF SessionOk, GoesTo
  <2> QED
    BY <2>2, <2>3, <2>4, OneSession
<1> QED
  BY <1>1, <1>3, <1>4, <1>5, <1>6, <1>7 DEF enq_data_set, reserve_data_set, open_data_set

\* Writing: the RESERVE is held from the open to the close.
LEMMA WriteStep ==
  ASSUME WriterInv, NEW t \in Tasks,
         read_line(t) \/ end_of_input(t) \/ write_record(t) \/ all_written(t)
  PROVE  WriterInv'
<1> DEFINE x == ss[t]
           i == ioc[t]
<1>0. SessionOk(x, i) /\ SessionFields \subseteq DOMAIN x /\ IoFields \subseteq DOMAIN i
  BY DEF WriterInv, SessionOk
<1>1. x.pc \in {"read", "write"} /\ i.reserve
  BY <1>0 DEF read_line, end_of_input, write_record, all_written, SessionOk
<1>2. ASSUME NEW s, NEW j, SessionFields \subseteq DOMAIN s, IoFields \subseteq DOMAIN j,
             s.pc \in {"read", "write", "flush"}, j.reserve = i.reserve
      PROVE  SessionOk(s, j)
  BY <1>1, <1>2 DEF SessionOk
<1>3. ASSUME NEW s, ioc' = ioc, ss' = [ss EXCEPT ![t] = s], SessionFields \subseteq DOMAIN s,
             s.pc \in {"read", "write", "flush"}
      PROVE  WriterInv'
  BY <1>0, <1>2, <1>3, SameBlock
<1>4. CASE ioc' = ioc /\ (Goto(t, "flush") \/ Fail(t, "flush"))
  <2>1. PICK s : ss' = [ss EXCEPT ![t] = s] /\ GoesTo(x, s, "flush")
    BY <1>4, GotoForm
  <2> QED
    BY <1>3, <1>4, <2>1 DEF GoesTo
<1>5. CASE read_line(t)
  <2>1. CASE \E line : ss' = [ss EXCEPT ![t] = [TakeLine(x, line) EXCEPT !.in = Append(@, line)]]
    <3>1. PICK line : ss' = [ss EXCEPT ![t] = [TakeLine(x, line) EXCEPT !.in = Append(@, line)]]
      BY <2>1
    <3> DEFINE e == TakeLine(x, line)
               s == [e EXCEPT !.in = Append(@, line)]
    <3>2. SessionFields \subseteq DOMAIN e /\ e.pc = x.pc
      BY <1>0, TakeLineKeeps
    <3> HIDE DEF e
    <3>3. SessionFields \subseteq DOMAIN s /\ s.pc = x.pc
      BY <3>2 DEF SessionFields
    <3>4. ss' = [ss EXCEPT ![t] = s] /\ ioc' = ioc
      BY <1>5, <3>1 DEF e, read_line
    <3> HIDE DEF s
    <3> QED
      BY <1>1, <1>3, <3>3, <3>4
  <2> QED
    BY <1>4, <1>5, <2>1 DEF read_line
<1>6. CASE end_of_input(t)
  <2>1. PICK last \in {<<>>} \cup {<<l>> : l \in IF Len(x.in) < work.load[t] THEN work.lines ELSE {}} :
          LET e == IF last = <<>> THEN x
                   ELSE [process_bpam_trailing_line(x, last[1]) EXCEPT !.in = Append(@, last[1])]
          IN  ss' = [ss EXCEPT ![t] = [e EXCEPT !.pc = "write", !.ended = TRUE,
                                                !.q = @ \o e.prev, !.prev = <<>>]]
    BY <1>6 DEF end_of_input
  <2> DEFINE l == last[1]
             p == process_bpam_trailing_line(x, l)
             e == IF last = <<>> THEN x ELSE [p EXCEPT !.in = Append(@, l)]
             s == [e EXCEPT !.pc = "write", !.ended = TRUE, !.q = @ \o e.prev, !.prev = <<>>]
  <2>2. ss' = [ss EXCEPT ![t] = s] /\ ioc' = ioc
    BY <1>6, <2>1 DEF end_of_input
  <2>3. SessionFields \subseteq DOMAIN p
    BY <1>0, TakeLineKeeps DEF process_bpam_trailing_line
  <2> HIDE DEF p, l
  <2>4. SessionFields \subseteq DOMAIN e
    BY <1>0, <2>3 DEF SessionFields
  <2> HIDE DEF e
  <2>5. SessionFields \subseteq DOMAIN s /\ s.pc = "write"
    BY <2>4 DEF SessionFields
  <2> HIDE DEF s
  <2> QED
    BY <1>3, <2>2, <2>5
<1>7. CASE write_record(t)
  <2> DEFINE r == Head(x.q)
             n == r.len + (IF r.c = "" THEN 0 ELSE 1)
             j == write_output_bpam(i, n)
  <2>1. SameHolds(i, j)
    BY <1>0, WriteHolds
  <2>2. CASE ss' = [ss EXCEPT ![t].q = Tail(@)] /\ ioc' = [ioc EXCEPT ![t] = j]
    <3> DEFINE s == [x EXCEPT !.q = Tail(@)]
    <3>1. ss' = [ss EXCEPT ![t] = s]
      BY <2>2
    <3>2. SessionFields \subseteq DOMAIN s /\ s.pc = x.pc
      BY <1>0 DEF SessionFields
    <3> HIDE DEF s, j
    <3>3. SessionOk(s, j)
      BY <1>1, <1>2, <2>1, <3>2 DEF SameHolds
    <3> QED
      BY <2>1, <2>2, <3>1, <3>3, OneSession DEF SameHolds
  <2>3. CASE Fail(t, "flush") /\ \E still \in BOOLEAN : ioc' = [ioc EXCEPT ![t] = Abended(@, still)]
    <3>1. PICK still \in BOOLEAN : ioc' = [ioc EXCEPT ![t] = Abended(@, still)]
      BY <2>3
    <3> DEFINE k == Abended(i, still)
    <3>2. ioc' = [ioc EXCEPT ![t] = k]
      BY <3>1
    <3>3. IoFields \subseteq DOMAIN k /\ k.reserve = i.reserve
      BY <1>0 DEF IoFields, Abended
    <3> HIDE DEF k
    <3>4. PICK s : ss' = [ss EXCEPT ![t] = s] /\ GoesTo(x, s, "flush")
      BY <2>3, GotoForm
    <3>5. SessionOk(s, k)
      BY <1>2, <3>3, <3>4 DEF GoesTo
    <3> QED
      BY <3>2, <3>3, <3>4, <3>5, OneSession
  <2> QED
    BY <1>7, <2>2, <2>3 DEF write_record
<1>8. CASE all_written(t)
  BY <1>4, <1>8 DEF all_written
<1> QED
  BY <1>5, <1>6, <1>7, <1>8

\* Closing: what is not given back is accounted for.
LEMMA CloseStep ==
  ASSUME WriterInv, NEW t \in Tasks,
         \/ write_flush(t) \/ finalize_dcb(t) \/ deq_reserve_data_set(t)
         \/ deq_data_set(t) \/ zds_close_output_bpam(t)
  PROVE  WriterInv'
<1> DEFINE x == ss[t]
           i == ioc[t]
<1>0. SessionOk(x, i) /\ SessionFields \subseteq DOMAIN x /\ IoFields \subseteq DOMAIN i
  BY DEF WriterInv, SessionOk
<1>1. CASE write_flush(t)
  <2>1. PICK s : ss' = [ss EXCEPT ![t] = s] /\ GoesTo(x, s, "final")
    BY <1>1, GotoForm DEF write_flush
  <2>2. CASE ioc' = ioc
    <3>1. SessionOk(s, i)
      BY <1>0, <1>1, <2>1 DEF SessionOk, GoesTo, write_flush
    <3> QED
      BY <2>1, <2>2, <3>1, SameBlock
  <2>3. CASE i.open /\ \E j : /\ ioc' = [ioc EXCEPT ![t] = j] /\ IoFields \subseteq DOMAIN j
                              /\ j.reserve = i.reserve
    <3>1. PICK j : /\ ioc' = [ioc EXCEPT ![t] = j] /\ IoFields \subseteq DOMAIN j
                   /\ j.reserve = i.reserve
      BY <2>3
    <3>2. i.reserve
      BY <1>0, <1>1, <2>3 DEF SessionOk, write_flush
    <3>3. SessionOk(s, j)
      BY <2>1, <3>1, <3>2 DEF SessionOk, GoesTo
    <3> QED
      BY <2>1, <3>1, <3>3, OneSession
  <2>4. ASSUME NEW still \in BOOLEAN
        PROVE  IoFields \subseteq DOMAIN Abended(i, still) /\ Abended(i, still).reserve = i.reserve
    BY <1>0 DEF IoFields, Abended
  <2>5. IoFields \subseteq DOMAIN write_block(i) /\ write_block(i).reserve = i.reserve
    BY <1>0, WriteBlockHolds DEF SameHolds
  <2>6. CASE i.open /\ ioc' = [ioc EXCEPT ![t] = write_block(@)]
    BY <2>3, <2>5, <2>6
  <2>7. CASE i.open /\ \E still \in BOOLEAN : ioc' = [ioc EXCEPT ![t] = Abended(@, still)]
    BY <2>3, <2>4, <2>7
  <2> QED
    BY <1>1, <2>2, <2>6, <2>7 DEF write_flush
<1>2. CASE finalize_dcb(t)
  <2>1. CASE ~i.open /\ Goto(t, "deqres") /\ ioc' = ioc
    <3>1. PICK s : ss' = [ss EXCEPT ![t] = s] /\ GoesTo(x, s, "deqres")
      BY <2>1, GotoForm
    <3>2. SessionOk(s, i)
      BY <1>0, <2>1, <3>1 DEF SessionOk, GoesTo
    <3> QED
      BY <2>1, <3>1, <3>2, SameBlock
  <2>2. ASSUME i.open, NEW stow \in BOOLEAN, NEW close \in BOOLEAN,
               ioc' = [ioc EXCEPT ![t].open = ~close],
               ss' = [ss EXCEPT ![t].pc = "deqres", ![t].stowed = stow, ![t].stuck = ~close,
                          ![t].rc = IF stow /\ close /\ ~ioc[t].abend THEN @ ELSE "failure"]
        PROVE  WriterInv'
    <3> DEFINE j == [i EXCEPT !.open = ~close]
               s == [x EXCEPT !.pc = "deqres", !.stowed = stow, !.stuck = ~close,
                              !.rc = IF stow /\ close /\ ~i.abend THEN @ ELSE "failure"]
    <3>1. ioc' = [ioc EXCEPT ![t] = j]
      BY <2>2
    <3>2. ss' = [ss EXCEPT ![t] = s]
      BY <2>2 DEF WriterInv
    <3>3. IoFields \subseteq DOMAIN j /\ j.reserve = i.reserve /\ (j.open => ~close)
      BY <1>0 DEF IoFields
    <3>4. /\ SessionFields \subseteq DOMAIN s /\ s.pc = "deqres"
          /\ ~close => s.stuck /\ s.rc = "failure"
      BY <1>0 DEF SessionFields
    <3>5. i.reserve
      BY <1>0, <1>2, <2>2 DEF SessionOk, finalize_dcb
    <3> HIDE DEF j, s
    <3>6. SessionOk(s, j)
      BY <3>3, <3>4, <3>5 DEF SessionOk, Accounted
    <3> QED
      BY <3>1, <3>2, <3>3, <3>6, OneSession
  <2> QED
    BY <1>2, <2>1, <2>2 DEF finalize_dcb
<1>3. ASSUME NEW pc, Stuck(t, pc)
      PROVE  \E s : /\ ss' = [ss EXCEPT ![t] = s] /\ SessionFields \subseteq DOMAIN s
                    /\ s.pc = pc /\ Accounted(s)
  <2> DEFINE s == [x EXCEPT !.pc = pc, !.rc = "failure", !.stuck = TRUE]
  <2>1. ss' = [ss EXCEPT ![t] = s]
    BY <1>3 DEF Stuck, WriterInv
  <2>2. SessionFields \subseteq DOMAIN s /\ s.pc = pc /\ Accounted(s)
    BY <1>0 DEF SessionFields, Accounted
  <2> HIDE DEF s
  <2> QED
    BY <2>1, <2>2
<1>4. CASE deq_reserve_data_set(t)
  <2>1. CASE Goto(t, "deq") /\ ioc' = [ioc EXCEPT ![t].reserve = FALSE]
    <3> DEFINE j == [i EXCEPT !.reserve = FALSE]
    <3>1. ioc' = [ioc EXCEPT ![t] = j]
      BY <2>1
    <3>2. IoFields \subseteq DOMAIN j /\ j.reserve = FALSE /\ j.open = i.open
      BY <1>0 DEF IoFields
    <3> HIDE DEF j
    <3>3. PICK s : ss' = [ss EXCEPT ![t] = s] /\ GoesTo(x, s, "deq")
      BY <2>1, GotoForm
    <3>4. SessionOk(s, j)
      BY <1>0, <1>4, <3>2, <3>3 DEF SessionOk, GoesTo, Accounted, deq_reserve_data_set
    <3> QED
      BY <3>1, <3>2, <3>3, <3>4, OneSession
  <2>2. CASE Stuck(t, "deq") /\ ioc' = ioc
    <3>1. PICK s : /\ ss' = [ss EXCEPT ![t] = s] /\ SessionFields \subseteq DOMAIN s
                   /\ s.pc = "deq" /\ Accounted(s)
      BY <1>3, <2>2
    <3>2. SessionOk(s, i)
      BY <1>0, <3>1 DEF SessionOk
    <3> QED
      BY <2>2, <3>1, <3>2, SameBlock
  <2> QED
    BY <1>4, <2>1, <2>2 DEF deq_reserve_data_set
<1>5. CASE deq_data_set(t)
  <2>1. CASE Goto(t, "free") /\ ioc' = [ioc EXCEPT ![t].enq = FALSE]
    <3> DEFINE j == [i EXCEPT !.enq = FALSE]
    <3>1. ioc' = [ioc EXCEPT ![t] = j]
      BY <2>1
    <3>2. /\ IoFields \subseteq DOMAIN j /\ j.enq = FALSE
          /\ j.reserve = i.reserve /\ j.open = i.open
      BY <1>0 DEF IoFields
    <3> HIDE DEF j
    <3>3. PICK s : ss' = [ss EXCEPT ![t] = s] /\ GoesTo(x, s, "free")
      BY <2>1, GotoForm
    <3>4. SessionOk(s, j)
      BY <1>0, <1>5, <3>2, <3>3 DEF SessionOk, GoesTo, Accounted, deq_data_set
    <3> QED
      BY <3>1, <3>2, <3>3, <3>4, OneSession
  <2>2. CASE Stuck(t, "free") /\ ioc' = ioc
    <3>1. PICK s : /\ ss' = [ss EXCEPT ![t] = s] /\ SessionFields \subseteq DOMAIN s
                   /\ s.pc = "free" /\ Accounted(s)
      BY <1>3, <2>2
    <3>2. SessionOk(s, i)
      BY <1>0, <3>1 DEF SessionOk
    <3> QED
      BY <2>2, <3>1, <3>2, SameBlock
  <2> QED
    BY <1>5, <2>1, <2>2 DEF deq_data_set
<1>6. CASE zds_close_output_bpam(t)
  <2> DEFINE s == [x EXCEPT !.pc = "done", !.rc = IF @ = "ok" /\ x.trunc THEN "warning" ELSE @]
  <2>1. ss' = [ss EXCEPT ![t] = s] /\ ioc' = ioc /\ x.pc = "free"
    BY <1>6 DEF zds_close_output_bpam, WriterInv
  <2>2. /\ SessionFields \subseteq DOMAIN s /\ s.pc = "done"
        /\ x.rc = "failure" => s.rc = "failure"
        /\ s.stuck = x.stuck
    BY <1>0 DEF SessionFields
  <2> HIDE DEF s
  <2>3. SessionOk(s, i)
    BY <1>0, <2>1, <2>2 DEF SessionOk, Accounted
  <2> QED
    BY <2>1, <2>3, SameBlock
<1> QED
  BY <1>1, <1>2, <1>4, <1>5, <1>6

\* Every step of a member write keeps the sessions in order.
LEMMA WriterStep ==
  ASSUME WriterInv, [MwNext]_mwVars
  PROVE  WriterInv'
<1>1. CASE UNCHANGED mwVars
  BY <1>1 DEF WriterInv, mwVars
<1>2. CASE MwNext
  BY <1>2, OpenStep, WriteStep, CloseStep DEF MwNext
<1> QED
  BY <1>1, <1>2

\* No session holds anything before its request comes.
LEMMA WriterBegin ==
  ASSUME NEW q, MwBegin(q) PROVE WriterInv
<1>1. \A t \in Tasks : SessionOk(ss[t], ioc[t]) /\ ~ioc[t].reserve
  BY DEF MwBegin, SessionOk, NewSession, new_io_ctrl, SessionFields, IoFields
<1> QED
  BY <1>1 DEF MwBegin, WriterInv

-----------------------------------------------------------------------------
(* Data sets, their fixed DDs and e-tags *)

TaskFields == {"req", "pc", "rc", "got", "over", "raced", "tx", "types"}

(* The DDs with fixed names that a task x is working through.              *)
Uses(x) ==
  CASE x.req.op = "write" /\ x.req.volser /\ x.pc \in {"validate", "write", "reread", "free"}
         -> {"OUTPUT"}
    [] x.req.op = "view" /\ x.req.volser /\ x.pc \in {"read", "free"} -> {"INPUT"}
    [] x.req.op = "compress" /\ x.pc = "iebcopy" -> {"A", "B", "SYSPRINT", "SYSIN"}
    [] OTHER -> {}
EndsKeeping(x) == x.pc = "done" /\ MayKeepDds(x)

(* What task t uses it has allocated, and keeps only where it may.         *)
DdOk(t, x, d) ==
  /\ \A n \in Uses(x) : d[n] = t
  /\ \A n \in FixedDds : d[n] = t => n \in Uses(x) \/ EndsKeeping(x)

(* The contents f of the data sets are still those that r's e-tag names.   *)
EtagNames(f, r) ==
  /\ f[r.d] # Missing /\ f[r.d].data[r.p] = r.etag
  /\ r.p # Whole => r.etag # Absent
EtagOk(x, f) ==
  (x.req.op = "write" /\ x.req.etag # NoEtag) =>
    /\ x.pc = "write" => x.raced \/ EtagNames(f, x.req)
    /\ (x.pc \in {"reread", "free", "done"} /\ x.rc = "ok") => x.over = x.req.etag \/ x.raced

DataSetInv ==
  /\ DOMAIN tk = DsTasks
  /\ \A t \in DsTasks : /\ TaskFields \subseteq DOMAIN tk[t]
                        /\ DdOk(t, tk[t], dd) /\ EtagOk(tk[t], ds)

(* Another task sees a step only as contents that changed under it.        *)
SameTask(x, z) ==
  /\ TaskFields \subseteq DOMAIN z
  /\ z.req = x.req /\ z.pc = x.pc /\ z.rc = x.rc /\ z.over = x.over /\ z.tx = x.tx /\ z.types = x.types
  /\ x.raced => z.raced
Others(t) ==
  /\ DOMAIN tk' = DsTasks /\ TaskFields \subseteq DOMAIN tk'[t]
  /\ \A u \in DsTasks \ {t} : /\ SameTask(tk[u], tk'[u])
                              /\ ds' = ds \/ tk'[u] = Changed(t, ds')[u]

\* A task whose contents changed before its write is told apart.
LEMMA OthersEtag ==
  ASSUME DataSetInv, NEW t \in DsTasks, Others(t), NEW u \in DsTasks, u # t
  PROVE  EtagOk(tk'[u], ds')
<1> DEFINE x == tk[u]
           z == tk'[u]
           r == x.req
<1>0. SameTask(x, z) /\ EtagOk(x, ds) /\ TaskFields \subseteq DOMAIN x
  BY DEF Others, DataSetInv
<1>1. CASE ds' = ds
  BY <1>0, <1>1 DEF EtagOk, SameTask
<1>2. CASE ds' # ds
  <2>1. z = Changed(t, ds')[u]
    BY <1>2 DEF Others
  <2>2. ASSUME r.op = "write", r.etag # NoEtag, x.pc = "write", ~z.raced
        PROVE  EtagNames(ds', r)
    <3> DEFINE dest == <<r.d, r.p>>
    <3>1. z = IF /\ u # t /\ x.pc \in {"write", "create", "consent", "overwrite", "recreate", "run"}
                 /\ IF dest[2] = Whole THEN ds'[dest[1]] # ds[dest[1]]
                    ELSE Part(ds', dest) # Part(ds, dest)
              THEN [x EXCEPT !.raced = TRUE] ELSE x
      BY <2>1, <2>2 DEF Changed, Req
    <3>2. [x EXCEPT !.raced = TRUE].raced = TRUE
      BY <1>0 DEF TaskFields
    <3>3. IF r.p = Whole THEN ds'[r.d] = ds[r.d] ELSE Part(ds', dest) = Part(ds, dest)
      BY <2>2, <3>1, <3>2
    <3>4. EtagNames(ds, r)
      BY <1>0, <2>2 DEF EtagOk, SameTask
    <3>5. CASE r.p = Whole
      BY <3>3, <3>4, <3>5 DEF EtagNames
    <3>6. CASE r.p # Whole
      <4>1. Part(ds, dest) = r.etag /\ r.etag # Absent
        BY <3>4, <3>6 DEF EtagNames, Part
      <4>2. ds'[r.d] # Missing /\ ds'[r.d].data[r.p] = r.etag
        BY <3>3, <3>6, <4>1 DEF Part
      <4> QED
        BY <4>1, <4>2 DEF EtagNames
    <3> QED
      BY <3>5, <3>6
  <2> QED
    BY <1>0, <2>2 DEF EtagOk, SameTask
<1> QED
  BY <1>1, <1>2

\* What a task uses depends on its request and on how far it is.
LEMMA UsesSame ==
  ASSUME NEW x, NEW z, SameTask(x, z) PROVE Uses(z) = Uses(x) /\ (EndsKeeping(z) <=> EndsKeeping(x))
BY DEF SameTask, Uses, EndsKeeping, MayKeepDds

\* The invariant, when one task moves and the DDs d become e.
LEMMA OneTask ==
  ASSUME DataSetInv, NEW t \in DsTasks, Others(t),
         DdOk(t, tk'[t], dd'), EtagOk(tk'[t], ds'),
         \A n \in FixedDds : dd'[n] = dd[n] \/ (dd[n] \in {t, Free} /\ dd'[n] \in {t, Free})
  PROVE  DataSetInv'
<1>1. ASSUME NEW u \in DsTasks, u # t PROVE DdOk(u, tk'[u], dd')
  <2>1. Uses(tk'[u]) = Uses(tk[u]) /\ (EndsKeeping(tk'[u]) <=> EndsKeeping(tk[u]))
    BY <1>1, UsesSame DEF Others
  <2>2. DdOk(u, tk[u], dd) /\ u # Free
    BY DdAssumption DEF DataSetInv
  <2>3. Uses(tk[u]) \subseteq FixedDds
    BY DEF Uses, FixedDds
  <2>4. \A n \in FixedDds : dd[n] = u <=> dd'[n] = u
    BY <1>1, <2>2
  <2> QED
    BY <2>1, <2>2, <2>3, <2>4 DEF DdOk
<1>2. ASSUME NEW u \in DsTasks, u # t PROVE TaskFields \subseteq DOMAIN tk'[u] /\ EtagOk(tk'[u], ds')
  BY <1>2, OthersEtag DEF Others, SameTask
<1> QED
  BY <1>1, <1>2 DEF DataSetInv, Others

\* Changed leaves the task itself alone and marks the others at most.
LEMMA ChangedTasks ==
  ASSUME DataSetInv, NEW t \in DsTasks, NEW f
  PROVE  /\ DOMAIN Changed(t, f) = DsTasks /\ Changed(t, f)[t] = tk[t]
         /\ \A u \in DsTasks : SameTask(tk[u], Changed(t, f)[u])
<1>1. \A u \in DsTasks : TaskFields \subseteq DOMAIN tk[u]
  BY DEF DataSetInv
<1>2. \A u \in DsTasks : Changed(t, f)[u] \in {tk[u], [tk[u] EXCEPT !.raced = TRUE]}
  BY DEF Changed
<1>3. \A u \in DsTasks : SameTask(tk[u], tk[u]) /\ SameTask(tk[u], [tk[u] EXCEPT !.raced = TRUE])
  BY <1>1 DEF SameTask, TaskFields
<1>4. DOMAIN Changed(t, f) = DsTasks /\ Changed(t, f)[t] = tk[t]
  BY DEF Changed
<1> QED
  BY <1>2, <1>3, <1>4

\* The two ways a task's record is written.
LEMMA AloneForm ==
  ASSUME DataSetInv, NEW t \in DsTasks, NEW y, TaskFields \subseteq DOMAIN y,
         tk' = [tk EXCEPT ![t] = y], ds' = ds
  PROVE  Others(t) /\ tk'[t] = y
<1>1. DOMAIN tk' = DsTasks /\ \A u \in DsTasks : tk'[u] = IF u = t THEN y ELSE tk[u]
  BY DEF DataSetInv
<1>2. \A u \in DsTasks : SameTask(tk[u], tk[u])
  BY DEF DataSetInv, SameTask
<1> QED
  BY <1>1, <1>2 DEF Others

\* The second one, when contents changed.
LEMMA ChangedForm ==
  ASSUME DataSetInv, NEW t \in DsTasks, NEW y, TaskFields \subseteq DOMAIN y,
         tk' = [Changed(t, ds') EXCEPT ![t] = y]
  PROVE  Others(t) /\ tk'[t] = y
<1> DEFINE c == Changed(t, ds')
<1>1. DOMAIN c = DsTasks /\ \A u \in DsTasks : SameTask(tk[u], c[u])
  BY ChangedTasks
<1>2. DOMAIN tk' = DsTasks /\ \A u \in DsTasks : tk'[u] = IF u = t THEN y ELSE c[u]
  BY <1>1
<1> QED
  BY <1>1, <1>2 DEF Others

(* Task record x goes on as y.                                             *)
Progress(x, y, pc, rc) ==
  /\ TaskFields \subseteq DOMAIN y /\ y.req = x.req /\ y.pc = pc /\ y.rc = rc

\* Moving on, or answering, without touching any contents.
LEMMA PlainForm ==
  ASSUME DataSetInv, NEW t \in DsTasks, ds' = ds, NEW pc, NEW rc,
         \/ Goto_(t, pc) /\ rc = tk[t].rc
         \/ pc = "done" /\ Done(t, rc)
         \/ tk' = [tk EXCEPT ![t].pc = pc, ![t].rc = rc]
         \/ rc = tk[t].rc /\ \E g : tk' = [tk EXCEPT ![t].pc = pc, ![t].got = g]
         \/ rc = tk[t].rc /\ \E a, b : tk' = [tk EXCEPT ![t].pc = pc, ![t].tx = a, ![t].types = b]
  PROVE  Others(t) /\ Progress(tk[t], tk'[t], pc, rc) /\ tk'[t].over = tk[t].over
         /\ tk'[t].raced = tk[t].raced
<1> DEFINE x == tk[t]
<1>0. TaskFields \subseteq DOMAIN x
  BY DEF DataSetInv
<1>1. SUFFICES \E y : /\ tk' = [tk EXCEPT ![t] = y] /\ Progress(x, y, pc, rc)
                      /\ y.over = x.over /\ y.raced = x.raced
  BY AloneForm DEF Progress
<1>2. CASE Goto_(t, pc) /\ rc = x.rc
  <2> DEFINE y == [x EXCEPT !.pc = pc]
  <2>1. tk' = [tk EXCEPT ![t] = y]
    BY <1>2 DEF Goto_
  <2>2. Progress(x, y, pc, rc) /\ y.over = x.over /\ y.raced = x.raced
    BY <1>0, <1>2 DEF Progress, TaskFields
  <2> HIDE DEF y
  <2> QED
    BY <2>1, <2>2
<1>3. CASE tk' = [tk EXCEPT ![t].pc = pc, ![t].rc = rc]
  <2> DEFINE y == [x EXCEPT !.pc = pc, !.rc = rc]
  <2>1. tk' = [tk EXCEPT ![t] = y]
    BY <1>3 DEF DataSetInv
  <2>2. Progress(x, y, pc, rc) /\ y.over = x.over /\ y.raced = x.raced
    BY <1>0 DEF Progress, TaskFields
  <2> HIDE DEF y
  <2> QED
    BY <2>1, <2>2
<1>4. ASSUME NEW g, rc = x.rc, tk' = [tk EXCEPT ![t].pc = pc, ![t].got = g]
      PROVE  \E y : /\ tk' = [tk EXCEPT ![t] = y] /\ Progress(x, y, pc, rc)
                    /\ y.over = x.over /\ y.raced = x.raced
  <2> DEFINE y == [x EXCEPT !.pc = pc, !.got = g]
  <2>1. tk' = [tk EXCEPT ![t] = y]
    BY <1>4 DEF DataSetInv
  <2>2. Progress(x, y, pc, rc) /\ y.over = x.over /\ y.raced = x.raced
    BY <1>0, <1>4 DEF Progress, TaskFields
  <2> HIDE DEF y
  <2> QED
    BY <2>1, <2>2
<1>5. ASSUME NEW a, NEW b, rc = x.rc, tk' = [tk EXCEPT ![t].pc = pc, ![t].tx = a, ![t].types = b]
      PROVE  \E y : /\ tk' = [tk EXCEPT ![t] = y] /\ Progress(x, y, pc, rc)
                    /\ y.over = x.over /\ y.raced = x.raced
  <2> DEFINE y == [x EXCEPT !.pc = pc, !.tx = a, !.types = b]
  <2>1. tk' = [tk EXCEPT ![t] = y]
    BY <1>5 DEF DataSetInv
  <2>2. Progress(x, y, pc, rc) /\ y.over = x.over /\ y.raced = x.raced
    BY <1>0, <1>5 DEF Progress, TaskFields
  <2> HIDE DEF y
  <2> QED
    BY <2>1, <2>2
<1> QED
  BY <1>2, <1>3, <1>4, <1>5 DEF Done

\* Moving on after a change of contents.
LEMMA ContentsForm ==
  ASSUME DataSetInv, NEW t \in DsTasks, NEW pc, NEW rc, NEW o,
         \/ /\ tk' = [Changed(t, ds') EXCEPT ![t].pc = pc]
            /\ rc = tk[t].rc /\ o = tk[t].over
         \/ /\ tk' = [Changed(t, ds') EXCEPT ![t].pc = pc, ![t].rc = rc]
            /\ o = tk[t].over
         \/ tk' = [Changed(t, ds') EXCEPT ![t].pc = pc, ![t].rc = rc, ![t].over = o]
         \/ tk' = [Changed(t, ds') EXCEPT ![t].over = o, ![t].pc = pc, ![t].rc = rc]
  PROVE  /\ Others(t) /\ Progress(tk[t], tk'[t], pc, rc) /\ tk'[t].over = o
         /\ tk'[t].raced = tk[t].raced
<1> DEFINE x == tk[t]
           c == Changed(t, ds')
<1>0. TaskFields \subseteq DOMAIN x
  BY DEF DataSetInv
<1>1. DOMAIN c = DsTasks /\ c[t] = x
  BY ChangedTasks
<1>2. SUFFICES \E y : /\ tk' = [c EXCEPT ![t] = y] /\ Progress(x, y, pc, rc)
                      /\ y.over = o /\ y.raced = x.raced
  BY ChangedForm DEF Progress
<1> HIDE DEF c
<1>3. CASE tk' = [c EXCEPT ![t].pc = pc] /\ rc = x.rc /\ o = x.over
  <2> DEFINE y == [x EXCEPT !.pc = pc]
  <2>1. tk' = [c EXCEPT ![t] = y]
    BY <1>1, <1>3
  <2>2. Progress(x, y, pc, rc) /\ y.over = o /\ y.raced = x.raced
    BY <1>0, <1>3 DEF Progress, TaskFields
  <2> HIDE DEF y
  <2> QED
    BY <2>1, <2>2
<1>4. CASE tk' = [c EXCEPT ![t].pc = pc, ![t].rc = rc] /\ o = x.over
  <2> DEFINE y == [x EXCEPT !.pc = pc, !.rc = rc]
  <2>1. tk' = [c EXCEPT ![t] = y]
    BY <1>1, <1>4
  <2>2. Progress(x, y, pc, rc) /\ y.over = o /\ y.raced = x.raced
    BY <1>0, <1>4 DEF Progress, TaskFields
  <2> HIDE DEF y
  <2> QED
    BY <2>1, <2>2
<1>5. CASE tk' = [c EXCEPT ![t].pc = pc, ![t].rc = rc, ![t].over = o]
  <2> DEFINE y == [x EXCEPT !.pc = pc, !.rc = rc, !.over = o]
  <2>1. tk' = [c EXCEPT ![t] = y]
    BY <1>1, <1>5
  <2>2. Progress(x, y, pc, rc) /\ y.over = o /\ y.raced = x.raced
    BY <1>0 DEF Progress, TaskFields
  <2> HIDE DEF y
  <2> QED
    BY <2>1, <2>2
<1>6. CASE tk' = [c EXCEPT ![t].over = o, ![t].pc = pc, ![t].rc = rc]
  <2> DEFINE y == [x EXCEPT !.over = o, !.pc = pc, !.rc = rc]
  <2>1. tk' = [c EXCEPT ![t] = y]
    BY <1>1, <1>6
  <2>2. Progress(x, y, pc, rc) /\ y.over = o /\ y.raced = x.raced
    BY <1>0 DEF Progress, TaskFields
  <2> HIDE DEF y
  <2> QED
    BY <2>1, <2>2
<1> QED
  BY <1>3, <1>4, <1>5, <1>6 DEF c

\* Requests that use no fixed DD and compare no e-tag.
LEMMA OtherRequest ==
  ASSUME DataSetInv, NEW t \in DsTasks, dd' = dd, tk[t].pc # "done",
         tk[t].req.op \notin {"write", "view", "compress"},
         Others(t), NEW pc, NEW rc, Progress(tk[t], tk'[t], pc, rc)
  PROVE  DataSetInv'
<1>1. Uses(tk[t]) = {} /\ Uses(tk'[t]) = {} /\ ~EndsKeeping(tk[t])
  BY DEF Uses, Progress, EndsKeeping
<1>2. DdOk(t, tk'[t], dd')
  BY <1>1 DEF DdOk, DataSetInv
<1>3. EtagOk(tk'[t], ds')
  BY DEF EtagOk, Progress
<1> QED
  BY <1>2, <1>3, OneTask

(* The ways the handlers below leave their task.                           *)
Answers(t) ==
  \/ ds' = ds /\ \E rc : Done(t, rc)
  \/ ds' = ds /\ \E pc : Goto_(t, pc)
  \/ ds' = ds /\ \E pc, a, b : tk' = [tk EXCEPT ![t].pc = pc, ![t].tx = a, ![t].types = b]
  \/ \E pc : tk' = [Changed(t, ds') EXCEPT ![t].pc = pc]
  \/ \E pc, rc : tk' = [Changed(t, ds') EXCEPT ![t].pc = pc, ![t].rc = rc]

\* Such a handler keeps the invariant.
LEMMA AnswersKeep ==
  ASSUME DataSetInv, NEW t \in DsTasks, dd' = dd, tk[t].pc # "done",
         tk[t].req.op \notin {"write", "view", "compress"}, Answers(t)
  PROVE  DataSetInv'
<1>1. CASE ds' = ds /\ \E rc : Done(t, rc)
  BY <1>1, PlainForm, OtherRequest
<1>2. CASE ds' = ds /\ \E pc : Goto_(t, pc)
  BY <1>2, PlainForm, OtherRequest
<1>3. CASE ds' = ds /\ \E pc, a, b : tk' = [tk EXCEPT ![t].pc = pc, ![t].tx = a, ![t].types = b]
  <2>1. PICK pc, a, b : tk' = [tk EXCEPT ![t].pc = pc, ![t].tx = a, ![t].types = b]
    BY <1>3
  <2>2. Others(t) /\ Progress(tk[t], tk'[t], pc, tk[t].rc)
    BY <1>3, <2>1, PlainForm
  <2> QED
    BY <2>2, OtherRequest
<1>4. CASE \E pc : tk' = [Changed(t, ds') EXCEPT ![t].pc = pc]
  <2>1. PICK pc : tk' = [Changed(t, ds') EXCEPT ![t].pc = pc]
    BY <1>4
  <2>2. Others(t) /\ Progress(tk[t], tk'[t], pc, tk[t].rc)
    BY <2>1, ContentsForm
  <2> QED
    BY <2>2, OtherRequest
<1>5. CASE \E pc, rc : tk' = [Changed(t, ds') EXCEPT ![t].pc = pc, ![t].rc = rc]
  <2>1. PICK pc, rc : tk' = [Changed(t, ds') EXCEPT ![t].pc = pc, ![t].rc = rc]
    BY <1>5
  <2>2. Others(t) /\ Progress(tk[t], tk'[t], pc, rc)
    BY <2>1, ContentsForm
  <2> QED
    BY <2>2, OtherRequest
<1> QED
  BY <1>1, <1>2, <1>3, <1>4, <1>5 DEF Answers

\* Creating, deleting, renaming, restoring and copying leave their task in one
\* of these ways.
LEMMA CatalogAnswers ==
  ASSUME DataSetInv, NEW t \in DsTasks,
         \/ create_with_attributes(t) \/ handle_data_set_create_member(t) \/ zds_delete_dsn(t)
         \/ zds_rename_dsn(t) \/ zds_rename_members(t) \/ handle_data_set_restore(t)
         \/ zds_copy_dsn(t) \/ zds_copy_dsn_create(t) \/ copy_consent(t)
         \/ copy_overwrite_delete(t) \/ copy_overwrite_recreate(t)
         \/ copy_sequential(t) \/ copy_partitioned(t)
  PROVE  Answers(t) /\ dd' = dd /\ tk[t].pc # "done" /\ tk[t].req.op \notin {"write", "view", "compress"}
<1> USE DEF At, Req
<1>1. CASE create_with_attributes(t)
  <2>1. Answers(t) /\ dd' = dd
    BY <1>1, ZenonT(30) DEF create_with_attributes, Answers
  <2> QED
    BY <1>1, <2>1 DEF create_with_attributes
<1>2. CASE handle_data_set_create_member(t)
  <2>1. Answers(t) /\ dd' = dd
    BY <1>2 DEF handle_data_set_create_member, Answers
  <2> QED
    BY <1>2, <2>1 DEF handle_data_set_create_member
<1>3. CASE zds_delete_dsn(t)
  <2>1. Answers(t) /\ dd' = dd
    BY <1>3 DEF zds_delete_dsn, Answers
  <2> QED
    BY <1>3, <2>1 DEF zds_delete_dsn
<1>4. CASE zds_rename_dsn(t)
  <2>1. Answers(t) /\ dd' = dd
    BY <1>4 DEF zds_rename_dsn, Answers
  <2> QED
    BY <1>4, <2>1 DEF zds_rename_dsn
<1>5. CASE zds_rename_members(t)
  <2>1. Answers(t) /\ dd' = dd
    BY <1>5 DEF zds_rename_members, Answers
  <2> QED
    BY <1>5, <2>1 DEF zds_rename_members
<1>6. CASE handle_data_set_restore(t)
  <2>1. Answers(t) /\ dd' = dd
    BY <1>6 DEF handle_data_set_restore, Answers
  <2> QED
    BY <1>6, <2>1 DEF handle_data_set_restore
<1>7. CASE zds_copy_dsn(t)
  <2> DEFINE next == IF zds_dataset_exists(tk[t].req.to[1]) THEN "consent" ELSE "create"
             there == target_exists(tk[t].req)
  <2>1. /\ \/ Done(t, "failure")
           \/ \E s : tk' = [tk EXCEPT ![t].pc = next, ![t].tx = there, ![t].types = s]
        /\ dd' = dd /\ ds' = ds
    <3>1. dd' = dd /\ ds' = ds
      BY <1>7 DEF zds_copy_dsn
    <3>2. ASSUME ~Done(t, "failure")
          PROVE  \E s : tk' = [tk EXCEPT ![t].pc = next, ![t].tx = there, ![t].types = s]
      BY <1>7, <3>2, Zenon DEF zds_copy_dsn
    <3> QED
      BY <3>1, <3>2
  <2> HIDE DEF next, there
  <2>2. Answers(t) /\ dd' = dd
    BY <2>1 DEF Answers
  <2> QED
    BY <1>7, <2>2 DEF zds_copy_dsn
<1>8. CASE zds_copy_dsn_create(t)
  <2>1. Answers(t) /\ dd' = dd
    BY <1>8 DEF zds_copy_dsn_create, Answers
  <2> QED
    BY <1>8, <2>1 DEF zds_copy_dsn_create
<1>9. CASE copy_consent(t)
  <2>1. Answers(t) /\ dd' = dd
    BY <1>9 DEF copy_consent, Answers, Goto_
  <2> QED
    BY <1>9, <2>1 DEF copy_consent
<1>10. CASE copy_overwrite_delete(t)
  <2>1. Answers(t) /\ dd' = dd
    BY <1>10 DEF copy_overwrite_delete, Answers
  <2> QED
    BY <1>10, <2>1 DEF copy_overwrite_delete
<1>11. CASE copy_overwrite_recreate(t)
  <2>1. Answers(t) /\ dd' = dd
    <3>0. dd' = dd
      BY <1>11 DEF copy_overwrite_recreate
    <3>1. CASE Done(t, "failure") /\ ds' = ds
      BY <3>0, <3>1 DEF Answers
    <3>2. CASE ~(Done(t, "failure") /\ ds' = ds)
      <4>1. PICK freed \in BOOLEAN :
              tk' = [Changed(t, ds') EXCEPT ![t].pc = IF freed THEN "run" ELSE "done",
                                            ![t].rc = IF freed THEN "ok" ELSE "failure"]
        BY <1>11, <3>2 DEF copy_overwrite_recreate
      <4> DEFINE pc == IF freed THEN "run" ELSE "done"
                 rc == IF freed THEN "ok" ELSE "failure"
      <4>2. tk' = [Changed(t, ds') EXCEPT ![t].pc = pc, ![t].rc = rc]
        BY <4>1
      <4> HIDE DEF pc, rc
      <4> QED
        BY <3>0, <4>2 DEF Answers
    <3> QED
      BY <3>0, <3>1, <3>2
  <2> QED
    BY <1>11, <2>1 DEF copy_overwrite_recreate
<1>12. CASE copy_sequential(t)
  <2>1. Answers(t) /\ dd' = dd
    <3>0. dd' = dd
      BY <1>12 DEF copy_sequential
    <3>1. CASE Done(t, "failure") /\ ds' = ds
      BY <3>0, <3>1 DEF Answers
    <3>2. CASE ~(Done(t, "failure") /\ ds' = ds)
      <4>1. PICK ok \in BOOLEAN :
              tk' = [Changed(t, ds') EXCEPT ![t].pc = "done", ![t].rc = IF ok THEN "ok" ELSE "failure"]
        BY <1>12, <3>2 DEF copy_sequential
      <4> DEFINE rc == IF ok THEN "ok" ELSE "failure"
      <4>2. tk' = [Changed(t, ds') EXCEPT ![t].pc = "done", ![t].rc = rc]
        BY <4>1
      <4> HIDE DEF rc
      <4> QED
        BY <3>0, <4>2 DEF Answers
    <3> QED
      BY <3>0, <3>1, <3>2
  <2> QED
    BY <1>12, <2>1 DEF copy_sequential
<1>13. CASE copy_partitioned(t)
  <2>1. Answers(t) /\ dd' = dd
    <3>0. dd' = dd
      BY <1>13 DEF copy_partitioned
    <3>1. CASE Done(t, "failure") /\ ds' = ds
      BY <3>0, <3>1 DEF Answers
    <3>2. CASE ~(Done(t, "failure") /\ ds' = ds)
      <4>1. \E c : tk' = [Changed(t, ds') EXCEPT ![t].pc = "done", ![t].rc = IF c THEN "ok" ELSE "failure"]
        BY <1>13, <3>2, Zenon DEF copy_partitioned
      <4>2. PICK c : tk' = [Changed(t, ds') EXCEPT ![t].pc = "done", ![t].rc = IF c THEN "ok" ELSE "failure"]
        BY <4>1
      <4> DEFINE rc == IF c THEN "ok" ELSE "failure"
      <4>3. tk' = [Changed(t, ds') EXCEPT ![t].pc = "done", ![t].rc = rc]
        BY <4>2
      <4> HIDE DEF rc
      <4> QED
        BY <3>0, <4>3 DEF Answers
    <3> QED
      BY <3>0, <3>1, <3>2
  <2> QED
    BY <1>13, <2>1 DEF copy_partitioned
<1> QED
  BY <1>1, <1>2, <1>3, <1>4, <1>5, <1>6, <1>7, <1>8, <1>9, <1>10, <1>11, <1>12, <1>13

\* Creating, deleting, renaming, restoring and copying.
LEMMA CatalogStep ==
  ASSUME DataSetInv, NEW t \in DsTasks,
         \/ create_with_attributes(t) \/ handle_data_set_create_member(t) \/ zds_delete_dsn(t)
         \/ zds_rename_dsn(t) \/ zds_rename_members(t) \/ handle_data_set_restore(t)
         \/ zds_copy_dsn(t) \/ zds_copy_dsn_create(t) \/ copy_consent(t)
         \/ copy_overwrite_delete(t) \/ copy_overwrite_recreate(t)
         \/ copy_sequential(t) \/ copy_partitioned(t)
  PROVE  DataSetInv'
BY CatalogAnswers, AnswersKeep

\* The DDs when a task allocates the first n of its names.
LEMMA DdNames ==
  ASSUME NEW t, NEW names, NEW n, zut_loop_dynalloc(t, names, n)
  PROVE  \A x \in FixedDds : dd'[x] = IF \E i \in 1..n : names[i] = x THEN t ELSE dd[x]
BY DEF zut_loop_dynalloc

\* The DDs when the first n of the names are freed.
LEMMA DdNamesFreed ==
  ASSUME NEW names, NEW n, zut_free_dynalloc_dds(names, n)
  PROVE  \A x \in FixedDds : dd'[x] = IF \E i \in 1..n : names[i] = x THEN Free ELSE dd[x]
BY DEF zut_free_dynalloc_dds

\* A task that has not started has no DD.
LEMMA StartsWithout ==
  ASSUME DataSetInv, NEW t \in DsTasks, tk[t].pc = "start"
  PROVE  \A x \in FixedDds : dd[x] # t
BY DEF DataSetInv, DdOk, Uses, EndsKeeping

\* A task takes the DDs N, all free, and uses them unless it fails.
LEMMA TakesDds ==
  ASSUME DataSetInv, NEW t \in DsTasks, tk[t].pc = "start", Others(t), ds' = ds,
         NEW N, N \subseteq FixedDds, \A x \in N : dd[x] = Free,
         \A x \in FixedDds : dd'[x] = IF x \in N THEN t ELSE dd[x],
         Uses(tk'[t]) \subseteq N, N \subseteq Uses(tk'[t]) \/ EndsKeeping(tk'[t]),
         EtagOk(tk'[t], ds)
  PROVE  DataSetInv'
<1>1. \A x \in FixedDds : dd[x] # t
  BY StartsWithout
<1>2. DdOk(t, tk'[t], dd')
  BY <1>1 DEF DdOk
<1>3. \A x \in FixedDds : dd'[x] = dd[x] \/ (dd[x] \in {t, Free} /\ dd'[x] \in {t, Free})
  OBVIOUS
<1> QED
  BY <1>2, <1>3, OneTask

\* A task frees the DDs N of those it uses, and all of them unless it fails.
LEMMA FreesDds ==
  ASSUME DataSetInv, NEW t \in DsTasks, tk[t].pc # "done", Others(t), ds' = ds,
         NEW N, N \subseteq Uses(tk[t]),
         \A x \in FixedDds : dd'[x] = IF x \in N THEN Free ELSE dd[x],
         Uses(tk'[t]) = {}, Uses(tk[t]) \subseteq N \/ EndsKeeping(tk'[t]),
         EtagOk(tk'[t], ds)
  PROVE  DataSetInv'
<1>1. DdOk(t, tk[t], dd) /\ ~EndsKeeping(tk[t]) /\ t # Free
  BY DdAssumption DEF DataSetInv, EndsKeeping
<1>2. DdOk(t, tk'[t], dd')
  BY <1>1 DEF DdOk
<1>3. \A x \in FixedDds : dd'[x] = dd[x] \/ (dd[x] \in {t, Free} /\ dd'[x] \in {t, Free})
  BY <1>1 DEF DdOk
<1> QED
  BY <1>2, <1>3, OneTask

\* A task goes on with the DDs it uses.
LEMMA KeepsDds ==
  ASSUME DataSetInv, NEW t \in DsTasks, tk[t].pc # "done", Others(t), dd' = dd,
         Uses(tk'[t]) \subseteq Uses(tk[t]),
         Uses(tk[t]) \subseteq Uses(tk'[t]) \/ EndsKeeping(tk'[t]),
         EtagOk(tk'[t], ds')
  PROVE  DataSetInv'
<1>1. DdOk(t, tk[t], dd) /\ ~EndsKeeping(tk[t])
  BY DEF DataSetInv, EndsKeeping
<1>2. DdOk(t, tk'[t], dd')
  BY <1>1 DEF DdOk
<1> QED
  BY <1>2, OneTask

(* N is the set of the names in a list.                                    *)
Lists(names, N) == \A z : z \in N <=> \E i \in 1..Len(names) : names[i] = z

\* The DD of a write or a view of a volume, as a set of names.
LEMMA VolumeDds ==
  ASSUME NEW r
  PROVE  /\ Lists(OutputDd(r), IF r.volser THEN {"OUTPUT"} ELSE {})
         /\ Lists(InputDd(r), IF r.volser THEN {"INPUT"} ELSE {})
<1>1. CASE r.volser
  <2>1. OutputDd(r) = <<"OUTPUT">> /\ InputDd(r) = <<"INPUT">>
    BY <1>1 DEF OutputDd, InputDd
  <2>2. Len(<<"OUTPUT">>) = 1 /\ Len(<<"INPUT">>) = 1 /\ 1..1 = {1}
    OBVIOUS
  <2> QED
    BY <1>1, <2>1, <2>2 DEF Lists
<1>2. CASE ~r.volser
  <2>1. OutputDd(r) = <<>> /\ InputDd(r) = <<>>
    BY <1>2 DEF OutputDd, InputDd
  <2>2. Len(<<>>) = 0 /\ 1..0 = {}
    OBVIOUS
  <2> QED
    BY <1>2, <2>1, <2>2 DEF Lists
<1> QED
  BY <1>1, <1>2

\* A request starts: it takes the DD of its volume, if it names one.
LEMMA VolumeTaken ==
  ASSUME DataSetInv, NEW t \in DsTasks, tk[t].pc = "start", ds' = ds,
         NEW names, NEW N, N \subseteq FixedDds, Lists(names, N),
         NEW pc, <<tk[t].req.op, pc>> \in {<<"write", "validate">>, <<"view", "read">>},
         N = IF ~tk[t].req.volser THEN {} ELSE IF pc = "read" THEN {"INPUT"} ELSE {"OUTPUT"},
         \/ Allocatable(names, Len(names)) /\ zut_loop_dynalloc(t, names, Len(names)) /\ Goto_(t, pc)
         \/ Done(t, "failure") /\ dd' = dd
  PROVE  DataSetInv'
<1>0. TaskFields \subseteq DOMAIN tk[t] /\ EtagOk(tk[t], ds)
  BY DEF DataSetInv
<1>1. CASE Allocatable(names, Len(names)) /\ zut_loop_dynalloc(t, names, Len(names)) /\ Goto_(t, pc)
  <2>1. Others(t) /\ Progress(tk[t], tk'[t], pc, tk[t].rc)
    BY <1>1, PlainForm
  <2>2. \A x \in FixedDds : dd'[x] = IF x \in N THEN t ELSE dd[x]
    <3>1. zut_loop_dynalloc(t, names, Len(names))
      BY <1>1
    <3>2. \A x \in FixedDds : dd'[x] = IF \E i \in 1..Len(names) : names[i] = x THEN t ELSE dd[x]
      BY <3>1, DdNames
    <3>3. \A x : x \in N <=> \E i \in 1..Len(names) : names[i] = x
      BY DEF Lists
    <3> QED
      BY <3>2, <3>3
  <2>3. \A x \in N : dd[x] = Free
    BY <1>1 DEF Allocatable, Lists
  <2>4. Uses(tk'[t]) = N
    BY <1>0, <2>1 DEF Uses, Progress, TaskFields
  <2>5. EtagOk(tk'[t], ds)
    BY <2>1 DEF EtagOk, Progress
  <2> QED
    BY <2>1, <2>2, <2>3, <2>4, <2>5, TakesDds
<1>2. CASE Done(t, "failure") /\ dd' = dd
  <2>1. Others(t) /\ Progress(tk[t], tk'[t], "done", "failure")
    BY <1>2, PlainForm
  <2>2. Uses(tk'[t]) = {} /\ Uses(tk[t]) = {} /\ EtagOk(tk'[t], ds')
    BY <2>1 DEF Uses, Progress, EtagOk
  <2> QED
    BY <1>2, <2>1, <2>2, KeepsDds
<1> QED
  BY <1>1, <1>2

\* handle_data_set_write and handle_data_set_view.
LEMMA StartStep ==
  ASSUME DataSetInv, NEW t \in DsTasks, handle_data_set_write(t) \/ handle_data_set_view(t)
  PROVE  DataSetInv'
<1> USE DEF At, Req
<1> DEFINE x == tk[t]
           W == IF x.req.volser THEN {"OUTPUT"} ELSE {}
           V == IF x.req.volser THEN {"INPUT"} ELSE {}
<1>1. Lists(OutputDd(x.req), W) /\ Lists(InputDd(x.req), V)
  BY VolumeDds
<1>2. W \subseteq FixedDds /\ V \subseteq FixedDds
  BY DEF FixedDds
<1>3. CASE handle_data_set_write(t)
  <2>1. W = IF ~x.req.volser THEN {} ELSE IF "validate" = "read" THEN {"INPUT"} ELSE {"OUTPUT"}
    OBVIOUS
  <2> DEFINE names == OutputDd(x.req)
  <2>2. /\ \/ /\ Allocatable(names, Len(names))
              /\ zut_loop_dynalloc(t, names, Len(names)) /\ Goto_(t, "validate")
           \/ Done(t, "failure") /\ dd' = dd
        /\ x.pc = "start" /\ ds' = ds
        /\ <<x.req.op, "validate">> \in {<<"write", "validate">>, <<"view", "read">>}
    BY <1>3 DEF handle_data_set_write
  <2>3. W \subseteq FixedDds /\ Lists(names, W)
    BY <1>1, <1>2
  <2> HIDE DEF names, W
  <2> QED
    BY <2>1, <2>2, <2>3, VolumeTaken
<1>4. CASE handle_data_set_view(t)
  <2>1. V = IF ~x.req.volser THEN {} ELSE IF "read" = "read" THEN {"INPUT"} ELSE {"OUTPUT"}
    OBVIOUS
  <2> DEFINE names == InputDd(x.req)
  <2>2. /\ \/ /\ Allocatable(names, Len(names))
              /\ zut_loop_dynalloc(t, names, Len(names)) /\ Goto_(t, "read")
           \/ Done(t, "failure") /\ dd' = dd
        /\ x.pc = "start" /\ ds' = ds
        /\ <<x.req.op, "read">> \in {<<"write", "validate">>, <<"view", "read">>}
    BY <1>4 DEF handle_data_set_view
  <2>3. V \subseteq FixedDds /\ Lists(names, V)
    BY <1>1, <1>2
  <2> HIDE DEF names, V
  <2> QED
    BY <2>1, <2>2, <2>3, VolumeTaken
<1> QED
  BY <1>3, <1>4

\* A write goes on from one of its steps to a later one.
LEMMA WriteGoes ==
  ASSUME DataSetInv, NEW t \in DsTasks, tk[t].pc \in {"validate", "write", "reread"}, dd' = dd,
         Others(t), NEW pc, NEW rc, Progress(tk[t], tk'[t], pc, rc),
         pc \in {"write", "reread", Finish(tk[t].req)}, EtagOk(tk'[t], ds')
  PROVE  DataSetInv'
<1>1. Uses(tk'[t]) = Uses(tk[t])
  BY DEF Uses, Progress, Finish
<1> QED
  BY <1>1, KeepsDds

\* zds_write's look at the data set before it touches it.
LEMMA ValidateStep ==
  ASSUME DataSetInv, NEW t \in DsTasks, zds_write_validate(t)
  PROVE  DataSetInv'
<1> DEFINE x == tk[t]
           r == x.req
           y == [x EXCEPT !.pc = "write", !.raced = FALSE]
<1>0. /\ x.pc = "validate" /\ ds' = ds /\ dd' = dd
      /\ TaskFields \subseteq DOMAIN x /\ DOMAIN tk = DsTasks
  BY DEF zds_write_validate, DataSetInv
<1>1. \/ validate_etag_if_present(r) /\ tk' = [tk EXCEPT ![t].pc = "write", ![t].raced = FALSE]
      \/ tk' = [tk EXCEPT ![t].pc = Finish(r), ![t].rc = "failure"]
  BY DEF zds_write_validate, Req
<1>2. CASE validate_etag_if_present(r) /\ tk' = [tk EXCEPT ![t].pc = "write", ![t].raced = FALSE]
  <2>1. tk' = [tk EXCEPT ![t] = y]
    BY <1>0, <1>2
  <2>2. Progress(x, y, "write", x.rc) /\ TaskFields \subseteq DOMAIN y
    BY <1>0 DEF Progress, TaskFields
  <2>3. r.etag # NoEtag => EtagNames(ds, r)
    BY <1>2 DEF validate_etag_if_present, zds_validate_etag, Readable, zds_dataset_exists,
                zds_member_exists, EtagNames
  <2>4. EtagOk(y, ds)
    BY <2>2, <2>3 DEF EtagOk, Progress
  <2> HIDE DEF y
  <2>5. Others(t) /\ tk'[t] = y
    BY <1>0, <2>1, <2>2, AloneForm
  <2> QED
    BY <1>0, <2>2, <2>4, <2>5, WriteGoes
<1>3. CASE tk' = [tk EXCEPT ![t].pc = Finish(r), ![t].rc = "failure"]
  <2> DEFINE pc == Finish(r)
  <2>1. pc \in {"done", "free"} /\ tk' = [tk EXCEPT ![t].pc = pc, ![t].rc = "failure"]
    BY <1>3 DEF Finish
  <2>2. pc \in {"write", "reread", Finish(r)}
    OBVIOUS
  <2> HIDE DEF pc
  <2>3. Others(t) /\ Progress(x, tk'[t], pc, "failure")
    BY <1>0, <2>1, PlainForm
  <2>4. EtagOk(tk'[t], ds')
    BY <2>1, <2>3 DEF EtagOk, Progress
  <2> QED
    BY <1>0, <2>2, <2>3, <2>4, WriteGoes
<1> QED
  BY <1>1, <1>2, <1>3

(* The contents o that a write of request r replaces.                      *)
Replaced(r, o) == o = ds[r.d].data[r.p]

\* Contents are written over those that were there.
LEMMA ContentsWritten ==
  ASSUME DataSetInv, NEW t \in DsTasks, tk[t].pc = "write", dd' = dd, NEW pc, NEW rc, NEW o,
         Replaced(tk[t].req, o), pc \in {"reread", Finish(tk[t].req)},
         \/ tk' = [Changed(t, ds') EXCEPT ![t].pc = pc, ![t].rc = rc, ![t].over = o]
         \/ tk' = [Changed(t, ds') EXCEPT ![t].over = o, ![t].pc = pc, ![t].rc = rc]
  PROVE  DataSetInv'
<1>1. /\ Others(t) /\ Progress(tk[t], tk'[t], pc, rc) /\ tk'[t].over = o
      /\ tk'[t].raced = tk[t].raced
  <2>1. CASE tk' = [Changed(t, ds') EXCEPT ![t].pc = pc, ![t].rc = rc, ![t].over = o]
    BY <2>1, ContentsForm
  <2>2. CASE tk' = [Changed(t, ds') EXCEPT ![t].over = o, ![t].pc = pc, ![t].rc = rc]
    BY <2>2, ContentsForm
  <2> QED
    BY <2>1, <2>2
<1>2. EtagOk(tk[t], ds) /\ pc # "write"
  BY DEF DataSetInv, Finish
<1>3. EtagOk(tk'[t], ds')
  BY <1>1, <1>2 DEF EtagOk, EtagNames, Progress, Replaced
<1> QED
  BY <1>1, <1>3, WriteGoes

(* A write that failed to open, or wrote over o.                           *)
Wrote(t, o, pc, rc) ==
  \/ tk' = [Changed(t, ds') EXCEPT ![t].pc = pc, ![t].rc = rc, ![t].over = o]
  \/ tk' = [Changed(t, ds') EXCEPT ![t].over = o, ![t].pc = pc, ![t].rc = rc]
WriteFails(t, pc) == ds' = ds /\ tk' = [tk EXCEPT ![t].pc = pc, ![t].rc = "failure"]

\* How zds_write and zds_write_streamed leave their task.
LEMMA WriteShapes ==
  ASSUME NEW t \in DsTasks, zds_write(t) \/ zds_write_streamed(t)
  PROVE  LET r == tk[t].req IN
         \/ WriteFails(t, Finish(r))
         \/ \E pc, rc : pc \in {"reread", Finish(r)} /\ Wrote(t, ds[r.d].data[r.p], pc, rc)
<1> DEFINE x == tk[t]
           r == x.req
           o == ds[r.d].data[r.p]
<1>1. \/ zds_write_member_bpam(t) \/ zds_write_sequential(t) \/ zds_write_sequential_streamed(t)
      \/ tk' = [tk EXCEPT ![t].pc = Finish(r), ![t].rc = "failure"] /\ ds' = ds
  BY DEF zds_write, zds_write_streamed, Req
<1>2. CASE zds_write_member_bpam(t)
  <2>1. tk' = [Changed(t, ds') EXCEPT ![t].pc = "reread", ![t].rc = "ok", ![t].over = o]
    BY <1>2 DEF zds_write_member_bpam, Req
  <2>2. Wrote(t, o, "reread", "ok")
    BY <2>1 DEF Wrote
  <2> QED
    BY <2>2
<1>3. CASE zds_write_sequential(t)
  <2>1. PICK v : tk' = [Changed(t, ds') EXCEPT ![t].over = o,
                          ![t].pc = IF v = r.v THEN "reread" ELSE Finish(r),
                          ![t].rc = IF v = r.v THEN "ok" ELSE "failure"]
    BY <1>3 DEF zds_write_sequential, Req
  <2> DEFINE pc == IF v = r.v THEN "reread" ELSE Finish(r)
             rc == IF v = r.v THEN "ok" ELSE "failure"
  <2>2. tk' = [Changed(t, ds') EXCEPT ![t].over = o, ![t].pc = pc, ![t].rc = rc]
    BY <2>1
  <2>3. pc \in {"reread", Finish(r)}
    OBVIOUS
  <2>4. Wrote(t, o, pc, rc)
    BY <2>2 DEF Wrote
  <2> HIDE DEF pc, rc
  <2> QED
    BY <2>3, <2>4
<1>4. CASE zds_write_sequential_streamed(t)
  <2>1. PICK ok \in BOOLEAN : tk' = [Changed(t, ds') EXCEPT ![t].over = o,
                          ![t].pc = IF ok THEN "reread" ELSE Finish(r),
                          ![t].rc = IF ok THEN "ok" ELSE "failure"]
    BY <1>4 DEF zds_write_sequential_streamed, Req
  <2> DEFINE pc == IF ok THEN "reread" ELSE Finish(r)
             rc == IF ok THEN "ok" ELSE "failure"
  <2>2. tk' = [Changed(t, ds') EXCEPT ![t].over = o, ![t].pc = pc, ![t].rc = rc]
    BY <2>1
  <2>3. pc \in {"reread", Finish(r)}
    OBVIOUS
  <2>4. Wrote(t, o, pc, rc)
    BY <2>2 DEF Wrote
  <2> HIDE DEF pc, rc
  <2> QED
    BY <2>3, <2>4
<1>5. CASE tk' = [tk EXCEPT ![t].pc = Finish(r), ![t].rc = "failure"] /\ ds' = ds
  BY <1>5 DEF WriteFails
<1> QED
  BY <1>1, <1>2, <1>3, <1>4, <1>5

\* zds_write and zds_write_streamed.
LEMMA ContentsStep ==
  ASSUME DataSetInv, NEW t \in DsTasks, zds_write(t) \/ zds_write_streamed(t)
  PROVE  DataSetInv'
<1> DEFINE x == tk[t]
           r == x.req
           o == ds[r.d].data[r.p]
<1>0. x.pc = "write" /\ dd' = dd
  BY DEF zds_write, zds_write_streamed
<1>1. CASE WriteFails(t, Finish(r))
  <2> DEFINE pc == Finish(r)
  <2>1. pc \in {"done", "free"} /\ tk' = [tk EXCEPT ![t].pc = pc, ![t].rc = "failure"] /\ ds' = ds
    BY <1>1 DEF Finish, WriteFails
  <2>2. pc \in {"write", "reread", Finish(r)}
    OBVIOUS
  <2> HIDE DEF pc
  <2>3. Others(t) /\ Progress(x, tk'[t], pc, "failure")
    BY <2>1, PlainForm
  <2>4. EtagOk(tk'[t], ds')
    BY <2>1, <2>3 DEF EtagOk, Progress
  <2> QED
    BY <1>0, <2>2, <2>3, <2>4, WriteGoes
<1>2. ASSUME NEW pc, NEW rc, pc \in {"reread", Finish(r)}, Wrote(t, o, pc, rc)
      PROVE  DataSetInv'
  BY <1>0, <1>2, ContentsWritten DEF Replaced, Wrote
<1> QED
  BY <1>1, <1>2, WriteShapes

\* zds_write's answer: the e-tag of what is there now.
LEMMA RereadStep ==
  ASSUME DataSetInv, NEW t \in DsTasks, zds_write_reread(t)
  PROVE  DataSetInv'
<1> DEFINE x == tk[t]
           pc == Finish(x.req)
<1>0. x.pc = "reread" /\ ds' = ds /\ dd' = dd /\ EtagOk(x, ds)
  BY DEF zds_write_reread, DataSetInv
<1>1. pc \in {"done", "free"} /\ pc \in {"write", "reread", Finish(x.req)}
  BY DEF Finish
<1>2. \/ \E g : tk' = [tk EXCEPT ![t].pc = pc, ![t].got = g]
      \/ tk' = [tk EXCEPT ![t].pc = pc, ![t].rc = "failure"]
  BY DEF zds_write_reread, Req
<1> HIDE DEF pc
<1>3. PICK rc : /\ Others(t) /\ Progress(x, tk'[t], pc, rc) /\ tk'[t].over = x.over
                /\ tk'[t].raced = x.raced /\ rc \in {x.rc, "failure"}
  <2>1. CASE \E g : tk' = [tk EXCEPT ![t].pc = pc, ![t].got = g]
    <3>1. PICK g : tk' = [tk EXCEPT ![t].pc = pc, ![t].got = g]
      BY <2>1
    <3>2. /\ Others(t) /\ Progress(x, tk'[t], pc, x.rc) /\ tk'[t].over = x.over
          /\ tk'[t].raced = x.raced
      BY <1>0, <3>1, PlainForm
    <3> QED
      BY <3>2
  <2>2. CASE tk' = [tk EXCEPT ![t].pc = pc, ![t].rc = "failure"]
    BY <1>0, <2>2, PlainForm
  <2> QED
    BY <1>2, <2>1, <2>2
<1>4. EtagOk(tk'[t], ds')
  BY <1>0, <1>1, <1>3 DEF EtagOk, Progress
<1> QED
  BY <1>0, <1>1, <1>3, <1>4, WriteGoes

\* A request ends: the DD of its volume is freed, or its FREE fails it.
LEMMA VolumeFreed ==
  ASSUME DataSetInv, NEW t \in DsTasks, tk[t].pc = "free", ds' = ds, NEW names, NEW rc,
         Lists(names, Uses(tk[t])), tk[t].req.op \in {"write", "view"},
         tk[t].req.op = "write" => rc = tk[t].rc,
         \/ zut_free_dynalloc_dds(names, Len(names)) /\ Goto_(t, "done") /\ rc = tk[t].rc
         \/ zut_free_dynalloc_dds(names, Len(names)) /\ Done(t, rc)
         \/ Done(t, "not freed") /\ dd' = dd
  PROVE  DataSetInv'
<1> DEFINE x == tk[t]
<1>0. EtagOk(x, ds) /\ Uses(x) \subseteq FixedDds
  BY DEF DataSetInv, Uses, FixedDds
<1>1. ASSUME zut_free_dynalloc_dds(names, Len(names)), Others(t), Progress(x, tk'[t], "done", rc),
             tk'[t].over = x.over, tk'[t].raced = x.raced
      PROVE  DataSetInv'
  <2> DEFINE N == Uses(x)
  <2>1. \A n \in FixedDds : dd'[n] = IF n \in N THEN Free ELSE dd[n]
    <3>1. zut_free_dynalloc_dds(names, Len(names))
      BY <1>1
    <3>2. \A n \in FixedDds : dd'[n] = IF \E i \in 1..Len(names) : names[i] = n THEN Free ELSE dd[n]
      BY <3>1, DdNamesFreed
    <3>3. \A n : n \in N <=> \E i \in 1..Len(names) : names[i] = n
      BY DEF Lists
    <3> QED
      BY <3>2, <3>3
  <2>2. Uses(tk'[t]) = {} /\ EtagOk(tk'[t], ds)
    BY <1>0, <1>1 DEF Uses, EtagOk, Progress
  <2>3. N \subseteq Uses(x) /\ (Uses(x) \subseteq N \/ EndsKeeping(tk'[t])) /\ x.pc # "done"
    OBVIOUS
  <2> HIDE DEF N
  <2> QED
    BY <1>1, <2>1, <2>2, <2>3, FreesDds
<1>2. CASE zut_free_dynalloc_dds(names, Len(names)) /\ Goto_(t, "done") /\ rc = x.rc
  BY <1>1, <1>2, PlainForm
<1>3. CASE zut_free_dynalloc_dds(names, Len(names)) /\ Done(t, rc)
  BY <1>1, <1>3, PlainForm
<1>4. CASE Done(t, "not freed") /\ dd' = dd
  <2>1. Others(t) /\ Progress(x, tk'[t], "done", "not freed")
    BY <1>4, PlainForm
  <2>2. Uses(tk'[t]) = {} /\ EndsKeeping(tk'[t]) /\ EtagOk(tk'[t], ds')
    BY <2>1 DEF Uses, EndsKeeping, MayKeepDds, Progress, EtagOk
  <2> QED
    BY <1>4, <2>1, <2>2, KeepsDds
<1> QED
  BY <1>2, <1>3, <1>4

\* handle_data_set_write and handle_data_set_view, once the data is through.
LEMMA FreeStep ==
  ASSUME DataSetInv, NEW t \in DsTasks,
         handle_data_set_write_free(t) \/ handle_data_set_view_free(t)
  PROVE  DataSetInv'
<1> USE DEF At, Req
<1> DEFINE x == tk[t]
<1>1. CASE handle_data_set_write_free(t)
  <2> DEFINE names == OutputDd(x.req)
             rc == x.rc
  <2>1. /\ x.pc = "free" /\ ds' = ds /\ x.req.op = "write"
        /\ \/ zut_free_dynalloc_dds(names, Len(names)) /\ Goto_(t, "done")
           \/ Done(t, "not freed") /\ dd' = dd
    BY <1>1 DEF handle_data_set_write_free
  <2>2. Uses(x) = IF x.req.volser THEN {"OUTPUT"} ELSE {}
    BY <1>1 DEF handle_data_set_write_free, Uses
  <2>3. Lists(names, Uses(x))
    BY <2>2, VolumeDds
  <2> HIDE DEF names
  <2> QED
    BY <2>1, <2>3, VolumeFreed
<1>2. CASE handle_data_set_view_free(t)
  <2> DEFINE names == InputDd(x.req)
             rc == IF x.req.volser THEN "ok" ELSE x.rc
  <2>1. /\ x.pc = "free" /\ ds' = ds /\ x.req.op = "view"
        /\ \/ zut_free_dynalloc_dds(names, Len(names)) /\ Done(t, rc)
           \/ Done(t, "not freed") /\ dd' = dd
    BY <1>2 DEF handle_data_set_view_free
  <2>2. Uses(x) = IF x.req.volser THEN {"INPUT"} ELSE {}
    BY <1>2 DEF handle_data_set_view_free, Uses
  <2>3. Lists(names, Uses(x))
    BY <2>2, VolumeDds
  <2> HIDE DEF names, rc
  <2> QED
    BY <2>1, <2>3, VolumeFreed
<1> QED
  BY <1>1, <1>2

\* zds_read and zds_read_streamed.
LEMMA ReadStep ==
  ASSUME DataSetInv, NEW t \in DsTasks, zds_read(t) \/ zds_read_streamed(t)
  PROVE  DataSetInv'
<1> USE DEF At, Req
<1> DEFINE x == tk[t]
<1>0. x.req.op = "view" /\ x.pc = "read" /\ ds' = ds /\ dd' = dd
  BY DEF zds_read, zds_read_streamed
<1>1. \/ \E g : tk' = [tk EXCEPT ![t].pc = "free", ![t].got = g]
      \/ Done(t, "not read") /\ ~x.req.streamed
      \/ tk' = [tk EXCEPT ![t].pc = "free", ![t].rc = "failure"]
  BY DEF zds_read, zds_read_streamed
<1>2. ASSUME NEW pc, NEW rc, Others(t), Progress(x, tk'[t], pc, rc),
             pc = "free" \/ (pc = "done" /\ rc = "not read" /\ ~x.req.streamed)
      PROVE  DataSetInv'
  <2>1. Uses(tk'[t]) = Uses(x) \/ (Uses(tk'[t]) = {} /\ EndsKeeping(tk'[t]))
    BY <1>0, <1>2 DEF Uses, EndsKeeping, MayKeepDds, Progress
  <2>2. EtagOk(tk'[t], ds')
    BY <1>0, <1>2 DEF EtagOk, Progress
  <2> QED
    BY <1>0, <1>2, <2>1, <2>2, KeepsDds
<1>3. CASE \E g : tk' = [tk EXCEPT ![t].pc = "free", ![t].got = g]
  <2>1. PICK g : tk' = [tk EXCEPT ![t].pc = "free", ![t].got = g]
    BY <1>3
  <2>2. Others(t) /\ Progress(x, tk'[t], "free", x.rc)
    BY <1>0, <2>1, PlainForm
  <2> QED
    BY <1>2, <2>2
<1>4. CASE Done(t, "not read") /\ ~x.req.streamed
  <2>1. Others(t) /\ Progress(x, tk'[t], "done", "not read")
    BY <1>0, <1>4, PlainForm
  <2> QED
    BY <1>2, <1>4, <2>1
<1>5. CASE tk' = [tk EXCEPT ![t].pc = "free", ![t].rc = "failure"]
  <2>1. Others(t) /\ Progress(x, tk'[t], "free", "failure")
    BY <1>0, <1>5, PlainForm
  <2> QED
    BY <1>2, <2>1
<1> QED
  BY <1>1, <1>3, <1>4, <1>5

\* The first n of the names IEBCOPY needs.
LEMMA CompressNames ==
  ASSUME NEW n \in 0..4
  PROVE  \E N \in SUBSET {"A", "B", "SYSPRINT", "SYSIN"} :
            /\ \A z : z \in N <=> \E i \in 1..n : CompressDds[i] = z
            /\ n = 4 => N = {"A", "B", "SYSPRINT", "SYSIN"}
<1> DEFINE N == {z \in {"A", "B", "SYSPRINT", "SYSIN"} : \E i \in 1..n : CompressDds[i] = z}
<1>1. /\ CompressDds[1] = "A" /\ CompressDds[2] = "B" /\ CompressDds[3] = "SYSPRINT"
      /\ CompressDds[4] = "SYSIN"
  BY DEF CompressDds
<1>2. 1..n \subseteq {1, 2, 3, 4} /\ (n = 4 => 1..n = {1, 2, 3, 4})
  OBVIOUS
<1>3. \A z : z \in N <=> \E i \in 1..n : CompressDds[i] = z
  BY <1>1, <1>2
<1>4. n = 4 => N = {"A", "B", "SYSPRINT", "SYSIN"}
  BY <1>1, <1>2
<1> HIDE DEF N
<1> QED
  BY <1>3, <1>4, N \in SUBSET {"A", "B", "SYSPRINT", "SYSIN"} DEF N

\* handle_data_set_compress: all four DDs, IEBCOPY, and the DDs freed.
LEMMA CompressStep ==
  ASSUME DataSetInv, NEW t \in DsTasks,
         handle_data_set_compress(t) \/ handle_data_set_compress_run(t)
  PROVE  DataSetInv'
<1> USE DEF At, Req
<1> DEFINE x == tk[t]
           Four == {"A", "B", "SYSPRINT", "SYSIN"}
<1>0. x.req.op = "compress" /\ ds' = ds /\ Four \subseteq FixedDds
  BY DEF handle_data_set_compress, handle_data_set_compress_run, FixedDds
<1>1. CASE handle_data_set_compress(t)
  <2>0. x.pc = "start"
    BY <1>1 DEF handle_data_set_compress
  <2>1. CASE Done(t, "failure") /\ dd' = dd
    <3>1. Others(t) /\ Progress(x, tk'[t], "done", "failure")
      BY <1>0, <2>1, PlainForm
    <3>2. Uses(x) = {} /\ Uses(tk'[t]) = {} /\ EtagOk(tk'[t], ds')
      BY <1>0, <2>0, <3>1 DEF Uses, Progress, EtagOk
    <3> QED
      BY <2>0, <2>1, <3>1, <3>2, KeepsDds
  <2>2. CASE ~(Done(t, "failure") /\ dd' = dd)
    <3>1. PICK n \in 0..4 : /\ Allocatable(CompressDds, n) /\ zut_loop_dynalloc(t, CompressDds, n)
                            /\ IF n = 4 THEN Goto_(t, "iebcopy") ELSE Done(t, "not allocated")
      BY <1>1, <2>2 DEF handle_data_set_compress
    <3>2. PICK N \in SUBSET Four : /\ \A z : z \in N <=> \E i \in 1..n : CompressDds[i] = z
                                   /\ n = 4 => N = Four
      BY CompressNames
    <3>3. \A z \in FixedDds : dd'[z] = IF z \in N THEN t ELSE dd[z]
      <4>1. zut_loop_dynalloc(t, CompressDds, n)
        BY <3>1
      <4>2. \A z \in FixedDds : dd'[z] = IF \E i \in 1..n : CompressDds[i] = z THEN t ELSE dd[z]
        BY <4>1, DdNames
      <4> QED
        BY <3>2, <4>2
    <3>4. \A z \in N : dd[z] = Free
      <4>1. Allocatable(CompressDds, n)
        BY <3>1
      <4> QED
        BY <3>2, <4>1 DEF Allocatable
    <3>5. /\ Others(t) /\ EtagOk(tk'[t], ds)
          /\ \/ Uses(tk'[t]) = Four /\ n = 4
             \/ Uses(tk'[t]) = {} /\ EndsKeeping(tk'[t])
      <4>1. CASE n = 4
        <5>1. Others(t) /\ Progress(x, tk'[t], "iebcopy", x.rc)
          BY <1>0, <3>1, <4>1, PlainForm
        <5> QED
          BY <1>0, <4>1, <5>1 DEF Uses, Progress, EtagOk
      <4>2. CASE n # 4
        <5>1. Others(t) /\ Progress(x, tk'[t], "done", "not allocated")
          BY <1>0, <3>1, <4>2, PlainForm
        <5> QED
          BY <1>0, <5>1 DEF Uses, Progress, EtagOk, EndsKeeping, MayKeepDds
      <4> QED
        BY <4>1, <4>2
    <3>6. N \subseteq FixedDds /\ Uses(tk'[t]) \subseteq N /\ (N \subseteq Uses(tk'[t]) \/ EndsKeeping(tk'[t]))
      BY <1>0, <3>2, <3>5
    <3> QED
      BY <1>0, <2>0, <3>3, <3>4, <3>5, <3>6, TakesDds
  <2> QED
    BY <2>1, <2>2
<1>2. CASE handle_data_set_compress_run(t)
  <2>1. PICK ok \in BOOLEAN, n \in 0..4 :
          /\ zut_free_dynalloc_dds(CompressDds, n)
          /\ Done(t, IF n < 4 THEN "not freed" ELSE IF ok THEN "ok" ELSE "failure")
    BY <1>2 DEF handle_data_set_compress_run
  <2> DEFINE rc == IF n < 4 THEN "not freed" ELSE IF ok THEN "ok" ELSE "failure"
  <2>2. PICK N \in SUBSET Four : /\ \A z : z \in N <=> \E i \in 1..n : CompressDds[i] = z
                                 /\ n = 4 => N = Four
    BY CompressNames
  <2>3. \A z \in FixedDds : dd'[z] = IF z \in N THEN Free ELSE dd[z]
    <3>1. zut_free_dynalloc_dds(CompressDds, n)
      BY <2>1
    <3>2. \A z \in FixedDds : dd'[z] = IF \E i \in 1..n : CompressDds[i] = z THEN Free ELSE dd[z]
      BY <3>1, DdNamesFreed
    <3> QED
      BY <2>2, <3>2
  <2>4. x.pc = "iebcopy" /\ Uses(x) = Four
    BY <1>0, <1>2 DEF handle_data_set_compress_run, Uses
  <2>5. Done(t, rc) /\ (rc = "not freed" \/ n = 4)
    <3>1. Done(t, rc)
      BY <2>1
    <3>2. n < 4 \/ n = 4
      OBVIOUS
    <3> QED
      BY <3>1, <3>2
  <2> HIDE DEF rc
  <2>6. Others(t) /\ Progress(x, tk'[t], "done", rc)
    BY <1>0, <2>5, PlainForm
  <2>7. Uses(tk'[t]) = {} /\ EtagOk(tk'[t], ds) /\ (Four \subseteq N \/ EndsKeeping(tk'[t]))
    BY <1>0, <2>2, <2>5, <2>6 DEF Uses, Progress, EtagOk, EndsKeeping, MayKeepDds
  <2>8. N \subseteq Uses(x) /\ (Uses(x) \subseteq N \/ EndsKeeping(tk'[t])) /\ x.pc # "done"
    BY <2>2, <2>4, <2>7
  <2> HIDE DEF Four
  <2> QED
    BY <1>0, <2>3, <2>6, <2>7, <2>8, FreesDds
<1> QED
  BY <1>1, <1>2

\* Every step of a data set request keeps the invariant.
LEMMA DataSetStep ==
  ASSUME DataSetInv, [DsNext]_dsVars PROVE DataSetInv'
<1>1. CASE UNCHANGED dsVars
  BY <1>1 DEF DataSetInv, dsVars
<1>2. CASE DsNext
  BY <1>2, CatalogStep, StartStep, ValidateStep, ContentsStep, RereadStep, FreeStep, ReadStep,
     CompressStep DEF DsNext
<1> QED
  BY <1>1, <1>2

\* No request has begun, and no DD is allocated.
LEMMA DataSetBegin ==
  ASSUME NEW j, DsBegin(j) PROVE DataSetInv
<1>1. \A t \in DsTasks : /\ TaskFields \subseteq DOMAIN tk[t] /\ tk[t].pc = "start"
                         /\ \A n \in FixedDds : dd[n] # t
  BY DdAssumption DEF DsBegin, NewTask, TaskFields
<1>2. \A t \in DsTasks : Uses(tk[t]) = {}
  BY <1>1 DEF Uses
<1>3. \A t \in DsTasks : DdOk(t, tk[t], dd) /\ EtagOk(tk[t], ds)
  BY <1>1, <1>2 DEF DdOk, EtagOk
<1> QED
  BY <1>1, <1>3 DEF DataSetInv, DsBegin

-----------------------------------------------------------------------------
(* Copies: what is there is replaced only with consent *)

(* The data sets f are what the catalog can hold, and requests name them.  *)
DsTyped(f) == f \in [DsNames -> DataSet \cup {Missing}]

(* Nothing was ever written to data set d.                                 *)
Fresh(f, d) == f[d] = Missing \/ f[d].data[Whole] \in {Absent, Empty}

(* A copy x without leave to replace anything: it copies to a sequential   *)
(* data set only if there was none when it looked; and until it copies,    *)
(* nobody has written to one that was not there, or the copy is marked.    *)
AskOk(x, f) ==
  (x.req.op = "copy" /\ ~x.req.replace /\ ~x.req.overwrite) =>
    /\ x.pc \in {"start", "create", "consent", "run", "done"}
    /\ x.pc = "run" /\ x.types = <<"PS", "PS">> => ~x.tx
    /\ x.pc \in {"create", "consent", "run"} /\ x.req.to[2] = Whole /\ ~x.tx =>
         x.raced \/ Fresh(f, x.req.to[1])

CopyInv ==
  /\ DataSetInv /\ DsTyped(ds)
  /\ \A t \in DsTasks : DsRequestOk(tk[t].req) /\ AskOk(tk[t], ds)

(* One task moved, and it is still about the same request.                 *)
OnlyTask(t) == Others(t) /\ tk'[t].req = tk[t].req

\* A handler that leaves its task in one of the usual ways moves it alone.
LEMMA AnswersMove ==
  ASSUME DataSetInv, NEW t \in DsTasks, Answers(t) PROVE OnlyTask(t)
<1>1. CASE ds' = ds /\ \E rc : Done(t, rc)
  BY <1>1, PlainForm DEF OnlyTask, Progress
<1>2. CASE ds' = ds /\ \E pc : Goto_(t, pc)
  BY <1>2, PlainForm DEF OnlyTask, Progress
<1>3. CASE ds' = ds /\ \E pc, a, b : tk' = [tk EXCEPT ![t].pc = pc, ![t].tx = a, ![t].types = b]
  <2>1. PICK pc, a, b : tk' = [tk EXCEPT ![t].pc = pc, ![t].tx = a, ![t].types = b]
    BY <1>3
  <2>2. Others(t) /\ Progress(tk[t], tk'[t], pc, tk[t].rc)
    BY <1>3, <2>1, PlainForm
  <2> QED
    BY <2>2 DEF OnlyTask, Progress
<1>4. CASE \E pc : tk' = [Changed(t, ds') EXCEPT ![t].pc = pc]
  <2>1. PICK pc : tk' = [Changed(t, ds') EXCEPT ![t].pc = pc]
    BY <1>4
  <2>2. Others(t) /\ Progress(tk[t], tk'[t], pc, tk[t].rc)
    BY <2>1, ContentsForm
  <2> QED
    BY <2>2 DEF OnlyTask, Progress
<1>5. CASE \E pc, rc : tk' = [Changed(t, ds') EXCEPT ![t].pc = pc, ![t].rc = rc]
  <2>1. PICK pc, rc : tk' = [Changed(t, ds') EXCEPT ![t].pc = pc, ![t].rc = rc]
    BY <1>5
  <2>2. Others(t) /\ Progress(tk[t], tk'[t], pc, rc)
    BY <2>1, ContentsForm
  <2> QED
    BY <2>2 DEF OnlyTask, Progress
<1> QED
  BY <1>1, <1>2, <1>3, <1>4, <1>5 DEF Answers

\* The other ways: an answer with a return code, a read, a write.
LEMMA MoreMoves ==
  ASSUME DataSetInv, NEW t \in DsTasks, NEW pc, NEW rc, NEW o,
         \/ /\ ds' = ds
            /\ \/ tk' = [tk EXCEPT ![t].pc = pc, ![t].rc = rc]
               \/ tk' = [tk EXCEPT ![t].pc = pc, ![t].got = o]
               \/ tk' = [tk EXCEPT ![t].pc = pc, ![t].raced = o]
         \/ tk' = [Changed(t, ds') EXCEPT ![t].pc = pc, ![t].rc = rc, ![t].over = o]
         \/ tk' = [Changed(t, ds') EXCEPT ![t].over = o, ![t].pc = pc, ![t].rc = rc]
  PROVE  OnlyTask(t)
<1>1. CASE ds' = ds /\ tk' = [tk EXCEPT ![t].pc = pc, ![t].rc = rc]
  BY <1>1, PlainForm DEF OnlyTask, Progress
<1>2. CASE ds' = ds /\ tk' = [tk EXCEPT ![t].pc = pc, ![t].got = o]
  BY <1>2, PlainForm DEF OnlyTask, Progress
<1>3. CASE ds' = ds /\ tk' = [tk EXCEPT ![t].pc = pc, ![t].raced = o]
  <2> DEFINE y == [tk[t] EXCEPT !.pc = pc, !.raced = o]
  <2>1. tk' = [tk EXCEPT ![t] = y]
    BY <1>3 DEF DataSetInv
  <2>2. TaskFields \subseteq DOMAIN y /\ y.req = tk[t].req
    BY DEF DataSetInv, TaskFields
  <2> HIDE DEF y
  <2> QED
    BY <1>3, <2>1, <2>2, AloneForm DEF OnlyTask
<1>4. CASE tk' = [Changed(t, ds') EXCEPT ![t].pc = pc, ![t].rc = rc, ![t].over = o]
  BY <1>4, ContentsForm DEF OnlyTask, Progress
<1>5. CASE tk' = [Changed(t, ds') EXCEPT ![t].over = o, ![t].pc = pc, ![t].rc = rc]
  BY <1>5, ContentsForm DEF OnlyTask, Progress
<1> QED
  BY <1>1, <1>2, <1>3, <1>4, <1>5

(* What the other steps do, besides copying, to their task.                *)
Works(t) ==
  \/ handle_data_set_write(t) \/ zds_write_validate(t) \/ zds_write(t) \/ zds_write_streamed(t)
  \/ zds_write_reread(t) \/ handle_data_set_write_free(t)
  \/ handle_data_set_view(t) \/ zds_read(t) \/ zds_read_streamed(t) \/ handle_data_set_view_free(t)
  \/ handle_data_set_compress(t) \/ handle_data_set_compress_run(t)

\* Reading, writing and compressing move one task.
LEMMA WorksMove ==
  ASSUME DataSetInv, NEW t \in DsTasks, Works(t) PROVE OnlyTask(t)
<1> USE DEF At, Req
<1> DEFINE r == tk[t].req
<1>1. CASE handle_data_set_write(t)
  <2>1. ds' = ds /\ (Done(t, "failure") \/ Goto_(t, "validate"))
    BY <1>1, Zenon DEF handle_data_set_write
  <2> QED
    BY <2>1, AnswersMove DEF Answers
<1>2. CASE zds_write_validate(t)
  <2>1. /\ ds' = ds
        /\ \/ tk' = [tk EXCEPT ![t].pc = "write", ![t].raced = FALSE]
           \/ tk' = [tk EXCEPT ![t].pc = Finish(r), ![t].rc = "failure"]
    BY <1>2 DEF zds_write_validate
  <2> QED
    BY <2>1, MoreMoves
<1>3. CASE zds_write(t) \/ zds_write_streamed(t)
  <2>1. CASE WriteFails(t, Finish(r))
    BY <2>1, MoreMoves DEF WriteFails
  <2>2. ASSUME NEW o, NEW pc, NEW rc, Wrote(t, o, pc, rc) PROVE OnlyTask(t)
    <3>1. CASE tk' = [Changed(t, ds') EXCEPT ![t].pc = pc, ![t].rc = rc, ![t].over = o]
      BY <3>1, ContentsForm DEF OnlyTask, Progress
    <3>2. CASE tk' = [Changed(t, ds') EXCEPT ![t].over = o, ![t].pc = pc, ![t].rc = rc]
      BY <3>2, ContentsForm DEF OnlyTask, Progress
    <3> QED
      BY <2>2, <3>1, <3>2 DEF Wrote
  <2> QED
    BY <1>3, <2>1, <2>2, WriteShapes
<1>4. CASE zds_write_reread(t)
  <2>1. /\ ds' = ds
        /\ \/ tk' = [tk EXCEPT ![t].pc = Finish(r), ![t].got = ds[r.d].data[r.p]]
           \/ tk' = [tk EXCEPT ![t].pc = Finish(r), ![t].rc = "failure"]
    BY <1>4 DEF zds_write_reread
  <2> QED
    BY <2>1, MoreMoves
<1>5. CASE handle_data_set_write_free(t)
  <2>1. ds' = ds /\ (Done(t, "not freed") \/ Goto_(t, "done"))
    BY <1>5, Zenon DEF handle_data_set_write_free
  <2> QED
    BY <2>1, AnswersMove DEF Answers
<1>6. CASE handle_data_set_view(t)
  <2>1. ds' = ds /\ (Done(t, "failure") \/ Goto_(t, "read"))
    BY <1>6, Zenon DEF handle_data_set_view
  <2> QED
    BY <2>1, AnswersMove DEF Answers
<1>7. CASE zds_read(t)
  <2>1. /\ ds' = ds
        /\ \/ tk' = [tk EXCEPT ![t].pc = "free", ![t].got = ds[r.d].data[r.p]]
           \/ Done(t, "not read")
    BY <1>7 DEF zds_read
  <2> QED
    BY <2>1, MoreMoves DEF Done
<1>8. CASE zds_read_streamed(t)
  <2>1. /\ ds' = ds
        /\ \/ tk' = [tk EXCEPT ![t].pc = "free", ![t].got = ds[r.d].data[r.p]]
           \/ tk' = [tk EXCEPT ![t].pc = "free", ![t].rc = "failure"]
    BY <1>8 DEF zds_read_streamed
  <2> QED
    BY <2>1, MoreMoves
<1>9. CASE handle_data_set_view_free(t)
  <2>1. ds' = ds /\ \E rc : Done(t, rc)
    BY <1>9, Zenon DEF handle_data_set_view_free
  <2> QED
    BY <2>1, AnswersMove DEF Answers
<1>10. CASE handle_data_set_compress(t)
  <2>1. ds' = ds /\ (Done(t, "failure") \/ Done(t, "not allocated") \/ Goto_(t, "iebcopy"))
    BY <1>10, ZenonT(30) DEF handle_data_set_compress
  <2> QED
    BY <2>1, AnswersMove DEF Answers
<1>11. CASE handle_data_set_compress_run(t)
  <2>1. ds' = ds /\ \E rc : Done(t, rc)
    BY <1>11, Zenon DEF handle_data_set_compress_run
  <2> QED
    BY <2>1, AnswersMove DEF Answers
<1> QED
  BY <1>1, <1>2, <1>3, <1>4, <1>5, <1>6, <1>7, <1>8, <1>9, <1>10, <1>11 DEF Works

\* What may be put where a data set is, and what a data set holds.
LEMMA HeldParts ==
  ASSUME DsTyped(ds), NEW d \in DsNames, ds[d] # Missing
  PROVE  ds[d] \in DataSet /\ \A p \in Parts : ds[d].data[p] \in Held
BY DEF DsTyped, DataSet

\* One data set is replaced by another, or deleted.
LEMMA TypedPut ==
  ASSUME DsTyped(ds), NEW d \in DsNames, NEW v \in DataSet \cup {Missing}
  PROVE  DsTyped([ds EXCEPT ![d] = v])
BY DEF DsTyped

\* One part of a data set is replaced.
LEMMA TypedSet ==
  ASSUME DsTyped(ds), NEW d \in DsNames, ds[d] # Missing, NEW p \in Parts, NEW v \in Held
  PROVE  DsTyped(Set(d, p, v))
<1>1. ds[d] \in DataSet /\ DOMAIN ds = DsNames
  BY DEF DsTyped
<1> DEFINE y == [ds[d] EXCEPT !.data[p] = v]
<1>2. y \in DataSet
  BY <1>1 DEF DataSet
<1>3. Set(d, p, v) = [ds EXCEPT ![d] = y]
  BY DEF Set
<1> HIDE DEF y
<1> QED
  BY <1>2, <1>3, TypedPut

\* What ALLOC makes is a data set.
LEMMA TypedNew ==
  ASSUME NEW a, a.org \in Orgs, a.fmt \in Formats
  PROVE  NewData(a) \in DataSet
<1>1. [p \in Parts |-> IF a.org = "PS" /\ p = Whole THEN Empty ELSE Absent] \in [Parts -> Held]
  BY DEF Held
<1> QED
  BY <1>1 DEF NewData, DataSet

\* ALLOC LIKE of a data set that is there.
LEMMA TypedLike ==
  ASSUME DsTyped(ds), NEW d \in DsNames, NEW like \in DsNames, ds[like] # Missing
  PROVE  DsTyped(AllocLike(d, like)) /\ NewData([org |-> ds[like].org, fmt |-> ds[like].fmt]) # Missing
<1> DEFINE a == [org |-> ds[like].org, fmt |-> ds[like].fmt]
<1>1. a.org \in Orgs /\ a.fmt \in Formats
  BY HeldParts DEF DataSet
<1>2. NewData(a) \in DataSet
  BY <1>1, TypedNew
<1>3. AllocLike(d, like) = [ds EXCEPT ![d] = NewData(a)]
  BY DEF AllocLike
<1>4. Missing \notin DataSet
  BY DsAssumption DEF DsAssumption
<1>5. NewData(a) # Missing
  BY <1>2, <1>4
<1>6. DsTyped([ds EXCEPT ![d] = NewData(a)])
  BY <1>2, TypedPut
<1> QED
  BY <1>3, <1>5, <1>6

\* The attributes of a new data set are those of the request or the defaults.
LEMMA TypedAttributes ==
  ASSUME NEW r, DsRequestOk(r) PROVE NewData(Normalised(r.attr)) \in DataSet
<1> DEFINE a == r.attr
           n == Normalised(a)
<1>1. a.recfm \in STRING /\ a.lrecl \in Int /\ a.blksize \in Int
  BY Zenon DEF DsRequestOk
<1>2. n.org \in Orgs
  <2>1. "PS" \in Orgs
    BY DEF Orgs
  <2>2. a.dsorg \in Orgs \cup {""}
    BY Zenon DEF DsRequestOk
  <2>3. n.org = IF a.dsorg = "" THEN "PS" ELSE a.dsorg
    BY Zenon DEF Normalised
  <2> HIDE DEF a, n
  <2> QED
    BY <2>1, <2>2, <2>3, Zenon
<1>3. n.fmt \in Formats
  <2> DEFINE l == IF a.recfm = "U" THEN 0 ELSE IF a.lrecl < 0 THEN 80 ELSE a.lrecl
             k == IF a.recfm = "U" THEN 0
                  ELSE IF a.blksize < 0 THEN (IF a.lrecl > 0 THEN a.lrecl ELSE 80) ELSE a.blksize
  <2>1. n.fmt = [recfm |-> a.recfm, lrecl |-> l, blksize |-> k]
    BY Zenon DEF Normalised
  <2>2. l \in Int /\ k \in Int
    BY <1>1
  <2> HIDE DEF l, k, n, a
  <2> QED
    BY <1>1, <2>1, <2>2 DEF Formats
<1> HIDE DEF n
<1> QED
  BY <1>2, <1>3, TypedNew DEF n

\* Creating, deleting and renaming leave data sets.
LEMMA CatalogTyped ==
  ASSUME CopyInv, NEW t \in DsTasks,
         \/ create_with_attributes(t) \/ handle_data_set_create_member(t) \/ zds_delete_dsn(t)
         \/ zds_rename_dsn(t) \/ zds_rename_members(t) \/ handle_data_set_restore(t)
  PROVE  DsTyped(ds')
<1> DEFINE r == tk[t].req
<1>0. DsTyped(ds) /\ DsRequestOk(r)
  BY DEF CopyInv
<1>r. r.d \in DsNames /\ r.p \in Parts /\ r.to[1] \in DsNames /\ r.to[2] \in Parts
  BY <1>0 DEF DsRequestOk
<1>1. CASE create_with_attributes(t)
  <2>1. ds' = ds \/ ds' = [ds EXCEPT ![r.d] = NewData(Normalised(r.attr))]
    BY <1>1, Zenon DEF create_with_attributes, Req
  <2> QED
    BY <1>0, <1>r, <2>1, TypedAttributes, TypedPut
<1>2. CASE handle_data_set_create_member(t) \/ handle_data_set_restore(t)
  BY <1>0, <1>2 DEF handle_data_set_create_member, handle_data_set_restore
<1>3. CASE zds_delete_dsn(t)
  <2>1. \/ ds' = ds
        \/ ds' = [ds EXCEPT ![r.d] = Missing]
        \/ ds[r.d] # Missing /\ ds' = Set(r.d, r.p, Absent)
    BY <1>3 DEF zds_delete_dsn, Req, zds_member_exists, zds_dataset_exists
  <2>2. Absent \in Held
    BY DEF Held
  <2>3. DsTyped([ds EXCEPT ![r.d] = Missing])
    BY <1>0, <1>r, TypedPut
  <2>4. ds[r.d] # Missing => DsTyped(Set(r.d, r.p, Absent))
    BY <1>0, <1>r, <2>2, TypedSet
  <2> QED
    BY <1>0, <2>1, <2>3, <2>4
<1>4. CASE zds_rename_dsn(t)
  <2>1. ds' = ds \/ ds' = [ds EXCEPT ![r.to[1]] = ds[r.d], ![r.d] = Missing]
    BY <1>4 DEF zds_rename_dsn, Req
  <2> QED
    BY <1>0, <1>r, <2>1 DEF DsTyped
<1>5. CASE zds_rename_members(t)
  <2> DEFINE b == r.to[2]
             z == [ds[r.d].data EXCEPT ![b] = ds[r.d].data[r.p], ![r.p] = Absent]
             y == [ds[r.d] EXCEPT !.data = z]
  <2>1. ds' = ds \/ (ds[r.d] # Missing /\ ds' = [ds EXCEPT ![r.d] = y])
    BY <1>0, <1>5, <1>r DEF zds_rename_members, Req, zds_member_exists, zds_dataset_exists, DsTyped
  <2>2. ds[r.d] # Missing => y \in DataSet
    <3> SUFFICES ASSUME ds[r.d] # Missing PROVE y \in DataSet
      OBVIOUS
    <3>1. ds[r.d] \in DataSet /\ Absent \in Held
      BY <1>0, <1>r, HeldParts DEF Held
    <3>2. z \in [Parts -> Held]
      BY <1>r, <3>1 DEF DataSet
    <3> HIDE DEF z
    <3> QED
      BY <3>1, <3>2 DEF DataSet
  <2> HIDE DEF y
  <2> QED
    BY <1>0, <1>r, <2>1, <2>2, TypedPut
<1> QED
  BY <1>1, <1>2, <1>3, <1>4, <1>5

\* So do reading, writing and compressing.
LEMMA WorksTyped ==
  ASSUME CopyInv, NEW t \in DsTasks, Works(t) PROVE DsTyped(ds')
<1> DEFINE r == tk[t].req
<1>0. /\ DsTyped(ds) /\ r.d \in DsNames /\ r.p \in Parts /\ r.v \in Held
      /\ Empty \in Held /\ Partial \in Held
  BY DEF CopyInv, DsRequestOk, Held
<1>1. ds' = ds \/ (ds[r.d] # Missing /\ \E v \in {r.v, Empty, Partial} : ds' = Set(r.d, r.p, v))
  <2>1. CASE zds_write(t) \/ zds_write_streamed(t)
    <3>1. CASE zds_write_member_bpam(t)
      BY <3>1 DEF zds_write_member_bpam, zds_dataset_exists, Req
    <3>2. CASE zds_write_sequential(t)
      BY <3>2, Zenon DEF zds_write_sequential, zds_dataset_exists, Req
    <3>3. CASE zds_write_sequential_streamed(t)
      BY <3>3, Zenon DEF zds_write_sequential_streamed, zds_dataset_exists, Req
    <3> QED
      BY <2>1, <3>1, <3>2, <3>3 DEF zds_write, zds_write_streamed
  <2>2. CASE ~(zds_write(t) \/ zds_write_streamed(t))
    BY <2>2, Zenon DEF Works, handle_data_set_write, zds_write_validate, zds_write_reread,
       handle_data_set_write_free, handle_data_set_view, zds_read, zds_read_streamed,
       handle_data_set_view_free, handle_data_set_compress, handle_data_set_compress_run
  <2> QED
    BY <2>1, <2>2
<1> QED
  BY <1>0, <1>1, TypedSet

\* What another request's step leaves of a copy's knowledge.
LEMMA OthersAsk ==
  ASSUME CopyInv, NEW t \in DsTasks, Others(t), NEW u \in DsTasks, u # t
  PROVE  AskOk(tk'[u], ds') /\ tk'[u].req = tk[u].req
<1> DEFINE x == tk[u]
           z == tk'[u]
           r == x.req
<1>0. SameTask(x, z) /\ AskOk(x, ds) /\ TaskFields \subseteq DOMAIN x
  BY DEF Others, CopyInv, DataSetInv
<1>1. CASE ds' = ds
  BY <1>0, <1>1 DEF AskOk, SameTask
<1>2. CASE ds' # ds
  <2>1. z = Changed(t, ds')[u]
    BY <1>2 DEF Others
  <2>2. ASSUME r.op = "copy", x.pc \in {"create", "consent", "run"}, r.to[2] = Whole, ~z.raced
        PROVE  ds'[r.to[1]] = ds[r.to[1]]
    <3>1. z = IF /\ u # t /\ x.pc \in {"write", "create", "consent", "overwrite", "recreate", "run"}
                 /\ IF r.to[2] = Whole THEN ds'[r.to[1]] # ds[r.to[1]]
                    ELSE Part(ds', r.to) # Part(ds, r.to)
              THEN [x EXCEPT !.raced = TRUE] ELSE x
      BY <2>1, <2>2 DEF Changed, Req
    <3>2. [x EXCEPT !.raced = TRUE].raced = TRUE
      BY <1>0 DEF TaskFields
    <3> QED
      BY <2>2, <3>1, <3>2
  <2> QED
    BY <1>0, <2>2 DEF AskOk, SameTask, Fresh
<1> QED
  BY <1>0, <1>1, <1>2 DEF SameTask

\* A request that is no copy knows nothing of consent.
LEMMA NoCopyAsk ==
  ASSUME CopyInv, NEW t \in DsTasks, OnlyTask(t),
         tk[t].req.op # "copy" \/ tk[t].pc \in {"validate", "write", "reread"}
  PROVE  AskOk(tk'[t], ds')
BY DEF CopyInv, AskOk, OnlyTask

\* The steps that are not those of a copy.
LEMMA OtherStepsAsk ==
  ASSUME CopyInv, NEW t \in DsTasks,
         \/ create_with_attributes(t) \/ handle_data_set_create_member(t) \/ zds_delete_dsn(t)
         \/ zds_rename_dsn(t) \/ zds_rename_members(t) \/ handle_data_set_restore(t) \/ Works(t)
  PROVE  /\ OnlyTask(t) /\ DsTyped(ds') /\ AskOk(tk'[t], ds')
         /\ tk[t].req.op # "copy" \/ tk[t].pc \in {"validate", "write", "reread"}
<1> USE DEF At, Req
<1>0. DataSetInv
  BY DEF CopyInv
<1>1. CASE Works(t)
  <2>1. tk[t].req.op # "copy" \/ tk[t].pc \in {"validate", "write", "reread"}
    BY <1>1 DEF Works, handle_data_set_write, zds_write_validate, zds_write, zds_write_streamed, zds_write_reread,
       handle_data_set_write_free, handle_data_set_view, zds_read, zds_read_streamed,
       handle_data_set_view_free, handle_data_set_compress, handle_data_set_compress_run
  <2> QED
    BY <1>0, <1>1, <2>1, WorksMove, WorksTyped, NoCopyAsk
<1>2. CASE ~Works(t)
  <2>1. tk[t].req.op # "copy"
    BY <1>2 DEF create_with_attributes, handle_data_set_create_member, zds_delete_dsn,
       zds_rename_dsn, zds_rename_members, handle_data_set_restore
  <2>2. OnlyTask(t)
    BY <1>0, <1>2, CatalogAnswers, AnswersMove
  <2> QED
    BY <1>2, <2>1, <2>2, CatalogTyped, NoCopyAsk
<1> QED
  BY <1>1, <1>2

Copies(t) ==
  \/ zds_copy_dsn(t) \/ zds_copy_dsn_create(t) \/ copy_consent(t) \/ copy_overwrite_delete(t)
  \/ copy_overwrite_recreate(t) \/ copy_sequential(t) \/ copy_partitioned(t)

\* IEBCOPY changes the members that it may, to those of the source.
LEMMA PartitionedCopy ==
  ASSUME CopyInv, NEW t \in DsTasks, copy_partitioned(t), ds' # ds
  PROVE  LET r == tk[t].req
             d == r.to[1]
         IN  \E f \in [Parts -> Held] :
               /\ ds[d] # Missing /\ ds' = [ds EXCEPT ![d].data = f]
               /\ ~r.replace => \A x \in Parts : f[x] = ds[d].data[x] \/ ds[d].data[x] = Absent
<1> DEFINE r == tk[t].req
           d == r.to[1]
           sel == control_stmt(r)
           old == ds[d].data
           may == {x \in DOMAIN sel : ds[r.d].data[sel[x]] # Absent /\ (r.replace \/ old[x] = Absent)}
           new(done) == [x \in Parts |-> IF x \in done THEN ds[r.d].data[sel[x]] ELSE old[x]]
<1>0. DsTyped(ds) /\ r.d \in DsNames /\ d \in DsNames /\ r.p \in Parts
  BY DEF CopyInv, DsRequestOk
<1>1. ds[r.d] # Missing /\ ds[d] # Missing /\ \E done \in SUBSET may : ds' = [ds EXCEPT ![d].data = new(done)]
  BY Zenon DEF copy_partitioned, Req, zds_dataset_exists
<1>2. \A x \in Parts : ds[r.d].data[x] \in Held /\ old[x] \in Held
  BY <1>0, <1>1, HeldParts
<1>3. \A x \in DOMAIN sel : sel[x] \in Parts
  BY <1>0 DEF control_stmt, Parts
<1>4. PICK done \in SUBSET may : ds' = [ds EXCEPT ![d].data = new(done)]
  BY <1>1
<1>5. new(done) \in [Parts -> Held]
  <2>1. \A x \in done : x \in DOMAIN sel
    BY <1>4
  <2> HIDE DEF sel, may, old
  <2> QED
    BY <1>2, <1>3, <2>1
<1>6. ~r.replace => \A x \in Parts : new(done)[x] = old[x] \/ old[x] = Absent
  <2>1. ~r.replace => \A x \in done : old[x] = Absent
    BY <1>4
  <2> HIDE DEF sel, may, old
  <2> QED
    BY <2>1
<1> HIDE DEF new
<1> QED
  BY <1>1, <1>4, <1>5, <1>6

\* A copy leaves data sets.
LEMMA CopyTyped ==
  ASSUME CopyInv, NEW t \in DsTasks, Copies(t) PROVE DsTyped(ds')
<1> DEFINE r == tk[t].req
           d == r.to[1]
<1>0. DsTyped(ds) /\ r.d \in DsNames /\ d \in DsNames /\ Whole \in Parts /\ Partial \in Held
  BY DEF CopyInv, DsRequestOk, Parts, Held
<1>1. CASE zds_copy_dsn(t) \/ copy_consent(t)
  BY <1>0, <1>1 DEF zds_copy_dsn, copy_consent
<1>2. CASE zds_copy_dsn_create(t) \/ copy_overwrite_recreate(t)
  <2>1. ds' = ds \/ (ds[r.d] # Missing /\ ds' = AllocLike(d, r.d))
    BY <1>2, Zenon DEF zds_copy_dsn_create, copy_overwrite_recreate, Req, zds_dataset_exists
  <2> QED
    BY <1>0, <2>1, TypedLike
<1>3. CASE copy_overwrite_delete(t)
  <2>1. ds' = ds \/ ds' = [ds EXCEPT ![d] = Missing]
    BY <1>3 DEF copy_overwrite_delete, Req
  <2> QED
    BY <1>0, <2>1, TypedPut
<1>4. CASE copy_sequential(t)
  <2>1. \/ ds' = ds
        \/ ds[r.d] # Missing /\ ds[d] # Missing
           /\ \E ok \in BOOLEAN : ds' = Set(d, Whole, IF ok THEN ds[r.d].data[Whole] ELSE Partial)
    BY <1>4, Zenon DEF copy_sequential, Req, zds_dataset_exists
  <2>2. ds[r.d] # Missing => ds[r.d].data[Whole] \in Held
    BY <1>0, HeldParts
  <2> QED
    BY <1>0, <2>1, <2>2, TypedSet
<1>5. CASE copy_partitioned(t)
  <2>1. ds' = ds \/ (ds[d] # Missing /\ \E f \in [Parts -> Held] : ds' = [ds EXCEPT ![d].data = f])
    BY <1>5, PartitionedCopy
  <2>2. ASSUME NEW f \in [Parts -> Held], ds[d] # Missing, ds' = [ds EXCEPT ![d].data = f]
        PROVE  DsTyped(ds')
    <3> DEFINE y == [ds[d] EXCEPT !.data = f]
    <3>1. ds[d] \in DataSet
      BY <1>0, <2>2, HeldParts
    <3>2. y \in DataSet
      BY <3>1 DEF DataSet
    <3>3. ds' = [ds EXCEPT ![d] = y]
      BY <1>0, <2>2 DEF DsTyped
    <3> HIDE DEF y
    <3> QED
      BY <1>0, <3>2, <3>3, TypedPut
  <2> QED
    BY <1>0, <2>1, <2>2
<1> QED
  BY <1>1, <1>2, <1>3, <1>4, <1>5 DEF Copies

\* What a copy knows after a step that leaves the contents alone.
LEMMA QuietCopy ==
  ASSUME CopyInv, NEW t \in DsTasks, NEW y, TaskFields \subseteq DOMAIN y,
         tk' = [tk EXCEPT ![t] = y], ds' = ds, y.req = tk[t].req, AskOk(y, ds)
  PROVE  OnlyTask(t) /\ AskOk(tk'[t], ds')
BY AloneForm DEF CopyInv, OnlyTask

\* A copy that is over.
LEMMA CopyOver ==
  ASSUME CopyInv, NEW t \in DsTasks,
         \/ ds' = ds /\ Done(t, "failure")
         \/ \E rc : tk' = [Changed(t, ds') EXCEPT ![t].pc = "done", ![t].rc = rc]
  PROVE  OnlyTask(t) /\ AskOk(tk'[t], ds')
<1>0. DataSetInv /\ TaskFields \subseteq DOMAIN tk[t]
  BY DEF CopyInv, DataSetInv
<1>1. CASE ds' = ds /\ Done(t, "failure")
  <2>1. Others(t) /\ Progress(tk[t], tk'[t], "done", "failure")
    BY <1>0, <1>1, PlainForm
  <2> QED
    BY <2>1 DEF Progress, AskOk, OnlyTask
<1>2. ASSUME NEW rc, tk' = [Changed(t, ds') EXCEPT ![t].pc = "done", ![t].rc = rc]
      PROVE  OnlyTask(t) /\ AskOk(tk'[t], ds')
  <2>1. Others(t) /\ Progress(tk[t], tk'[t], "done", rc)
    BY <1>0, <1>2, ContentsForm
  <2> QED
    BY <2>1 DEF Progress, AskOk, OnlyTask
<1> QED
  BY <1>1, <1>2

\* A step of a copy with leave to replace needs to know nothing.
LEMMA CopyWithLeave ==
  ASSUME CopyInv, NEW t \in DsTasks, OnlyTask(t), tk[t].req.replace \/ tk[t].req.overwrite
  PROVE  AskOk(tk'[t], ds')
BY DEF AskOk, OnlyTask

\* A copy goes from its look to its answer knowing what it may replace.
LEMMA CopyAsks ==
  ASSUME CopyInv, NEW t \in DsTasks, Copies(t) PROVE OnlyTask(t) /\ AskOk(tk'[t], ds')
<1> USE DEF At, Req
<1> DEFINE x == tk[t]
           r == x.req
           d == r.to[1]
<1>0. /\ DataSetInv /\ DOMAIN tk = DsTasks /\ TaskFields \subseteq DOMAIN x /\ AskOk(x, ds)
      /\ DsTyped(ds) /\ d \in DsNames
  BY DEF CopyInv, DataSetInv, DsRequestOk
<1>q. OnlyTask(t)
  BY <1>0, CatalogAnswers, AnswersMove DEF Copies
<1> SUFFICES ASSUME ~r.replace, ~r.overwrite PROVE AskOk(tk'[t], ds')
  BY <1>q, CopyWithLeave
<1>1. CASE zds_copy_dsn(t)
  <2> DEFINE next == IF ds[d] # Missing THEN "consent" ELSE "create"
             there == target_exists(r)
  <2>1. /\ \/ Done(t, "failure")
           \/ \E s : tk' = [tk EXCEPT ![t].pc = next, ![t].tx = there, ![t].types = s]
        /\ ds' = ds
    <3>1. ds' = ds
      BY <1>1 DEF zds_copy_dsn
    <3>2. ASSUME ~Done(t, "failure")
          PROVE  \E s : tk' = [tk EXCEPT ![t].pc = next, ![t].tx = there, ![t].types = s]
      BY <1>1, <3>2, Zenon DEF zds_copy_dsn, zds_dataset_exists
    <3> QED
      BY <3>1, <3>2
  <2>2. r.to[2] = Whole => there = (ds[d] # Missing)
    BY DEF target_exists, zds_dataset_exists
  <2>3. ASSUME NEW s, tk' = [tk EXCEPT ![t].pc = next, ![t].tx = there, ![t].types = s]
        PROVE  AskOk(tk'[t], ds')
    <3> DEFINE y == [x EXCEPT !.pc = next, !.tx = there, !.types = s]
    <3>1. tk' = [tk EXCEPT ![t] = y]
      BY <1>0, <2>3
    <3> HIDE DEF there
    <3>2. y.pc = next /\ y.tx = there /\ y.req = r /\ y.raced = x.raced /\ TaskFields \subseteq DOMAIN y
      BY <1>0 DEF TaskFields
    <3>3. next \in {"create", "consent"}
      OBVIOUS
    <3> HIDE DEF y, next
    <3>4. AskOk(y, ds)
      BY <2>2, <3>2, <3>3 DEF AskOk, Fresh
    <3> QED
      BY <2>1, <3>1, <3>2, <3>4, QuietCopy
  <2> QED
    BY <2>1, <2>3, CopyOver
<1>2. CASE zds_copy_dsn_create(t)
  <2>1. \/ ds' = ds /\ Done(t, "failure")
        \/ /\ ds[r.d] # Missing /\ ds' = AllocLike(d, r.d)
           /\ tk' = [Changed(t, ds') EXCEPT ![t].pc = "consent"]
    BY <1>2, Zenon DEF zds_copy_dsn_create, zds_dataset_exists
  <2>2. ASSUME ds[r.d] # Missing, ds' = AllocLike(d, r.d), tk' = [Changed(t, ds') EXCEPT ![t].pc = "consent"]
        PROVE  AskOk(tk'[t], ds')
    <3>1. Others(t) /\ Progress(x, tk'[t], "consent", x.rc)
      BY <1>0, <2>2, ContentsForm
    <3>2. ds'[d].data[Whole] \in {Absent, Empty}
      BY <1>0, <2>2 DEF AllocLike, NewData, DsTyped, Parts
    <3> QED
      BY <3>1, <3>2 DEF AskOk, Progress, Fresh
  <2> QED
    BY <2>1, <2>2, CopyOver
<1>3. CASE copy_consent(t)
  <2>1. /\ ds' = ds /\ x.pc = "consent" /\ r.op = "copy"
        /\ \/ Done(t, "failure")
           \/ CopyConsent(t) /\ tk' = [tk EXCEPT ![t].pc = "run"]
    BY <1>3 DEF copy_consent
  <2>2. CopyConsent(t) /\ x.types = <<"PS", "PS">> => ~x.tx
    BY DEF CopyConsent
  <2>3. ASSUME CopyConsent(t), tk' = [tk EXCEPT ![t].pc = "run"]
        PROVE  AskOk(tk'[t], ds')
    <3> DEFINE y == [x EXCEPT !.pc = "run"]
    <3>1. tk' = [tk EXCEPT ![t] = y]
      BY <1>0, <2>3
    <3>2. /\ y.pc = "run" /\ y.tx = x.tx /\ y.req = r /\ y.raced = x.raced /\ y.types = x.types
          /\ TaskFields \subseteq DOMAIN y
      BY <1>0 DEF TaskFields
    <3> HIDE DEF y
    <3>3. AskOk(y, ds)
      BY <1>0, <2>1, <2>2, <2>3, <3>2 DEF AskOk
    <3> QED
      BY <2>1, <3>1, <3>2, <3>3, QuietCopy
  <2> QED
    BY <2>1, <2>3, CopyOver
<1>4. CASE copy_overwrite_delete(t) \/ copy_overwrite_recreate(t)
  BY <1>0, <1>4 DEF copy_overwrite_delete, copy_overwrite_recreate, AskOk
<1>5. CASE copy_sequential(t) \/ copy_partitioned(t)
  <2>1. \/ ds' = ds /\ Done(t, "failure")
        \/ \E c : tk' = [Changed(t, ds') EXCEPT ![t].pc = "done", ![t].rc = IF c THEN "ok" ELSE "failure"]
    BY <1>5, Zenon DEF copy_sequential, copy_partitioned
  <2>2. ASSUME NEW c, tk' = [Changed(t, ds') EXCEPT ![t].pc = "done", ![t].rc = IF c THEN "ok" ELSE "failure"]
        PROVE  \E rc : tk' = [Changed(t, ds') EXCEPT ![t].pc = "done", ![t].rc = rc]
    BY <2>2
  <2> QED
    BY <2>1, <2>2, CopyOver
<1> QED
  BY <1>1, <1>2, <1>3, <1>4, <1>5 DEF Copies

\* Every step of a data set request keeps what copies know.
LEMMA CopyStep ==
  ASSUME CopyInv, [DsNext]_dsVars PROVE CopyInv'
<1>1. CASE UNCHANGED dsVars
  <2>1. CopyInv' <=> CopyInv
    BY <1>1 DEF dsVars, CopyInv, DataSetInv
  <2> QED
    BY <2>1
<1>2. ASSUME NEW t \in DsTasks, OnlyTask(t), DsTyped(ds'), AskOk(tk'[t], ds'), DataSetInv'
      PROVE  CopyInv'
  <2>1. \A u \in DsTasks : AskOk(tk'[u], ds') /\ tk'[u].req = tk[u].req
    BY <1>2, OthersAsk DEF OnlyTask
  <2> QED
    BY <1>2, <2>1 DEF CopyInv
<1>3. CASE DsNext
  <2>1. DataSetInv'
    BY <1>3, DataSetStep DEF CopyInv
  <2>2. PICK t \in DsTasks :
           \/ create_with_attributes(t) \/ handle_data_set_create_member(t) \/ zds_delete_dsn(t)
           \/ zds_rename_dsn(t) \/ zds_rename_members(t) \/ handle_data_set_restore(t) \/ Works(t)
           \/ Copies(t)
    BY <1>3, Zenon DEF DsNext, Works, Copies
  <2>3. OnlyTask(t) /\ DsTyped(ds') /\ AskOk(tk'[t], ds')
    BY <2>2, OtherStepsAsk, CopyAsks, CopyTyped
  <2> QED
    BY <1>2, <2>1, <2>3
<1> QED
  BY <1>1, <1>3

\* At the start nobody has looked.
LEMMA CopyBegin ==
  ASSUME NEW j \in DsJobs, DsBegin(j) PROVE CopyInv
<1>1. DsTyped(ds) /\ \A t \in DsTasks : DsRequestOk(j.ask[t])
  BY DsAssumption DEF DsAssumption, DsBegin, DsTyped
<1>2. \A t \in DsTasks : tk[t].req = j.ask[t] /\ tk[t].pc = "start"
  BY DEF DsBegin, NewTask
<1> QED
  BY <1>1, <1>2, DataSetBegin DEF CopyInv, AskOk

\* A step of a copy without leave changes only what nobody has written to.
LEMMA CopyActs ==
  ASSUME CopyInv, NEW t \in DsTasks, Copies(t), ds' # ds, ~Req(t).replace, ~Req(t).overwrite,
         NEW e \in DsNames, ds[e] # Missing
  PROVE  /\ ds'[e] # Missing
         /\ \A p \in Parts : \/ ds[e].data[p] \in {Absent, Empty}
                             \/ ds'[e].data[p] = ds[e].data[p]
                             \/ tk[t].raced
<1> USE DEF At, Req
<1> DEFINE x == tk[t]
           r == x.req
           d == r.to[1]
<1>0. /\ AskOk(x, ds) /\ DsTyped(ds) /\ DsTyped(ds') /\ d \in DsNames /\ DOMAIN ds = DsNames
  BY CopyTyped DEF CopyInv, DsRequestOk, DsTyped
<1>m. ds[e] \in DataSet /\ ds[e].data \in [Parts -> Held] /\ Missing \notin DataSet
  BY <1>0, HeldParts, DsAssumption DEF DsAssumption, DataSet
<1>1. CASE zds_copy_dsn(t) \/ copy_consent(t)
  BY <1>1 DEF zds_copy_dsn, copy_consent
<1>2. CASE zds_copy_dsn_create(t)
  <2>1. ds[d] = Missing /\ ds' = AllocLike(d, r.d)
    BY <1>2, Zenon DEF zds_copy_dsn_create, zds_dataset_exists
  <2>2. ds'[e] = ds[e]
    BY <1>0, <2>1 DEF AllocLike
  <2> QED
    BY <2>2
<1>3. CASE copy_overwrite_delete(t) \/ copy_overwrite_recreate(t)
  BY <1>0, <1>3 DEF copy_overwrite_delete, copy_overwrite_recreate, AskOk
<1>4. CASE copy_sequential(t)
  <2>1. /\ x.pc = "run" /\ r.op = "copy" /\ x.types = <<"PS", "PS">> /\ r.to[2] = Whole
        /\ ds[r.d] # Missing
        /\ \E ok \in BOOLEAN : ds' = Set(d, Whole, IF ok THEN ds[r.d].data[Whole] ELSE Partial)
    BY <1>4, Zenon DEF copy_sequential, zds_dataset_exists
  <2>2. PICK v \in Held : ds' = Set(d, Whole, v)
    <3>1. ds[r.d].data[Whole] \in Held /\ Partial \in Held
      BY <1>0, <2>1, HeldParts DEF CopyInv, DsRequestOk, Parts, Held
    <3> QED
      BY <2>1, <3>1
  <2>3. x.raced \/ Fresh(ds, d)
    BY <1>0, <2>1 DEF AskOk
  <2>4. CASE e # d
    BY <1>0, <2>2, <2>4 DEF Set
  <2>5. CASE e = d
    <3>1. ds[d].data[Whole] \in {Absent, Empty} \/ x.raced
      BY <2>3, <2>5 DEF Fresh
    <3>2. ds' = [ds EXCEPT ![d] = [ds[d] EXCEPT !.data[Whole] = v]]
      BY <2>2 DEF Set
    <3>3. ds'[d] = [ds[d] EXCEPT !.data = [ds[d].data EXCEPT ![Whole] = v]]
      BY <1>0, <3>2
    <3>4. ds'[d].data = [ds[d].data EXCEPT ![Whole] = v]
      BY <1>m, <2>5, <3>3 DEF DataSet
    <3>5. \A p \in Parts : p = Whole \/ ds'[d].data[p] = ds[d].data[p]
      BY <1>m, <2>5, <3>4
    <3>6. ds'[d] # Missing
      <4> DEFINE z == [ds[d].data EXCEPT ![Whole] = v]
      <4>0. z \in [Parts -> Held] /\ ds'[d] = [ds[d] EXCEPT !.data = z]
        BY <1>m, <2>5, <3>3
      <4> HIDE DEF z
      <4>1. ds'[d] \in DataSet
        BY <1>m, <2>5, <4>0 DEF DataSet
      <4> QED
        BY <1>m, <4>1
    <3> QED
      BY <2>5, <3>1, <3>5, <3>6
  <2> QED
    BY <2>4, <2>5
<1>5. CASE copy_partitioned(t)
  <2>1. PICK f \in [Parts -> Held] :
          /\ ds' = [ds EXCEPT ![d].data = f]
          /\ \A y \in Parts : f[y] = ds[d].data[y] \/ ds[d].data[y] = Absent
    BY <1>5, PartitionedCopy
  <2>2. CASE e # d
    BY <1>0, <2>1, <2>2
  <2>3. CASE e = d
    <3>1. ds'[d] = [ds[d] EXCEPT !.data = f]
      BY <1>0, <2>1
    <3>2. ds'[d] \in DataSet /\ ds'[d].data = f
      BY <1>m, <2>3, <3>1 DEF DataSet
    <3> QED
      BY <1>m, <2>1, <2>3, <3>2
  <2> QED
    BY <2>2, <2>3
<1> QED
  BY <1>1, <1>2, <1>3, <1>4, <1>5 DEF Copies

-----------------------------------------------------------------------------
(* The UNIX file system *)

UssFields == {"req", "pc", "rc", "todo", "at", "etag", "over", "enc", "tagged", "raced"}
NodeFields == {"kind", "to", "txt", "enc", "tag", "mode", "owner", "mtime"}

(* A write x, from its look at the file on: until it opens it, undisturbed,*)
(* the path stands for the same file, whose e-tag is the one asked for;    *)
(* then what it replaced had that e-tag; the file is in the encoding that  *)
(* its tag will name.                                                      *)
WriteKnows(x) ==
  /\ x.pc \in {"start", "open", "data", "tag", "restat", "done"}
  /\ x.pc = "open" /\ ~x.raced => UfReal(x.req.p) = x.at /\ UssEtagMatches(x.req)
  /\ x.pc \in {"data", "tag", "restat"} \/ (x.pc = "done" /\ x.rc = "ok") =>
       x.raced \/ x.req.etag = NoUssEtag \/ x.over \in {x.req.etag, NoUssEtag}
  /\ x.pc \in {"start", "open", "data", "tag"} => x.tagged = FALSE
  /\ x.pc = "tag" /\ x.enc # NoTag /\ ~x.raced /\ fs[x.at] # UfNone /\ fs[x.at].kind = "file" =>
       fs[x.at].enc = x.enc
  /\ x.pc = "restat" /\ x.tagged /\ ~x.raced /\ fs[x.at] # UfNone => fs[x.at].tag = fs[x.at].enc

(* What a deletion of p may have on its stack.                             *)
Inside(p) == {q \in UfPaths : UfUnder(p, q)} \X Nat \X BOOLEAN
DeleteKnows(x) ==
  /\ x.pc \in {"start", "walk", "done"}
  /\ x.pc = "walk" => x.todo \in Seq(Inside(x.req.p))

UssInv ==
  /\ UfTreeOk(fs) /\ DOMAIN us = UfTasks
  /\ \A t \in UfTasks :
       /\ UssFields \subseteq DOMAIN us[t] /\ us[t].req.p \in UfPaths /\ us[t].at \in UfPaths
       /\ us[t].req.op = "write" => WriteKnows(us[t])
       /\ us[t].req.op = "delete" => DeleteKnows(us[t])

(* The step of one request: the tree stays one, and every other request is *)
(* left alone but for the mark that its path changed.                      *)
UssStep(t) ==
  /\ UfTreeOk(fs') /\ DOMAIN us' = UfTasks
  /\ \A u \in UfTasks \ {t} : us'[u] = UfRaced(t, fs')[u]
  /\ UssFields \subseteq DOMAIN us'[t] /\ us'[t].req = us[t].req /\ us'[t].at \in UfPaths

\* One node of the tree is replaced by another, or removed.
LEMMA TreeSet ==
  ASSUME NEW tree, UfTreeOk(tree), NEW q, NEW v,
         q \in UfPaths => v = UfNone \/ (NodeFields \subseteq DOMAIN v /\ v.to \in UfPaths)
  PROVE  UfTreeOk([tree EXCEPT ![q] = v])
BY DEF UfTreeOk, NodeFields

\* What a path stands for is a path, and its node is a node.
LEMMA RealIsPath ==
  ASSUME UfTreeOk(fs), NEW q \in UfPaths
  PROVE  UfReal(q) \in UfPaths /\ (fs[q] # UfNone => NodeFields \subseteq DOMAIN fs[q] /\ fs[q].to \in UfPaths)
BY DEF UfTreeOk, UfReal, NodeFields

\* The mark is all that changes in a bystander, and only if a path of its own changed.
LEMMA Marked ==
  ASSUME UssInv, NEW t \in UfTasks, NEW u \in UfTasks, u # t
  PROVE  /\ UssFields \subseteq DOMAIN UfRaced(t, fs')[u]
         /\ \A f \in UssFields \ {"raced"} : UfRaced(t, fs')[u][f] = us[u][f]
         /\ \/ UfRaced(t, fs')[u] = us[u] /\ us[u].pc \in {"start", "done"}
            \/ UfRaced(t, fs')[u].raced = TRUE
            \/ UfRaced(t, fs')[u] = us[u] /\ fs'[us[u].at] = fs[us[u].at] /\ fs'[us[u].req.p] = fs[us[u].req.p]
<1>1. UssFields \subseteq DOMAIN us[u]
  BY DEF UssInv
<1> QED
  BY <1>1 DEF UfRaced, UssFields

\* The one that steps is not marked by its step.
LEMMA MarkedSelf ==
  ASSUME UssInv, NEW t \in UfTasks
  PROVE  DOMAIN UfRaced(t, fs') = UfTasks /\ UfRaced(t, fs')[t] = us[t]
BY DEF UfRaced

\* Nothing changed, nobody is marked.
LEMMA Unmarked ==
  ASSUME UssInv, NEW t \in UfTasks, UNCHANGED fs
  PROVE  \A u \in UfTasks \ {t} : UfRaced(t, fs')[u] = us[u]
BY DEF UfRaced, UssInv

\* A bystander's knowledge survives.
LEMMA BystanderKnows ==
  ASSUME UssInv, NEW t \in UfTasks, UssStep(t), NEW u \in UfTasks, u # t
  PROVE  /\ UssFields \subseteq DOMAIN us'[u] /\ us'[u].req.p \in UfPaths /\ us'[u].at \in UfPaths
         /\ us'[u].req.op = "write" => WriteKnows(us[u])'
         /\ us'[u].req.op = "delete" => DeleteKnows(us'[u])
<1> DEFINE x == us[u]
           y == us'[u]
<1>1. y = UfRaced(t, fs')[u]
  BY DEF UssStep
<1>2. /\ UssFields \subseteq DOMAIN y /\ y.req = x.req /\ y.pc = x.pc /\ y.rc = x.rc /\ y.todo = x.todo /\ y.at = x.at
      /\ y.etag = x.etag /\ y.over = x.over /\ y.enc = x.enc /\ y.tagged = x.tagged
      /\ \/ y = x /\ x.pc \in {"start", "done"}
         \/ y.raced = TRUE
         \/ y = x /\ fs'[x.at] = fs[x.at] /\ fs'[x.req.p] = fs[x.req.p]
  <2> DEFINE z == UfRaced(t, fs')[u]
  <2>1. /\ UssFields \subseteq DOMAIN z /\ \A f \in UssFields \ {"raced"} : z[f] = x[f]
        /\ \/ z = x /\ x.pc \in {"start", "done"}
           \/ z.raced = TRUE
           \/ z = x /\ fs'[x.at] = fs[x.at] /\ fs'[x.req.p] = fs[x.req.p]
    BY Marked, Zenon
  <2>2. y = z
    BY <1>1
  <2> HIDE DEF x, y, z
  <2> QED
    BY <2>1, <2>2 DEF UssFields
<1>3. /\ x.req.p \in UfPaths /\ x.at \in UfPaths
      /\ x.req.op = "write" => WriteKnows(x)
      /\ x.req.op = "delete" => DeleteKnows(x)
  BY DEF UssInv
<1>4. y.req.op = "delete" => DeleteKnows(y)
  BY <1>2, <1>3 DEF DeleteKnows
<1>5. ASSUME y.req.op = "write" PROVE WriteKnows(us[u])'
  <2>1. WriteKnows(x)
    BY <1>2, <1>3, <1>5
  <2>2. CASE y = x /\ x.pc \in {"start", "done"}
    BY <2>1, <2>2 DEF WriteKnows
  <2>3. CASE y.raced = TRUE
    BY <1>2, <2>1, <2>3 DEF WriteKnows
  <2>4. CASE y = x /\ fs'[x.at] = fs[x.at] /\ fs'[x.req.p] = fs[x.req.p]
    <3>1. x.pc = "open" /\ ~x.raced => (UfReal(x.req.p) = x.at)'  /\ UssEtagMatches(x.req)'
      BY <2>1, <2>4 DEF WriteKnows, UfReal, UssEtagMatches, UfStat
    <3> QED
      BY <2>1, <2>4, <3>1 DEF WriteKnows
  <2> QED
    BY <1>2, <2>2, <2>3, <2>4
<1> QED
  BY <1>2, <1>3, <1>4, <1>5

(* The two shapes of a step: the tree is only read, or the others are told.*)
OwnFields(t) ==
  UssFields \subseteq DOMAIN us'[t] /\ us'[t].req = us[t].req /\ us'[t].at = us[t].at
UssQuiet(t) ==
  UNCHANGED fs /\ DOMAIN us' = UfTasks /\ (\A u \in UfTasks \ {t} : us'[u] = us[u]) /\ OwnFields(t)
UssLoud(t) ==
  DOMAIN us' = UfTasks /\ (\A u \in UfTasks \ {t} : us'[u] = UfRaced(t, fs')[u]) /\ OwnFields(t)

\* Either shape is a step, if the tree stays one.
LEMMA StepShapes ==
  ASSUME UssInv, NEW t \in UfTasks, UssQuiet(t) \/ (UfTreeOk(fs') /\ UssLoud(t))
  PROVE  UssStep(t)
BY Unmarked DEF UssStep, UssQuiet, UssLoud, OwnFields, UssInv

\* A step that writes one or two fields of its own request.
LEMMA QuietOne ==
  ASSUME UssInv, NEW t \in UfTasks, UNCHANGED fs, NEW f, f \notin {"req", "at"}, NEW a,
         us' = [us EXCEPT ![t][f] = a]
  PROVE  UssQuiet(t)
BY DEF UssQuiet, OwnFields, UssFields, UssInv
\* Two of them, in the order of the assignments.
LEMMA QuietTwo ==
  ASSUME UssInv, NEW t \in UfTasks, UNCHANGED fs, NEW f, f \notin {"req", "at"}, NEW a,
         NEW g, g \notin {"req", "at"}, NEW b, us' = [us EXCEPT ![t][f] = a, ![t][g] = b]
  PROVE  UssQuiet(t)
BY DEF UssQuiet, OwnFields, UssFields, UssInv
\* A request is answered.
LEMMA QuietDone ==
  ASSUME UssInv, NEW t \in UfTasks, UNCHANGED fs, NEW rc, UfDone(t, rc)
  PROVE  UssQuiet(t)
BY QuietTwo DEF UfDone
\* A request goes on.
LEMMA QuietGoto ==
  ASSUME UssInv, NEW t \in UfTasks, UNCHANGED fs, NEW pc, UfGoto(t, pc)
  PROVE  UssQuiet(t)
BY QuietOne DEF UfGoto
\* A step that changes the tree and one field of its own request.
LEMMA LoudOne ==
  ASSUME UssInv, NEW t \in UfTasks, NEW f, f \notin {"req", "at"}, NEW a,
         us' = [UfRaced(t, fs') EXCEPT ![t][f] = a]
  PROVE  UssLoud(t)
BY MarkedSelf DEF UssLoud, OwnFields, UssFields, UssInv
\* And two.
LEMMA LoudTwo ==
  ASSUME UssInv, NEW t \in UfTasks, NEW f, f \notin {"req", "at"}, NEW a,
         NEW g, g \notin {"req", "at"}, NEW b, us' = [UfRaced(t, fs') EXCEPT ![t][f] = a, ![t][g] = b]
  PROVE  UssLoud(t)
BY MarkedSelf DEF UssLoud, OwnFields, UssFields, UssInv

\* Listings and reads look, and change only what their request knows.
\* Listings and reads look, and change only what their request knows.
LEMMA LookStep ==
  ASSUME UssInv, NEW t \in UfTasks, handle_uss_list(t) \/ handle_uss_view(t)
  PROVE  UssStep(t) /\ us[t].req.op \notin {"write", "delete"}
<1> DEFINE r == us[t].req
           n == UfStat(r.p)
<1>1. us[t].req.op \in {"list", "view"} /\ UNCHANGED fs
  BY DEF handle_uss_list, zusf_list_uss_file_path, handle_uss_view, ViewStat, zusf_read_from_uss_file,
     zusf_read_from_uss_file_streamed, UfAt, UfReq
<1>2. CASE handle_uss_list(t)
  <2>1. \/ \E rc : UfDone(t, rc)
        \/ us' = [us EXCEPT ![t].pc = "done", ![t].got = {r.p}]
        \/ us' = [us EXCEPT ![t].pc = "lstat",
                           ![t].left = zusf_collect_directory_entries_recursive(UfReal(r.p), r.depth, r.all)]
        \/ UfGoto(t, "done")
        \/ \E q \in us[t].left : us' = [us EXCEPT ![t].left = us[t].left \ {q}, ![t].got = us[t].got \cup {q}]
    BY <1>2 DEF handle_uss_list, zusf_list_uss_file_path, UfReq
  <2> QED
    <3>1. ASSUME us' = [us EXCEPT ![t].pc = "done", ![t].got = {r.p}] PROVE UssQuiet(t)
      BY <1>1, <3>1, QuietTwo
    <3>2. ASSUME NEW l, us' = [us EXCEPT ![t].pc = "lstat", ![t].left = l] PROVE UssQuiet(t)
      BY <1>1, <3>2, QuietTwo
    <3>3. ASSUME NEW l, NEW g, us' = [us EXCEPT ![t].left = l, ![t].got = g] PROVE UssQuiet(t)
      BY <1>1, <3>3, QuietTwo
    <3>4. UssQuiet(t)
      BY <1>1, <2>1, <3>1, <3>2, <3>3, QuietDone, QuietGoto
    <3> QED
      BY <1>1, <3>4, StepShapes
<1>3. CASE handle_uss_view(t)
  <2> DEFINE g == {Decoded(n, EncodingToUse(r))}
  <2>1. \/ \E rc : UfDone(t, rc)
        \/ us' = [us EXCEPT ![t].pc = "read", ![t].etag = zut_build_etag(n)]
        \/ us' = [us EXCEPT ![t].pc = "done", ![t].got = g]
        \/ \E ok \in BOOLEAN : us' = [us EXCEPT ![t].pc = "done", ![t].rc = IF ok THEN "ok" ELSE "failure", ![t].got = g]
    BY <1>3, Zenon DEF handle_uss_view, ViewStat, zusf_read_from_uss_file, zusf_read_from_uss_file_streamed, UfReq
  <2> HIDE DEF g, n
  <2>2. ASSUME NEW rc, us' = [us EXCEPT ![t].pc = "done", ![t].rc = rc, ![t].got = g] PROVE UssQuiet(t)
    BY <1>1, <2>2 DEF UssQuiet, OwnFields, UssFields, UssInv
  <2>3. ASSUME us' = [us EXCEPT ![t].pc = "read", ![t].etag = zut_build_etag(n)] PROVE UssQuiet(t)
    BY <1>1, <2>3, QuietTwo
  <2>4. ASSUME us' = [us EXCEPT ![t].pc = "done", ![t].got = g] PROVE UssQuiet(t)
    BY <1>1, <2>4, QuietTwo
  <2>5. UssQuiet(t)
    BY <1>1, <2>1, <2>2, <2>3, <2>4, QuietDone
  <2> QED
    BY <1>1, <2>5, StepShapes
<1> QED
  BY <1>2, <1>3

\* A directory that is made, and a file, are nodes.
LEMMA CreateStep ==
  ASSUME UssInv, NEW t \in UfTasks, handle_uss_create_file(t) \/ handle_uss_create_dir(t)
  PROVE  UssStep(t) /\ us[t].req.op \notin {"write", "delete"}
<1>0. UfTreeOk(fs) /\ us[t].req.p \in UfPaths
  BY DEF UssInv
<1> DEFINE q == UfReal(us[t].req.p)
           d == Head(us[t].todo)
           m == us[t].req.mode
           file == IF fs[q] = UfNone THEN [UfNode("file") EXCEPT !.mode = m]
                   ELSE [fs[q] EXCEPT !.txt = "", !.mtime = now, !.mode = m]
           dir == [UfNode("dir") EXCEPT !.mode = m]
           again == [fs[d] EXCEPT !.mode = m]
<1>1. us[t].req.op \in {"create_file", "create_dir"}
  BY DEF handle_uss_create_file, handle_uss_create_dir, NoMode, zusf_create_uss_file, zusf_create_uss_dir, UfAt, UfReq
<1>2. UfTreeOk([fs EXCEPT ![q] = file])
  <2>1. q \in UfPaths => NodeFields \subseteq DOMAIN file /\ file.to \in UfPaths
    BY <1>0, UfAssumption DEF UfTreeOk, NodeFields, UfNode, UfAssumption
  <2> QED
    BY <1>0, <2>1, TreeSet
<1>3. UfTreeOk([fs EXCEPT ![d] = dir])
  <2>1. NodeFields \subseteq DOMAIN dir /\ dir.to \in UfPaths
    BY UfAssumption DEF NodeFields, UfNode, UfAssumption
  <2> QED
    BY <1>0, <2>1, TreeSet
<1>4. fs[d] # UfNone => UfTreeOk([fs EXCEPT ![d] = again])
  <2>1. d \in UfPaths /\ fs[d] # UfNone => NodeFields \subseteq DOMAIN again /\ again.to \in UfPaths
    BY <1>0 DEF UfTreeOk, NodeFields
  <2> QED
    BY <1>0, <2>1, TreeSet
<1>5. CASE handle_uss_create_file(t)
  <2>1. \/ UNCHANGED fs /\ \E rc : UfDone(t, rc)
        \/ UNCHANGED fs /\ us' = [us EXCEPT ![t].pc = "open", ![t].raced = FALSE]
        \/ fs' = [fs EXCEPT ![q] = file] /\ us' = [UfRaced(t, fs') EXCEPT ![t].pc = "done"]
    BY <1>5 DEF handle_uss_create_file, NoMode, zusf_create_uss_file, UfReq
  <2> HIDE DEF q, file
  <2>2. CASE UNCHANGED fs /\ \E rc : UfDone(t, rc)
    BY <1>1, <2>2, QuietDone, StepShapes
  <2>3. CASE UNCHANGED fs /\ us' = [us EXCEPT ![t].pc = "open", ![t].raced = FALSE]
    BY <1>1, <2>3, QuietTwo, StepShapes
  <2>4. CASE fs' = [fs EXCEPT ![q] = file] /\ us' = [UfRaced(t, fs') EXCEPT ![t].pc = "done"]
    BY <1>1, <1>2, <2>4, LoudOne, StepShapes
  <2> QED
    BY <2>1, <2>2, <2>3, <2>4
<1>6. CASE handle_uss_create_dir(t)
  <2>1. [fs EXCEPT ![d].mode = m] = [fs EXCEPT ![d] = again]
    BY Zenon
  <2>2. \/ UNCHANGED fs /\ \E rc : UfDone(t, rc)
        \/ UNCHANGED fs /\ us' = [us EXCEPT ![t].pc = "mkdir", ![t].todo = ToMake(us[t].req)]
        \/ /\ fs' = [fs EXCEPT ![d] = dir]
           /\ us' = [UfRaced(t, fs') EXCEPT ![t].todo = Tail(UfRaced(t, fs')[t].todo),
                                           ![t].pc = IF Len(us[t].todo) = 1 THEN "done" ELSE "mkdir"]
        \/ /\ UNCHANGED fs \/ (fs[d] # UfNone /\ fs' = [fs EXCEPT ![d].mode = m])
           /\ us' = [UfRaced(t, fs') EXCEPT ![t].pc = "done", ![t].rc = "failure"]
    BY <1>6, Zenon DEF handle_uss_create_dir, NoMode, zusf_create_uss_dir, UfReq
  <2> HIDE DEF d, dir, again, m
  <2>3. CASE UNCHANGED fs /\ \E rc : UfDone(t, rc)
    BY <1>1, <2>3, QuietDone, StepShapes
  <2>4. CASE UNCHANGED fs /\ us' = [us EXCEPT ![t].pc = "mkdir", ![t].todo = ToMake(us[t].req)]
    BY <1>1, <2>4, QuietTwo, StepShapes
  <2>5. CASE /\ fs' = [fs EXCEPT ![d] = dir]
             /\ us' = [UfRaced(t, fs') EXCEPT ![t].todo = Tail(UfRaced(t, fs')[t].todo),
                                             ![t].pc = IF Len(us[t].todo) = 1 THEN "done" ELSE "mkdir"]
    <3>1. UssLoud(t)
      BY <2>5, LoudTwo
    <3> QED
      BY <1>1, <1>3, <2>5, <3>1, StepShapes
  <2>6. CASE /\ UNCHANGED fs \/ (fs[d] # UfNone /\ fs' = [fs EXCEPT ![d].mode = m])
             /\ us' = [UfRaced(t, fs') EXCEPT ![t].pc = "done", ![t].rc = "failure"]
    <3>1. UssLoud(t)
      BY <2>6, LoudTwo
    <3> QED
      BY <1>0, <1>1, <1>4, <2>1, <2>6, <3>1, StepShapes
  <2> QED
    BY <2>2, <2>3, <2>4, <2>5, <2>6
<1> QED
  BY <1>5, <1>6

\* What cp and mv leave is a tree again, of the nodes they place.
LEMMA PlacedIsTree ==
  ASSUME UfTreeOk(fs), NEW src, NEW dst, NEW node,
         \A q \in UfPaths : fs[q] # UfNone =>
            node[q] = UfNone \/ (NodeFields \subseteq DOMAIN node[q] /\ node[q].to \in UfPaths)
  PROVE  UfTreeOk(Placed(src, dst, node))
BY DEF UfTreeOk, Placed, NodeFields

\* A copy and a move leave a tree.
LEMMA CopyMoveStep ==
  ASSUME UssInv, NEW t \in UfTasks, handle_uss_copy(t) \/ handle_uss_move(t)
  PROVE  UssStep(t) /\ us[t].req.op \notin {"write", "delete"}
<1> DEFINE r == us[t].req
<1>0. UfTreeOk(fs)
  BY DEF UssInv
<1>1. r.op \in {"copy", "move"}
  BY DEF handle_uss_copy, handle_uss_move, zusf_copy_file_or_dir, zusf_move_uss_file_or_dir, UfAt, UfReq
<1>2. ASSUME UNCHANGED fs, (\E rc : UfDone(t, rc)) \/ (\E pc : UfGoto(t, pc)) PROVE UssStep(t)
  <2>1. UssQuiet(t)
    BY <1>2, QuietDone, QuietGoto
  <2> QED
    BY <2>1, StepShapes
<1>3. ASSUME UfTreeOk(fs'), us' = [UfRaced(t, fs') EXCEPT ![t].pc = "done"] PROVE UssStep(t)
  <2>1. UssLoud(t)
    BY <1>3, LoudOne
  <2> QED
    BY <1>3, <2>1, StepShapes
<1>4. CASE handle_uss_copy(t)
  <2> DEFINE dst == UfReal(Into(r.p, r.to))
             copy == [q \in UfPaths |->
                        LET n == IF r.follow \/ ~r.recursive THEN UfStat(q) ELSE fs[q]
                        IN  IF n = UfNone THEN n ELSE [n EXCEPT !.mtime = IF r.preserve THEN @ ELSE now]]
  <2>1. \/ UNCHANGED fs /\ ((\E rc : UfDone(t, rc)) \/ (\E pc : UfGoto(t, pc)))
        \/ /\ UfStat(r.p) # UfNone /\ fs' = Placed(r.p, dst, copy)
           /\ us' = [UfRaced(t, fs') EXCEPT ![t].pc = "done"]
    BY <1>4 DEF handle_uss_copy, zusf_copy_file_or_dir, UfReq
  <2>2. \A q \in UfPaths : copy[q] = UfNone \/ (NodeFields \subseteq DOMAIN copy[q] /\ copy[q].to \in UfPaths)
    <3> SUFFICES ASSUME NEW q \in UfPaths
                 PROVE  copy[q] = UfNone \/ (NodeFields \subseteq DOMAIN copy[q] /\ copy[q].to \in UfPaths)
      OBVIOUS
    <3> DEFINE n == IF r.follow \/ ~r.recursive THEN UfStat(q) ELSE fs[q]
    <3>1. n = UfNone \/ (NodeFields \subseteq DOMAIN n /\ n.to \in UfPaths)
      <4>1. fs[q] = UfNone \/ (NodeFields \subseteq DOMAIN fs[q] /\ fs[q].to \in UfPaths)
        BY <1>0, RealIsPath
      <4>2. UfStat(q) = UfNone \/ (NodeFields \subseteq DOMAIN UfStat(q) /\ UfStat(q).to \in UfPaths)
        BY <1>0, RealIsPath DEF UfStat
      <4> QED
        BY <4>1, <4>2
    <3>2. copy[q] = IF n = UfNone THEN n ELSE [n EXCEPT !.mtime = IF r.preserve THEN n.mtime ELSE now]
      BY Zenon
    <3> HIDE DEF n, copy
    <3> QED
      BY <3>1, <3>2 DEF NodeFields
  <2> HIDE DEF dst, copy
  <2>3. UfTreeOk(Placed(r.p, dst, copy))
    BY <1>0, <2>2, PlacedIsTree
  <2> QED
    BY <1>1, <1>2, <1>3, <2>1, <2>3
<1>5. CASE handle_uss_move(t)
  <2> DEFINE dst == Into(r.p, r.to)
             new == [q \in UfPaths |-> IF UfUnder(r.p, q) THEN UfNone ELSE Placed(r.p, dst, fs)[q]]
  <2>1. \/ UNCHANGED fs /\ ((\E rc : UfDone(t, rc)) \/ (\E pc : UfGoto(t, pc)))
        \/ /\ fs' = new
           /\ us' = [UfRaced(t, fs') EXCEPT ![t].pc = "done"]
    BY <1>5, Zenon DEF handle_uss_move, zusf_move_uss_file_or_dir, UfReq
  <2>2. UfTreeOk(Placed(r.p, dst, fs))
    BY <1>0, PlacedIsTree DEF UfTreeOk, NodeFields
  <2>3. UfTreeOk(new)
    BY <2>2 DEF UfTreeOk
  <2> HIDE DEF new
  <2> QED
    BY <1>1, <1>2, <1>3, <2>1, <2>3
<1> QED
  BY <1>4, <1>5

\* A walk begins at the path that was asked for, and ends with its stack.
LEMMA WalkEnds ==
  ASSUME UssInv, NEW t \in UfTasks
  PROVE  /\ \A op : WalkStart(t, op) => UssStep(t) /\ us[t].req.op = op
         /\ WalkEnd(t) => UssStep(t) /\ us[t].pc = "walk" /\ us'[t].pc = "done"
<1>1. ASSUME NEW op, WalkStart(t, op) PROVE UssStep(t) /\ us[t].req.op = op
  <2>1. UNCHANGED fs /\ us' = [us EXCEPT ![t].pc = "walk", ![t].todo = <<<<UfReq(t).p, 0, FALSE>>>>]
    BY <1>1 DEF WalkStart
  <2>2. UssQuiet(t)
    BY <2>1, QuietTwo
  <2> QED
    BY <1>1, <2>2, StepShapes DEF WalkStart, UfAt, UfReq
<1>2. ASSUME WalkEnd(t) PROVE UssStep(t) /\ us[t].pc = "walk" /\ us'[t].pc = "done"
  <2>1. UssQuiet(t)
    BY <1>2, QuietGoto DEF WalkEnd
  <2>2. us'[t].pc = "done"
    BY <1>2 DEF WalkEnd, UfGoto, UssInv, UssFields
  <2> QED
    BY <1>2, <2>1, <2>2, StepShapes DEF WalkEnd
<1> QED
  BY <1>1, <1>2

\* A node that is changed in place is still a node.
LEMMA DownStep ==
  ASSUME UssInv, NEW t \in UfTasks, NEW links, NEW new, WalkDown(t, links, new),
         LET n == UfStat(us[t].todo[1][1])
         IN  NodeFields \subseteq DOMAIN n /\ n.to \in UfPaths => NodeFields \subseteq DOMAIN new /\ new.to \in UfPaths
  PROVE  UssStep(t)
<1> DEFINE q == us[t].todo[1][1]
           n == UfStat(q)
<1>1. CASE UfDone(t, "failure") /\ UNCHANGED fs
  BY <1>1, QuietDone, StepShapes
<1>2. CASE /\ n # UfNone /\ fs' = [fs EXCEPT ![UfReal(q)] = new]
           /\ \E S, k : Push(t, S, k)
  <2>1. PICK S, k : Push(t, S, k)
    BY <1>2
  <2>2. \E todo : us' = [UfRaced(t, fs') EXCEPT ![t].todo = todo]
    BY <2>1 DEF Push
  <2>3. UssLoud(t)
    BY <2>2, LoudOne
  <2>4. UfTreeOk(fs)
    BY DEF UssInv
  <2>5. UfReal(q) \in UfPaths => NodeFields \subseteq DOMAIN n /\ n.to \in UfPaths
    BY <1>2, <2>4 DEF UfStat, UfTreeOk, NodeFields
  <2>6. UfTreeOk([fs EXCEPT ![UfReal(q)] = new])
    BY <2>4, <2>5, TreeSet
  <2> QED
    BY <1>2, <2>3, <2>6, StepShapes
<1>3. \/ UfDone(t, "failure") /\ UNCHANGED fs
      \/ /\ n # UfNone /\ fs' = [fs EXCEPT ![UfReal(q)] = new]
         /\ \E S, k : Push(t, S, k)
  BY Zenon DEF WalkDown
<1> QED
  BY <1>1, <1>2, <1>3

\* Mode, owner and tag are changed in place.
LEMMA ChangeStep ==
  ASSUME UssInv, NEW t \in UfTasks, handle_uss_chmod(t) \/ handle_uss_chown(t) \/ handle_uss_chtag(t)
  PROVE  UssStep(t) /\ us[t].req.op \notin {"write", "delete"}
<1> DEFINE n == UfStat(us[t].todo[1][1])
           r == us[t].req
<1>1. us[t].req.op \in {"chmod", "chown", "chtag"}
  BY DEF handle_uss_chmod, handle_uss_chown, handle_uss_chtag, zusf_chmod_uss_file_or_dir,
     zusf_chown_uss_file_or_dir, zusf_chtag_uss_file_or_dir, UfAt, UfReq, WalkStart
<1>2. \/ \E op : WalkStart(t, op)
      \/ UNCHANGED fs /\ \E rc : UfDone(t, rc)
      \/ WalkDown(t, us[t].todo[1][2], SetMode(r.mode, n))
      \/ WalkDown(t, us[t].todo[1][2], SetOwner(r.owner, n))
      \/ WalkDown(t, us[t].todo[1][2], SetTag(r.ccsid, n))
      \/ WalkDown(t, us[t].todo[1][2], n)
  BY Zenon DEF handle_uss_chmod, handle_uss_chown, handle_uss_chtag, zusf_chmod_uss_file_or_dir,
     zusf_chown_uss_file_or_dir, zusf_chtag_uss_file_or_dir, UfReq
<1>3. CASE UNCHANGED fs /\ \E rc : UfDone(t, rc)
  BY <1>1, <1>3, QuietDone, StepShapes
<1>4. \A m : NodeFields \subseteq DOMAIN n /\ n.to \in UfPaths =>
        /\ NodeFields \subseteq DOMAIN SetMode(m, n) /\ SetMode(m, n).to \in UfPaths
        /\ NodeFields \subseteq DOMAIN SetOwner(m, n) /\ SetOwner(m, n).to \in UfPaths
        /\ NodeFields \subseteq DOMAIN SetTag(m, n) /\ SetTag(m, n).to \in UfPaths
  <2> HIDE DEF n
  <2> QED
    BY DEF SetMode, SetOwner, SetTag, NodeFields
<1> QED
  BY <1>1, <1>2, <1>3, <1>4, WalkEnds, DownStep

\* The start of a start is a start.
LEMMA StartOfStart ==
  ASSUME NEW S, NEW c \in Seq(S), NEW m \in 0..Len(c), NEW k \in 0..m
  PROVE  SubSeq(SubSeq(c, 1, m), 1, k) = SubSeq(c, 1, k)
<1>1. SubSeq(c, 1, m) \in Seq(S) /\ Len(SubSeq(c, 1, m)) = m
  OBVIOUS
<1>2. SubSeq(SubSeq(c, 1, m), 1, k) \in Seq(S) /\ Len(SubSeq(SubSeq(c, 1, m), 1, k)) = k
  BY <1>1
<1>3. SubSeq(c, 1, k) \in Seq(S) /\ Len(SubSeq(c, 1, k)) = k
  OBVIOUS
<1>4. \A i \in 1..k : SubSeq(SubSeq(c, 1, m), 1, k)[i] = SubSeq(c, 1, k)[i]
  BY <1>1
<1> QED
  BY <1>2, <1>3, <1>4, SeqEqual

\* A path is under itself, and what is in a directory is under what the directory is under.
LEMMA UnderPaths ==
  /\ \A p \in UfPaths : UfUnder(p, p) /\ Len(p) \in Nat
  /\ \A p, q, c \in UfPaths : UfUnder(p, q) /\ UfUnder(q, c) => UfUnder(p, c)
<1>1. ASSUME NEW p \in UfPaths PROVE p \in Seq({p[i] : i \in 1..Len(p)})
  BY UfAssumption DEF UfAssumption
<1>2. ASSUME NEW p \in UfPaths PROVE UfUnder(p, p) /\ Len(p) \in Nat
  <2> DEFINE S == {p[i] : i \in 1..Len(p)}
  <2>1. p \in Seq(S)
    BY <1>1
  <2> HIDE DEF S
  <2> QED
    BY <2>1 DEF UfUnder
<1>3. ASSUME NEW p \in UfPaths, NEW q \in UfPaths, NEW c \in UfPaths, UfUnder(p, q), UfUnder(q, c) PROVE UfUnder(p, c)
  <2> DEFINE S == {c[i] : i \in 1..Len(c)}
  <2>1. c \in Seq(S) /\ Len(p) \in Nat /\ Len(q) \in Nat
    BY <1>1, <1>2
  <2>2. Len(c) >= Len(q) /\ SubSeq(c, 1, Len(q)) = q /\ Len(q) >= Len(p) /\ SubSeq(q, 1, Len(p)) = p
    BY <1>3 DEF UfUnder
  <2> HIDE DEF S
  <2>3. SubSeq(SubSeq(c, 1, Len(q)), 1, Len(p)) = SubSeq(c, 1, Len(p))
    BY <2>1, <2>2, StartOfStart
  <2>4. Len(c) >= Len(p) /\ SubSeq(c, 1, Len(p)) = p
    BY <2>1, <2>2, <2>3
  <2> QED
    BY <2>4 DEF UfUnder
<1> QED
  BY <1>2, <1>3

\* The nodes of a directory, in some order.
LEMMA InSomeOrder ==
  ASSUME NEW s \in SUBSET UfPaths
  PROVE  LET n == Cardinality(s)
             T == {<<c, 0, FALSE>> : c \in s}
         IN  /\ n \in Nat
             /\ (CHOOSE f \in [1..n -> T] : \A i, j \in DOMAIN f : i # j => f[i] # f[j]) \in [1..n -> T]
<1> DEFINE n == Cardinality(s)
           T == {<<c, 0, FALSE>> : c \in s}
<1>1. IsFiniteSet(s) /\ n \in Nat
  BY UfAssumption, FS_Subset, FS_CardinalityType DEF UfAssumption
<1>2. PICK g \in [1..n -> s] : \A i, j \in 1..n : i # j => g[i] # g[j]
  <2>1. ExistsBijection(1..n, s)
    BY <1>1, FS_CardinalityType
  <2> QED
    BY <2>1 DEF ExistsBijection, Bijection, Injection, IsInjective
<1> DEFINE h == [i \in 1..n |-> <<g[i], 0, FALSE>>]
<1>3. h \in [1..n -> T] /\ \A i, j \in DOMAIN h : i # j => h[i] # h[j]
  <2> HIDE DEF n
  <2> QED
    BY <1>2
<1> HIDE DEF h, n, T
<1>4. \E f \in [1..n -> T] : \A i, j \in DOMAIN f : i # j => f[i] # f[j]
  BY <1>3
<1>5. (CHOOSE f \in [1..n -> T] : \A i, j \in DOMAIN f : i # j => f[i] # f[j]) \in [1..n -> T]
  BY <1>4
<1> QED
  BY <1>1, <1>5 DEF n, T

\* A deletion keeps to what is under its path, and removes one node at a time.
LEMMA DeleteStep ==
  ASSUME UssInv, NEW t \in UfTasks, handle_uss_delete(t)
  PROVE  /\ UssStep(t) /\ us[t].req.op = "delete" /\ DeleteKnows(us'[t])
         /\ \A q \in UfPaths : fs'[q] # fs[q] => UfUnder(us[t].req.p, q)
<1> DEFINE x == us[t]
           p == x.req.p
           q == x.todo[1][1]
           s == Children(q)
           n == Cardinality(s)
           T == {<<c, 0, FALSE>> : c \in s}
           f == CHOOSE g \in [1..n -> T] : \A i, j \in DOMAIN g : i # j => g[i] # g[j]
           more == f \o <<<<q, 0, TRUE>>>> \o Tail(x.todo)
<1>0. /\ UfTreeOk(fs) /\ p \in UfPaths /\ UssFields \subseteq DOMAIN x /\ DOMAIN us = UfTasks
  BY DEF UssInv
<1>1. x.req.op = "delete"
  BY DEF handle_uss_delete, zusf_delete_uss_item, WalkStart, UfAt, UfReq
<1>2. DeleteKnows(x)
  BY <1>1 DEF UssInv
<1>3. \/ UNCHANGED fs /\ us' = [us EXCEPT ![t].pc = "walk", ![t].todo = <<<<p, 0, FALSE>>>>]
      \/ UNCHANGED fs /\ UfDone(t, "failure")
      \/ x.pc = "walk" /\ x.todo # <<>> /\ UNCHANGED fs /\ us' = [us EXCEPT ![t].todo = more]
      \/ /\ x.pc = "walk" /\ x.todo # <<>> /\ fs' = [fs EXCEPT ![q] = UfNone]
         /\ us' = [UfRaced(t, fs') EXCEPT ![t].todo = Tail(UfRaced(t, fs')[t].todo)]
  BY Zenon DEF handle_uss_delete, zusf_delete_uss_item, WalkStart, UfReq, UfAt
<1>4. CASE UNCHANGED fs /\ us' = [us EXCEPT ![t].pc = "walk", ![t].todo = <<<<p, 0, FALSE>>>>]
  <2>1. UssStep(t)
    BY <1>4, QuietTwo, StepShapes
  <2>2. us'[t].pc = "walk" /\ us'[t].todo = <<<<p, 0, FALSE>>>> /\ us'[t].req = x.req
    BY <1>0, <1>4 DEF UssFields
  <2>3. <<p, 0, FALSE>> \in Inside(p)
    BY <1>0, UnderPaths DEF Inside
  <2>4. DeleteKnows(us'[t])
    BY <2>2, <2>3 DEF DeleteKnows
  <2> QED
    BY <1>1, <1>4, <2>1, <2>4
<1>5. CASE UNCHANGED fs /\ UfDone(t, "failure")
  <2>1. UssStep(t)
    BY <1>5, QuietDone, StepShapes
  <2>2. us'[t].pc = "done"
    BY <1>0, <1>5 DEF UssFields, UfDone
  <2> QED
    BY <1>1, <1>5, <2>1, <2>2 DEF DeleteKnows
<1>6. x.pc = "walk" /\ x.todo # <<>> => /\ x.todo \in Seq(Inside(p)) /\ x.todo[1] \in Inside(p)
                                       /\ Tail(x.todo) \in Seq(Inside(p)) /\ q \in UfPaths /\ UfUnder(p, q)
  <2>1. x.pc = "walk" => x.todo \in Seq(Inside(p))
    BY <1>2 DEF DeleteKnows
  <2>2. x.pc = "walk" /\ x.todo # <<>> => x.todo[1] \in Inside(p) /\ Tail(x.todo) \in Seq(Inside(p))
    <3> DEFINE I == Inside(p)
               w == x.todo
    <3>1. x.pc = "walk" => w \in Seq(I)
      BY <2>1
    <3> HIDE DEF I, w
    <3>2. w \in Seq(I) /\ w # <<>> => w[1] \in I /\ Tail(w) \in Seq(I)
      OBVIOUS
    <3> QED
      BY <3>1, <3>2 DEF I, w
  <2> QED
    BY <2>1, <2>2 DEF Inside
<1>7. CASE x.pc = "walk" /\ x.todo # <<>> /\ UNCHANGED fs /\ us' = [us EXCEPT ![t].todo = more]
  <2>1. UssStep(t)
    BY <1>7, QuietOne, StepShapes
  <2>2. us'[t].pc = "walk" /\ us'[t].todo = more /\ us'[t].req = x.req
    BY <1>0, <1>7 DEF UssFields
  <2>3. s \in SUBSET UfPaths /\ \A c \in s : UfUnder(q, c)
    BY DEF Children
  <2>4. n \in Nat /\ f \in [1..n -> T]
    <3> HIDE DEF s
    <3> QED
      BY <2>3, InSomeOrder
  <2>5. T \subseteq Inside(p)
    <3>1. \A c \in s : c \in UfPaths /\ UfUnder(p, c)
      BY <1>0, <1>6, <1>7, <2>3, UnderPaths
    <3> HIDE DEF s, p, x
    <3>2. \A c \in s : <<c, 0, FALSE>> \in Inside(p)
      BY <3>1 DEF Inside
    <3> QED
      BY <3>2
  <2>6. <<q, 0, TRUE>> \in Inside(p)
    BY <1>6, <1>7 DEF Inside
  <2> HIDE DEF f, n, T, q
  <2>7. f \in Seq(Inside(p))
    BY <2>4, <2>5
  <2>8. more \in Seq(Inside(p))
    BY <1>6, <1>7, <2>6, <2>7
  <2> HIDE DEF more
  <2>9. DeleteKnows(us'[t])
    BY <2>2, <2>8 DEF DeleteKnows
  <2> QED
    BY <1>1, <1>7, <2>1, <2>9
<1>8. CASE /\ x.pc = "walk" /\ x.todo # <<>> /\ fs' = [fs EXCEPT ![q] = UfNone]
           /\ us' = [UfRaced(t, fs') EXCEPT ![t].todo = Tail(UfRaced(t, fs')[t].todo)]
  <2>1. UssLoud(t)
    BY <1>8, LoudOne
  <2>2. UfTreeOk(fs')
    BY <1>0, <1>8, TreeSet
  <2>3. us'[t].pc = "walk" /\ us'[t].todo = Tail(x.todo) /\ us'[t].req = x.req
    BY <1>0, <1>8, MarkedSelf DEF UssFields
  <2>4. DeleteKnows(us'[t])
    BY <1>6, <1>8, <2>3 DEF DeleteKnows
  <2>5. \A r \in UfPaths : fs'[r] # fs[r] => r = q
    BY <1>0, <1>8 DEF UfTreeOk
  <2> QED
    BY <1>1, <1>6, <1>8, <2>1, <2>2, <2>4, <2>5, StepShapes
<1> QED
  BY <1>3, <1>4, <1>5, <1>7, <1>8

\* A write that is refused, or fails, claims nothing.
LEMMA WriteRefused ==
  ASSUME UssInv, NEW t \in UfTasks, us[t].req.op = "write", UNCHANGED fs, UfDone(t, "failure")
  PROVE  UssStep(t) /\ WriteKnows(us[t])'
<1>1. us'[t].pc = "done" /\ us'[t].rc = "failure"
  BY DEF UfDone, UssInv, UssFields
<1> QED
  BY <1>1, QuietDone, StepShapes DEF WriteKnows

\* The look: what the path stands for is written down, with its e-tag compared.
LEMMA WriteStartStep ==
  ASSUME UssInv, NEW t \in UfTasks, us[t].req.op = "write", us[t].pc = "start", UNCHANGED fs, WriteStart(t)
  PROVE  UssStep(t) /\ WriteKnows(us[t])'
<1> DEFINE x == us[t]
           y == us'[t]
           e == EncodingToUse(x.req)
           c == UfStat(x.req.p) = UfNone
<1>0. UfTreeOk(fs) /\ UssFields \subseteq DOMAIN x /\ DOMAIN us = UfTasks /\ UfReal(x.req.p) \in UfPaths /\ WriteKnows(x)
  BY RealIsPath DEF UssInv
<1>1. CASE UfDone(t, "failure")
  BY <1>1, WriteRefused
<1>2. CASE /\ UssEtagMatches(x.req)
           /\ us' = [us EXCEPT ![t].pc = "open", ![t].enc = e, ![t].at = UfReal(x.req.p),
                               ![t].created = c, ![t].raced = FALSE]
  <2> HIDE DEF e, c
  <2>1. /\ DOMAIN us' = UfTasks /\ (\A u \in UfTasks \ {t} : us'[u] = us[u]) /\ UssFields \subseteq DOMAIN y
        /\ y.req = x.req /\ y.at = UfReal(x.req.p) /\ y.pc = "open" /\ y.raced = FALSE /\ y.tagged = x.tagged
    BY <1>0, <1>2 DEF UssFields
  <2>2. UssStep(t)
    BY <1>0, <2>1, Unmarked DEF UssStep
  <2>3. UfReal(us[t].req.p)' = UfReal(x.req.p) /\ (UssEtagMatches(us[t].req)' <=> UssEtagMatches(x.req))
    BY <2>1 DEF UfReal, UssEtagMatches, UfStat
  <2>4. x.tagged = FALSE
    BY <1>0 DEF WriteKnows
  <2> QED
    BY <1>2, <2>1, <2>2, <2>3, <2>4 DEF WriteKnows
<1>3. \/ UfDone(t, "failure")
      \/ /\ UssEtagMatches(x.req)
         /\ us' = [us EXCEPT ![t].pc = "open", ![t].enc = e, ![t].at = UfReal(x.req.p),
                             ![t].created = c, ![t].raced = FALSE]
  BY Zenon DEF WriteStart, UfReq
<1> QED
  BY <1>1, <1>2, <1>3

\* The open: the version that is emptied is the one that was looked at, undisturbed.
LEMMA UssOpenStep ==
  ASSUME UssInv, NEW t \in UfTasks, us[t].req.op = "write", us[t].pc = "open", OpenForWrite(t)
  PROVE  UssStep(t) /\ WriteKnows(us[t])'
<1> DEFINE x == us[t]
           y == us'[t]
           q == UfReal(x.req.p)
           node == IF fs[q] = UfNone THEN UfNode("file") ELSE [fs[q] EXCEPT !.txt = "", !.mtime = now]
           old == IF fs[q] = UfNone THEN NoUssEtag ELSE zut_build_etag(fs[q])
<1>0. UfTreeOk(fs) /\ UssFields \subseteq DOMAIN x /\ DOMAIN us = UfTasks /\ q \in UfPaths /\ WriteKnows(x)
  BY RealIsPath DEF UssInv
<1>1. /\ fs' = [fs EXCEPT ![q] = node]
      /\ us' = [UfRaced(t, fs') EXCEPT ![t].pc = "data", ![t].at = q, ![t].over = old]
  BY Zenon DEF OpenForWrite, UfReq
<1>2. UfTreeOk(fs')
  <2>1. NodeFields \subseteq DOMAIN node /\ node.to \in UfPaths
    BY <1>0, UfAssumption DEF UfTreeOk, NodeFields, UfNode, UfAssumption
  <2> HIDE DEF node
  <2> QED
    BY <1>0, <1>1, <2>1, TreeSet
<1>3. ~x.raced => x.req.etag = NoUssEtag \/ old \in {x.req.etag, NoUssEtag}
  BY <1>0 DEF WriteKnows, UssEtagMatches, UfStat
<1> HIDE DEF old
<1>4. /\ DOMAIN us' = UfTasks /\ (\A u \in UfTasks \ {t} : us'[u] = UfRaced(t, fs')[u]) /\ UssFields \subseteq DOMAIN y
      /\ y.req = x.req /\ y.at = q /\ y.pc = "data" /\ y.raced = x.raced /\ y.tagged = x.tagged /\ y.over = old
  BY <1>0, <1>1, MarkedSelf DEF UssFields
<1>5. UssStep(t)
  BY <1>0, <1>2, <1>4 DEF UssStep
<1>6. x.tagged = FALSE
  BY <1>0 DEF WriteKnows
<1> QED
  BY <1>3, <1>4, <1>5, <1>6 DEF WriteKnows

\* The data: the file is in the encoding that will be its tag.
LEMMA DataStep ==
  ASSUME UssInv, NEW t \in UfTasks, us[t].req.op = "write", us[t].pc = "data", NEW v, NEW pc, NEW rc,
         (pc = "tag" /\ rc = "ok") \/ (pc = "done" /\ rc = "failure"), WriteData(t, v, pc, rc)
  PROVE  UssStep(t) /\ WriteKnows(us[t])'
<1> DEFINE x == us[t]
           y == us'[t]
           q == x.at
           e == IF x.enc = NoTag THEN Utf8 ELSE x.enc
           node == [fs[q] EXCEPT !.txt = v, !.mtime = now, !.enc = e]
<1>0. UfTreeOk(fs) /\ UssFields \subseteq DOMAIN x /\ DOMAIN us = UfTasks /\ q \in UfPaths /\ WriteKnows(x)
  BY DEF UssInv
<1>1. us' = [UfRaced(t, fs') EXCEPT ![t].pc = pc, ![t].rc = rc]
  BY DEF WriteData
<1>2. \/ fs[q] # UfNone /\ fs[q].kind = "file" /\ fs' = [fs EXCEPT ![q] = node]
      \/ ~(fs[q] # UfNone /\ fs[q].kind = "file") /\ UNCHANGED fs
  <2>1. [fs EXCEPT ![q].txt = v, ![q].mtime = now, ![q].enc = e] = [fs EXCEPT ![q] = node]
    BY <1>0 DEF UfTreeOk
  <2> QED
    BY <2>1 DEF WriteData
<1>3. UssLoud(t)
  BY <1>1, LoudTwo
<1>4. fs[q] # UfNone => NodeFields \subseteq DOMAIN fs[q] /\ fs[q].to \in UfPaths
  BY <1>0, RealIsPath
<1>5. fs[q] # UfNone => NodeFields \subseteq DOMAIN node /\ node.to \in UfPaths /\ node.enc = e
  BY <1>4 DEF NodeFields
<1>6. UfTreeOk(fs') /\ (fs'[q] # UfNone /\ fs'[q].kind = "file" => fs'[q].enc = e)
  <2>1. CASE fs[q] # UfNone /\ fs[q].kind = "file" /\ fs' = [fs EXCEPT ![q] = node]
    <3> HIDE DEF node
    <3>1. UfTreeOk([fs EXCEPT ![q] = node])
      BY <1>0, <1>5, <2>1, TreeSet
    <3>2. fs'[q] = node
      BY <1>0, <2>1 DEF UfTreeOk
    <3> QED
      BY <1>5, <2>1, <3>1, <3>2
  <2> QED
    BY <1>0, <1>2, <2>1
<1>7. UssStep(t)
  BY <1>3, <1>6, StepShapes
<1>8. /\ y.req = x.req /\ y.at = q /\ y.pc = pc /\ y.rc = rc /\ y.raced = x.raced /\ y.tagged = x.tagged
      /\ y.over = x.over /\ y.enc = x.enc
  BY <1>0, <1>1, MarkedSelf DEF UssFields
<1> QED
  BY <1>0, <1>6, <1>7, <1>8 DEF WriteKnows

\* The tag, and the last look.
LEMMA WriteEndStep ==
  ASSUME UssInv, NEW t \in UfTasks, WriteTag(t) \/ WriteRestat(t)
  PROVE  us[t].req.op = "write" /\ UssStep(t) /\ WriteKnows(us[t])'
<1> DEFINE x == us[t]
           y == us'[t]
           q == x.at
           node == [fs[q] EXCEPT !.tag = x.enc]
<1>1. x.req.op = "write" /\ x.pc \in {"tag", "restat"}
  BY DEF WriteTag, WriteRestat, UfAt, UfReq
<1>0. UfTreeOk(fs) /\ UssFields \subseteq DOMAIN x /\ DOMAIN us = UfTasks /\ q \in UfPaths /\ WriteKnows(x)
  BY <1>1 DEF UssInv
<1>2. CASE WriteRestat(t)
  <2>1. UNCHANGED fs /\ x.pc = "restat"
    BY <1>2 DEF WriteRestat, UfAt
  <2>2. \/ UfDone(t, "failure")
        \/ us' = [us EXCEPT ![t].pc = "done", ![t].etag = zut_build_etag(UfStat(x.req.p))]
    BY <1>2 DEF WriteRestat, UfReq
  <2>3. CASE us' = [us EXCEPT ![t].pc = "done", ![t].etag = zut_build_etag(UfStat(x.req.p))]
    <3>1. UssStep(t)
      BY <2>1, <2>3, QuietTwo, StepShapes
    <3>2. y.pc = "done" /\ y.raced = x.raced /\ y.over = x.over /\ y.req = x.req
      BY <1>0, <2>3 DEF UssFields
    <3> QED
      BY <1>0, <1>1, <2>1, <3>1, <3>2 DEF WriteKnows
  <2> QED
    BY <1>1, <2>1, <2>2, <2>3, WriteRefused
<1>3. CASE WriteTag(t)
  <2>1. x.pc = "tag"
    BY <1>3 DEF WriteTag, UfAt
  <2>2. \/ /\ x.enc # NoTag /\ fs[q] # UfNone /\ fs[q].kind = "file"
           /\ fs' = [fs EXCEPT ![q].tag = x.enc]
           /\ us' = [UfRaced(t, fs') EXCEPT ![t].pc = "restat", ![t].tagged = TRUE]
        \/ UfGoto(t, "restat") /\ UNCHANGED fs
    BY <1>3, Zenon DEF WriteTag
  <2>3. CASE UfGoto(t, "restat") /\ UNCHANGED fs
    <3>1. UssStep(t)
      BY <2>3, QuietGoto, StepShapes
    <3>2. y.pc = "restat" /\ y.raced = x.raced /\ y.over = x.over /\ y.req = x.req /\ y.tagged = x.tagged
      BY <1>0, <2>3 DEF UssFields, UfGoto
    <3> QED
      BY <1>0, <1>1, <2>1, <3>1, <3>2 DEF WriteKnows
  <2>4. CASE /\ x.enc # NoTag /\ fs[q] # UfNone /\ fs[q].kind = "file"
             /\ fs' = [fs EXCEPT ![q].tag = x.enc]
             /\ us' = [UfRaced(t, fs') EXCEPT ![t].pc = "restat", ![t].tagged = TRUE]
    <3>1. UssLoud(t)
      BY <2>4, LoudTwo
    <3>2. [fs EXCEPT ![q].tag = x.enc] = [fs EXCEPT ![q] = node]
      BY Zenon
    <3>3. NodeFields \subseteq DOMAIN fs[q] /\ fs[q].to \in UfPaths
      BY <1>0, <2>4, RealIsPath
    <3>4. NodeFields \subseteq DOMAIN node /\ node.to \in UfPaths /\ node.tag = x.enc /\ node.enc = fs[q].enc
      BY <3>3 DEF NodeFields
    <3> HIDE DEF node
    <3>5. UfTreeOk(fs')
      BY <1>0, <2>4, <3>2, <3>4, TreeSet
    <3>6. fs'[q] = node
      BY <1>0, <2>4, <3>2 DEF UfTreeOk
    <3>7. /\ y.pc = "restat" /\ y.raced = x.raced /\ y.over = x.over /\ y.req = x.req /\ y.at = x.at
      BY <1>0, <2>4, MarkedSelf DEF UssFields
    <3>8. ~x.raced => fs[q].enc = x.enc
      BY <1>0, <2>1, <2>4 DEF WriteKnows
    <3>9. UssStep(t)
      BY <3>1, <3>5, StepShapes
    <3> QED
      BY <1>0, <1>1, <2>1, <3>4, <3>6, <3>7, <3>8, <3>9 DEF WriteKnows
  <2> QED
    BY <2>2, <2>3, <2>4
<1> QED
  BY <1>2, <1>3

\* A write knows what it replaced and how it is encoded.
LEMMA WriteFileStep ==
  ASSUME UssInv, NEW t \in UfTasks, handle_uss_write(t)
  PROVE  us[t].req.op = "write" /\ UssStep(t) /\ WriteKnows(us[t])'
<1>1. CASE WriteTag(t) \/ WriteRestat(t)
  BY <1>1, WriteEndStep
<1>2. CASE zusf_write_to_uss_file(t) \/ zusf_write_to_uss_file_streamed(t)
  <2>1. us[t].req.op = "write"
    BY <1>2 DEF zusf_write_to_uss_file, zusf_write_to_uss_file_streamed, UfReq
  <2>2. \/ UNCHANGED fs /\ UfDone(t, "failure")
        \/ us[t].pc = "start" /\ UNCHANGED fs /\ WriteStart(t)
        \/ us[t].pc = "open" /\ OpenForWrite(t)
        \/ us[t].pc = "data" /\ \E v : WriteData(t, v, "tag", "ok") \/ WriteData(t, v, "done", "failure")
    BY <1>2, Zenon DEF zusf_write_to_uss_file, zusf_write_to_uss_file_streamed
  <2> QED
    BY <2>1, <2>2, WriteRefused, WriteStartStep, UssOpenStep, DataStep
<1> QED
  BY <1>1, <1>2 DEF handle_uss_write

(* What a step of any request does, with what the properties ask of it.    *)
Deeds(t) ==
  /\ UssStep(t)
  /\ us[t].req.op = "write" => WriteKnows(us[t])'
  /\ us[t].req.op = "delete" => DeleteKnows(us[t])'
  /\ us[t].req.op = "delete" /\ us'[t].todo # us[t].todo =>
       \A q \in UfPaths : fs'[q] # fs[q] => UfUnder(us[t].req.p, q)

\* Every step of the file system's users is a step of one of them.
LEMMA UssDeeds ==
  ASSUME UssInv, [UfNext]_ufVars
  PROVE  UNCHANGED <<fs, us>> \/ \E t \in UfTasks : Deeds(t)
<1>1. CASE UNCHANGED ufVars \/ UfTick
  BY <1>1 DEF ufVars, UfTick
<1>2. CASE UfNext /\ ~UfTick
  <2>1. PICK t \in UfTasks :
           \/ handle_uss_copy(t) \/ handle_uss_create_file(t) \/ handle_uss_create_dir(t)
           \/ handle_uss_move(t) \/ handle_uss_list(t) \/ handle_uss_view(t) \/ handle_uss_write(t)
           \/ handle_uss_delete(t) \/ handle_uss_chmod(t) \/ handle_uss_chown(t) \/ handle_uss_chtag(t)
           \/ WalkEnd(t)
    BY <1>2, Zenon DEF UfNext
  <2>2. CASE handle_uss_write(t)
    BY <2>2, WriteFileStep DEF Deeds
  <2>3. CASE handle_uss_delete(t)
    <3>1. DeleteKnows(us[t])' = DeleteKnows(us'[t])
      BY DEF DeleteKnows
    <3> QED
      BY <2>3, <3>1, DeleteStep DEF Deeds
  <2>4. CASE WalkEnd(t)
    <3>1. us[t].pc = "walk" /\ us'[t].pc = "done" /\ UssStep(t) /\ UNCHANGED fs
      BY <2>4, WalkEnds DEF WalkEnd
    <3>2. us[t].req.op = "write" => us[t].pc # "walk"
      BY DEF UssInv, WriteKnows
    <3> QED
      BY <3>1, <3>2 DEF Deeds, DeleteKnows
  <2> QED
    BY <2>1, <2>2, <2>3, <2>4, LookStep, CreateStep, CopyMoveStep, ChangeStep DEF Deeds
<1> QED
  BY <1>1, <1>2

\* The invariant is kept by every step.
LEMMA UssKept ==
  ASSUME UssInv, [UfNext]_ufVars
  PROVE  UssInv'
<1>1. CASE UNCHANGED <<fs, us>>
  BY <1>1 DEF UssInv, WriteKnows, DeleteKnows, UfReal, UssEtagMatches, UfStat
<1>2. ASSUME NEW t \in UfTasks, Deeds(t) PROVE UssInv'
  <2>1. /\ UfTreeOk(fs') /\ DOMAIN us' = UfTasks
        /\ UssFields \subseteq DOMAIN us'[t] /\ us'[t].req = us[t].req /\ us'[t].at \in UfPaths /\ us[t].req.p \in UfPaths
    BY <1>2 DEF Deeds, UssStep, UssInv
  <2>2. \A u \in UfTasks :
          /\ UssFields \subseteq DOMAIN us'[u] /\ us'[u].req.p \in UfPaths /\ us'[u].at \in UfPaths
          /\ us'[u].req.op = "write" => WriteKnows(us[u])'
          /\ us'[u].req.op = "delete" => DeleteKnows(us[u])'
    <3> SUFFICES ASSUME NEW u \in UfTasks
                 PROVE  /\ UssFields \subseteq DOMAIN us'[u] /\ us'[u].req.p \in UfPaths /\ us'[u].at \in UfPaths
                        /\ us'[u].req.op = "write" => WriteKnows(us[u])'
                        /\ us'[u].req.op = "delete" => DeleteKnows(us[u])'
      OBVIOUS
    <3>1. CASE u = t
      BY <1>2, <2>1, <3>1 DEF Deeds
    <3>2. CASE u # t
      <4>1. DeleteKnows(us[u])' <=> DeleteKnows(us'[u])
        BY DEF DeleteKnows
      <4> QED
        BY <1>2, <3>2, <4>1, BystanderKnows DEF Deeds
    <3> QED
      BY <3>1, <3>2
  <2> QED
    BY <2>1, <2>2, Zenon DEF UssInv
<1> QED
  BY <1>1, <1>2, UssDeeds

\* Requests begin on a tree, knowing nothing.
LEMMA UssBegin ==
  ASSUME NEW j \in UfJobs, UfBegin(j)
  PROVE  UssInv
<1>1. UfTreeOk(j.before) /\ \A t \in UfTasks : j.ask[t].p \in UfPaths
  BY UfAssumption DEF UfAssumption
<1>2. /\ fs = j.before /\ DOMAIN us = UfTasks
      /\ \A t \in UfTasks : /\ UssFields \subseteq DOMAIN us[t] /\ us[t].req = j.ask[t] /\ us[t].at = j.ask[t].p
                             /\ us[t].pc = "start" /\ us[t].tagged = FALSE
  BY DEF UfBegin, UssFields
<1> QED
  BY <1>1, <1>2 DEF UssInv, WriteKnows, DeleteKnows

\* What the invariant says of e-tags, of tags and of deletions.
LEMMA UssSafe ==
  /\ UssInv => UssEtagHolds
  /\ UssInv /\ [UfNext]_ufVars =>
       \A t \in UfTasks : UfReq(t).op = "delete" /\ us'[t].todo # us[t].todo =>
          \A q \in UfPaths : fs'[q] # fs[q] => UfUnder(UfReq(t).p, q)
  /\ UssInv => \A t \in UfTasks :
          UfAt(t, "write", "restat") /\ us[t].tagged /\ ~us[t].raced /\ fs[us[t].at] # UfNone
            => fs[us[t].at].tag = fs[us[t].at].enc
<1>1. UssInv => UssEtagHolds
  BY DEF UssInv, UssEtagHolds, WriteKnows, UfReq
<1>2. ASSUME UssInv, [UfNext]_ufVars, NEW t \in UfTasks, us[t].req.op = "delete", us'[t].todo # us[t].todo,
             NEW q \in UfPaths, fs'[q] # fs[q]
      PROVE  UfUnder(us[t].req.p, q)
  <2>1. PICK u \in UfTasks : Deeds(u)
    BY <1>2, UssDeeds
  <2>2. CASE u = t
    BY <1>2, <2>1, <2>2 DEF Deeds
  <2>3. CASE u # t
    <3>1. us'[t] = UfRaced(u, fs')[t]
      BY <2>1, <2>3 DEF Deeds, UssStep
    <3>2. UfRaced(u, fs')[t].todo = us[t].todo
      <4>1. \A f \in UssFields \ {"raced"} : UfRaced(u, fs')[t][f] = us[t][f]
        BY <1>2, <2>3, Marked
      <4>2. "todo" \in UssFields \ {"raced"}
        BY DEF UssFields
      <4> QED
        BY <4>1, <4>2
    <3>3. us'[t].todo = us[t].todo
      BY <3>1, <3>2
    <3> QED
      BY <1>2, <3>3
  <2> QED
    BY <2>2, <2>3
<1>3. UssInv => \A t \in UfTasks :
          UfAt(t, "write", "restat") /\ us[t].tagged /\ ~us[t].raced /\ fs[us[t].at] # UfNone
            => fs[us[t].at].tag = fs[us[t].at].enc
  BY DEF UssInv, WriteKnows, UfAt, UfReq
<1> QED
  BY <1>1, <1>2, <1>3 DEF UfReq

-----------------------------------------------------------------------------
(* The libraries together *)

libraryVars == <<which, mwVars, dsVars, catVars, ufVars, jbVars, cnVars, krVars, svVars>>

\* In order, nobody writes blocks next to another open DCB, and a session that
\* is done gave back what it held or says that it could not.
LEMMA WriterSafe ==
  ASSUME WriterInv PROVE OneWriter /\ NothingHeldAtEnd
<1>1. \A t \in Tasks : SessionOk(ss[t], ioc[t])
  BY DEF WriterInv
<1>2. OneWriter
  BY <1>1 DEF WriterInv, SessionOk, OneWriter
<1>3. NothingHeldAtEnd
  BY <1>1 DEF SessionOk, Accounted, NothingHeldAtEnd
<1> QED
  BY <1>2, <1>3

\* In order, a task has the DDs it works through, keeps none once it is
\* answered but where the code returns early, and overwrites what its e-tag names.
LEMMA DataSetSafe ==
  ASSUME DataSetInv PROVE DdOwned /\ DdsGivenBack /\ EtagHolds
<1>0. \A t \in DsTasks : DdOk(t, tk[t], dd) /\ EtagOk(tk[t], ds)
  BY DEF DataSetInv
<1>1. ASSUME NEW t \in DsTasks
      PROVE  /\ (Req(t).op = "write" /\ Req(t).volser /\ tk[t].pc \in {"validate", "write", "reread", "free"})
                   => dd["OUTPUT"] = t
             /\ (Req(t).op = "view" /\ Req(t).volser /\ tk[t].pc \in {"read", "free"}) => dd["INPUT"] = t
             /\ At(t, "compress", "iebcopy") => \A i \in 1..4 : dd[CompressDds[i]] = t
  <2>1. \A n \in Uses(tk[t]) : dd[n] = t
    BY <1>0 DEF DdOk
  <2>2. (Req(t).op = "write" /\ Req(t).volser /\ tk[t].pc \in {"validate", "write", "reread", "free"})
           => Uses(tk[t]) = {"OUTPUT"}
    BY DEF Uses, Req
  <2>3. (Req(t).op = "view" /\ Req(t).volser /\ tk[t].pc \in {"read", "free"}) => Uses(tk[t]) = {"INPUT"}
    BY DEF Uses, Req
  <2>4. At(t, "compress", "iebcopy") => Uses(tk[t]) = {"A", "B", "SYSPRINT", "SYSIN"}
    BY DEF Uses, Req, At
  <2>5. \A i \in 1..4 : CompressDds[i] \in {"A", "B", "SYSPRINT", "SYSIN"}
    <3>1. 1..4 = {1, 2, 3, 4}
      OBVIOUS
    <3> QED
      BY <3>1 DEF CompressDds
  <2> QED
    BY <2>1, <2>2, <2>3, <2>4, <2>5
<1>2. DdOwned
  BY <1>1 DEF DdOwned
<1>3. DdsGivenBack
  BY <1>0 DEF DdOk, Uses, EndsKeeping, DdsGivenBack
<1>4. EtagHolds
  BY <1>0 DEF EtagOk, EtagHolds, Req
<1> QED
  BY <1>2, <1>3, <1>4

\* At rest or at work, the member writer, the data sets and the files begin in order.
LEMMA LibraryBegins ==
  ASSUME LibraryInit PROVE WriterInv /\ DataSetInv /\ UssInv
<1>1. \E q : MwBegin(q)
  BY DEF LibraryInit, MwInit
<1>2. \E j : DsBegin(j)
  BY DEF LibraryInit, DsInit
<1>3. \E j \in UfJobs : UfBegin(j)
  BY UfAssumption DEF LibraryInit, UfInit, RestUf, UfAssumption
<1> QED
  BY <1>1, <1>2, <1>3, WriterBegin, DataSetBegin, UssBegin

\* A step of one library is at most a step of each.
LEMMA LibraryStep ==
  ASSUME [LibraryNext]_libraryVars PROVE [MwNext]_mwVars /\ [DsNext]_dsVars /\ [UfNext]_ufVars
BY DEF LibraryNext, libraryVars

\* What two requests must not use at once they do not: the blocks of one
\* library (ENQ and RESERVE of zam.c), a DD with a fixed name (zds.cpp).
THEOREM LibraryExclusiveUse == LibrarySpec => []ExclusiveUse
<1>1. LibraryInit => WriterInv /\ DataSetInv
  BY LibraryBegins
<1>2. (WriterInv /\ DataSetInv) /\ [LibraryNext]_libraryVars => (WriterInv /\ DataSetInv)'
  BY LibraryStep, WriterStep, DataSetStep
<1>3. WriterInv /\ DataSetInv => ExclusiveUse
  BY WriterSafe, DataSetSafe DEF ExclusiveUse
<1> QED
  BY <1>1, <1>2, <1>3, PTL DEF LibrarySpec, libraryVars

\* The invariant of the UNIX file system, in the composition.
THEOREM LibraryFiles == LibrarySpec => []UssInv
<1>1. LibraryInit => UssInv
  BY LibraryBegins
<1>2. UssInv /\ [LibraryNext]_libraryVars => UssInv'
  BY LibraryStep, UssKept
<1> QED
  BY <1>1, <1>2, PTL DEF LibrarySpec, libraryVars

\* Deleting removes nothing outside the path that was asked for: a link in the
\* tree goes, what it points to stays (zusf_delete_uss_item).
THEOREM LibraryDeletes == LibrarySpec => DeleteStaysInside
<1>1. UssInv /\ [LibraryNext]_libraryVars =>
        [\A t \in UfTasks : UfReq(t).op = "delete" /\ us'[t].todo # us[t].todo =>
          \A q \in UfPaths : fs'[q] # fs[q] => UfUnder(UfReq(t).p, q)]_ufVars
  BY LibraryStep, UssSafe
<1> QED
  BY <1>1, LibraryFiles, PTL DEF LibrarySpec, libraryVars, DeleteStaysInside

\* After a text write that succeeded undisturbed and could tag its file, the tag
\* names the encoding the bytes are in (zusf_write_to_uss_file).
THEOREM LibraryTags == LibrarySpec => TagTellsEncoding
<1>1. UssInv /\ [LibraryNext]_libraryVars =>
        [\A t \in UfTasks :
          /\ UfAt(t, "write", "restat") /\ us'[t].pc = "done" /\ us[t].tagged /\ ~us[t].raced
          => LET n == fs[us[t].at] IN n # UfNone => n.tag = n.enc]_ufVars
  BY UssSafe
<1> QED
  BY <1>1, LibraryFiles, PTL DEF LibrarySpec, libraryVars, TagTellsEncoding

\* The invariant of the copies, in the composition.
THEOREM LibraryAsks == LibrarySpec => []CopyInv
<1>1. LibraryInit => CopyInv
  <2>1. LibraryInit => \E j \in DsJobs : DsBegin(j)
    BY DsAssumption DEF LibraryInit, DsInit, RestDs, DsAssumption
  <2> QED
    BY <2>1, CopyBegin
<1>2. CopyInv /\ [LibraryNext]_libraryVars => CopyInv'
  BY LibraryStep, CopyStep
<1> QED
  BY <1>1, <1>2, PTL DEF LibrarySpec, libraryVars

\* A copy without the replace or the overwrite option replaces nothing that was
\* written before it looked for its target (zds_copy_dsn).
THEOREM LibraryCopies == LibrarySpec => CopyAsksFirst
<1> DEFINE Asks(t) ==
      /\ Req(t).op = "copy" /\ tk'[t].pc # tk[t].pc /\ ds' # ds
      /\ ~Req(t).replace /\ ~Req(t).overwrite
      => \A d \in DsNames : ds[d] # Missing =>
            /\ ds'[d] # Missing
            /\ \A p \in Parts : \/ ds[d].data[p] \in {Absent, Empty}
                                \/ ds'[d].data[p] = ds[d].data[p]
                                \/ tk[t].raced
<1>1. CopyInv /\ [LibraryNext]_libraryVars => [\A t \in DsTasks : Asks(t)]_dsVars
  <2> SUFFICES ASSUME CopyInv, DsNext, NEW t \in DsTasks PROVE Asks(t)
    BY LibraryStep
  <2>1. PICK u \in DsTasks :
           \/ create_with_attributes(u) \/ handle_data_set_create_member(u) \/ zds_delete_dsn(u)
           \/ zds_rename_dsn(u) \/ zds_rename_members(u) \/ handle_data_set_restore(u) \/ Works(u)
           \/ Copies(u)
    BY Zenon DEF DsNext, Works, Copies
  <2>2. CASE u # t
    <3>1. OnlyTask(u)
      BY <2>1, OtherStepsAsk, CopyAsks
    <3>2. tk'[t].pc = tk[t].pc
      BY <2>2, <3>1 DEF OnlyTask, Others, SameTask
    <3> QED
      BY <3>2
  <2>3. CASE u = t /\ Copies(t)
    BY <2>3, CopyActs
  <2>4. CASE u = t /\ ~Copies(t)
    <3>1. tk[t].req.op # "copy" \/ tk[t].pc \in {"validate", "write", "reread"}
      BY <2>1, <2>4, OtherStepsAsk
    <3> QED
      BY <3>1 DEF CopyInv, AskOk, Req
  <2> QED
    BY <2>2, <2>3, <2>4
<1> QED
  BY <1>1, LibraryAsks, PTL DEF LibrarySpec, libraryVars, CopyAsksFirst
=============================================================================
