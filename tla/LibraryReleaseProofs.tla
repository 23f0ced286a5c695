------------------------ MODULE LibraryReleaseProofs ------------------------
(***************************************************************************)
(* Proofs, for every set of tasks and of requests, of what the z/OS        *)
(* libraries of MCLibrary.tla give back when a request ends and of what    *)
(* their answers say: jobs (Jobs.tla), the console (Console.tla), key      *)
(* rings (KeyRings.tla) and the authorised services (Services.tla).        *)
(***************************************************************************)
EXTENDS LibraryProofs, Recursion, FiniteSetTheorems, SequenceTheorems

-----------------------------------------------------------------------------
(* Jobs *)

JobFields == {"req", "pc", "rc", "got", "all", "key", "slept", "id", "corr", "mine", "stuck"}
ReaderPcs == {"write", "jobid", "corr"}

(* A request x holds a DD only while it reads or submits through it, or    *)
(* when it could not be freed.                                             *)
SpoolOk(x, holds) ==
  holds => \/ x.pc \in {"read", "free"} \cup ReaderPcs
           \/ x.pc = "done" /\ x.stuck /\ x.rc = "failure"

(* What a submission x knows of its job, with the task's JES symbols y.    *)
Known(x) == x.mine # JbNone /\ x.id = x.mine /\ x.corr = x.mine
SubmitOk(x, y) ==
  x.req.op \in SubmitOps =>
    /\ x.pc \in {"start", "intrdr", "view", "wait", "done"} \cup ReaderPcs
    /\ x.pc \in {"start", "intrdr", "write"} => x.mine = JbNone
    /\ x.pc \in {"jobid", "corr"} => y.jobid = x.mine /\ y.correlator = x.mine
    /\ x.pc = "corr" => x.mine # JbNone /\ x.id = x.mine
    /\ x.pc \in {"view", "wait"} => Known(x)
    /\ (x.pc = "done" /\ x.rc = "ok") => Known(x)

(* A system log answer is what was read for one of the cases there are.    *)
LogOk(x) ==
  x.req.op = "syslog" =>
    /\ x.pc \in {"start", "done"}
    /\ (x.pc = "done" /\ x.rc = "ok") =>
          \A e \in x.got : \E c \in SyslogCases : e = <<c, zjb_read_syslog(c)>>

JobInv ==
  /\ DOMAIN jb = JbTasks /\ DOMAIN symbols = JbTasks
  /\ \A t \in JbTasks : /\ JobFields \subseteq DOMAIN jb[t]
                        /\ SpoolOk(jb[t], t \in spool) /\ SubmitOk(jb[t], symbols[t])
                        /\ LogOk(jb[t])

\* One request moves on to the record y, its symbols to s.
LEMMA OneJob ==
  ASSUME JobInv, NEW t \in JbTasks, NEW y, JobFields \subseteq DOMAIN y, jb' = [jb EXCEPT ![t] = y],
         DOMAIN symbols' = JbTasks, \A u \in JbTasks \ {t} : symbols'[u] = symbols[u],
         \A u \in JbTasks \ {t} : u \in spool' <=> u \in spool,
         SpoolOk(y, t \in spool'), SubmitOk(y, symbols'[t]), LogOk(y)
  PROVE  JobInv'
<1>1. DOMAIN jb' = JbTasks /\ \A u \in JbTasks : jb'[u] = IF u = t THEN y ELSE jb[u]
  BY DEF JobInv
<1>2. ASSUME NEW u \in JbTasks
      PROVE  /\ JobFields \subseteq DOMAIN jb'[u] /\ SpoolOk(jb'[u], u \in spool')
             /\ SubmitOk(jb'[u], symbols'[u]) /\ LogOk(jb'[u])
  <2>1. CASE u = t
    BY <1>1, <2>1
  <2>2. CASE u # t
    <3>1. jb'[u] = jb[u] /\ symbols'[u] = symbols[u] /\ (u \in spool' <=> u \in spool)
      BY <1>1, <2>2
    <3>2. JobFields \subseteq DOMAIN jb[u] /\ SpoolOk(jb[u], u \in spool) /\ SubmitOk(jb[u], symbols[u]) /\ LogOk(jb[u])
      BY DEF JobInv
    <3>3. SpoolOk(jb[u], u \in spool')
      BY <3>1, <3>2 DEF SpoolOk
    <3> QED
      BY <3>1, <3>2, <3>3
  <2> QED
    BY <2>1, <2>2
<1> QED
  BY <1>1, <1>2 DEF JobInv

(* How a step leaves a request: its progress, its answer and its job.      *)
Step(x, y, pc, rc) ==
  /\ JobFields \subseteq DOMAIN y /\ y.req = x.req /\ y.pc = pc /\ y.rc = rc
Same(x, y) == y.id = x.id /\ y.corr = x.corr /\ y.mine = x.mine /\ y.stuck = x.stuck

\* The records that the steps write.
LEMMA JobForms ==
  ASSUME JobInv, NEW t \in JbTasks, NEW pc, NEW rc
  PROVE  /\ JbGoto(t, pc) => \E y : jb' = [jb EXCEPT ![t] = y] /\ Step(jb[t], y, pc, jb[t].rc) /\ Same(jb[t], y)
         /\ JbDone(t, rc) => \E y : jb' = [jb EXCEPT ![t] = y] /\ Step(jb[t], y, "done", rc) /\ Same(jb[t], y)
         /\ JbStuck(t) => \E y : jb' = [jb EXCEPT ![t] = y] /\ Step(jb[t], y, "done", "failure") /\ y.stuck
<1> DEFINE x == jb[t]
<1>0. JobFields \subseteq DOMAIN x /\ DOMAIN jb = JbTasks
  BY DEF JobInv
<1>1. ASSUME JbGoto(t, pc)
      PROVE  \E y : jb' = [jb EXCEPT ![t] = y] /\ Step(x, y, pc, x.rc) /\ Same(x, y)
  <2> DEFINE y == [x EXCEPT !.pc = pc]
  <2>1. jb' = [jb EXCEPT ![t] = y]
    BY <1>0, <1>1 DEF JbGoto
  <2>2. Step(x, y, pc, x.rc) /\ Same(x, y)
    BY <1>0 DEF Step, Same, JobFields
  <2> HIDE DEF y
  <2> QED
    BY <2>1, <2>2
<1>2. ASSUME JbDone(t, rc)
      PROVE  \E y : jb' = [jb EXCEPT ![t] = y] /\ Step(x, y, "done", rc) /\ Same(x, y)
  <2> DEFINE y == [x EXCEPT !.pc = "done", !.rc = rc]
  <2>1. jb' = [jb EXCEPT ![t] = y]
    BY <1>0, <1>2 DEF JbDone
  <2>2. Step(x, y, "done", rc) /\ Same(x, y)
    BY <1>0 DEF Step, Same, JobFields
  <2> HIDE DEF y
  <2> QED
    BY <2>1, <2>2
<1>3. ASSUME JbStuck(t)
      PROVE  \E y : jb' = [jb EXCEPT ![t] = y] /\ Step(x, y, "done", "failure") /\ y.stuck
  <2> DEFINE y == [x EXCEPT !.pc = "done", !.rc = "failure", !.stuck = TRUE]
  <2>1. jb' = [jb EXCEPT ![t] = y]
    BY <1>0, <1>3 DEF JbStuck
  <2>2. Step(x, y, "done", "failure") /\ y.stuck
    BY <1>0 DEF Step, JobFields
  <2> HIDE DEF y
  <2> QED
    BY <2>1, <2>2
<1> QED
  BY <1>1, <1>2, <1>3

(* Request t moves on to pc.                                               *)
Moves(t, pc) == \E y, rc : jb' = [jb EXCEPT ![t] = y] /\ Step(jb[t], y, pc, rc)

\* The answers of the requests that submit nothing.
LEMMA MovesForms ==
  ASSUME JobInv, NEW t \in JbTasks, NEW pc,
         \/ \E g : jb' = [jb EXCEPT ![t].pc = pc, ![t].got = g]
         \/ \E k : jb' = [jb EXCEPT ![t].pc = pc, ![t].key = k]
         \/ \E n : jb' = [jb EXCEPT ![t].pc = pc, ![t].slept = n]
         \/ \E r : jb' = [jb EXCEPT ![t].pc = pc, ![t].rc = r]
         \/ \E r, n : jb' = [jb EXCEPT ![t].pc = pc, ![t].rc = r, ![t].slept = n]
         \/ \E r, g : jb' = [jb EXCEPT ![t].pc = pc, ![t].rc = r, ![t].got = g]
         \/ \E r, g, a : jb' = [jb EXCEPT ![t].pc = pc, ![t].rc = r, ![t].got = g, ![t].all = a]
         \/ \E r, n, g : jb' = [jb EXCEPT ![t].pc = pc, ![t].rc = r, ![t].slept = n, ![t].got = g]
  PROVE  Moves(t, pc)
<1> DEFINE x == jb[t]
<1>0. JobFields \subseteq DOMAIN x /\ DOMAIN jb = JbTasks
  BY DEF JobInv
<1>1. CASE \E g : jb' = [jb EXCEPT ![t].pc = pc, ![t].got = g]
  <2>0. PICK g : jb' = [jb EXCEPT ![t].pc = pc, ![t].got = g]
    BY <1>1
  <2> DEFINE y == [x EXCEPT !.pc = pc, !.got = g]
  <2>1. jb' = [jb EXCEPT ![t] = y]
    BY <1>0, <2>0
  <2>2. Step(x, y, pc, x.rc)
    BY <1>0 DEF Step, JobFields
  <2> HIDE DEF y
  <2> QED
    BY <2>1, <2>2 DEF Moves
<1>2. CASE \E k : jb' = [jb EXCEPT ![t].pc = pc, ![t].key = k]
  <2>0. PICK k : jb' = [jb EXCEPT ![t].pc = pc, ![t].key = k]
    BY <1>2
  <2> DEFINE y == [x EXCEPT !.pc = pc, !.key = k]
  <2>1. jb' = [jb EXCEPT ![t] = y]
    BY <1>0, <2>0
  <2>2. Step(x, y, pc, x.rc)
    BY <1>0 DEF Step, JobFields
  <2> HIDE DEF y
  <2> QED
    BY <2>1, <2>2 DEF Moves
<1>3. CASE \E n : jb' = [jb EXCEPT ![t].pc = pc, ![t].slept = n]
  <2>0. PICK n : jb' = [jb EXCEPT ![t].pc = pc, ![t].slept = n]
    BY <1>3
  <2> DEFINE y == [x EXCEPT !.pc = pc, !.slept = n]
  <2>1. jb' = [jb EXCEPT ![t] = y]
    BY <1>0, <2>0
  <2>2. Step(x, y, pc, x.rc)
    BY <1>0 DEF Step, JobFields
  <2> HIDE DEF y
  <2> QED
    BY <2>1, <2>2 DEF Moves
<1>4. CASE \E r : jb' = [jb EXCEPT ![t].pc = pc, ![t].rc = r]
  <2>0. PICK r : jb' = [jb EXCEPT ![t].pc = pc, ![t].rc = r]
    BY <1>4
  <2> DEFINE y == [x EXCEPT !.pc = pc, !.rc = r]
  <2>1. jb' = [jb EXCEPT ![t] = y]
    BY <1>0, <2>0
  <2>2. Step(x, y, pc, r)
    BY <1>0 DEF Step, JobFields
  <2> HIDE DEF y
  <2> QED
    BY <2>1, <2>2 DEF Moves
<1>5. CASE \E r, n : jb' = [jb EXCEPT ![t].pc = pc, ![t].rc = r, ![t].slept = n]
  <2>0. PICK r, n : jb' = [jb EXCEPT ![t].pc = pc, ![t].rc = r, ![t].slept = n]
    BY <1>5
  <2> DEFINE y == [x EXCEPT !.pc = pc, !.rc = r, !.slept = n]
  <2>1. jb' = [jb EXCEPT ![t] = y]
    BY <1>0, <2>0
  <2>2. Step(x, y, pc, r)
    BY <1>0 DEF Step, JobFields
  <2> HIDE DEF y
  <2> QED
    BY <2>1, <2>2 DEF Moves
<1>6. CASE \E r, g : jb' = [jb EXCEPT ![t].pc = pc, ![t].rc = r, ![t].got = g]
  <2>0. PICK r, g : jb' = [jb EXCEPT ![t].pc = pc, ![t].rc = r, ![t].got = g]
    BY <1>6
  <2> DEFINE y == [x EXCEPT !.pc = pc, !.rc = r, !.got = g]
  <2>1. jb' = [jb EXCEPT ![t] = y]
    BY <1>0, <2>0
  <2>2. Step(x, y, pc, r)
    BY <1>0 DEF Step, JobFields
  <2> HIDE DEF y
  <2> QED
    BY <2>1, <2>2 DEF Moves
<1>7. CASE \E r, g, a : jb' = [jb EXCEPT ![t].pc = pc, ![t].rc = r, ![t].got = g, ![t].all = a]
  <2>0. PICK r, g, a : jb' = [jb EXCEPT ![t].pc = pc, ![t].rc = r, ![t].got = g, ![t].all = a]
    BY <1>7
  <2> DEFINE y == [x EXCEPT !.pc = pc, !.rc = r, !.got = g, !.all = a]
  <2>1. jb' = [jb EXCEPT ![t] = y]
    BY <1>0, <2>0
  <2>2. Step(x, y, pc, r)
    BY <1>0 DEF Step, JobFields
  <2> HIDE DEF y
  <2> QED
    BY <2>1, <2>2 DEF Moves
<1>8. CASE \E r, n, g : jb' = [jb EXCEPT ![t].pc = pc, ![t].rc = r, ![t].slept = n, ![t].got = g]
  <2>0. PICK r, n, g : jb' = [jb EXCEPT ![t].pc = pc, ![t].rc = r, ![t].slept = n, ![t].got = g]
    BY <1>8
  <2> DEFINE y == [x EXCEPT !.pc = pc, !.rc = r, !.slept = n, !.got = g]
  <2>1. jb' = [jb EXCEPT ![t] = y]
    BY <1>0, <2>0
  <2>2. Step(x, y, pc, r)
    BY <1>0 DEF Step, JobFields
  <2> HIDE DEF y
  <2> QED
    BY <2>1, <2>2 DEF Moves
<1> QED
  BY <1>1, <1>2, <1>3, <1>4, <1>5, <1>6, <1>7, <1>8

\* A request that submits nothing keeps the invariant.
LEMMA OtherJob ==
  ASSUME JobInv, NEW t \in JbTasks, NEW pc, Moves(t, pc), jb[t].req.op \notin SubmitOps,
         symbols' = symbols, \A u \in JbTasks \ {t} : u \in spool' <=> u \in spool,
         t \in spool' => pc \in {"read", "free"}, jb[t].req.op # "syslog"
  PROVE  JobInv'
<1>1. PICK y, rc : jb' = [jb EXCEPT ![t] = y] /\ Step(jb[t], y, pc, rc)
  BY DEF Moves
<1>2. /\ SpoolOk(y, t \in spool') /\ SubmitOk(y, symbols'[t]) /\ JobFields \subseteq DOMAIN y
      /\ LogOk(y)
  BY <1>1 DEF SpoolOk, SubmitOk, LogOk, Step
<1>3. DOMAIN symbols' = JbTasks /\ \A u \in JbTasks \ {t} : symbols'[u] = symbols[u]
  BY DEF JobInv
<1> QED
  BY <1>1, <1>2, <1>3, OneJob

\* What a request that is about to begin, or between two reads, does not hold.
LEMMA JobHolds ==
  ASSUME JobInv, NEW t \in JbTasks
  PROVE  /\ jb[t].pc \in {"start", "locate", "alloc", "match", "intrdr", "view", "wait"} => t \notin spool
         /\ jb[t].pc \in {"locate", "alloc", "read", "free", "match"} => jb[t].req.op \notin SubmitOps
         /\ jb[t].pc \notin {"start", "done"} => jb[t].req.op # "syslog"
BY DEF JobInv, SpoolOk, SubmitOk, LogOk, ReaderPcs

\* Goto and Done are such answers.
LEMMA MovesGoto ==
  ASSUME JobInv, NEW t \in JbTasks
  PROVE  /\ \A pc : JbGoto(t, pc) => Moves(t, pc)
         /\ \A rc : JbDone(t, rc) => Moves(t, "done")
BY JobForms DEF Moves

\* Listing, looking at and changing jobs, spool files, PROCLIB, system log.
LEMMA AskStep ==
  ASSUME JobInv, NEW t \in JbTasks,
         \/ handle_job_list(t) \/ handle_job_view_status(t) \/ handle_job_list_files(t)
         \/ handle_job_delete(t) \/ handle_job_cancel(t) \/ handle_job_hold(t) \/ handle_job_release(t)
         \/ handle_system_list_proclib(t) \/ handle_system_view_syslog(t)
  PROVE  JobInv'
<1> USE DEF JbAt, JbReq
<1>0. jb[t].pc = "start" /\ jb[t].req.op \notin SubmitOps /\ symbols' = symbols /\ spool' = spool
  BY DEF handle_job_list, handle_job_view_status, handle_job_list_files, handle_job_delete,
         handle_job_cancel, handle_job_hold, handle_job_release, handle_system_list_proclib,
         handle_system_view_syslog, SubmitOps
<1>1. ASSUME Moves(t, "done"), jb[t].req.op # "syslog" PROVE JobInv'
  BY <1>0, <1>1, JobHolds, OtherJob
<1>2. CASE handle_job_list(t)
  <2> DEFINE r == Warned(jb[t].req, zjb_list_by_owner(jb[t].req).rc)
             g == zjb_list_by_owner(jb[t].req).entries
             a == ZJBMLIST(jb[t].req)
  <2>1. \/ JbDone(t, "failure")
        \/ jb' = [jb EXCEPT ![t].pc = "done", ![t].rc = r, ![t].got = g, ![t].all = a]
    BY <1>2 DEF handle_job_list
  <2> HIDE DEF r, g, a
  <2>2. Moves(t, "done")
    <3>1. CASE jb' = [jb EXCEPT ![t].pc = "done", ![t].rc = r, ![t].got = g, ![t].all = a]
      BY <3>1, MovesForms
    <3> QED
      BY <2>1, <3>1, MovesGoto
  <2> QED
    BY <1>1, <1>2, <2>2 DEF handle_job_list
<1>3. CASE handle_job_view_status(t)
  <2> DEFINE g == {StatusOf(jes[jb[t].req.id].phase)}
  <2>1. JbDone(t, "failure") \/ jb' = [jb EXCEPT ![t].pc = "done", ![t].got = g]
    BY <1>3 DEF handle_job_view_status
  <2> HIDE DEF g
  <2> QED
    BY <1>1, <1>3, <2>1, MovesGoto, MovesForms, ZenonT(30) DEF handle_job_view_status
<1>4. CASE handle_job_list_files(t)
  <2> DEFINE b == zjb_list_dds(jb[t].req.id, IF jb[t].req.max > 0 THEN jb[t].req.max ELSE DdsMax)
             r == Warned(jb[t].req, b.rc)
             g == b.keys
  <2>1. JbDone(t, "failure") \/ jb' = [jb EXCEPT ![t].pc = "done", ![t].rc = r, ![t].got = g]
    BY <1>4 DEF handle_job_list_files
  <2> HIDE DEF r, g
  <2>2. Moves(t, "done")
    <3>1. CASE jb' = [jb EXCEPT ![t].pc = "done", ![t].rc = r, ![t].got = g]
      BY <3>1, MovesForms
    <3> QED
      BY <2>1, <3>1, MovesGoto
  <2> QED
    BY <1>1, <1>4, <2>2 DEF handle_job_list_files
<1>5. CASE handle_job_delete(t) \/ handle_job_cancel(t) \/ handle_job_hold(t) \/ handle_job_release(t)
  <2>1. \E rc : JbDone(t, rc)
    BY <1>5 DEF handle_job_delete, handle_job_cancel, handle_job_hold, handle_job_release,
                zjb_delete, zjb_cancel, SetHeld, ZJBMMOD
  <2> QED
    BY <1>1, <1>5, <2>1, MovesGoto DEF handle_job_delete, handle_job_cancel, handle_job_hold, handle_job_release
<1>6. CASE handle_system_list_proclib(t)
  <2>1. PICK n, freed : jb' = [jb EXCEPT ![t].pc = "done", ![t].rc = ZJBMLPRC(n, freed).rc, ![t].slept = n,
                           ![t].got = IF ZJBMLPRC(n, freed).rc = "ok" THEN 1..ZJBMLPRC(n, freed).entries ELSE {}]
    BY <1>6, ZenonT(30) DEF handle_system_list_proclib
  <2> DEFINE r == ZJBMLPRC(n, freed).rc
             g == IF ZJBMLPRC(n, freed).rc = "ok" THEN 1..ZJBMLPRC(n, freed).entries ELSE {}
  <2>2. jb' = [jb EXCEPT ![t].pc = "done", ![t].rc = r, ![t].slept = n, ![t].got = g]
    BY <2>1
  <2> HIDE DEF r, g
  <2> QED
    BY <1>1, <1>6, <2>2, MovesForms DEF handle_system_list_proclib
<1>7. CASE handle_system_view_syslog(t)
  <2>1. t \notin spool /\ JobFields \subseteq DOMAIN jb[t] /\ DOMAIN jb = JbTasks
    BY <1>0, JobHolds DEF JobInv
  <2>2. CASE JbDone(t, "failure")
    <3>1. PICK y : jb' = [jb EXCEPT ![t] = y] /\ Step(jb[t], y, "done", "failure") /\ Same(jb[t], y)
      BY <2>2, JobForms
    <3>2. SpoolOk(y, t \in spool') /\ SubmitOk(y, symbols'[t]) /\ LogOk(y)
      BY <1>0, <2>1, <3>1 DEF SpoolOk, SubmitOk, LogOk, Step
    <3> QED
      BY <1>0, <3>1, <3>2, OneJob DEF Step, JobInv
  <2>3. ASSUME NEW c \in SyslogCases,
               jb' = [jb EXCEPT ![t].pc = "done", ![t].got = {<<c, zjb_read_syslog(c)>>}]
        PROVE  JobInv'
    <3> DEFINE g == {<<c, zjb_read_syslog(c)>>}
               y == [jb[t] EXCEPT !.pc = "done", !.got = g]
    <3>1. jb' = [jb EXCEPT ![t] = y]
      BY <2>1, <2>3
    <3>2. \A e \in g : \E d \in SyslogCases : e = <<d, zjb_read_syslog(d)>>
      OBVIOUS
    <3>3. Step(jb[t], y, "done", jb[t].rc) /\ y.got = g
      BY <2>1 DEF Step, JobFields
    <3> HIDE DEF g, y
    <3>4. SpoolOk(y, t \in spool') /\ SubmitOk(y, symbols'[t])
      BY <1>0, <2>1, <3>3 DEF SpoolOk, SubmitOk, Step
    <3>5. LogOk(y)
      BY <3>2, <3>3 DEF LogOk, Step
    <3> QED
      BY <1>0, <3>1, <3>3, <3>4, <3>5, OneJob DEF Step, JobInv
  <2> QED
    BY <1>7, <2>2, <2>3 DEF handle_system_view_syslog
<1> QED
  BY <1>2, <1>3, <1>4, <1>5, <1>6, <1>7

\* Reading a spool file: named, located, allocated, read and freed.
LEMMA SpoolStep ==
  ASSUME JobInv, NEW t \in JbTasks,
         \/ zjb_get_job_dsn_by_key(t) \/ zjb_read_job_jcl(t) \/ handle_job_view_file(t)
         \/ zjb_read_job_content_by_dsn(t) \/ zjb_read_job_dynamic_allocation(t) \/ JbRead(t)
         \/ handle_job_watch(t)
  PROVE  JobInv'
<1> USE DEF JbAt, JbReq
<1>1. CASE zjb_get_job_dsn_by_key(t) \/ zjb_read_job_jcl(t) \/ handle_job_view_file(t)
  <2>0. /\ jb[t].pc = "start" /\ jb[t].req.op \notin SubmitOps \cup {"syslog"}
        /\ symbols' = symbols /\ spool' = spool
    BY <1>1 DEF zjb_get_job_dsn_by_key, zjb_read_job_jcl, handle_job_view_file, SubmitOps
  <2>1. JbDone(t, "failure") \/ \E k : jb' = [jb EXCEPT ![t].pc = "locate", ![t].key = k]
    BY <1>1 DEF zjb_get_job_dsn_by_key, zjb_read_job_jcl, handle_job_view_file
  <2>2. \E pc : Moves(t, pc)
    BY <2>1, MovesGoto, MovesForms
  <2> QED
    BY <2>0, <2>2, JobHolds, OtherJob
<1>2. CASE zjb_read_job_content_by_dsn(t)
  <2>0. jb[t].pc = "locate" /\ symbols' = symbols /\ spool' = spool
    BY <1>2 DEF zjb_read_job_content_by_dsn
  <2>1. \E pc : Moves(t, pc)
    BY <1>2, MovesGoto DEF zjb_read_job_content_by_dsn
  <2> QED
    BY <2>0, <2>1, JobHolds, OtherJob
<1>3. CASE zjb_read_job_dynamic_allocation(t)
  <2>0. jb[t].pc = "alloc" /\ symbols' = symbols
    BY <1>3 DEF zjb_read_job_dynamic_allocation
  <2>1. t \notin spool /\ jb[t].req.op \notin SubmitOps \cup {"syslog"}
    BY <2>0, JobHolds
  <2>2. CASE JbDone(t, "failure") /\ spool' = spool
    BY <2>0, <2>1, <2>2, MovesGoto, OtherJob
  <2>3. CASE spool' = spool \cup {t} /\ JbGoto(t, "read")
    <3>1. Moves(t, "read") /\ \A u \in JbTasks \ {t} : u \in spool' <=> u \in spool
      BY <2>3, MovesGoto
    <3> QED
      BY <2>0, <2>1, <3>1, OtherJob
  <2> QED
    BY <1>3, <2>2, <2>3 DEF zjb_read_job_dynamic_allocation
<1>4. CASE JbRead(t)
  <2>0. jb[t].pc = "read" /\ symbols' = symbols /\ spool' = spool
    BY <1>4 DEF JbRead
  <2> DEFINE g == {jb[t].key}
  <2>1. \/ jb' = [jb EXCEPT ![t].pc = "free", ![t].got = g]
        \/ jb' = [jb EXCEPT ![t].pc = "free", ![t].rc = "failure"]
    BY <1>4 DEF JbRead
  <2> HIDE DEF g
  <2>2. Moves(t, "free")
    BY <2>1, MovesForms
  <2> QED
    BY <2>0, <2>2, JobHolds, OtherJob
<1>5. CASE handle_job_watch(t)
  <2>0. /\ jb[t].pc \in {"start", "match"} /\ symbols' = symbols /\ spool' = spool
        /\ jb[t].req.op \notin SubmitOps \cup {"syslog"}
    BY <1>5 DEF handle_job_watch, SubmitOps
  <2> DEFINE k == jb[t].req.key
             n == jb[t].slept + 1
  <2>1. \/ \E rc : JbDone(t, rc)
        \/ jb' = [jb EXCEPT ![t].pc = "locate", ![t].key = k]
        \/ jb' = [jb EXCEPT ![t].pc = "locate", ![t].slept = n]
        \/ jb' = [jb EXCEPT ![t].pc = "done", ![t].rc = "failure", ![t].slept = n]
    <3>1. CASE jb[t].pc = "start"
      BY <1>5, <3>1 DEF handle_job_watch
    <3>2. CASE jb[t].pc = "match"
      BY <1>5, <3>2 DEF handle_job_watch
    <3> QED
      BY <2>0, <3>1, <3>2
  <2> HIDE DEF k, n
  <2>2. \E pc : Moves(t, pc)
    <3>1. CASE jb' = [jb EXCEPT ![t].pc = "locate", ![t].key = k]
      BY <3>1, MovesForms
    <3>2. CASE jb' = [jb EXCEPT ![t].pc = "locate", ![t].slept = n]
      BY <3>2, MovesForms
    <3>3. CASE jb' = [jb EXCEPT ![t].pc = "done", ![t].rc = "failure", ![t].slept = n]
      BY <3>3, MovesForms
    <3> QED
      BY <2>1, <3>1, <3>2, <3>3, MovesGoto
  <2> QED
    BY <2>0, <2>2, JobHolds, OtherJob
<1> QED
  BY <1>1, <1>2, <1>3, <1>4, <1>5

\* The spool DD is given back, or is on record as stuck.
LEMMA SpoolFreeStep ==
  ASSUME JobInv, NEW t \in JbTasks, zjb_free_job_dynamic_allocation(t)
  PROVE  JobInv'
<1>0. jb[t].pc = "free" /\ symbols' = symbols /\ jb[t].req.op \notin SubmitOps \cup {"syslog"}
  BY JobHolds DEF zjb_free_job_dynamic_allocation
<1>1. CASE /\ spool' = spool \ {t}
           /\ JbGoto(t, IF JbReq(t).op = "watch" THEN "match" ELSE "done")
  <2>1. \E pc : Moves(t, pc)
    BY <1>1, MovesGoto
  <2>2. t \notin spool' /\ \A u \in JbTasks \ {t} : u \in spool' <=> u \in spool
    BY <1>1
  <2> QED
    BY <1>0, <2>1, <2>2, OtherJob
<1>2. CASE JbStuck(t) /\ spool' = spool
  <2>1. PICK y : jb' = [jb EXCEPT ![t] = y] /\ Step(jb[t], y, "done", "failure") /\ y.stuck
    BY <1>2, JobForms
  <2>2. /\ SpoolOk(y, t \in spool') /\ SubmitOk(y, symbols'[t]) /\ LogOk(y)
        /\ JobFields \subseteq DOMAIN y
    BY <1>0, <2>1 DEF SpoolOk, SubmitOk, LogOk, Step
  <2> QED
    BY <1>0, <1>2, <2>1, <2>2, OneJob DEF JobInv
<1> QED
  BY <1>1, <1>2 DEF zjb_free_job_dynamic_allocation

\* A submission that goes on, with what it knew of its job.
LEMMA SubmitGoes ==
  ASSUME JobInv, NEW t \in JbTasks, NEW y, NEW pc, NEW rc, jb' = [jb EXCEPT ![t] = y],
         Step(jb[t], y, pc, rc), Same(jb[t], y), symbols' = symbols,
         \A u \in JbTasks \ {t} : u \in spool' <=> u \in spool,
         t \in spool' => pc \in ReaderPcs,
         \/ pc = "done" /\ rc = "failure"
         \/ jb[t].pc \in {"start", "intrdr"} /\ pc \in {"intrdr", "write"}
         \/ jb[t].pc \in {"view", "wait"} /\ pc \in {"wait", "done"},
         jb[t].req.op # "syslog"
  PROVE  JobInv'
<1>1. SubmitOk(jb[t], symbols[t]) /\ DOMAIN symbols = JbTasks
  BY DEF JobInv
<1>2. SubmitOk(y, symbols[t])
  BY <1>1 DEF SubmitOk, Step, Same, Known, ReaderPcs
<1>3. SpoolOk(y, t \in spool') /\ LogOk(y)
  BY DEF SpoolOk, LogOk, Step
<1> QED
  BY <1>1, <1>2, <1>3, OneJob DEF Step

\* Before the internal reader, and after it.
LEMMA SubmitSides ==
  ASSUME JobInv, NEW t \in JbTasks,
         \/ handle_job_submit(t) \/ handle_job_submit_uss(t) \/ handle_job_submit_jcl(t)
         \/ job_submit_common(t) \/ zjb_wait(t)
  PROVE  JobInv'
<1> USE DEF JbAt, JbReq
<1>0. /\ symbols' = symbols /\ spool' = spool /\ jb[t].pc \in {"start", "view", "wait"}
      /\ jb[t].req.op # "syslog"
  BY DEF handle_job_submit, handle_job_submit_uss, handle_job_submit_jcl, SubmitSource,
         job_submit_common, zjb_wait, SubmitOps
<1>1. t \notin spool
  BY <1>0, JobHolds
<1>2. \/ JbDone(t, "failure")
      \/ jb[t].pc = "start" /\ JbGoto(t, "intrdr")
      \/ jb[t].pc \in {"view", "wait"} /\ (JbGoto(t, "wait") \/ JbDone(t, "ok"))
  BY DEF handle_job_submit, handle_job_submit_uss, handle_job_submit_jcl, SubmitSource,
         job_submit_common, zjb_wait
<1>3. PICK y, pc, rc :
        /\ jb' = [jb EXCEPT ![t] = y] /\ Step(jb[t], y, pc, rc) /\ Same(jb[t], y)
        /\ \/ pc = "done" /\ rc = "failure"
           \/ jb[t].pc \in {"start", "intrdr"} /\ pc \in {"intrdr", "write"}
           \/ jb[t].pc \in {"view", "wait"} /\ pc \in {"wait", "done"}
  <2>1. CASE JbDone(t, "failure")
    BY <2>1, JobForms
  <2>2. CASE jb[t].pc = "start" /\ JbGoto(t, "intrdr")
    BY <2>2, JobForms
  <2>3. CASE jb[t].pc \in {"view", "wait"} /\ JbGoto(t, "wait")
    BY <2>3, JobForms
  <2>4. CASE jb[t].pc \in {"view", "wait"} /\ JbDone(t, "ok")
    BY <2>4, JobForms
  <2> QED
    BY <1>2, <2>1, <2>2, <2>3, <2>4
<1> QED
  BY <1>0, <1>1, <1>3, SubmitGoes

\* The internal reader: allocated, written, and asked which job that was.
LEMMA ReaderStep ==
  ASSUME JobInv, NEW t \in JbTasks, zjb_submit(t)
  PROVE  JobInv'
<1> DEFINE x == jb[t]
<1>0. /\ JobFields \subseteq DOMAIN x /\ SubmitOk(x, symbols[t]) /\ DOMAIN symbols = JbTasks
      /\ DOMAIN jb = JbTasks
  BY DEF JobInv
<1>1. x.req.op # "syslog"
  BY JobHolds DEF zjb_submit
<1>2. CASE x.pc = "intrdr" /\ symbols' = symbols /\ \/ JbDone(t, "failure") /\ spool' = spool
                                                    \/ spool' = spool \cup {t} /\ JbGoto(t, "write")
  <2>1. t \notin spool
    BY <1>2, JobHolds
  <2>2. CASE JbDone(t, "failure") /\ spool' = spool
    BY <1>2, <2>1, <2>2, JobForms, <1>1, SubmitGoes
  <2>3. CASE spool' = spool \cup {t} /\ JbGoto(t, "write")
    <3>1. PICK y : jb' = [jb EXCEPT ![t] = y] /\ Step(x, y, "write", x.rc) /\ Same(x, y)
      BY <2>3, JobForms
    <3>2. "write" \in ReaderPcs /\ \A u \in JbTasks \ {t} : u \in spool' <=> u \in spool
      BY <2>3 DEF ReaderPcs
    <3> QED
      BY <1>2, <3>1, <3>2, <1>1, SubmitGoes
  <2> QED
    BY <1>2, <2>2, <2>3
<1>3. CASE spool' = spool \ {t} /\ JbDone(t, "failure") /\ symbols' = symbols
  <2>1. PICK y : jb' = [jb EXCEPT ![t] = y] /\ Step(x, y, "done", "failure") /\ Same(x, y)
    BY <1>3, JobForms
  <2>2. t \notin spool' /\ \A u \in JbTasks \ {t} : u \in spool' <=> u \in spool
    BY <1>3
  <2> QED
    BY <1>3, <2>1, <2>2, <1>1, SubmitGoes
<1>4. CASE x.pc = "write" /\ Intrdr(t, JbReq(t).hasJob) /\ spool' = spool
  <2>1. PICK y, s : /\ jb' = [jb EXCEPT ![t] = y] /\ Step(x, y, "jobid", x.rc)
                    /\ symbols' = [symbols EXCEPT ![t] = s]
                    /\ (s.jobid = y.mine /\ s.correlator = y.mine) \/ x.mine # JbNone
    <3>1. CASE JbReq(t).hasJob
      <4>1. PICK i \in JbIds : /\ symbols' = [symbols EXCEPT ![t] = [jobid |-> i, correlator |-> i]]
                               /\ jb' = [jb EXCEPT ![t].pc = "jobid", ![t].mine = i]
        BY <1>4, <3>1 DEF Intrdr
      <4> DEFINE y == [x EXCEPT !.pc = "jobid", !.mine = i]
                 s == [jobid |-> i, correlator |-> i]
      <4>2. jb' = [jb EXCEPT ![t] = y]
        BY <1>0, <4>1
      <4>3. Step(x, y, "jobid", x.rc) /\ s.jobid = y.mine /\ s.correlator = y.mine
        BY <1>0 DEF Step, JobFields
      <4>4. symbols' = [symbols EXCEPT ![t] = s]
        BY <4>1
      <4> HIDE DEF y, s
      <4> QED
        BY <4>2, <4>3, <4>4
    <3>2. CASE ~JbReq(t).hasJob
      <4>1. /\ symbols' = [symbols EXCEPT ![t] = [jobid |-> JbNone, correlator |-> JbNone]]
            /\ JbGoto(t, "jobid")
        BY <1>4, <3>2 DEF Intrdr
      <4>2. PICK y : jb' = [jb EXCEPT ![t] = y] /\ Step(x, y, "jobid", x.rc) /\ Same(x, y)
        BY <4>1, JobForms
      <4> DEFINE s == [jobid |-> JbNone, correlator |-> JbNone]
      <4>3. s.jobid = JbNone /\ s.correlator = JbNone /\ symbols' = [symbols EXCEPT ![t] = s]
        BY <4>1
      <4> HIDE DEF s
      <4> QED
        BY <4>2, <4>3 DEF Same
    <3> QED
      BY <3>1, <3>2
  <2>2. symbols'[t] = s /\ DOMAIN symbols' = JbTasks /\ \A u \in JbTasks \ {t} : symbols'[u] = symbols[u]
    BY <1>0, <2>1
  <2>3. SubmitOk(y, symbols'[t])
    BY <1>0, <1>4, <2>1, <2>2 DEF SubmitOk, Step, ReaderPcs
  <2>4. SpoolOk(y, t \in spool') /\ LogOk(y) /\ JobFields \subseteq DOMAIN y
    BY <1>1, <2>1 DEF SpoolOk, LogOk, Step, ReaderPcs
  <2>5. \A u \in JbTasks \ {t} : u \in spool' <=> u \in spool
    BY <1>4
  <2> QED
    BY <2>1, <2>2, <2>3, <2>4, <2>5, <1>1, OneJob
<1>5. CASE /\ x.pc = "jobid" /\ symbols[t].jobid # JbNone /\ spool' = spool /\ symbols' = symbols
           /\ jb' = [jb EXCEPT ![t].pc = "corr", ![t].id = symbols[t].jobid]
  <2> DEFINE i == symbols[t].jobid
             y == [x EXCEPT !.pc = "corr", !.id = i]
  <2>1. jb' = [jb EXCEPT ![t] = y]
    BY <1>0, <1>5
  <2>2. Step(x, y, "corr", x.rc) /\ y.id = i /\ y.mine = x.mine
    BY <1>0 DEF Step, JobFields
  <2> HIDE DEF y
  <2>3. SubmitOk(y, symbols'[t])
    BY <1>0, <1>5, <2>2 DEF SubmitOk, Step, ReaderPcs
  <2>4. SpoolOk(y, t \in spool') /\ LogOk(y) /\ JobFields \subseteq DOMAIN y
    BY <1>1, <2>2 DEF SpoolOk, LogOk, Step, ReaderPcs
  <2> QED
    BY <1>0, <1>5, <2>1, <2>3, <2>4, <1>1, OneJob
<1>6. CASE /\ x.pc = "corr" /\ spool' = spool \ {t} /\ symbols' = symbols
           /\ jb' = [jb EXCEPT ![t].pc = "view", ![t].corr = symbols[t].correlator]
  <2> DEFINE i == symbols[t].correlator
             y == [x EXCEPT !.pc = "view", !.corr = i]
  <2>1. jb' = [jb EXCEPT ![t] = y]
    BY <1>0, <1>6
  <2>2. Step(x, y, "view", x.rc) /\ y.corr = i /\ y.mine = x.mine /\ y.id = x.id
    BY <1>0 DEF Step, JobFields
  <2> HIDE DEF y
  <2>3. SubmitOk(y, symbols'[t])
    BY <1>0, <1>6, <2>2 DEF SubmitOk, Step, ReaderPcs, Known
  <2>4. SpoolOk(y, t \in spool') /\ LogOk(y) /\ JobFields \subseteq DOMAIN y
    BY <1>1, <1>6, <2>2 DEF SpoolOk, LogOk, Step
  <2>5. \A u \in JbTasks \ {t} : u \in spool' <=> u \in spool
    BY <1>6
  <2> QED
    BY <1>0, <1>6, <2>1, <2>3, <2>4, <2>5, <1>1, OneJob
<1>7. CASE x.pc = "corr" /\ JbStuck(t) /\ spool' = spool /\ symbols' = symbols
  <2>1. PICK y : jb' = [jb EXCEPT ![t] = y] /\ Step(x, y, "done", "failure") /\ y.stuck
    BY <1>7, JobForms
  <2>2. /\ SpoolOk(y, t \in spool') /\ SubmitOk(y, symbols'[t]) /\ LogOk(y)
        /\ JobFields \subseteq DOMAIN y
    BY <1>0, <2>1 DEF SpoolOk, SubmitOk, LogOk, Step
  <2> QED
    BY <1>0, <1>7, <2>1, <2>2, <1>1, OneJob
<1> QED
  BY <1>2, <1>3, <1>4, <1>5, <1>6, <1>7 DEF zjb_submit, ZJBSYMB

\* What JES does to a job no request sees before it asks.
LEMMA JesKeeps ==
  ASSUME JobInv, NEW i \in JbIds, JesStep(i)
  PROVE  JobInv'
<1>1. jb' = jb /\ symbols' = symbols /\ spool' = spool
  BY DEF JesStep
<1> QED
  BY <1>1 DEF JobInv

\* A step of JES or of a request keeps the invariant.
LEMMA JobStep ==
  ASSUME JobInv, [JbNext]_jbVars
  PROVE  JobInv'
<1>1. CASE UNCHANGED jbVars
  BY <1>1 DEF JobInv, jbVars
<1>2. CASE JbNext
  <2>1. CASE \E i \in JbIds : JesStep(i)
    BY <2>1, JesKeeps
  <2>2. CASE ~\E i \in JbIds : JesStep(i)
    <3>1. PICK t \in JbTasks :
        \/ handle_job_list(t) \/ handle_job_view_status(t) \/ handle_job_list_files(t)
        \/ zjb_get_job_dsn_by_key(t) \/ zjb_read_job_jcl(t) \/ handle_job_view_file(t)
        \/ zjb_read_job_content_by_dsn(t) \/ zjb_read_job_dynamic_allocation(t) \/ JbRead(t)
        \/ zjb_free_job_dynamic_allocation(t) \/ handle_job_watch(t)
        \/ handle_job_delete(t) \/ handle_job_cancel(t) \/ handle_job_hold(t) \/ handle_job_release(t)
        \/ handle_job_submit(t) \/ handle_job_submit_uss(t) \/ handle_job_submit_jcl(t)
        \/ zjb_submit(t) \/ job_submit_common(t) \/ zjb_wait(t)
        \/ handle_system_list_proclib(t) \/ handle_system_view_syslog(t)
      BY <1>2, <2>2 DEF JbNext
    <3> QED
      BY <3>1, AskStep, SpoolStep, SpoolFreeStep, SubmitSides, ReaderStep
  <2> QED
    BY <2>1, <2>2
<1> QED
  BY <1>1, <1>2

\* Requests begin in order.
LEMMA JobBegin ==
  ASSUME NEW j, JbBegin(j)
  PROVE  JobInv
<1>1. /\ jb = [t \in JbTasks |-> [req |-> j.ask[t], pc |-> "start", rc |-> "ok", got |-> {}, all |-> {}, key |-> 0,
                                  slept |-> 0, id |-> JbNone, corr |-> JbNone, mine |-> JbNone,
                                  stuck |-> FALSE]]
      /\ DOMAIN symbols = JbTasks /\ spool = {}
  BY DEF JbBegin
<1>2. ASSUME NEW t \in JbTasks
      PROVE  /\ JobFields \subseteq DOMAIN jb[t]
             /\ SpoolOk(jb[t], t \in spool) /\ SubmitOk(jb[t], symbols[t]) /\ LogOk(jb[t])
  <2> DEFINE x == jb[t]
  <2>1. JobFields \subseteq DOMAIN x /\ x.pc = "start" /\ x.mine = JbNone
    BY <1>1 DEF JobFields
  <2> HIDE DEF x
  <2>2. SpoolOk(x, t \in spool) /\ SubmitOk(x, symbols[t]) /\ LogOk(x)
    BY <1>1, <2>1 DEF SpoolOk, SubmitOk, LogOk, ReaderPcs
  <2> QED
    BY <2>1, <2>2 DEF x
<1>3. DOMAIN jb = JbTasks
  BY <1>1
<1> QED
  BY <1>1, <1>2, <1>3 DEF JobInv

\* Quotient and remainder.
LEMMA DivMod ==
  ASSUME NEW n \in Int, NEW d \in Nat \ {0}
  PROVE  /\ n \div d \in Int /\ n % d \in 0..(d - 1)
         /\ n = d * (n \div d) + (n % d)
OBVIOUS

\* The last of the records read is one of the log.
LEMMA LastIsRecord ==
  ASSUME NEW c \in SyslogCases, zds_read_vsam(c).lines > 0
  PROVE  \E i \in DOMAIN c.log : zds_read_vsam(c).last = c.log[i]
<1> DEFINE log == c.log
           from == c.day * CsPerDay + SyslogStart(c)
           hit == {i \in DOMAIN log : log[i] >= from}
           read == {i \in hit : Cardinality({k \in hit : k < i}) < c.max}
           n == Cardinality(read)
           first == IF hit = {} THEN 0 ELSE CHOOSE i \in hit : \A k \in hit : i <= k
<1>0. log \in Seq(Int)
  BY JobsAssumption
<1>1. /\ zds_read_vsam(c).lines = n
      /\ zds_read_vsam(c).last = IF n = 0 THEN 0 ELSE log[first + n - 1]
  BY DEF zds_read_vsam
<1>2. hit \subseteq 1..Len(log) /\ read \subseteq hit /\ Len(log) \in Nat
  BY <1>0
<1> HIDE DEF hit, read, log
<1>3. IsFiniteSet(1..Len(log))
  BY <1>2, FS_Interval
<1>4. IsFiniteSet(read) /\ n \in Nat
  BY <1>2, <1>3, FS_Subset, FS_CardinalityType
<1>5. hit # {}
  <2>1. CASE hit = {}
    <3>1. read = {}
      BY <1>2, <2>1
    <3> QED
      BY <1>1, <3>1, FS_EmptySet
  <2> QED
    BY <2>1
<1>6. first \in hit /\ \A k \in hit : first <= k
  <2>1. \E i \in hit : \A k \in hit : i <= k
    <3>1. hit \subseteq Nat
      BY <1>2
    <3> QED
      BY <1>5, <3>1, LeastNumber
  <2> QED
    BY <1>5, <2>1
<1> HIDE DEF first
<1>7. first \in 1..Len(log) /\ read \subseteq first..Len(log)
  BY <1>2, <1>6
<1>8. IsFiniteSet(first..Len(log)) /\ Cardinality(first..Len(log)) = Len(log) - first + 1
  BY <1>2, <1>7, FS_Interval
<1>9. n <= Len(log) - first + 1
  BY <1>7, <1>8, FS_Subset, ZenonT(30)
<1> HIDE DEF n
<1>10. n > 0
  BY <1>1
<1>11. first + n - 1 \in 1..Len(log) /\ DOMAIN log = 1..Len(log)
  BY <1>0, <1>2, <1>4, <1>7, <1>9, <1>10
<1> QED
  BY <1>1, <1>4, <1>10, <1>11 DEF log

\* What the invariant says of a request that is over.
LEMMA JobSafe == JobInv => SpoolFreed /\ JobAnswersHonest
<1> SUFFICES ASSUME JobInv PROVE SpoolFreed /\ JobAnswersHonest
  OBVIOUS
<1>1. SpoolFreed
  BY DEF JobInv, SpoolOk, SpoolFreed, ReaderPcs
<1>2. SubmitNamesOwnJob
  BY DEF JobInv, SubmitOk, Known, SubmitNamesOwnJob, JbReq
<1>3. ASSUME NEW c \in SyslogCases, zjb_read_syslog(c).lines > 0
      PROVE  /\ zjb_read_syslog(c).end_time \in 0..(CsPerDay - 1)
             /\ \E i \in DOMAIN c.log :
                  zjb_read_syslog(c).end_day * CsPerDay + zjb_read_syslog(c).end_time = c.log[i] + c.tz
  <2> DEFINE a == zds_read_vsam(c)
             last == a.last
             day == last \div CsPerDay
             rest == last % CsPerDay
             cs == rest + c.tz
             shift == cs \div CsPerDay
  <2>1. /\ zjb_read_syslog(c).lines = a.lines /\ zjb_read_syslog(c).end_day = day + shift
        /\ zjb_read_syslog(c).end_time = cs - shift * CsPerDay
    BY DEF zjb_read_syslog
  <2>2. PICK i \in DOMAIN c.log : last = c.log[i]
    BY <1>3, <2>1, LastIsRecord
  <2>3. last \in Int /\ c.tz \in Int /\ CsPerDay \in Nat \ {0}
    BY <2>2, JobsAssumption
  <2> HIDE DEF a, last
  <2>4. day \in Int /\ rest \in 0..(CsPerDay - 1) /\ last = CsPerDay * day + rest
    BY <2>3, DivMod
  <2>5. cs \in Int
    BY <2>3, <2>4
  <2> HIDE DEF day, rest, cs
  <2>6. shift \in Int /\ cs - CsPerDay * shift \in 0..(CsPerDay - 1)
    <3>1. /\ shift \in Int /\ cs % CsPerDay \in 0..(CsPerDay - 1)
          /\ cs = CsPerDay * shift + (cs % CsPerDay)
      BY <2>3, <2>5, DivMod
    <3> HIDE DEF shift
    <3> QED
      BY <2>3, <2>5, <3>1
  <2> HIDE DEF shift
  <2>7. cs - shift * CsPerDay \in 0..(CsPerDay - 1)
    BY <2>3, <2>5, <2>6
  <2>8. (day + shift) * CsPerDay + (cs - shift * CsPerDay) = last + c.tz
    <3>1. (day + shift) * CsPerDay = day * CsPerDay + shift * CsPerDay
      BY <2>3, <2>4, <2>6
    <3>2. cs = rest + c.tz
      BY DEF cs
    <3>3. CsPerDay * day = day * CsPerDay /\ shift * CsPerDay \in Int /\ day * CsPerDay \in Int
      BY <2>3, <2>4, <2>6
    <3> QED
      BY <2>3, <2>4, <2>5, <2>6, <3>1, <3>2, <3>3
  <2> QED
    BY <2>1, <2>2, <2>7, <2>8
<1>4. SyslogEndIsLocal
  <2> SUFFICES ASSUME NEW t \in JbTasks, jb[t].req.op = "syslog", jb[t].pc = "done", jb[t].rc = "ok",
                      NEW e \in jb[t].got, e[2].lines > 0
               PROVE  /\ e[2].end_time \in 0..(CsPerDay - 1)
                      /\ \E i \in DOMAIN e[1].log :
                           e[2].end_day * CsPerDay + e[2].end_time = e[1].log[i] + e[1].tz
    BY DEF SyslogEndIsLocal, JbReq
  <2>1. PICK c \in SyslogCases : e = <<c, zjb_read_syslog(c)>>
    BY DEF JobInv, LogOk
  <2>2. e[1] = c /\ e[2] = zjb_read_syslog(c)
    BY <2>1
  <2> QED
    BY <1>3, <2>2
<1> QED
  BY <1>1, <1>2, <1>4 DEF JobAnswersHonest

-----------------------------------------------------------------------------
(* The console *)

ConsoleFields == {"pc", "name", "wait", "ecb", "active", "timer", "entered", "out", "seen",
                  "needed", "stuck", "rc"}

(* A session x: its timer runs only while it waits, and runs then unless   *)
(* it was posted; the steps that use the block have one; a console is      *)
(* active from its activation to its deactivation; what is copied is the   *)
(* beginning of what was read, and all of it while the buffer holds that.  *)
ConsoleOk(x) ==
  /\ x.timer => x.pc = "wait"
  /\ x.pc \in {"put", "get", "arm", "wait", "read", "retry"} => x.active /\ x.ecb # "null"
  /\ x.pc = "wait" /\ x.ecb # "posted" => x.timer
  /\ x.pc = "close" => x.active
  /\ x.pc \in {"idle", "dact", "end"} => ~x.active
  /\ x.stuck => x.pc = "end"
  /\ x.active \/ x.pc = "dact" => x.name \in CnNames
  /\ x.needed \in Nat /\ x.out \in Seq(Nat) /\ x.seen \in Seq(Nat)
  /\ Len(x.out) <= Len(x.seen)
  /\ \A i \in 1..Len(x.out) : x.out[i] = x.seen[i]
  /\ x.needed <= BufferSize => Len(x.out) = Len(x.seen)

(* The session that owns the console n.                                    *)
OwnsConsole(x, n) == x.name = n /\ (x.active \/ x.pc = "dact" \/ x.stuck) /\ x.pc # "terminated"

ConsoleNameOk(m) ==
  {"owner", "due", "queue"} \subseteq DOMAIN m /\ m.due \in Seq(Nat) /\ m.queue \in Seq(Nat)

ConsoleInv ==
  /\ DOMAIN cn = CnTasks /\ DOMAIN mcs = CnNames
  /\ \A t \in CnTasks : ConsoleFields \subseteq DOMAIN cn[t] /\ ConsoleOk(cn[t])
  /\ \A n \in CnNames : ConsoleNameOk(mcs[n])
  /\ \A n \in CnNames, t \in CnTasks : mcs[n].owner = t => OwnsConsole(cn[t], n)

\* One session moves on, with the consoles it owns.
LEMMA OneConsole ==
  ASSUME ConsoleInv, NEW t \in CnTasks, NEW y, cn' = [cn EXCEPT ![t] = y],
         ConsoleFields \subseteq DOMAIN y, ConsoleOk(y), DOMAIN mcs' = CnNames,
         \A n \in CnNames : ConsoleNameOk(mcs'[n]),
         \A n \in CnNames : mcs'[n].owner = t => OwnsConsole(y, n),
         \A n \in CnNames, u \in CnTasks \ {t} : mcs'[n].owner = u => mcs[n].owner = u
  PROVE  ConsoleInv'
<1>1. DOMAIN cn' = CnTasks /\ \A u \in CnTasks : cn'[u] = IF u = t THEN y ELSE cn[u]
  BY DEF ConsoleInv
<1>2. \A u \in CnTasks : ConsoleFields \subseteq DOMAIN cn'[u] /\ ConsoleOk(cn'[u])
  BY <1>1 DEF ConsoleInv
<1>3. \A n \in CnNames, u \in CnTasks : mcs'[n].owner = u => OwnsConsole(cn'[u], n)
  BY <1>1 DEF ConsoleInv
<1>4. CnNames' = CnNames
  BY DEF CnNames
<1> QED
  BY <1>1, <1>2, <1>3 DEF ConsoleInv, ConsoleOk, OwnsConsole, ConsoleNameOk, CnNames

\* The consoles stay as they are.
LEMMA SameConsoles ==
  ASSUME ConsoleInv, NEW t \in CnTasks, NEW y, cn' = [cn EXCEPT ![t] = y], mcs' = mcs,
         ConsoleFields \subseteq DOMAIN y, ConsoleOk(y),
         \A n \in CnNames : OwnsConsole(cn[t], n) => OwnsConsole(y, n)
  PROVE  ConsoleInv'
BY OneConsole DEF ConsoleInv

(* What the lines received are, in a session and in what it becomes.       *)
SameLines(x, y) == y.out = x.out /\ y.seen = x.seen /\ y.needed = x.needed

\* Activated under a name of the task, or refused.
LEMMA ActivateStep ==
  ASSUME ConsoleInv, NEW t \in CnTasks, handle_console_issue(t)
  PROVE  ConsoleInv'
<1> DEFINE x == cn[t]
<1>0. /\ ConsoleFields \subseteq DOMAIN x /\ ConsoleOk(x) /\ x.pc = "idle"
      /\ DOMAIN cn = CnTasks /\ DOMAIN mcs = CnNames
  BY DEF ConsoleInv, handle_console_issue, CnAt
<1>1. PICK w \in BOOLEAN, n \in zcn_build_default_console_name(t) : zcn_activate(t, n, w)
  BY DEF handle_console_issue
<1>2. n \in CnNames
  <2>1. t \in Int /\ CnDigits \in Nat \ {0}
    BY ConsoleAssumption
  <2>2. t % CnDigits \in 0..(CnDigits - 1)
    BY <2>1, DivMod
  <2> QED
    BY <1>1, <2>1, <2>2 DEF zcn_build_default_console_name, CnNames
<1>3. \A k \in CnNames : ~OwnsConsole(x, k)
  BY <1>0 DEF ConsoleOk, OwnsConsole
<1>4. CASE /\ mcs' = [mcs EXCEPT ![n] = [NoConsole EXCEPT !.owner = t]]
           /\ CnSet(t, [[x EXCEPT !.name = n, !.wait = w, !.ecb = "clear"] EXCEPT !.pc = "put", !.active = TRUE])
  <2> DEFINE y == [[x EXCEPT !.name = n, !.wait = w, !.ecb = "clear"] EXCEPT !.pc = "put", !.active = TRUE]
             m == [NoConsole EXCEPT !.owner = t]
  <2>1. cn' = [cn EXCEPT ![t] = y] /\ mcs' = [mcs EXCEPT ![n] = m]
    BY <1>4 DEF CnSet
  <2>2. /\ ConsoleFields \subseteq DOMAIN y /\ y.pc = "put" /\ y.name = n /\ y.ecb = "clear"
        /\ y.active /\ y.timer = x.timer /\ y.stuck = x.stuck /\ SameLines(x, y)
    BY <1>0 DEF ConsoleFields, SameLines
  <2>3. ConsoleNameOk(m) /\ m.owner = t
    BY DEF ConsoleNameOk, NoConsole
  <2> HIDE DEF y, m
  <2>4. ConsoleOk(y)
    BY <1>0, <1>2, <2>2 DEF ConsoleOk, SameLines
  <2>5. DOMAIN mcs' = CnNames /\ \A k \in CnNames : mcs'[k] = IF k = n THEN m ELSE mcs[k]
    BY <1>0, <2>1
  <2>6. \A k \in CnNames : mcs'[k].owner = t => OwnsConsole(y, k)
    BY <1>3, <2>2, <2>5 DEF OwnsConsole, ConsoleInv
  <2>7. \A k \in CnNames, u \in CnTasks \ {t} : mcs'[k].owner = u => mcs[k].owner = u
    BY <2>3, <2>5
  <2>8. \A k \in CnNames : ConsoleNameOk(mcs'[k])
    BY <2>3, <2>5 DEF ConsoleInv
  <2> QED
    BY <2>1, <2>2, <2>4, <2>5, <2>6, <2>7, <2>8, OneConsole
<1>5. ASSUME NEW e \in {"null", "clear"}, NEW y,
             y.pc = "unwind", y.name = n, y.active = x.active, y.timer = x.timer, y.stuck = x.stuck,
             SameLines(x, y), ConsoleFields \subseteq DOMAIN y,
             cn' = [cn EXCEPT ![t] = y], mcs' = mcs
      PROVE  ConsoleInv'
  <2>1. ConsoleOk(y)
    BY <1>0, <1>5 DEF ConsoleOk, SameLines
  <2> QED
    BY <1>3, <1>5, <2>1, SameConsoles
<1>6. CASE CnSet(t, Failed([[x EXCEPT !.name = n, !.wait = w, !.ecb = "clear"] EXCEPT !.ecb = "null"])) /\ mcs' = mcs
  <2> DEFINE y == Failed([[x EXCEPT !.name = n, !.wait = w, !.ecb = "clear"] EXCEPT !.ecb = "null"])
  <2>1. /\ ConsoleFields \subseteq DOMAIN y /\ y.pc = "unwind" /\ y.name = n
        /\ y.active = x.active /\ y.timer = x.timer /\ y.stuck = x.stuck /\ SameLines(x, y)
    BY <1>0 DEF ConsoleFields, Failed, SameLines
  <2>2. cn' = [cn EXCEPT ![t] = y]
    BY <1>6 DEF CnSet
  <2> HIDE DEF y
  <2> QED
    BY <1>5, <1>6, <2>1, <2>2
<1>7. CASE CnSet(t, Failed([x EXCEPT !.name = n, !.wait = w])) /\ mcs' = mcs
  <2> DEFINE y == Failed([x EXCEPT !.name = n, !.wait = w])
  <2>1. /\ ConsoleFields \subseteq DOMAIN y /\ y.pc = "unwind" /\ y.name = n
        /\ y.active = x.active /\ y.timer = x.timer /\ y.stuck = x.stuck /\ SameLines(x, y)
    BY <1>0 DEF ConsoleFields, Failed, SameLines
  <2>2. cn' = [cn EXCEPT ![t] = y]
    BY <1>7 DEF CnSet
  <2> HIDE DEF y
  <2> QED
    BY <1>5, <1>7, <2>1, <2>2
<1> QED
  BY <1>1, <1>4, <1>6, <1>7 DEF zcn_activate, ZCNACT, zcnm1act

(* A session goes on to y, its lines and consoles as they were.            *)
Continues(x, y) ==
  /\ ConsoleFields \subseteq DOMAIN y /\ SameLines(x, y)
  /\ y.name = x.name /\ y.active = x.active /\ y.stuck = x.stuck

\* What a session does between its activation and its deactivation.
LEMMA ContinuesStep ==
  ASSUME ConsoleInv, NEW t \in CnTasks, NEW y, Continues(cn[t], y),
         cn' = [cn EXCEPT ![t] = y], mcs' = mcs,
         \/ y.pc \in {"put", "get", "arm", "read", "retry", "close", "unwind"} /\ ~y.timer
         \/ y.pc = "wait" /\ (y.timer \/ y.ecb = "posted"),
         y.pc \in {"put", "get", "arm", "wait", "read", "retry"} => y.ecb # "null",
         cn[t].pc \in {"put", "get", "arm", "wait", "read", "retry"}
  PROVE  ConsoleInv'
<1>1. ConsoleOk(cn[t])
  BY DEF ConsoleInv
<1>2. ConsoleOk(y)
  BY <1>1 DEF ConsoleOk, Continues, SameLines
<1>3. \A n \in CnNames : OwnsConsole(cn[t], n) => OwnsConsole(y, n)
  BY <1>1 DEF OwnsConsole, Continues, ConsoleOk
<1> QED
  BY <1>2, <1>3, SameConsoles DEF Continues

\* The steps that leave consoles and lines alone.
LEMMA QuietStep ==
  ASSUME ConsoleInv, NEW t \in CnTasks,
         \/ zcn_put(t) /\ CnSet(t, Failed(cn[t])) /\ mcs' = mcs
         \/ zcn_get(t) \/ ZCNGET(t) \/ disable_recovery(t) \/ ZCNTIMER(t)
         \/ zcnm1get(t) /\ (CnSet(t, [cn[t] EXCEPT !.pc = "close"]) \/ CnSet(t, Failed(cn[t]))) /\ mcs' = mcs
  PROVE  ConsoleInv'
<1> DEFINE x == cn[t]
<1>0. /\ ConsoleFields \subseteq DOMAIN x /\ ConsoleOk(x)
  BY DEF ConsoleInv
<1>1. CASE zcn_put(t) /\ CnSet(t, Failed(cn[t])) /\ mcs' = mcs
  <2> DEFINE y == Failed(x)
  <2>1. Continues(x, y) /\ y.pc = "unwind" /\ y.timer = x.timer /\ x.pc = "put"
    BY <1>0, <1>1 DEF Continues, SameLines, ConsoleFields, Failed, zcn_put, CnAt
  <2>2. cn' = [cn EXCEPT ![t] = y]
    BY <1>1 DEF CnSet
  <2> HIDE DEF y
  <2> QED
    BY <1>0, <1>1, <2>1, <2>2, ContinuesStep DEF ConsoleOk
<1>2. CASE zcn_get(t)
  <2>0. x.pc = "get" /\ mcs' = mcs
    BY <1>2 DEF zcn_get, CnAt
  <2>1. CASE CnSet(t, [x EXCEPT !.pc = "arm", !.ecb = "clear"])
    <3> DEFINE y == [x EXCEPT !.pc = "arm", !.ecb = "clear"]
    <3>1. Continues(x, y) /\ y.pc = "arm" /\ y.ecb = "clear" /\ y.timer = x.timer
      BY <1>0 DEF Continues, SameLines, ConsoleFields
    <3>2. cn' = [cn EXCEPT ![t] = y]
      BY <2>1 DEF CnSet
    <3> HIDE DEF y
    <3> QED
      BY <1>0, <2>0, <3>1, <3>2, ContinuesStep DEF ConsoleOk
  <2>2. CASE CnSet(t, Failed([x EXCEPT !.ecb = "clear"]))
    <3> DEFINE y == Failed([x EXCEPT !.ecb = "clear"])
    <3>1. Continues(x, y) /\ y.pc = "unwind" /\ y.timer = x.timer
      BY <1>0 DEF Continues, SameLines, ConsoleFields, Failed
    <3>2. cn' = [cn EXCEPT ![t] = y]
      BY <2>2 DEF CnSet
    <3> HIDE DEF y
    <3> QED
      BY <1>0, <2>0, <3>1, <3>2, ContinuesStep DEF ConsoleOk
  <2> QED
    BY <1>2, <2>1, <2>2 DEF zcn_get
<1>3. CASE ZCNGET(t)
  <2>1. CASE x.pc = "arm" /\ CnSet(t, [STIMERM_SET(x) EXCEPT !.pc = "wait"]) /\ mcs' = mcs
    <3> DEFINE y == [STIMERM_SET(x) EXCEPT !.pc = "wait"]
    <3>1. Continues(x, y) /\ y.pc = "wait" /\ y.ecb = x.ecb /\ y.timer
      BY <1>0 DEF Continues, SameLines, ConsoleFields, STIMERM_SET
    <3>2. cn' = [cn EXCEPT ![t] = y]
      BY <2>1 DEF CnSet
    <3> HIDE DEF y
    <3> QED
      BY <1>0, <2>1, <3>1, <3>2, ContinuesStep DEF ConsoleOk
  <2>2. CASE x.pc = "wait" /\ CnSet(t, [STIMERM_CANCEL(x) EXCEPT !.pc = "read"]) /\ mcs' = mcs
    <3> DEFINE y == [STIMERM_CANCEL(x) EXCEPT !.pc = "read"]
    <3>1. Continues(x, y) /\ y.pc = "read" /\ y.ecb = x.ecb /\ ~y.timer
      BY <1>0 DEF Continues, SameLines, ConsoleFields, STIMERM_CANCEL
    <3>2. cn' = [cn EXCEPT ![t] = y]
      BY <2>2 DEF CnSet
    <3> HIDE DEF y
    <3> QED
      BY <1>0, <2>2, <3>1, <3>2, ContinuesStep DEF ConsoleOk
  <2> QED
    BY <1>3, <2>1, <2>2 DEF ZCNGET, CnAt
<1>4. CASE disable_recovery(t)
  <2> DEFINE y == Failed([STIMERM_CANCEL(x) EXCEPT !.entered = FALSE])
  <2>1. Continues(x, y) /\ y.pc = "unwind" /\ ~y.timer
    BY <1>0 DEF Continues, SameLines, ConsoleFields, Failed, STIMERM_CANCEL
  <2>2. cn' = [cn EXCEPT ![t] = y] /\ mcs' = mcs /\ x.pc = "retry"
    BY <1>4 DEF CnSet, disable_recovery, CnAt
  <2> HIDE DEF y
  <2> QED
    BY <2>1, <2>2, ContinuesStep
<1>5. CASE ZCNTIMER(t)
  <2> DEFINE y == [ECB_POST(x) EXCEPT !.timer = FALSE]
  <2>0. x.pc = "wait" /\ x.ecb # "null"
    BY <1>0, <1>5 DEF ConsoleOk, ZCNTIMER
  <2>1. Continues(x, y) /\ y.pc = "wait" /\ y.ecb = "posted"
    BY <1>0, <2>0 DEF Continues, SameLines, ConsoleFields, ECB_POST
  <2>2. cn' = [cn EXCEPT ![t] = y] /\ mcs' = mcs
    BY <1>5 DEF CnSet, ZCNTIMER
  <2> HIDE DEF y
  <2> QED
    BY <2>0, <2>1, <2>2, ContinuesStep
<1>6. CASE zcnm1get(t) /\ CnSet(t, [x EXCEPT !.pc = "close"]) /\ mcs' = mcs
  <2> DEFINE y == [x EXCEPT !.pc = "close"]
  <2>1. Continues(x, y) /\ y.pc = "close" /\ y.timer = x.timer /\ x.pc = "read"
    BY <1>0, <1>6 DEF Continues, SameLines, ConsoleFields, zcnm1get, CnAt
  <2>2. cn' = [cn EXCEPT ![t] = y]
    BY <1>6 DEF CnSet
  <2> HIDE DEF y
  <2> QED
    BY <1>0, <1>6, <2>1, <2>2, ContinuesStep DEF ConsoleOk
<1>7. CASE zcnm1get(t) /\ CnSet(t, Failed(x)) /\ mcs' = mcs
  <2> DEFINE y == Failed(x)
  <2>1. Continues(x, y) /\ y.pc = "unwind" /\ y.timer = x.timer /\ x.pc = "read"
    BY <1>0, <1>7 DEF Continues, SameLines, ConsoleFields, Failed, zcnm1get, CnAt
  <2>2. cn' = [cn EXCEPT ![t] = y]
    BY <1>7 DEF CnSet
  <2> HIDE DEF y
  <2> QED
    BY <1>0, <1>7, <2>1, <2>2, ContinuesStep DEF ConsoleOk
<1> QED
  BY <1>1, <1>2, <1>3, <1>4, <1>5, <1>6, <1>7

\* The command is issued: its response will come.
LEMMA PutStep ==
  ASSUME ConsoleInv, NEW t \in CnTasks, zcn_put(t)
  PROVE  ConsoleInv'
<1> DEFINE x == cn[t]
<1>0. /\ ConsoleFields \subseteq DOMAIN x /\ ConsoleOk(x) /\ DOMAIN mcs = CnNames /\ x.pc = "put"
      /\ x.name \in CnNames /\ ConsoleNameOk(mcs[x.name])
  BY DEF ConsoleInv, ConsoleOk, zcn_put, CnAt
<1>1. CASE ZCNPUT(t)
  <2>1. PICK reply \in CnReplies :
          /\ mcs' = [mcs EXCEPT ![x.name].due = reply]
          /\ CnSet(t, [x EXCEPT !.pc = IF x.wait THEN "get" ELSE "close"])
    BY <1>1 DEF ZCNPUT, zcnm1put
  <2> DEFINE p == IF x.wait THEN "get" ELSE "close"
             y == [x EXCEPT !.pc = p]
             m == [mcs[x.name] EXCEPT !.due = reply]
  <2>2. cn' = [cn EXCEPT ![t] = y] /\ mcs' = [mcs EXCEPT ![x.name] = m]
    BY <1>0, <2>1 DEF CnSet
  <2>3. p \in {"get", "close"} /\ ConsoleFields \subseteq DOMAIN y /\ y.pc = p /\ y.timer = x.timer
        /\ y.ecb = x.ecb /\ Continues(x, y)
    BY <1>0 DEF ConsoleFields, Continues, SameLines
  <2>4. m.owner = mcs[x.name].owner /\ ConsoleNameOk(m)
    <3>1. reply \in Seq(Nat)
      BY <2>1, ConsoleAssumption
    <3> QED
      BY <1>0, <3>1 DEF ConsoleNameOk
  <2> HIDE DEF y, m, p
  <2>5. DOMAIN mcs' = CnNames /\ \A k \in CnNames : /\ mcs'[k].owner = mcs[k].owner
                                                    /\ ConsoleNameOk(mcs'[k])
    BY <1>0, <2>2, <2>4 DEF ConsoleInv
  <2>6. ConsoleOk(y)
    BY <1>0, <2>3 DEF ConsoleOk, Continues, SameLines
  <2>7. \A k \in CnNames : mcs'[k].owner = t => OwnsConsole(y, k)
    BY <1>0, <2>3, <2>5 DEF ConsoleInv, OwnsConsole, Continues
  <2> QED
    BY <2>2, <2>3, <2>5, <2>6, <2>7, OneConsole
<1>2. CASE CnSet(t, Failed(cn[t])) /\ mcs' = mcs
  BY <1>2, QuietStep
<1> QED
  BY <1>1, <1>2 DEF zcn_put

\* A line is copied while the buffer holds it; what was copied stays the
\* beginning of what was read.
LEMMA LineCopied ==
  ASSUME NEW x, ConsoleFields \subseteq DOMAIN x, ConsoleOk(x), x.pc = "read", NEW len \in Nat
  PROVE  ConsoleOk(extract_text(x, len)) /\ extract_text(x, len).pc = "read"
<1> DEFINE fits == BufferSize >= x.needed + len
           out == IF fits THEN Append(x.out, len) ELSE x.out
           seen == Append(x.seen, len)
           n == x.needed + len
           y == [x EXCEPT !.out = out, !.needed = n, !.seen = seen]
<1>0. extract_text(x, len) = y
  BY DEF extract_text
<1>1. /\ ConsoleFields \subseteq DOMAIN y /\ y.out = out /\ y.seen = seen /\ y.needed = n
      /\ y.pc = x.pc /\ y.timer = x.timer /\ y.ecb = x.ecb /\ y.active = x.active
      /\ y.stuck = x.stuck /\ y.name = x.name
  BY DEF ConsoleFields
<1>2. /\ x.needed \in Nat /\ x.out \in Seq(Nat) /\ x.seen \in Seq(Nat)
      /\ Len(x.out) <= Len(x.seen) /\ \A i \in 1..Len(x.out) : x.out[i] = x.seen[i]
      /\ x.needed <= BufferSize => Len(x.out) = Len(x.seen)
  BY DEF ConsoleOk
<1>3. n \in Nat /\ seen \in Seq(Nat) /\ Len(seen) = Len(x.seen) + 1
      /\ \A i \in 1..Len(x.seen) : seen[i] = x.seen[i]
  BY <1>2
<1>4. /\ out \in Seq(Nat) /\ Len(out) <= Len(seen) /\ \A i \in 1..Len(out) : out[i] = seen[i]
      /\ n <= BufferSize => Len(out) = Len(seen)
  <2>1. CASE fits
    <3>1. Len(x.out) = Len(x.seen)
      BY <1>2, <2>1, ConsoleAssumption
    <3>2. /\ out = Append(x.out, len) /\ Len(out) = Len(x.out) + 1 /\ out[Len(x.out) + 1] = len
          /\ \A i \in 1..Len(x.out) : out[i] = x.out[i]
      BY <1>2, <2>1
    <3>3. seen[Len(x.seen) + 1] = len
      BY <1>2
    <3> HIDE DEF out, seen
    <3>4. out \in Seq(Nat)
      BY <1>2, <3>2
    <3>5. \A i \in 1..Len(out) : out[i] = seen[i]
      BY <1>2, <1>3, <3>1, <3>2, <3>3
    <3> QED
      BY <1>2, <1>3, <3>1, <3>2, <3>4, <3>5, SMTT(30)
  <2>2. CASE ~fits
    <3>1. out = x.out /\ ~(n <= BufferSize)
      BY <1>2, <2>2, ConsoleAssumption
    <3> HIDE DEF out, seen, n
    <3>2. \A i \in 1..Len(out) : out[i] = seen[i]
      BY <1>2, <1>3, <3>1
    <3> QED
      BY <1>2, <1>3, <3>1, <3>2
  <2> QED
    BY <2>1, <2>2
<1> HIDE DEF out, seen, n
<1>5. ConsoleOk(y)
  BY <1>1, <1>3, <1>4 DEF ConsoleOk
<1> QED
  BY <1>0, <1>1, <1>5

\* The response is read, a message a step.
LEMMA ReadMessageStep ==
  ASSUME ConsoleInv, NEW t \in CnTasks, zcnm1get(t)
  PROVE  ConsoleInv'
<1> DEFINE x == cn[t]
           q == mcs[x.name].queue
<1>0. /\ ConsoleFields \subseteq DOMAIN x /\ ConsoleOk(x) /\ DOMAIN mcs = CnNames /\ x.pc = "read"
      /\ x.name \in CnNames /\ ConsoleNameOk(mcs[x.name])
  BY DEF ConsoleInv, ConsoleOk, zcnm1get, CnAt
<1>1. CASE /\ q # <<>>
           /\ CnSet(t, extract_text(x, Head(q)))
           /\ mcs' = [mcs EXCEPT ![x.name].queue = Tail(q)]
  <2> DEFINE y == extract_text(x, Head(q))
             m == [mcs[x.name] EXCEPT !.queue = Tail(q)]
  <2>0. q \in Seq(Nat) /\ Head(q) \in Nat /\ Tail(q) \in Seq(Nat)
    BY <1>0, <1>1 DEF ConsoleNameOk
  <2>1. cn' = [cn EXCEPT ![t] = y] /\ mcs' = [mcs EXCEPT ![x.name] = m]
    BY <1>0, <1>1 DEF CnSet
  <2>2. /\ ConsoleOk(y) /\ y.pc = "read" /\ ConsoleFields \subseteq DOMAIN y
        /\ y.name = x.name /\ y.active = x.active
    <3>1. ConsoleOk(y) /\ y.pc = "read"
      BY <1>0, <2>0, LineCopied
    <3>2. ConsoleFields \subseteq DOMAIN y /\ y.name = x.name /\ y.active = x.active
      BY <1>0 DEF ConsoleFields, extract_text
    <3> QED
      BY <3>1, <3>2
  <2>3. m.owner = mcs[x.name].owner /\ ConsoleNameOk(m)
    BY <1>0, <2>0 DEF ConsoleNameOk
  <2> HIDE DEF y, m
  <2>4. DOMAIN mcs' = CnNames /\ \A k \in CnNames : /\ mcs'[k].owner = mcs[k].owner
                                                    /\ ConsoleNameOk(mcs'[k])
    BY <1>0, <2>1, <2>3 DEF ConsoleInv
  <2>5. \A k \in CnNames : mcs'[k].owner = t => OwnsConsole(y, k)
    BY <1>0, <2>2, <2>4 DEF ConsoleInv, OwnsConsole, ConsoleOk
  <2> QED
    BY <2>1, <2>2, <2>4, <2>5, OneConsole
<1>2. CASE (CnSet(t, [x EXCEPT !.pc = "close"]) \/ CnSet(t, Failed(x))) /\ mcs' = mcs
  BY <1>2, QuietStep
<1> QED
  BY <1>1, <1>2 DEF zcnm1get

\* The console goes, or is refused to go and on record as stuck.
LEMMA DeactivateStep ==
  ASSUME ConsoleInv, NEW t \in CnTasks, zcn_deactivate(t) \/ ZCNDACT(t) \/ ZcnSession(t)
  PROVE  ConsoleInv'
<1> DEFINE x == cn[t]
<1>0. /\ ConsoleFields \subseteq DOMAIN x /\ ConsoleOk(x) /\ DOMAIN mcs = CnNames
  BY DEF ConsoleInv
<1>1. CASE zcn_deactivate(t)
  <2> DEFINE y == [x EXCEPT !.ecb = "null", !.active = FALSE, !.pc = "dact"]
  <2>1. /\ ConsoleFields \subseteq DOMAIN y /\ y.pc = "dact" /\ ~y.active /\ y.name = x.name
        /\ y.timer = x.timer /\ y.stuck = x.stuck /\ SameLines(x, y)
    BY <1>0 DEF ConsoleFields, SameLines
  <2>2. cn' = [cn EXCEPT ![t] = y] /\ mcs' = mcs /\ x.active /\ x.pc \in {"close", "unwind"}
    BY <1>1 DEF zcn_deactivate, CnSet
  <2> HIDE DEF y
  <2>3. ConsoleOk(y)
    BY <1>0, <2>1, <2>2 DEF ConsoleOk, SameLines
  <2>4. \A n \in CnNames : OwnsConsole(x, n) => OwnsConsole(y, n)
    BY <2>1 DEF OwnsConsole
  <2> QED
    BY <2>1, <2>2, <2>3, <2>4, SameConsoles
<1>2. CASE x.pc = "dact" /\ mcs' = [mcs EXCEPT ![x.name] = NoConsole] /\ CnSet(t, [x EXCEPT !.pc = "end"])
  <2> DEFINE y == [x EXCEPT !.pc = "end"]
  <2>1. /\ ConsoleFields \subseteq DOMAIN y /\ y.pc = "end" /\ y.active = x.active
        /\ y.timer = x.timer /\ y.stuck = x.stuck /\ SameLines(x, y) /\ y.name = x.name
    BY <1>0 DEF ConsoleFields, SameLines
  <2>2. cn' = [cn EXCEPT ![t] = y]
    BY <1>2 DEF CnSet
  <2> HIDE DEF y
  <2>3. ConsoleOk(y)
    BY <1>0, <1>2, <2>1 DEF ConsoleOk, SameLines
  <2>4. ConsoleNameOk(NoConsole) /\ NoConsole.owner = CnNone
    BY DEF ConsoleNameOk, NoConsole
  <2>5. DOMAIN mcs' = CnNames /\ \A k \in CnNames : mcs'[k] = IF k = x.name THEN NoConsole ELSE mcs[k]
    BY <1>0, <1>2
  <2> HIDE DEF x
  <2>6. ASSUME NEW k \in CnNames, NEW u \in CnTasks, mcs'[k].owner = u
        PROVE  k # x.name /\ mcs[k].owner = u
    <3>1. ASSUME k = x.name PROVE FALSE
      <4>1. mcs'[k] = NoConsole
        BY <2>5, <3>1
      <4>2. u = CnNone
        BY <2>4, <2>6, <4>1
      <4> QED
        BY <4>2, ConsoleAssumption
    <3> QED
      BY <2>5, <2>6, <3>1
  <2>7. ASSUME NEW k \in CnNames, mcs'[k].owner = t
        PROVE  OwnsConsole(y, k)
    <3>1. k # x.name /\ mcs[k].owner = t
      BY <2>6, <2>7
    <3>2. OwnsConsole(x, k)
      BY <3>1 DEF ConsoleInv, x
    <3> QED
      BY <3>1, <3>2 DEF OwnsConsole
  <2>8. \A k \in CnNames : ConsoleNameOk(mcs'[k])
    BY <2>4, <2>5 DEF ConsoleInv
  <2> QED
    <3>1. \A k \in CnNames, u \in CnTasks \ {t} : mcs'[k].owner = u => mcs[k].owner = u
      BY <2>6
    <3>2. \A k \in CnNames : mcs'[k].owner = t => OwnsConsole(y, k)
      BY <2>7
    <3>3. DOMAIN mcs' = CnNames /\ ConsoleFields \subseteq DOMAIN y
      BY <2>1, <2>5
    <3> QED
      BY <2>2, <2>3, <2>8, <3>1, <3>2, <3>3, OneConsole
<1>3. CASE x.pc = "dact" /\ CnSet(t, [x EXCEPT !.pc = "end", !.stuck = TRUE, !.rc = 1]) /\ mcs' = mcs
  <2> DEFINE y == [x EXCEPT !.pc = "end", !.stuck = TRUE, !.rc = 1]
  <2>1. /\ ConsoleFields \subseteq DOMAIN y /\ y.pc = "end" /\ y.active = x.active
        /\ y.timer = x.timer /\ y.stuck /\ SameLines(x, y) /\ y.name = x.name
    BY <1>0 DEF ConsoleFields, SameLines
  <2>2. cn' = [cn EXCEPT ![t] = y]
    BY <1>3 DEF CnSet
  <2> HIDE DEF y
  <2>3. ConsoleOk(y)
    BY <1>0, <1>3, <2>1 DEF ConsoleOk, SameLines
  <2>4. \A n \in CnNames : OwnsConsole(x, n) => OwnsConsole(y, n)
    BY <2>1 DEF OwnsConsole
  <2> QED
    BY <1>3, <2>1, <2>2, <2>3, <2>4, SameConsoles
<1>4. CASE ZcnSession(t)
  <2> DEFINE y == [x EXCEPT !.pc = "end"]
  <2>1. /\ ConsoleFields \subseteq DOMAIN y /\ y.pc = "end" /\ y.active = x.active
        /\ y.timer = x.timer /\ y.stuck = x.stuck /\ SameLines(x, y) /\ y.name = x.name
    BY <1>0 DEF ConsoleFields, SameLines
  <2>2. cn' = [cn EXCEPT ![t] = y] /\ mcs' = mcs /\ x.pc = "unwind" /\ ~x.active
    BY <1>4 DEF ZcnSession, CnSet, CnAt
  <2> HIDE DEF y
  <2>3. ConsoleOk(y)
    BY <1>0, <2>1, <2>2 DEF ConsoleOk, SameLines
  <2>4. \A n \in CnNames : OwnsConsole(x, n) => OwnsConsole(y, n)
    BY <2>1, <2>2 DEF OwnsConsole
  <2> QED
    BY <2>1, <2>2, <2>3, <2>4, SameConsoles
<1> QED
  BY <1>1, <1>2, <1>3, <1>4 DEF ZCNDACT, CnAt

\* An abend: the recovery routine retries, or the task ends with its consoles.
LEMMA RecoveryStep ==
  ASSUME ConsoleInv, NEW t \in CnTasks, enable_recovery(t)
  PROVE  ConsoleInv'
<1> DEFINE x == cn[t]
<1>0. /\ ConsoleFields \subseteq DOMAIN x /\ ConsoleOk(x) /\ DOMAIN mcs = CnNames
      /\ x.pc \in {"put", "arm", "wait", "read", "retry"}
  BY DEF ConsoleInv, enable_recovery
<1>1. CASE /\ CnSet(t, [x EXCEPT !.pc = "terminated", !.timer = FALSE])
           /\ mcs' = [n \in CnNames |-> IF mcs[n].owner = t THEN NoConsole ELSE mcs[n]]
  <2> DEFINE y == [x EXCEPT !.pc = "terminated", !.timer = FALSE]
  <2>1. /\ ConsoleFields \subseteq DOMAIN y /\ y.pc = "terminated" /\ ~y.timer
        /\ y.stuck = x.stuck /\ SameLines(x, y) /\ y.name = x.name /\ y.active = x.active
    BY <1>0 DEF ConsoleFields, SameLines
  <2>2. cn' = [cn EXCEPT ![t] = y]
    BY <1>1 DEF CnSet
  <2> HIDE DEF y
  <2>3. ConsoleOk(y)
    BY <1>0, <2>1 DEF ConsoleOk, SameLines
  <2>4. ConsoleNameOk(NoConsole) /\ NoConsole.owner = CnNone
    BY DEF ConsoleNameOk, NoConsole
  <2>5. DOMAIN mcs' = CnNames
        /\ \A k \in CnNames : mcs'[k] = IF mcs[k].owner = t THEN NoConsole ELSE mcs[k]
    BY <1>1
  <2>6. ASSUME NEW k \in CnNames, NEW u \in CnTasks, mcs'[k].owner = u
        PROVE  u # t /\ mcs[k].owner = u
    <3>1. ASSUME mcs[k].owner = t PROVE FALSE
      <4>1. mcs'[k] = NoConsole
        BY <2>5, <3>1
      <4>2. u = CnNone
        BY <2>4, <2>6, <4>1
      <4> QED
        BY <4>2, ConsoleAssumption
    <3>2. mcs'[k] = mcs[k]
      BY <2>5, <3>1
    <3> QED
      BY <2>6, <3>1, <3>2
  <2>7. \A k \in CnNames : mcs'[k].owner = t => OwnsConsole(y, k)
    BY <2>6
  <2>8. \A k \in CnNames : ConsoleNameOk(mcs'[k])
    BY <2>4, <2>5 DEF ConsoleInv
  <2>9. \A k \in CnNames, u \in CnTasks \ {t} : mcs'[k].owner = u => mcs[k].owner = u
    BY <2>6
  <2>10. DOMAIN mcs' = CnNames /\ ConsoleFields \subseteq DOMAIN y
    BY <2>1, <2>5
  <2> QED
    BY <2>2, <2>3, <2>7, <2>8, <2>9, <2>10, OneConsole
<1>2. CASE /\ CnSet(t, IF x.pc \in {"arm", "wait", "read"}
                       THEN ZCNMABEX([x EXCEPT !.entered = TRUE, !.pc = "retry"])
                       ELSE [x EXCEPT !.entered = TRUE, !.pc = "retry"])
           /\ mcs' = mcs
  <2> DEFINE r == [x EXCEPT !.entered = TRUE, !.pc = "retry"]
             y == IF x.pc \in {"arm", "wait", "read"} THEN ZCNMABEX(r) ELSE r
  <2>1. /\ ConsoleFields \subseteq DOMAIN r /\ r.pc = "retry" /\ r.ecb = x.ecb /\ r.timer = x.timer
        /\ Continues(x, r)
    BY <1>0 DEF ConsoleFields, Continues, SameLines
  <2>2. r.ecb # "null"
    BY <1>0, <2>1 DEF ConsoleOk
  <2>3. cn' = [cn EXCEPT ![t] = y]
    BY <1>2 DEF CnSet
  <2> HIDE DEF r
  <2>4. /\ y.pc = "retry" /\ ~y.timer /\ y.ecb # "null" /\ Continues(r, y)
    <3>1. CASE x.pc \in {"arm", "wait", "read"}
      <4> DEFINE z == STIMERM_CANCEL(ECB_POST(r))
      <4>1. z.pc = "retry" /\ ~z.timer /\ z.ecb = "posted" /\ Continues(r, z)
        BY <2>1, <2>2 DEF STIMERM_CANCEL, ECB_POST, ConsoleFields, Continues, SameLines
      <4>2. y = z
        BY <2>2, <3>1 DEF ZCNMABEX
      <4> QED
        BY <4>1, <4>2
    <3>2. CASE x.pc \notin {"arm", "wait", "read"}
      <4>1. y = r /\ ~x.timer
        BY <1>0, <3>2 DEF ConsoleOk
      <4> QED
        BY <2>1, <2>2, <4>1 DEF Continues, SameLines
    <3> QED
      BY <3>1, <3>2
  <2> HIDE DEF y
  <2>5. Continues(x, y)
    BY <2>1, <2>4 DEF Continues, SameLines
  <2> QED
    BY <1>0, <1>2, <2>3, <2>4, <2>5, ContinuesStep
<1> QED
  BY <1>1, <1>2 DEF enable_recovery, ZRCVYARR

\* A line arrives at a console and posts its owner's block.
LEMMA DeliverStep ==
  ASSUME ConsoleInv, NEW n \in CnNames, Deliver(n)
  PROVE  ConsoleInv'
<1> DEFINE q == Append(mcs[n].queue, Head(mcs[n].due))
           m == [mcs[n] EXCEPT !.due = Tail(mcs[n].due), !.queue = q]
           o == mcs[n].owner
           y == ECB_POST(cn[o])
<1>0. DOMAIN mcs = CnNames /\ ConsoleNameOk(mcs[n]) /\ DOMAIN cn = CnTasks
  BY DEF ConsoleInv
<1>1. mcs' = [mcs EXCEPT ![n] = m] /\ cn' = [cn EXCEPT ![o] = y] /\ mcs[n].due # <<>>
  BY <1>0 DEF Deliver
<1>2. /\ mcs[n].due \in Seq(Nat) /\ Head(mcs[n].due) \in Nat /\ Tail(mcs[n].due) \in Seq(Nat)
      /\ q \in Seq(Nat)
  BY <1>0, <1>1 DEF ConsoleNameOk
<1> HIDE DEF q
<1>3. ConsoleNameOk(m) /\ m.owner = o
  BY <1>0, <1>2 DEF ConsoleNameOk
<1> HIDE DEF m, o, y
<1>4. DOMAIN mcs' = CnNames /\ \A k \in CnNames : /\ mcs'[k].owner = mcs[k].owner
                                                  /\ ConsoleNameOk(mcs'[k])
  BY <1>0, <1>1, <1>3 DEF ConsoleInv, o
<1>5. DOMAIN cn' = CnTasks /\ \A u \in CnTasks : cn'[u] = IF u = o THEN y ELSE cn[u]
  BY <1>0, <1>1
<1>6. ASSUME NEW u \in CnTasks
      PROVE  /\ ConsoleFields \subseteq DOMAIN cn'[u] /\ ConsoleOk(cn'[u])
             /\ \A k \in CnNames : OwnsConsole(cn[u], k) => OwnsConsole(cn'[u], k)
  <2>0. ConsoleFields \subseteq DOMAIN cn[u] /\ ConsoleOk(cn[u])
    BY DEF ConsoleInv
  <2>1. CASE u = o /\ cn[u].ecb # "null"
    <3> DEFINE z == [cn[u] EXCEPT !.ecb = "posted"]
    <3>1. cn'[u] = z
      BY <1>5, <2>1 DEF y, ECB_POST
    <3>2. /\ Continues(cn[u], z) /\ z.pc = cn[u].pc /\ z.timer = cn[u].timer /\ z.ecb = "posted"
      BY <2>0 DEF Continues, SameLines, ConsoleFields
    <3> HIDE DEF z
    <3>3. ConsoleOk(z)
      BY <2>0, <3>2 DEF ConsoleOk, Continues, SameLines
    <3> QED
      BY <3>1, <3>2, <3>3 DEF Continues, OwnsConsole
  <2>2. CASE u # o \/ cn[u].ecb = "null"
    BY <1>5, <2>0, <2>2 DEF y, ECB_POST
  <2> QED
    BY <2>1, <2>2
<1>7. \A k \in CnNames, u \in CnTasks : mcs'[k].owner = u => OwnsConsole(cn'[u], k)
  BY <1>4, <1>6 DEF ConsoleInv
<1> QED
  BY <1>4, <1>5, <1>6, <1>7 DEF ConsoleInv, ConsoleOk, OwnsConsole, ConsoleNameOk, CnNames

\* A step of a session or of the system keeps the invariant.
LEMMA ConsoleStep ==
  ASSUME ConsoleInv, [CnNext]_cnVars
  PROVE  ConsoleInv'
<1>1. CASE UNCHANGED cnVars
  BY <1>1 DEF ConsoleInv, cnVars
<1>2. CASE \E n \in CnNames : Deliver(n)
  BY <1>2, DeliverStep
<1>3. CASE \E t \in CnTasks :
        \/ handle_console_issue(t) \/ zcn_put(t) \/ zcn_get(t) \/ ZCNGET(t)
        \/ zcnm1get(t) \/ zcn_deactivate(t) \/ ZCNDACT(t) \/ ZcnSession(t)
        \/ ZCNTIMER(t) \/ enable_recovery(t) \/ disable_recovery(t)
  BY <1>3, ActivateStep, PutStep, QuietStep, ReadMessageStep, DeactivateStep, RecoveryStep
<1> QED
  BY <1>1, <1>2, <1>3 DEF CnNext

\* Sessions begin in order.
LEMMA ConsoleBegin == CnInit => ConsoleInv
<1> SUFFICES ASSUME CnInit PROVE ConsoleInv
  OBVIOUS
<1>1. DOMAIN cn = CnTasks /\ mcs = [n \in CnNames |-> NoConsole]
  BY DEF CnInit
<1>2. ASSUME NEW t \in CnTasks
      PROVE  ConsoleFields \subseteq DOMAIN cn[t] /\ ConsoleOk(cn[t])
  <2> DEFINE x == [pc |-> "idle", name |-> CnNone, wait |-> FALSE,
             ecb |-> "null", active |-> FALSE, timer |-> FALSE, entered |-> FALSE,
             out |-> <<>>, seen |-> <<>>, needed |-> 0, stuck |-> FALSE, rc |-> 0]
  <2>1. cn[t] = x
    BY DEF CnInit
  <2>2. ConsoleFields \subseteq DOMAIN x
    BY DEF ConsoleFields
  <2>3. x.needed = 0 /\ x.out = <<>> /\ x.seen = <<>>
    OBVIOUS
  <2>4. x.pc = "idle" /\ ~x.timer /\ ~x.active /\ ~x.stuck
    OBVIOUS
  <2> HIDE DEF x
  <2>5. ConsoleOk(x)
    BY <2>3, <2>4 DEF ConsoleOk
  <2> QED
    BY <2>1, <2>2, <2>5
<1>3. ASSUME NEW n \in CnNames
      PROVE  ConsoleNameOk(mcs[n]) /\ \A t \in CnTasks : mcs[n].owner # t
  <2>1. ConsoleNameOk(NoConsole) /\ NoConsole.owner = CnNone
    BY DEF ConsoleNameOk, NoConsole
  <2>2. mcs[n] = NoConsole
    BY <1>1
  <2> QED
    BY <2>1, <2>2, ConsoleAssumption
<1> QED
  BY <1>1, <1>2, <1>3 DEF ConsoleInv

\* What the invariant says of waiting, of the answer and of what is given back.
LEMMA ConsoleSafe == ConsoleInv => ConsoleAnswers /\ ConsoleReleased
<1> SUFFICES ASSUME ConsoleInv PROVE ConsoleAnswers /\ ConsoleReleased
  OBVIOUS
<1>1. WaitHasTimer
  BY DEF ConsoleInv, ConsoleOk, WaitHasTimer, CnAt
<1>2. ASSUME NEW t \in CnTasks
      PROVE  cn[t].out = SubSeq(cn[t].seen, 1, Len(cn[t].out))
  <2> DEFINE a == cn[t].out
             b == cn[t].seen
  <2>1. /\ a \in Seq(Nat) /\ b \in Seq(Nat) /\ Len(a) <= Len(b)
        /\ \A i \in 1..Len(a) : a[i] = b[i]
    BY DEF ConsoleInv, ConsoleOk
  <2> HIDE DEF a, b
  <2> DEFINE c == SubSeq(b, 1, Len(a))
  <2>2. c \in Seq(Nat) /\ Len(c) = Len(a) /\ \A i \in 1..Len(a) : c[i] = b[i]
    BY <2>1
  <2> HIDE DEF c
  <2>3. a = c
    <3> DEFINE n == Len(a)
    <3>1. a \in [1..n -> Nat] /\ c \in [1..n -> Nat]
      BY <2>1, <2>2
    <3>2. \A i \in 1..n : a[i] = c[i]
      BY <2>1, <2>2
    <3> HIDE DEF n
    <3>3. a = [i \in 1..n |-> a[i]] /\ c = [i \in 1..n |-> c[i]]
      BY <3>1, Zenon
    <3>4. [i \in 1..n |-> a[i]] = [i \in 1..n |-> c[i]]
      BY <3>2, Zenon
    <3> QED
      BY <3>3, <3>4, Zenon
  <2> QED
    BY <2>3 DEF a, b, c
<1>3. ConsoleReleased
  BY DEF ConsoleInv, ConsoleOk, OwnsConsole, ConsoleReleased, CnAt
<1> QED
  BY <1>1, <1>2, <1>3 DEF ConsoleAnswers, ResponseHasNoHole

-----------------------------------------------------------------------------
(* Key rings *)

RingFields == {"job", "pc", "left", "read", "got", "more", "handle", "put", "rc", "warning", "needs"}

(* An operation x has an enumeration handle only inside the loop, and      *)
(* leaves a class unrefreshed only with a word about it.                   *)
KeyRingOk(x) ==
  /\ x.handle => x.pc \in {"next", "abort"}
  /\ x.needs => x.pc = "end" /\ (x.rc = 0 => x.warning)

KeyRingInv ==
  /\ DOMAIN kr = KrTasks
  /\ \A t \in KrTasks : RingFields \subseteq DOMAIN kr[t] /\ KeyRingOk(kr[t])

\* One operation moves on.
LEMMA OneRing ==
  ASSUME KeyRingInv, NEW t \in KrTasks, NEW y, KrSet(t, y), RingFields \subseteq DOMAIN y, KeyRingOk(y)
  PROVE  KeyRingInv'
BY DEF KeyRingInv, KrSet

(* An operation about to end: out of the loop, and with nothing unsaid.    *)
RingLoose(x) == RingFields \subseteq DOMAIN x /\ ~x.handle
RingFrank(x) == RingLoose(x) /\ (x.needs => x.warning)

\* How an operation ends.
LEMMA RingEnds ==
  ASSUME NEW x, RingLoose(x)
  PROVE  /\ RingFields \subseteq DOMAIN record_saf_error(x) /\ KeyRingOk(record_saf_error(x))
         /\ RingFields \subseteq DOMAIN Succeed(x) /\ (RingFrank(x) => KeyRingOk(Succeed(x)))
         /\ RingFrank(note_saf_warning(x))
         /\ \A b : RingLoose([x EXCEPT !.needs = b])
         /\ RingFrank([x EXCEPT !.needs = FALSE])
         /\ \A q \in AutoRefresh(x) : RingFrank(q)
<1>0. RingFields \subseteq DOMAIN x /\ ~x.handle
  BY DEF RingLoose
<1>1. RingFields \subseteq DOMAIN record_saf_error(x) /\ KeyRingOk(record_saf_error(x))
  <2> DEFINE y == [x EXCEPT !.pc = "end", !.rc = 8]
  <2>1. /\ RingFields \subseteq DOMAIN y /\ y.pc = "end" /\ y.rc = 8 /\ ~y.handle
    BY <1>0 DEF RingFields
  <2>2. y = record_saf_error(x)
    BY DEF record_saf_error
  <2> HIDE DEF y
  <2> QED
    BY <2>1, <2>2 DEF KeyRingOk
<1>2. RingFields \subseteq DOMAIN Succeed(x) /\ (RingFrank(x) => KeyRingOk(Succeed(x)))
  <2> DEFINE y == [x EXCEPT !.pc = "end", !.rc = 0]
  <2>1. /\ RingFields \subseteq DOMAIN y /\ y.pc = "end" /\ ~y.handle
        /\ y.needs = x.needs /\ y.warning = x.warning
    BY <1>0 DEF RingFields
  <2>2. y = Succeed(x)
    BY DEF Succeed
  <2> HIDE DEF y
  <2> QED
    BY <2>1, <2>2 DEF KeyRingOk, RingFrank
<1>3. RingFrank(note_saf_warning(x))
  BY <1>0 DEF note_saf_warning, RingFrank, RingLoose, RingFields
<1>4. \A b : RingLoose([x EXCEPT !.needs = b])
  BY <1>0 DEF RingLoose, RingFields
<1>5. RingFrank([x EXCEPT !.needs = FALSE])
  BY <1>0 DEF RingFrank, RingLoose, RingFields
<1> QED
  BY <1>1, <1>2, <1>3, <1>4, <1>5 DEF AutoRefresh

\* An operation that is neither in the loop nor over.
LEMMA RingAtCall ==
  ASSUME KeyRingInv, NEW t \in KrTasks, kr[t].pc \in {"idle", "first", "call", "put"}
  PROVE  RingFrank(kr[t]) /\ RingLoose(kr[t])
BY DEF KeyRingInv, KeyRingOk, RingFrank, RingLoose

\* The answer of a change, with what the ESM wants refreshed.
LEMMA ChangeAnswered ==
  ASSUME KeyRingInv, NEW t \in KrTasks, kr[t].pc \in {"call", "put"}, NEW b \in BOOLEAN,
         \/ KrSet(t, record_saf_error([kr[t] EXCEPT !.needs = b]))
         \/ ~b /\ KrSet(t, Succeed([kr[t] EXCEPT !.needs = b]))
         \/ KrSet(t, Succeed(note_saf_warning([kr[t] EXCEPT !.needs = b])))
         \/ \E q \in AutoRefresh([kr[t] EXCEPT !.needs = b]) :
               KrSet(t, Succeed(q)) \/ KrSet(t, Succeed(note_saf_warning(q)))
  PROVE  KeyRingInv'
<1> DEFINE x == kr[t]
           r == [x EXCEPT !.needs = b]
<1>1. RingLoose(r)
  BY RingAtCall, RingEnds
<1>2. r.needs = b
  BY DEF KeyRingInv, RingFields
<1> HIDE DEF r
<1>3. CASE KrSet(t, record_saf_error(r))
  BY <1>1, <1>3, RingEnds, OneRing
<1>4. CASE ~b /\ KrSet(t, Succeed(r))
  <2>1. RingFrank(r)
    BY <1>1, <1>2, <1>4 DEF RingFrank
  <2> QED
    BY <1>1, <1>4, <2>1, RingEnds, OneRing
<1>5. CASE \E q : (q = note_saf_warning(r) \/ q \in AutoRefresh(r)) /\ KrSet(t, Succeed(q))
  <2>1. PICK q : (q = note_saf_warning(r) \/ q \in AutoRefresh(r)) /\ KrSet(t, Succeed(q))
    BY <1>5
  <2>2. RingFrank(q) /\ RingLoose(q)
    BY <1>1, <2>1, RingEnds DEF RingFrank
  <2>3. RingFields \subseteq DOMAIN Succeed(q) /\ KeyRingOk(Succeed(q))
    BY <2>2, RingEnds
  <2> QED
    BY <2>1, <2>3, OneRing
<1>6. CASE \E q \in AutoRefresh(r) : KrSet(t, Succeed(note_saf_warning(q)))
  <2>1. PICK q \in AutoRefresh(r) : KrSet(t, Succeed(note_saf_warning(q)))
    BY <1>6
  <2>2. RingLoose(q)
    BY <1>1, <2>1, RingEnds DEF RingFrank
  <2>3. RingFrank(note_saf_warning(q)) /\ RingLoose(note_saf_warning(q))
    BY <2>2, RingEnds DEF RingFrank
  <2>4. RingFields \subseteq DOMAIN Succeed(note_saf_warning(q)) /\ KeyRingOk(Succeed(note_saf_warning(q)))
    BY <2>3, RingEnds
  <2> QED
    BY <2>1, <2>4, OneRing
<1> QED
  BY <1>3, <1>4, <1>5, <1>6 DEF r

\* A failure or an answer without parameters of its own.
LEMMA PlainAnswer ==
  ASSUME KeyRingInv, NEW t \in KrTasks, kr[t].pc \in {"first", "call", "put"},
         \/ KrSet(t, record_saf_error(kr[t])) \/ KrSet(t, Succeed(kr[t]))
         \/ \E w \in BOOLEAN : KrSet(t, Succeed([kr[t] EXCEPT !.warning = w]))
  PROVE  KeyRingInv'
<1> DEFINE x == kr[t]
<1>1. RingFrank(x) /\ RingLoose(x) /\ ~x.needs
  BY RingAtCall DEF KeyRingInv, KeyRingOk
<1>2. CASE KrSet(t, record_saf_error(kr[t])) \/ KrSet(t, Succeed(kr[t]))
  BY <1>1, <1>2, RingEnds, OneRing
<1>3. CASE \E w \in BOOLEAN : KrSet(t, Succeed([x EXCEPT !.warning = w]))
  <2>1. PICK w \in BOOLEAN : KrSet(t, Succeed([x EXCEPT !.warning = w]))
    BY <1>3
  <2> DEFINE y == [x EXCEPT !.warning = w]
  <2>2. RingFrank(y) /\ RingLoose(y)
    BY <1>1 DEF RingFrank, RingLoose, RingFields
  <2> HIDE DEF y
  <2>3. RingFields \subseteq DOMAIN Succeed(y) /\ KeyRingOk(Succeed(y))
    BY <2>2, RingEnds
  <2> QED
    BY <2>1, <2>3, OneRing DEF y
<1> QED
  BY <1>2, <1>3

\* The operations of one call.
LEMMA RingCallStep ==
  ASSUME KeyRingInv, NEW t \in KrTasks, kr[t].pc = "call",
         \/ zkr_new_ring(t) \/ zkr_del_ring(t) \/ zkr_refresh(t) \/ zkr_del_cert(t)
         \/ zkr_import_cert(t) \/ zkr_alter_cert(t) \/ zkr_list_rings(t) \/ zkr_export_cert(t)
  PROVE  KeyRingInv'
<1> DEFINE x == kr[t]
<1>1. CASE zkr_new_ring(t) \/ zkr_del_ring(t) \/ zkr_refresh(t) \/ zkr_export_cert(t)
  <2>1. \/ KrSet(t, record_saf_error(kr[t])) \/ KrSet(t, Succeed(kr[t]))
        \/ \E w \in BOOLEAN : KrSet(t, Succeed([kr[t] EXCEPT !.warning = w]))
    BY <1>1 DEF zkr_new_ring, zkr_del_ring, zkr_refresh, zkr_export_cert, simple_action
  <2> QED
    BY <2>1, PlainAnswer
<1>2. CASE zkr_del_cert(t)
  <2>1. PICK out : LET r == [kr[t] EXCEPT !.needs = Refreshing(out[1])] IN
           \/ saf_failed(out[1]) /\ KrSet(t, record_saf_error(r))
           \/ /\ Refreshing(out[1]) /\ ~ x.job.skip
              /\ \E q \in AutoRefresh(r) : KrSet(t, Succeed(q))
           \/ /\ Refreshing(out[1]) /\ x.job.skip
              /\ KrSet(t, Succeed(note_saf_warning(r)))
           \/ out[1] = "partly" /\ KrSet(t, Succeed(note_saf_warning(r)))
           \/ out[1] = "ok" /\ KrSet(t, Succeed(r))
    BY <1>2 DEF zkr_del_cert
  <2> DEFINE b == Refreshing(out[1])
  <2>2. b \in BOOLEAN /\ (out[1] = "ok" => ~b)
    BY DEF Refreshing
  <2> HIDE DEF b
  <2>3. \/ KrSet(t, record_saf_error([kr[t] EXCEPT !.needs = b]))
        \/ ~b /\ KrSet(t, Succeed([kr[t] EXCEPT !.needs = b]))
        \/ KrSet(t, Succeed(note_saf_warning([kr[t] EXCEPT !.needs = b])))
        \/ \E q \in AutoRefresh([kr[t] EXCEPT !.needs = b]) :
              KrSet(t, Succeed(q)) \/ KrSet(t, Succeed(note_saf_warning(q)))
    BY <2>1, <2>2, Zenon DEF b
  <2> QED
    BY <2>2, <2>3, ChangeAnswered
<1>3. CASE zkr_import_cert(t)
  <2>0. CASE KrSet(t, record_saf_error(kr[t]))
    BY <2>0, PlainAnswer
  <2>1. CASE \E out : LET r == [kr[t] EXCEPT !.needs = Refreshing(out[1])] IN
             \/ saf_failed(out[1]) /\ KrSet(t, record_saf_error(r))
             \/ /\ Refreshing(out[1]) /\ ~ x.job.skip
                /\ \E q \in AutoRefresh(r) :
                     KrSet(t, Succeed(IF out[1] = "existsRefresh" THEN note_saf_warning(q) ELSE q))
             \/ /\ ~ saf_failed(out[1]) /\ out[1] # "ok" /\ ~ (Refreshing(out[1]) /\ ~ x.job.skip)
                /\ KrSet(t, Succeed(note_saf_warning(r)))
             \/ out[1] = "ok" /\ KrSet(t, Succeed(r))
    <3>1. PICK out : LET r == [kr[t] EXCEPT !.needs = Refreshing(out[1])] IN
             \/ saf_failed(out[1]) /\ KrSet(t, record_saf_error(r))
             \/ /\ Refreshing(out[1]) /\ ~ x.job.skip
                /\ \E q \in AutoRefresh(r) :
                     KrSet(t, Succeed(IF out[1] = "existsRefresh" THEN note_saf_warning(q) ELSE q))
             \/ /\ ~ saf_failed(out[1]) /\ out[1] # "ok" /\ ~ (Refreshing(out[1]) /\ ~ x.job.skip)
                /\ KrSet(t, Succeed(note_saf_warning(r)))
             \/ out[1] = "ok" /\ KrSet(t, Succeed(r))
      BY <2>1
    <3> DEFINE b == Refreshing(out[1])
    <3>2. b \in BOOLEAN /\ (out[1] = "ok" => ~b)
      BY DEF Refreshing
    <3> HIDE DEF b
    <3>3. \/ KrSet(t, record_saf_error([kr[t] EXCEPT !.needs = b]))
          \/ ~b /\ KrSet(t, Succeed([kr[t] EXCEPT !.needs = b]))
          \/ KrSet(t, Succeed(note_saf_warning([kr[t] EXCEPT !.needs = b])))
          \/ \E q \in AutoRefresh([kr[t] EXCEPT !.needs = b]) :
                KrSet(t, Succeed(q)) \/ KrSet(t, Succeed(note_saf_warning(q)))
      BY <3>1, <3>2, Zenon DEF b
    <3> QED
      BY <3>2, <3>3, ChangeAnswered
  <2> QED
    BY <1>3, <2>0, <2>1, Zenon DEF zkr_import_cert
<1>4. CASE zkr_alter_cert(t)
  <2>1. \/ KrSet(t, record_saf_error(kr[t]))
        \/ \E b \in BOOLEAN : LET r == [kr[t] EXCEPT !.needs = b]
                              IN  KrSet(t, Succeed(IF b THEN note_saf_warning(r) ELSE r))
    BY <1>4, Zenon DEF zkr_alter_cert
  <2>2. CASE KrSet(t, record_saf_error(kr[t]))
    BY <2>2, PlainAnswer
  <2>3. CASE \E b \in BOOLEAN : LET r == [kr[t] EXCEPT !.needs = b]
                                IN  KrSet(t, Succeed(IF b THEN note_saf_warning(r) ELSE r))
    <3>1. PICK b \in BOOLEAN : LET r == [kr[t] EXCEPT !.needs = b]
                               IN  KrSet(t, Succeed(IF b THEN note_saf_warning(r) ELSE r))
      BY <2>3
    <3>2. \/ ~b /\ KrSet(t, Succeed([kr[t] EXCEPT !.needs = b]))
          \/ KrSet(t, Succeed(note_saf_warning([kr[t] EXCEPT !.needs = b])))
      BY <3>1, Zenon
    <3> QED
      BY <3>2, ChangeAnswered
  <2> QED
    BY <2>1, <2>2, <2>3
<1>5. CASE zkr_list_rings(t)
  <2>1. CASE KrSet(t, record_saf_error(kr[t]))
    BY <2>1, PlainAnswer
  <2>2. CASE \E shown, there :
               LET r == Succeed([kr[t] EXCEPT !.got = [q \in shown |-> Cardinality(OnRing(q))]])
               IN  KrSet(t, IF shown = there THEN r ELSE note_saf_warning(r))
    <3>1. PICK shown, there :
               LET r == Succeed([kr[t] EXCEPT !.got = [q \in shown |-> Cardinality(OnRing(q))]])
               IN  KrSet(t, IF shown = there THEN r ELSE note_saf_warning(r))
      BY <2>2
    <3> DEFINE g == [q \in shown |-> Cardinality(OnRing(q))]
               z == [x EXCEPT !.got = g]
    <3> HIDE DEF g
    <3>2. RingFrank(z) /\ RingLoose(z)
      <4>1. RingFrank(x) /\ RingLoose(x)
        BY RingAtCall
      <4> QED
        BY <4>1 DEF RingFrank, RingLoose, RingFields
    <3>3. KrSet(t, Succeed(z)) \/ KrSet(t, note_saf_warning(Succeed(z)))
      BY <3>1, Zenon DEF g
    <3> HIDE DEF z
    <3>4. RingFields \subseteq DOMAIN Succeed(z) /\ KeyRingOk(Succeed(z))
      BY <3>2, RingEnds
    <3> DEFINE y == Succeed(z)
    <3>5. RingFields \subseteq DOMAIN y /\ KeyRingOk(y)
      BY <3>4
    <3> HIDE DEF y
    <3>6. RingFields \subseteq DOMAIN note_saf_warning(y) /\ KeyRingOk(note_saf_warning(y))
      <4> DEFINE v == [y EXCEPT !.warning = TRUE]
      <4>1. /\ RingFields \subseteq DOMAIN v /\ v.warning /\ v.handle = y.handle
            /\ v.pc = y.pc /\ v.needs = y.needs
        BY <3>5 DEF RingFields
      <4> HIDE DEF v
      <4>2. KeyRingOk(v)
        BY <3>5, <4>1 DEF KeyRingOk
      <4> QED
        BY <4>1, <4>2 DEF note_saf_warning, v
    <3> QED
      BY <3>3, <3>4, <3>5, <3>6, OneRing DEF y
  <2> QED
    BY <1>5, <2>1, <2>2, Zenon DEF zkr_list_rings
<1> QED
  BY <1>1, <1>2, <1>3, <1>4, <1>5

\* The handler refuses, or the operation begins.
LEMMA RingAskStep ==
  ASSUME KeyRingInv, NEW t \in KrTasks, NEW j, handle_cert(t, j)
  PROVE  KeyRingInv'
<1> DEFINE x == kr[t]
           p == IF j.op \in {"list", "show", "connect", "setDefault"} THEN "first" ELSE "call"
           a == [x EXCEPT !.job = j, !.pc = p]
           b == [record_saf_error(x) EXCEPT !.job = j]
<1>0. x.pc = "idle" /\ (KrSet(t, a) \/ KrSet(t, b))
  BY DEF handle_cert
<1>1. RingFields \subseteq DOMAIN x /\ ~x.handle /\ ~x.needs
  BY <1>0 DEF KeyRingInv, KeyRingOk
<1> HIDE DEF p
<1>2. RingFields \subseteq DOMAIN a /\ ~a.handle /\ ~a.needs
  BY <1>1 DEF RingFields
<1>3. RingFields \subseteq DOMAIN b /\ ~b.handle /\ ~b.needs
  BY <1>1 DEF RingFields, record_saf_error
<1> HIDE DEF a, b
<1> QED
  BY <1>0, <1>2, <1>3, OneRing DEF KeyRingOk

\* A step in or out of the loop: the handle is there in it only.
LEMMA LoopGoes ==
  ASSUME KeyRingInv, NEW t \in KrTasks, NEW y, KrSet(t, y), RingFields \subseteq DOMAIN y,
         ~y.needs, y.handle => y.pc \in {"next", "abort"}
  PROVE  KeyRingInv'
BY OneRing DEF KeyRingOk

\* The enumeration of a ring.
LEMMA RingLoopStep ==
  ASSUME KeyRingInv, NEW t \in KrTasks,
         \/ GetFirst(t) \/ GetFails(t) \/ zkr_list_ring(t) \/ zkr_show_cert(t)
  PROVE  KeyRingInv'
<1> DEFINE x == kr[t]
<1>0. RingFields \subseteq DOMAIN x /\ KeyRingOk(x)
  BY DEF KeyRingInv
<1>1. CASE GetFirst(t)
  <2>0. x.pc = "first" /\ ~x.needs /\ ~x.handle
    BY <1>0, <1>1 DEF GetFirst, KeyRingOk
  <2>1. CASE KrSet(t, Succeed(x)) \/ KrSet(t, record_saf_error(x))
    BY <2>0, <2>1, PlainAnswer
  <2>2. CASE \E items : KrSet(t, [x EXCEPT !.pc = "next", !.handle = TRUE, !.left = items, !.read = items])
    <3>1. PICK items : KrSet(t, [x EXCEPT !.pc = "next", !.handle = TRUE, !.left = items, !.read = items])
      BY <2>2
    <3> DEFINE y == [x EXCEPT !.pc = "next", !.handle = TRUE, !.left = items, !.read = items]
    <3>2. RingFields \subseteq DOMAIN y /\ y.needs = x.needs /\ y.pc = "next"
      BY <1>0 DEF RingFields
    <3>3. KrSet(t, y)
      BY <3>1
    <3> HIDE DEF y
    <3> QED
      BY <2>0, <3>2, <3>3, LoopGoes
  <2> QED
    BY <1>1, <2>1, <2>2, Zenon DEF GetFirst
<1>2. CASE x.pc = "next"
  <2>0. ~x.needs
    BY <1>0, <1>2 DEF KeyRingOk
  <2>1. \/ \E r : KrSet(t, [x EXCEPT !.pc = "abort", !.rc = r])
        \/ KrSet(t, [x EXCEPT !.pc = "abort"])
        \/ \E m : KrSet(t, [x EXCEPT !.pc = "abort", !.more = m])
        \/ \E p : KrSet(t, [x EXCEPT !.pc = "abort", !.put = p])
        \/ \E l : KrSet(t, [x EXCEPT !.left = l])
        \/ \E l, g : KrSet(t, [x EXCEPT !.left = l, !.got = g])
    <3>1. CASE GetFails(t)
      BY <3>1, Zenon DEF GetFails
    <3>2. CASE zkr_show_cert(t)
      BY <3>2 DEF zkr_show_cert
    <3>3. CASE zkr_list_ring(t)
      BY <3>3 DEF zkr_list_ring
    <3>4. CASE GetFirst(t)
      BY <1>2, <3>4 DEF GetFirst
    <3> QED
      BY <3>1, <3>2, <3>3, <3>4
  <2>2. CASE \E r : KrSet(t, [x EXCEPT !.pc = "abort", !.rc = r])
    <3>1. PICK r : KrSet(t, [x EXCEPT !.pc = "abort", !.rc = r])
      BY <2>2
    <3> DEFINE y == [x EXCEPT !.pc = "abort", !.rc = r]
    <3>2. RingFields \subseteq DOMAIN y /\ y.needs = x.needs /\ y.pc = "abort" /\ KrSet(t, y)
      BY <1>0, <3>1 DEF RingFields
    <3> HIDE DEF y
    <3> QED
      BY <2>0, <3>2, LoopGoes
  <2>3. CASE KrSet(t, [x EXCEPT !.pc = "abort"])
    <3> DEFINE y == [x EXCEPT !.pc = "abort"]
    <3>2. RingFields \subseteq DOMAIN y /\ y.needs = x.needs /\ y.pc = "abort" /\ KrSet(t, y)
      BY <1>0, <2>3 DEF RingFields
    <3> HIDE DEF y
    <3> QED
      BY <2>0, <3>2, LoopGoes
  <2>4. CASE \E m : KrSet(t, [x EXCEPT !.pc = "abort", !.more = m])
    <3>1. PICK m : KrSet(t, [x EXCEPT !.pc = "abort", !.more = m])
      BY <2>4
    <3> DEFINE y == [x EXCEPT !.pc = "abort", !.more = m]
    <3>2. RingFields \subseteq DOMAIN y /\ y.needs = x.needs /\ y.pc = "abort" /\ KrSet(t, y)
      BY <1>0, <3>1 DEF RingFields
    <3> HIDE DEF y
    <3> QED
      BY <2>0, <3>2, LoopGoes
  <2>5. CASE \E p : KrSet(t, [x EXCEPT !.pc = "abort", !.put = p])
    <3>1. PICK p : KrSet(t, [x EXCEPT !.pc = "abort", !.put = p])
      BY <2>5
    <3> DEFINE y == [x EXCEPT !.pc = "abort", !.put = p]
    <3>2. RingFields \subseteq DOMAIN y /\ y.needs = x.needs /\ y.pc = "abort" /\ KrSet(t, y)
      BY <1>0, <3>1 DEF RingFields
    <3> HIDE DEF y
    <3> QED
      BY <2>0, <3>2, LoopGoes
  <2>6. CASE \E l : KrSet(t, [x EXCEPT !.left = l])
    <3>1. PICK l : KrSet(t, [x EXCEPT !.left = l])
      BY <2>6
    <3> DEFINE y == [x EXCEPT !.left = l]
    <3>2. RingFields \subseteq DOMAIN y /\ y.needs = x.needs /\ y.pc = "next" /\ KrSet(t, y)
      BY <1>0, <1>2, <3>1 DEF RingFields
    <3> HIDE DEF y
    <3> QED
      BY <2>0, <3>2, LoopGoes
  <2>7. CASE \E l, g : KrSet(t, [x EXCEPT !.left = l, !.got = g])
    <3>1. PICK l, g : KrSet(t, [x EXCEPT !.left = l, !.got = g])
      BY <2>7
    <3> DEFINE y == [x EXCEPT !.left = l, !.got = g]
    <3>2. RingFields \subseteq DOMAIN y /\ y.needs = x.needs /\ y.pc = "next" /\ KrSet(t, y)
      BY <1>0, <1>2, <3>1 DEF RingFields
    <3> HIDE DEF y
    <3> QED
      BY <2>0, <3>2, LoopGoes
  <2> QED
    BY <2>1, <2>2, <2>3, <2>4, <2>5, <2>6, <2>7
<1> QED
  BY <1>1, <1>2 DEF GetFails, zkr_list_ring, zkr_show_cert

\* Out of the loop: the handle is released first.
LEMMA AbortStep ==
  ASSUME KeyRingInv, NEW t \in KrTasks, DataAbort(t)
  PROVE  KeyRingInv'
<1> DEFINE x == kr[t]
           r == [x EXCEPT !.handle = FALSE, !.left = <<>>]
<1>0. RingFields \subseteq DOMAIN x /\ KeyRingOk(x) /\ x.pc = "abort"
  BY DEF KeyRingInv, DataAbort
<1>1. RingFields \subseteq DOMAIN r /\ ~r.handle /\ ~r.needs
  BY <1>0 DEF RingFields, KeyRingOk
<1>2. \/ KrSet(t, [r EXCEPT !.pc = "end"])
      \/ KrSet(t, Succeed(handle_cert_list(r)))
      \/ KrSet(t, Succeed(r))
      \/ KrSet(t, [r EXCEPT !.pc = "put"])
  BY Zenon DEF DataAbort
<1> HIDE DEF r
<1>3. ASSUME NEW p, KrSet(t, [r EXCEPT !.pc = p]) PROVE KeyRingInv'
  <2> DEFINE y == [r EXCEPT !.pc = p]
  <2>1. RingFields \subseteq DOMAIN y /\ ~y.handle /\ ~y.needs /\ KrSet(t, y)
    BY <1>1, <1>3 DEF RingFields
  <2> HIDE DEF y
  <2> QED
    BY <2>1, LoopGoes
<1>4. CASE KrSet(t, Succeed(r))
  <2>1. RingLoose(r) /\ RingFrank(r)
    BY <1>1 DEF RingLoose, RingFrank
  <2> QED
    BY <1>4, <2>1, RingEnds, OneRing
<1>5. CASE KrSet(t, Succeed(handle_cert_list(r)))
  <2> DEFINE g == zkr_filter_certs(r.got, r.job).items
             m == IF Unfiltered(r.job) THEN r.more ELSE zkr_filter_certs(r.got, r.job).more
             y == [r EXCEPT !.got = g, !.more = m]
  <2>1. handle_cert_list(r) = y
    BY Zenon DEF handle_cert_list
  <2> HIDE DEF g, m
  <2>2. RingLoose(y) /\ RingFrank(y)
    BY <1>1 DEF RingLoose, RingFrank, RingFields
  <2>3. KrSet(t, Succeed(y))
    BY <1>5, <2>1
  <2> HIDE DEF y
  <2> QED
    BY <2>2, <2>3, RingEnds, OneRing
<1> QED
  BY <1>2, <1>3, <1>4, <1>5

\* The second half of a connect.
LEMMA RingPutStep ==
  ASSUME KeyRingInv, NEW t \in KrTasks, zkr_connect_cert(t) \/ zkr_set_default(t)
  PROVE  KeyRingInv'
<1>0. kr[t].pc = "put" /\ \E u, d : data_put_connect(t, u, d)
  BY Zenon DEF zkr_connect_cert, zkr_set_default
<1>1. PICK u, d : data_put_connect(t, u, d)
  BY <1>0
<1>2. PICK out : LET r == [kr[t] EXCEPT !.needs = Refreshing(out[1])] IN
        \/ saf_failed(out[1]) /\ KrSet(t, record_saf_error(r))
        \/ out[1] = "ok" /\ KrSet(t, Succeed(r))
        \/ out[1] \notin {"ok", "fail"} /\ KrSet(t, Succeed(note_saf_warning(r)))
  BY <1>1, Zenon DEF data_put_connect
<1> DEFINE b == Refreshing(out[1])
<1>3. b \in BOOLEAN /\ (out[1] = "ok" => ~b)
  BY DEF Refreshing
<1> HIDE DEF b
<1>4. \/ KrSet(t, record_saf_error([kr[t] EXCEPT !.needs = b]))
      \/ ~b /\ KrSet(t, Succeed([kr[t] EXCEPT !.needs = b]))
      \/ KrSet(t, Succeed(note_saf_warning([kr[t] EXCEPT !.needs = b])))
  BY <1>2, <1>3, Zenon DEF b
<1> QED
  BY <1>0, <1>3, <1>4, ChangeAnswered

\* A step of an operation keeps the invariant.
LEMMA KeyRingStep ==
  ASSUME KeyRingInv, [KrNext]_krVars
  PROVE  KeyRingInv'
<1>1. CASE UNCHANGED krVars
  BY <1>1 DEF KeyRingInv, krVars
<1>2. CASE KrNext
  <2>1. PICK t \in KrTasks :
     \/ \E j \in KrJobs : handle_cert(t, j)
     \/ Call(t, "create") /\ zkr_new_ring(t)
     \/ Call(t, "deleteRing") /\ zkr_del_ring(t)
     \/ Call(t, "refresh") /\ zkr_refresh(t)
     \/ Call(t, "delete") /\ zkr_del_cert(t)
     \/ Call(t, "import") /\ zkr_import_cert(t)
     \/ Call(t, "alter") /\ zkr_alter_cert(t)
     \/ Call(t, "rings") /\ zkr_list_rings(t)
     \/ Call(t, "export") /\ zkr_export_cert(t)
     \/ GetFirst(t) \/ GetFails(t) \/ zkr_list_ring(t) \/ zkr_show_cert(t)
     \/ DataAbort(t) \/ zkr_connect_cert(t) \/ zkr_set_default(t)
    BY <1>2, Zenon DEF KrNext
  <2>2. \A op : Call(t, op) => kr[t].pc = "call"
    BY DEF Call
  <2> QED
    BY <2>1, <2>2, RingAskStep, RingCallStep, RingLoopStep, AbortStep, RingPutStep
<1> QED
  BY <1>1, <1>2

\* Operations begin in order.
LEMMA KeyRingBegin == KrInit => KeyRingInv
<1> SUFFICES ASSUME KrInit PROVE KeyRingInv
  OBVIOUS
<1>1. DOMAIN kr = KrTasks /\ \A t \in KrTasks : kr[t] = KrIdle
  BY DEF KrInit
<1>2. RingFields \subseteq DOMAIN KrIdle /\ KeyRingOk(KrIdle)
  BY DEF RingFields, KeyRingOk, KrIdle
<1> QED
  BY <1>1, <1>2 DEF KeyRingInv

\* What the invariant says of the handle and of the class.
LEMMA KeyRingSafe == KeyRingInv => HandleReleased /\ StaleClassIsReported
BY DEF KeyRingInv, KeyRingOk, HandleReleased, StaleClassIsReported

(* The number of matches among the first i of what was read.               *)
Rank(certs, j, i) == Cardinality({k \in 1..i : Matching(certs[k], j)})

\* Ranks count up by one at each match.
LEMMA RankCounts ==
  ASSUME NEW certs, NEW j
  PROVE  /\ \A i \in Nat : Rank(certs, j, i) \in Nat
         /\ Rank(certs, j, 0) = 0
         /\ \A i \in Nat \ {0} : Rank(certs, j, i) =
                             Rank(certs, j, i - 1) + (IF Matching(certs[i], j) THEN 1 ELSE 0)
         /\ \A i, n \in Nat : i <= n => Rank(certs, j, i) <= Rank(certs, j, n)
<1> DEFINE M(i) == {k \in 1..i : Matching(certs[k], j)}
<1>1. ASSUME NEW i \in Nat PROVE IsFiniteSet(M(i)) /\ Cardinality(M(i)) \in Nat
  <2>1. IsFiniteSet(1..i)
    BY FS_Interval
  <2>2. M(i) \subseteq 1..i
    OBVIOUS
  <2> QED
    BY <2>1, <2>2, FS_Subset, FS_CardinalityType
<1>2. Cardinality(M(0)) = 0
  <2>1. M(0) = {}
    OBVIOUS
  <2> QED
    BY <2>1, FS_EmptySet
<1>3. ASSUME NEW i \in Nat \ {0}
      PROVE  Cardinality(M(i)) = Cardinality(M(i - 1)) + (IF Matching(certs[i], j) THEN 1 ELSE 0)
  <2>0. i - 1 \in Nat
    OBVIOUS
  <2> HIDE DEF M
  <2>1. CASE Matching(certs[i], j)
    <3>1. M(i) = M(i - 1) \cup {i} /\ i \notin M(i - 1)
      BY <2>1 DEF M
    <3> QED
      BY <1>1, <2>0, <2>1, <3>1, FS_AddElement
  <2>2. CASE ~Matching(certs[i], j)
    <3>1. M(i) = M(i - 1)
      BY <2>2 DEF M
    <3> QED
      BY <1>1, <2>0, <2>2, <3>1
  <2> QED
    BY <2>1, <2>2
<1>4. ASSUME NEW i \in Nat, NEW n \in Nat, i <= n PROVE Cardinality(M(i)) <= Cardinality(M(n))
  <2>1. M(i) \subseteq M(n)
    BY <1>4
  <2> HIDE DEF M
  <2> QED
    BY <1>1, <2>1, FS_Subset
<1> QED
  BY <1>1, <1>2, <1>3, <1>4 DEF Rank

\* What the filter's loop has after n certificates.
PageAt(page, certs, j, n) ==
  /\ page.more => j.max # 0 /\ Len(page.items) = j.max /\ Rank(certs, j, n) > j.max
  /\ ~page.more => /\ Len(page.items) = Rank(certs, j, n)
                   /\ j.max # 0 => Rank(certs, j, n) <= j.max
  /\ \A i \in 1..n : Matching(certs[i], j) /\ Rank(certs, j, i) <= Len(page.items)
                       => page.items[Rank(certs, j, i)] = certs[i]

\* One turn of the filter's loop.
LEMMA FilterTurn ==
  ASSUME NEW S, NEW certs \in Seq(S), NEW j, j.max \in Nat, NEW n \in 1..Len(certs),
         NEW page \in [items : Seq(S), more : BOOLEAN], PageAt(page, certs, j, n - 1)
  PROVE  /\ FilterNext(page, certs[n], j) \in [items : Seq(S), more : BOOLEAN]
         /\ PageAt(FilterNext(page, certs[n], j), certs, j, n)
<1> DEFINE R(i) == Rank(certs, j, i)
           x == certs[n]
           new == FilterNext(page, x, j)
           m == Matching(x, j)
<1>1. x \in S
  OBVIOUS
<1>2. /\ R(n - 1) \in Nat /\ R(n) \in Nat /\ R(n) = R(n - 1) + (IF m THEN 1 ELSE 0)
      /\ \A i \in 1..n - 1 : R(i) \in Nat /\ R(i) <= R(n - 1)
      /\ \A i \in 1..n : R(i) \in Nat \ {0} \/ ~Matching(certs[i], j)
  <2>1. n - 1 \in Nat /\ n \in Nat \ {0}
    OBVIOUS
  <2>2. \A i \in 1..n : i - 1 \in Nat /\ i \in Nat \ {0}
    OBVIOUS
  <2> HIDE DEF R
  <2>3. \A i \in 1..n : R(i) = R(i - 1) + (IF Matching(certs[i], j) THEN 1 ELSE 0)
    BY <2>2, RankCounts DEF R
  <2>4. \A i \in 1..n : R(i) \in Nat /\ R(i - 1) \in Nat
    BY <2>2, RankCounts DEF R
  <2>5. ASSUME NEW i \in 1..n - 1 PROVE R(i) \in Nat /\ R(i) <= R(n - 1)
    <3>1. i \in Nat /\ i <= n - 1
      OBVIOUS
    <3> QED
      BY <2>1, <3>1, RankCounts DEF R
  <2>6. R(n) = R(n - 1) + (IF m THEN 1 ELSE 0)
    BY <2>1, <2>3
  <2> QED
    BY <2>1, <2>3, <2>4, <2>5, <2>6
<1>3. /\ page.more => j.max # 0 /\ Len(page.items) = j.max /\ R(n - 1) > j.max
      /\ ~page.more => Len(page.items) = R(n - 1) /\ (j.max # 0 => R(n - 1) <= j.max)
      /\ \A i \in 1..n - 1 : Matching(certs[i], j) /\ R(i) <= Len(page.items)
                               => page.items[R(i)] = certs[i]
  BY DEF PageAt
<1>4. SUFFICES /\ new \in [items : Seq(S), more : BOOLEAN]
               /\ new.more => j.max # 0 /\ Len(new.items) = j.max /\ R(n) > j.max
               /\ ~new.more => Len(new.items) = R(n) /\ (j.max # 0 => R(n) <= j.max)
               /\ \A i \in 1..n : Matching(certs[i], j) /\ R(i) <= Len(new.items)
                                    => new.items[R(i)] = certs[i]
  BY DEF PageAt
<1> HIDE DEF R, x
<1>5. CASE page.more \/ ~m
  <2>1. new = page
    BY <1>5 DEF FilterNext
  <2> HIDE DEF new
  <2>2. \A i \in 1..n : Matching(certs[i], j) /\ R(i) <= Len(page.items) => i \in 1..n - 1
    BY <1>2, <1>3, <1>5 DEF x
  <2> HIDE DEF m
  <2> QED
    BY <1>2, <1>3, <1>5, <2>1, <2>2
<1>6. CASE ~page.more /\ m /\ j.max # 0 /\ Len(page.items) >= j.max
  <2>1. new = [items |-> page.items, more |-> TRUE]
    BY <1>6 DEF FilterNext
  <2> HIDE DEF new, m
  <2>2. R(n - 1) = j.max /\ R(n) = j.max + 1
    BY <1>2, <1>3, <1>6
  <2> QED
    BY <1>2, <1>3, <1>6, <2>1, <2>2
<1>7. CASE ~page.more /\ m /\ (j.max = 0 \/ Len(page.items) < j.max)
  <2>1. new = [items |-> Append(page.items, x), more |-> FALSE]
    BY <1>7 DEF FilterNext
  <2> HIDE DEF new, m
  <2>2. /\ Append(page.items, x) \in Seq(S) /\ Len(Append(page.items, x)) = Len(page.items) + 1
        /\ \A k \in 1..Len(page.items) : Append(page.items, x)[k] = page.items[k]
        /\ Append(page.items, x)[Len(page.items) + 1] = x
    BY <1>1
  <2>3. R(n) = Len(page.items) + 1
    BY <1>2, <1>3, <1>7
  <2>4. ASSUME NEW i \in 1..n, Matching(certs[i], j) PROVE Append(page.items, x)[R(i)] = certs[i]
    <3>1. CASE i = n
      BY <2>2, <2>3, <3>1 DEF x
    <3>2. CASE i # n
      <4>1. i \in 1..n - 1
        BY <3>2
      <4>2. R(i) \in 1..Len(page.items)
        BY <1>2, <1>3, <1>7, <2>4, <4>1
      <4> QED
        BY <1>3, <2>2, <2>4, <4>1, <4>2
    <3> QED
      BY <3>1, <3>2
  <2> QED
    BY <1>2, <1>3, <1>7, <2>1, <2>2, <2>3, <2>4
<1> QED
  BY <1>3, <1>5, <1>6, <1>7

\* The filter gives the first page of the matches.
LEMMA FilterIsPage ==
  ASSUME NEW S, NEW certs \in Seq(S), NEW j, j.max \in Nat
  PROVE  /\ zkr_filter_certs(certs, j) \in [items : Seq(S), more : BOOLEAN]
         /\ PageAt(zkr_filter_certs(certs, j), certs, j, Len(certs))
<1> DEFINE n == Len(certs)
           PS == [items : Seq(S), more : BOOLEAN]
           start == [items |-> <<>>, more |-> FALSE]
           Good(k) == {p \in PS : PageAt(p, certs, j, k)}
           step == [k \in 1..n |-> [p \in PS |-> IF p \in Good(k - 1) THEN FilterNext(p, certs[k], j) ELSE p]]
           page[k \in 0..n] == IF k = 0 THEN start ELSE FilterNext(page[k - 1], certs[k], j)
<1>n. n \in Nat
  OBVIOUS
<1>0. start \in Good(0)
  BY RankCounts DEF PageAt
<1>1. \A k \in 1..n : \A p \in Good(k - 1) : FilterNext(p, certs[k], j) \in Good(k)
  BY FilterTurn
<1>2. step \in Iterations(PS, n)
  BY <1>1 DEF Iterations
<1>3. \A k \in 1..n : \A p \in Good(k - 1) : step[k][p] = FilterNext(p, certs[k], j)
  OBVIOUS
<1>4. Good(0) \subseteq PS
  OBVIOUS
<1> HIDE DEF step, start, PS, Good
<1>5. PICK g : History(g, PS, n, start, step)
  BY <1>n, <1>0, <1>2, <1>4, RecursionExists
<1>6. g \in [0..n -> PS] /\ g[0] = start /\ \A k \in 1..n : g[k] = step[k][g[k - 1]]
  BY <1>5 DEF History
<1>7. 0..n \subseteq {k \in 0..n : g[k] \in Good(k)}
  <2> DEFINE G == {k \in 0..n : g[k] \in Good(k)}
  <2>1. 0 \in G
    BY <1>0, <1>6, <1>n
  <2>2. \A k \in 1..n : k - 1 \in G => k \in G
    <3> SUFFICES ASSUME NEW k \in 1..n, g[k - 1] \in Good(k - 1) PROVE g[k] \in Good(k)
      BY <1>n
    <3>1. g[k] = step[k][g[k - 1]]
      BY <1>6
    <3>2. step[k][g[k - 1]] = FilterNext(g[k - 1], certs[k], j)
      BY <1>3
    <3> QED
      BY <1>1, <3>1, <3>2
  <2> HIDE DEF G
  <2>3. 0..n \subseteq G
    BY <1>n, <2>1, <2>2, SetInduction
  <2> QED
    BY <2>3 DEF G
<1>8. \A k \in 1..n : g[k] = FilterNext(g[k - 1], certs[k], j)
  <2> TAKE k \in 1..n
  <2>1. k - 1 \in 0..n
    BY <1>n
  <2>2. g[k - 1] \in Good(k - 1)
    BY <1>7, <2>1
  <2> QED
    BY <1>3, <1>6, <2>2
<1>9. g = [k \in 0..n |-> IF k = 0 THEN start ELSE FilterNext(g[k - 1], certs[k], j)]
  BY <1>6, <1>8, <1>n
<1>10. page = [k \in 0..n |-> IF k = 0 THEN start ELSE FilterNext(page[k - 1], certs[k], j)]
  BY <1>9 DEF page
<1>11. zkr_filter_certs(certs, j) = page[n]
  BY DEF zkr_filter_certs, start
<1> HIDE DEF page
<1>12. \A k \in 0..n : page[k] \in Good(k)
  <2> DEFINE G == {k \in 0..n : page[k] \in Good(k)}
  <2>0. page[0] = start /\ \A k \in 1..n : page[k] = FilterNext(page[k - 1], certs[k], j)
    BY <1>10, <1>n
  <2>1. 0 \in G
    BY <1>0, <1>n, <2>0
  <2>2. \A k \in 1..n : k - 1 \in G => k \in G
    BY <1>1, <2>0
  <2> HIDE DEF G
  <2>3. 0..n \subseteq G
    BY <1>n, <2>1, <2>2, SetInduction
  <2> QED
    BY <2>3 DEF G
<1>13. page[n] \in Good(n)
  BY <1>12, <1>n
<1> QED
  BY <1>11, <1>13 DEF Good, PS

(* The cap the enumeration itself obeys.                                   *)
RingCap(j) == IF Unfiltered(j) THEN j.max ELSE 0

(* What is listed is a first part of what was read, of n certificates, the *)
(* rest of which is still to come; out of the loop without an error, it is *)
(* all of it unless the cap was met.                                       *)
Collected(x, n) ==
  /\ x.read \in [1..Len(x.read) -> {x.read[i] : i \in 1..Len(x.read)}] /\ Len(x.read) \in Nat
  /\ n \in 0..Len(x.read) /\ x.got = SubSeq(x.read, 1, n)
  /\ RingCap(x.job) # 0 => n <= RingCap(x.job)
  /\ x.pc = "next" => x.left = SubSeq(x.read, n + 1, Len(x.read)) /\ x.more = FALSE
  /\ x.more \in BOOLEAN
  /\ x.pc = "abort" /\ ~x.more => n = Len(x.read)
  /\ x.pc = "abort" /\ x.more => RingCap(x.job) # 0 /\ n = RingCap(x.job) /\ n < Len(x.read)

(* The first page of the matches, counted by their rank.                   *)
FirstPage(x) ==
  /\ x.more = (x.job.max # 0 /\ Rank(x.read, x.job, Len(x.read)) > x.job.max)
  /\ Len(x.got) = IF x.more THEN x.job.max ELSE Rank(x.read, x.job, Len(x.read))
  /\ \A i \in 1..Len(x.read) :
        Matching(x.read[i], x.job) /\ Rank(x.read, x.job, i) <= Len(x.got)
          => x.got[Rank(x.read, x.job, i)] = x.read[i]

PageOk(x) ==
  /\ x.pc \in {"idle", "first", "call"} => x.got = <<>> /\ x.read = <<>> /\ x.more = FALSE /\ x.rc = 0
  /\ x.pc # "idle" => x.job \in KrJobs
  /\ x.pc \in {"call", "put"} => x.job.op # "list"
  /\ x.rc = 0 /\ x.pc \in {"next", "abort"} /\ x.job.op = "list" => \E n \in Nat : Collected(x, n)
  /\ x.rc = 0 /\ x.pc = "end" /\ x.job.op = "list" => /\ DOMAIN x.read = 1..Len(x.read)
                                                      /\ FirstPage(x)
PageInv ==
  /\ DOMAIN kr = KrTasks
  /\ \A t \in KrTasks : RingFields \subseteq DOMAIN kr[t] /\ PageOk(kr[t])

\* One operation moves on.
LEMMA OnePage ==
  ASSUME PageInv, NEW t \in KrTasks, NEW y, KrSet(t, y), RingFields \subseteq DOMAIN y, PageOk(y)
  PROVE  PageInv'
BY DEF PageInv, KrSet

\* An operation other than a listing answers, or a step fails.
LEMMA PageEnds ==
  ASSUME PageInv, NEW t \in KrTasks, NEW y, KrSet(t, y), RingFields \subseteq DOMAIN y,
         y.pc = "end", y.job = kr[t].job, kr[t].pc # "idle", y.rc # 0 \/ kr[t].job.op # "list"
  PROVE  PageInv'
<1>1. PageOk(y)
  BY DEF PageInv, PageOk
<1> QED
  BY <1>1, OnePage


(* y is the record x with another answer; and its operation is over.       *)
Kept(x, y) == RingFields \subseteq DOMAIN y /\ y.job = x.job
Ending(x, y) == Kept(x, y) /\ y.pc = "end"

\* What an answer is made of keeps the request.
LEMMA RingKept ==
  ASSUME NEW x, NEW y, Kept(x, y)
  PROVE  /\ Ending(x, record_saf_error(y)) /\ record_saf_error(y).rc = 8
         /\ Ending(x, Succeed(y))
         /\ Kept(x, note_saf_warning(y)) /\ (y.pc = "end" => Ending(x, note_saf_warning(y)))
         /\ \A b : Kept(x, [y EXCEPT !.needs = b])
         /\ \A w : Kept(x, [y EXCEPT !.warning = w])
         /\ \A g : Kept(x, [y EXCEPT !.got = g])
         /\ \A q \in AutoRefresh(y) : Kept(x, q)
<1> USE DEF Kept, Ending, RingFields
<1>1. Ending(x, record_saf_error(y)) /\ record_saf_error(y).rc = 8
  BY DEF record_saf_error
<1>2. Ending(x, Succeed(y))
  BY DEF Succeed
<1>3. Kept(x, note_saf_warning(y)) /\ (y.pc = "end" => Ending(x, note_saf_warning(y)))
  BY DEF note_saf_warning
<1>4. /\ \A b : Kept(x, [y EXCEPT !.needs = b])
      /\ \A w : Kept(x, [y EXCEPT !.warning = w])
      /\ \A g : Kept(x, [y EXCEPT !.got = g])
  OBVIOUS
<1>5. \A q \in AutoRefresh(y) : Kept(x, q)
  BY <1>3, <1>4 DEF AutoRefresh
<1> QED
  BY <1>1, <1>2, <1>3, <1>4, <1>5

\* What each operation of one call answers is an answer to its request.
LEMMA CallEnds ==
  ASSUME PageInv, NEW t \in KrTasks,
         \/ zkr_new_ring(t) \/ zkr_del_ring(t) \/ zkr_refresh(t) \/ zkr_del_cert(t)
         \/ zkr_import_cert(t) \/ zkr_alter_cert(t) \/ zkr_list_rings(t) \/ zkr_export_cert(t)
         \/ \E u, d : data_put_connect(t, u, d)
  PROVE  \E y : KrSet(t, y) /\ Ending(kr[t], y)
<1> DEFINE x == kr[t]
<1>0. Kept(x, x)
  BY DEF PageInv, Kept
<1>1. CASE zkr_new_ring(t) \/ zkr_del_ring(t) \/ zkr_refresh(t) \/ zkr_export_cert(t)
  <2>1. \/ KrSet(t, record_saf_error(x)) \/ KrSet(t, Succeed(x))
        \/ \E w \in BOOLEAN : KrSet(t, Succeed([x EXCEPT !.warning = w]))
    BY <1>1 DEF zkr_new_ring, zkr_del_ring, zkr_refresh, zkr_export_cert, simple_action
  <2> HIDE DEF x
  <2> QED
    BY <1>0, <2>1, RingKept, Zenon DEF x
<1>2. CASE \E b : LET r == [x EXCEPT !.needs = b] IN
             \/ KrSet(t, record_saf_error(r)) \/ KrSet(t, Succeed(r))
             \/ KrSet(t, Succeed(note_saf_warning(r)))
             \/ \E q \in AutoRefresh(r) : KrSet(t, Succeed(q)) \/ KrSet(t, Succeed(note_saf_warning(q)))
  <2>1. PICK b : LET r == [x EXCEPT !.needs = b] IN
             \/ KrSet(t, record_saf_error(r)) \/ KrSet(t, Succeed(r))
             \/ KrSet(t, Succeed(note_saf_warning(r)))
             \/ \E q \in AutoRefresh(r) : KrSet(t, Succeed(q)) \/ KrSet(t, Succeed(note_saf_warning(q)))
    BY <1>2
  <2> DEFINE r == [x EXCEPT !.needs = b]
  <2>2. Kept(x, r)
    BY <1>0, RingKept
  <2> HIDE DEF r, x
  <2>3. Kept(x, note_saf_warning(r)) /\ \A q \in AutoRefresh(r) : Kept(x, q) /\ Kept(x, note_saf_warning(q))
    BY <2>2, RingKept
  <2> QED
    BY <2>1, <2>2, <2>3, RingKept, Zenon DEF r, x
<1>3. zkr_del_cert(t) => <1>2!1
  BY Zenon DEF zkr_del_cert
<1>4. zkr_import_cert(t) => KrSet(t, record_saf_error(x)) \/ <1>2!1
  BY Zenon DEF zkr_import_cert
<1>5. zkr_alter_cert(t) => KrSet(t, record_saf_error(x)) \/ <1>2!1
  BY Zenon DEF zkr_alter_cert
<1>6. (\E u, d : data_put_connect(t, u, d)) => <1>2!1
  BY Zenon DEF data_put_connect
<1>7. CASE KrSet(t, record_saf_error(x))
  BY <1>0, <1>7, RingKept
<1>8. CASE zkr_list_rings(t)
  <2>1. \/ KrSet(t, record_saf_error(x))
        \/ \E g : \/ KrSet(t, Succeed([x EXCEPT !.got = g]))
                  \/ KrSet(t, note_saf_warning(Succeed([x EXCEPT !.got = g])))
    BY <1>8, Zenon DEF zkr_list_rings
  <2>2. CASE \E g : \/ KrSet(t, Succeed([x EXCEPT !.got = g]))
                    \/ KrSet(t, note_saf_warning(Succeed([x EXCEPT !.got = g])))
    <3>1. PICK g : \/ KrSet(t, Succeed([x EXCEPT !.got = g]))
                   \/ KrSet(t, note_saf_warning(Succeed([x EXCEPT !.got = g])))
      BY <2>2
    <3> DEFINE r == [x EXCEPT !.got = g]
    <3>2. Kept(x, r)
      BY <1>0, RingKept
    <3> HIDE DEF r, x
    <3>3. Ending(x, Succeed(r))
      BY <3>2, RingKept
    <3>4. Ending(x, note_saf_warning(Succeed(r)))
      BY <3>3, RingKept DEF Ending
    <3> QED
      BY <3>1, <3>3, <3>4 DEF r, x
  <2> QED
    BY <1>7, <2>1, <2>2
<1> QED
  BY <1>1, <1>2, <1>3, <1>4, <1>5, <1>6, <1>7, <1>8

\* Such an answer ends an operation that is no listing.
LEMMA PageCallStep ==
  ASSUME PageInv, NEW t \in KrTasks, kr[t].pc \in {"call", "put"},
         \E y : KrSet(t, y) /\ Ending(kr[t], y)
  PROVE  PageInv'
<1>1. PICK y : KrSet(t, y) /\ Ending(kr[t], y)
  OBVIOUS
<1>2. kr[t].job.op # "list"
  BY DEF PageInv, PageOk
<1> QED
  BY <1>1, <1>2, PageEnds DEF Ending, Kept

\* The handler refuses, or the operation begins.
LEMMA PageAskStep ==
  ASSUME PageInv, NEW t \in KrTasks, NEW j \in KrJobs, handle_cert(t, j)
  PROVE  PageInv'
<1> DEFINE x == kr[t]
           p == IF j.op \in {"list", "show", "connect", "setDefault"} THEN "first" ELSE "call"
           a == [x EXCEPT !.job = j, !.pc = p]
           b == [record_saf_error(x) EXCEPT !.job = j]
<1>0. x.pc = "idle" /\ (KrSet(t, a) \/ KrSet(t, b))
  BY DEF handle_cert
<1>1. RingFields \subseteq DOMAIN x /\ x.got = <<>> /\ x.read = <<>> /\ x.more = FALSE /\ x.rc = 0
  BY <1>0 DEF PageInv, PageOk
<1>2. p \in {"first", "call"} /\ (p = "call" => j.op # "list")
  OBVIOUS
<1> HIDE DEF p
<1>3. /\ RingFields \subseteq DOMAIN a /\ a.got = <<>> /\ a.read = <<>> /\ a.more = FALSE /\ a.rc = 0
      /\ a.pc = p /\ a.job = j
  BY <1>1 DEF RingFields
<1>4. RingFields \subseteq DOMAIN b /\ b.pc = "end" /\ b.rc = 8 /\ b.job = j
  BY <1>1 DEF RingFields, record_saf_error
<1> HIDE DEF a, b
<1>5. PageOk(a) /\ PageOk(b)
  BY <1>2, <1>3, <1>4 DEF PageOk
<1> QED
  BY <1>0, <1>3, <1>4, <1>5, OnePage

\* One more certificate is moved from what is left to what was got.
LEMMA OneMore ==
  ASSUME NEW S, NEW s \in Seq(S), NEW n \in 0..Len(s)
  PROVE  /\ SubSeq(s, 1, n) \in Seq(S) /\ Len(SubSeq(s, 1, n)) = n
         /\ \A i \in 1..n : SubSeq(s, 1, n)[i] = s[i]
         /\ SubSeq(s, n + 1, Len(s)) = <<>> <=> n = Len(s)
         /\ n # Len(s) =>
              /\ Append(SubSeq(s, 1, n), Head(SubSeq(s, n + 1, Len(s)))) = SubSeq(s, 1, n + 1)
              /\ Tail(SubSeq(s, n + 1, Len(s))) = SubSeq(s, n + 2, Len(s))
<1> DEFINE a == SubSeq(s, 1, n)
           b == SubSeq(s, n + 1, Len(s))
<1>1. /\ a \in Seq(S) /\ Len(a) = n /\ \A i \in 1..n : a[i] = s[i]
  BY SubSeqProperties
<1>2. /\ b \in Seq(S) /\ Len(b) = Len(s) - n /\ \A i \in 1..Len(s) - n : b[i] = s[n + i]
  OBVIOUS
<1>3. b = <<>> <=> n = Len(s)
  <2> HIDE DEF b
  <2> QED
    BY <1>2
<1>4. ASSUME n # Len(s)
      PROVE  Append(a, Head(b)) = SubSeq(s, 1, n + 1) /\ Tail(b) = SubSeq(s, n + 2, Len(s))
  <2> DEFINE c == SubSeq(s, 1, n + 1)
             d == SubSeq(s, n + 2, Len(s))
  <2>1. c \in Seq(S) /\ Len(c) = n + 1 /\ \A i \in 1..n + 1 : c[i] = s[i]
    BY <1>4, SubSeqProperties
  <2>2. d \in Seq(S) /\ Len(d) = Len(s) - n - 1 /\ \A i \in 1..Len(s) - n - 1 : d[i] = s[n + 1 + i]
    BY <1>4
  <2> HIDE DEF a, b, c, d
  <2>3. Head(b) = s[n + 1] /\ Head(b) \in S
    BY <1>2, <1>4
  <2>4. Append(a, Head(b)) = c
    <3> DEFINE e == Append(a, Head(b))
    <3>1. e \in Seq(S) /\ Len(e) = n + 1 /\ \A i \in 1..n + 1 : e[i] = s[i]
      BY <1>1, <2>3
    <3> HIDE DEF e
    <3> QED
      BY <2>1, <3>1, SeqEqual DEF e
  <2>5. Tail(b) = d
    <3> DEFINE e == Tail(b)
    <3>0. b \in Seq(S) /\ Len(b) # 0 /\ Len(b) = Len(s) - n
      BY <1>2, <1>4
    <3>1. /\ e \in Seq(S) /\ Len(e) = Len(s) - n - 1
          /\ \A i \in 1..Len(s) - n - 1 : e[i] = b[i + 1] /\ i + 1 \in 1..Len(s) - n
      BY <3>0
    <3>2. \A i \in 1..Len(s) - n - 1 : n + (i + 1) = n + 1 + i
      OBVIOUS
    <3>3. \A i \in 1..Len(s) - n - 1 : e[i] = s[n + 1 + i]
      BY <1>2, <3>1, <3>2
    <3> HIDE DEF e
    <3> QED
      BY <2>2, <3>1, <3>3, SeqEqual DEF e
  <2> QED
    BY <2>4, <2>5 DEF a, b, c, d
<1> QED
  BY <1>1, <1>3, <1>4

\* What a finite ring holds is read in order.
LEMMA OrderedIsSequence ==
  ASSUME KrAssumption, NEW S \in SUBSET Certs
  PROVE  Cardinality(S) \in Nat /\ DOMAIN Ordered(S) = 1..Cardinality(S)
<1>1. IsFiniteSet(S)
  BY KrAssumption, FS_Subset DEF KrAssumption
<1> QED
  BY <1>1, FS_CardinalityType DEF Ordered

\* The first certificate, or none.
LEMMA PageFirstStep ==
  ASSUME KrAssumption, PageInv, NEW t \in KrTasks, GetFirst(t)
  PROVE  PageInv'
<1> DEFINE x == kr[t]
           r == RingOf(x.job)
           S == {c \in OnRing(r) : InDb(c)}
           found == Ordered(S)
           items == [i \in DOMAIN found |-> add_cert_item(found[i], UsageOn(r, found[i]))]
           y == [x EXCEPT !.pc = "next", !.handle = TRUE, !.left = items, !.read = items]
<1>0. /\ RingFields \subseteq DOMAIN x /\ x.pc = "first" /\ x.job \in KrJobs
      /\ x.got = <<>> /\ x.read = <<>> /\ x.more = FALSE /\ x.rc = 0
  BY DEF PageInv, PageOk, GetFirst
<1>1. \/ found # <<>> /\ KrSet(t, y)
      \/ found = <<>> /\ x.job.op = "list" /\ KrSet(t, Succeed(x))
      \/ KrSet(t, record_saf_error(x))
  BY Zenon DEF GetFirst
<1>2. Cardinality(S) \in Nat /\ DOMAIN items = 1..Cardinality(S)
  <2>1. S \in SUBSET Certs
    BY DEF OnRing
  <2> QED
    BY <2>1, OrderedIsSequence
<1>3. Kept(x, x)
  BY <1>0 DEF Kept
<1>4. CASE KrSet(t, record_saf_error(x))
  BY <1>0, <1>3, <1>4, RingKept, PageEnds DEF Ending, Kept
<1> HIDE DEF items
<1>5. CASE KrSet(t, y)
  <2> DEFINE n == Cardinality(S)
             T == {items[i] : i \in 1..n}
  <2>1. items \in [1..n -> T] /\ items \in Seq(T) /\ Len(items) = n
    <3> HIDE DEF n
    <3>1. n \in Nat /\ DOMAIN items = 1..n
      BY <1>2 DEF n
    <3>2. items = [i \in 1..n |-> items[i]]
      BY <3>1 DEF items
    <3>3. items \in [1..n -> T]
      BY <3>2
    <3> HIDE DEF T
    <3> QED
      BY <3>1, <3>3
  <2>2. SubSeq(items, 1, 0) = <<>> /\ SubSeq(items, 1, n) = items
    <3> HIDE DEF T, n
    <3>1. n \in Nat
      BY <1>2 DEF n
    <3> QED
      BY <2>1, <3>1
  <2>3. /\ RingFields \subseteq DOMAIN y /\ y.pc = "next" /\ y.left = items /\ y.read = items
        /\ y.got = <<>> /\ y.more = FALSE /\ y.job = x.job
    BY <1>0 DEF RingFields
  <2> HIDE DEF y, S
  <2>4. RingCap(x.job) \in Nat
    BY <1>0, KrAssumption DEF KrAssumption, RingCap
  <2>5. Collected(y, 0)
    <3>1. n \in Nat
      BY <1>2
    <3> HIDE DEF n
    <3>2. Len(y.read) = n /\ {y.read[i] : i \in 1..Len(y.read)} = T
      BY <2>1, <2>3
    <3>3. y.read \in [1..Len(y.read) -> {y.read[i] : i \in 1..Len(y.read)}]
      BY <2>1, <2>3, <3>2
    <3> HIDE DEF T
    <3>4. y.got = SubSeq(y.read, 1, 0) /\ y.left = SubSeq(y.read, 0 + 1, Len(y.read))
      BY <2>2, <2>3, <3>2
    <3>5. 0 \in 0..Len(y.read) /\ Len(y.read) \in Nat /\ (RingCap(y.job) # 0 => 0 <= RingCap(y.job))
      BY <2>3, <2>4, <3>1, <3>2
    <3> QED
      BY <2>3, <3>3, <3>4, <3>5 DEF Collected
  <2>6. PageOk(y)
    BY <1>0, <2>3, <2>5 DEF PageOk
  <2> QED
    BY <1>5, <2>3, <2>6, OnePage
<1>6. CASE x.job.op = "list" /\ KrSet(t, Succeed(x))
  <2> DEFINE z == Succeed(x)
  <2>1. /\ RingFields \subseteq DOMAIN z /\ z.pc = "end" /\ z.job = x.job
        /\ z.read = <<>> /\ z.got = <<>> /\ z.more = FALSE
    BY <1>0 DEF RingFields, Succeed
  <2> HIDE DEF z
  <2>2. z.job.max \in Nat /\ Rank(z.read, z.job, 0) = 0
    BY <1>0, <2>1, KrAssumption, RankCounts DEF KrAssumption
  <2>3. FirstPage(z)
    <3>1. Len(z.read) = 0 /\ Len(z.got) = 0 /\ Rank(z.read, z.job, Len(z.read)) = 0
      BY <2>1, <2>2
    <3>2. (z.job.max # 0 /\ Rank(z.read, z.job, Len(z.read)) > z.job.max) = FALSE
      BY <2>2, <3>1
    <3>3. 1..Len(z.read) = {}
      BY <3>1
    <3> QED
      BY <2>1, <3>1, <3>2, <3>3 DEF FirstPage
  <2>4. PageOk(z)
    BY <1>0, <2>1, <2>3 DEF PageOk
  <2> QED
    BY <1>6, <2>1, <2>4, OnePage DEF z
<1> QED
  BY <1>1, <1>4, <1>5, <1>6

\* The enumeration goes on, or ends.
LEMMA PageLoopStep ==
  ASSUME KrAssumption, PageInv, NEW t \in KrTasks, GetFails(t) \/ zkr_list_ring(t) \/ zkr_show_cert(t)
  PROVE  PageInv'
<1> DEFINE x == kr[t]
<1>0. RingFields \subseteq DOMAIN x /\ PageOk(x) /\ x.pc = "next" /\ x.job \in KrJobs
  BY DEF PageInv, PageOk, GetFails, zkr_list_ring, zkr_show_cert
<1>1. CASE GetFails(t)
  <2> DEFINE y == [x EXCEPT !.pc = "abort", !.rc = 8]
  <2>1. KrSet(t, y)
    BY <1>1 DEF GetFails
  <2>2. RingFields \subseteq DOMAIN y /\ y.pc = "abort" /\ y.rc = 8 /\ y.job = x.job
    BY <1>0 DEF RingFields
  <2> HIDE DEF y
  <2>3. PageOk(y)
    BY <1>0, <2>2 DEF PageOk
  <2> QED
    BY <2>1, <2>2, <2>3, OnePage
<1>2. CASE zkr_show_cert(t)
  <2> DEFINE a == [x EXCEPT !.pc = "abort", !.rc = 8]
             b == [x EXCEPT !.pc = "abort", !.put = Head(x.left)]
             c == [x EXCEPT !.left = Tail(@)]
  <2>1. x.job.op # "list" /\ (KrSet(t, a) \/ KrSet(t, b) \/ KrSet(t, c))
    BY <1>2 DEF zkr_show_cert
  <2>2. /\ RingFields \subseteq DOMAIN a /\ a.pc = "abort" /\ a.job = x.job
        /\ RingFields \subseteq DOMAIN b /\ b.pc = "abort" /\ b.job = x.job
        /\ RingFields \subseteq DOMAIN c /\ c.pc = "next" /\ c.job = x.job
    BY <1>0 DEF RingFields
  <2> HIDE DEF a, b, c
  <2>3. PageOk(a) /\ PageOk(b) /\ PageOk(c)
    BY <1>0, <2>1, <2>2 DEF PageOk
  <2> QED
    BY <2>1, <2>2, <2>3, OnePage
<1>3. CASE zkr_list_ring(t)
  <2> DEFINE cap == RingCap(x.job)
             full == cap # 0 /\ Len(x.got) >= cap
             a == [x EXCEPT !.pc = "abort"]
             b == [x EXCEPT !.pc = "abort", !.more = TRUE]
             c == [x EXCEPT !.left = Tail(@), !.got = Append(@, Head(x.left))]
  <2>1. /\ x.job.op = "list"
        /\ \/ x.left = <<>> /\ KrSet(t, a)
           \/ x.left # <<>> /\ full /\ KrSet(t, b)
           \/ x.left # <<>> /\ ~full /\ KrSet(t, c)
    BY <1>3 DEF zkr_list_ring, RingCap
  <2>2. /\ RingFields \subseteq DOMAIN a /\ a.pc = "abort" /\ a.job = x.job /\ a.rc = x.rc
        /\ a.read = x.read /\ a.got = x.got /\ a.more = x.more
        /\ RingFields \subseteq DOMAIN b /\ b.pc = "abort" /\ b.job = x.job /\ b.rc = x.rc
        /\ b.read = x.read /\ b.got = x.got /\ b.more = TRUE
        /\ RingFields \subseteq DOMAIN c /\ c.pc = "next" /\ c.job = x.job /\ c.rc = x.rc
        /\ c.read = x.read /\ c.got = Append(x.got, Head(x.left)) /\ c.left = Tail(x.left)
        /\ c.more = x.more
    BY <1>0 DEF RingFields
  <2> HIDE DEF a, b, c
  <2>3. SUFFICES ASSUME x.rc = 0
                 PROVE  \/ KrSet(t, a) /\ \E n \in Nat : Collected(a, n)
                        \/ KrSet(t, b) /\ \E n \in Nat : Collected(b, n)
                        \/ KrSet(t, c) /\ \E n \in Nat : Collected(c, n)
    <3>1. \A y : y \in {a, b, c} /\ (x.rc = 0 => \E n \in Nat : Collected(y, n)) => PageOk(y)
      BY <1>0, <2>2 DEF PageOk
    <3>2. CASE x.rc = 0
      BY <2>2, <2>3, <3>1, <3>2, OnePage
    <3>3. CASE x.rc # 0
      BY <2>1, <2>2, <3>1, <3>3, OnePage
    <3> QED
      BY <3>2, <3>3
  <2>4. PICK n \in Nat : Collected(x, n)
    BY <1>0, <2>1, <2>3 DEF PageOk
  <2> DEFINE S == {x.read[i] : i \in 1..Len(x.read)}
             s == x.read
  <2>5. /\ s \in Seq(S) /\ n \in 0..Len(s) /\ x.got = SubSeq(s, 1, n) /\ x.left = SubSeq(s, n + 1, Len(s))
        /\ x.more = FALSE /\ cap \in Nat /\ (cap # 0 => n <= cap) /\ s \in [1..Len(s) -> S] /\ Len(s) \in Nat
    <3>1. x.job.max \in Nat
      BY <1>0, KrAssumption DEF KrAssumption
    <3>2. s \in [1..Len(s) -> S] /\ Len(s) \in Nat
      BY <2>4 DEF Collected
    <3> HIDE DEF S
    <3>3. s \in Seq(S)
      BY <3>2
    <3> QED
      BY <1>0, <2>4, <3>1, <3>2, <3>3 DEF Collected, RingCap
  <2> HIDE DEF S
  <2>6. Len(x.got) = n /\ (x.left = <<>> <=> n = Len(s))
    <3>1. Len(SubSeq(s, 1, n)) = n /\ (SubSeq(s, n + 1, Len(s)) = <<>> <=> n = Len(s))
      <4>1. s \in Seq(S) /\ n \in 0..Len(s)
        BY <2>5
      <4> HIDE DEF s
      <4> QED
        BY <4>1, OneMore
    <3> QED
      BY <2>5, <3>1, Zenon
  <2>7. CASE x.left = <<>> /\ KrSet(t, a)
    <3>1. Collected(a, n)
      BY <2>2, <2>5, <2>6, <2>7 DEF Collected, S
    <3> QED
      BY <2>7, <3>1
  <2>8. CASE x.left # <<>> /\ full /\ KrSet(t, b)
    <3>1. n = cap /\ n < Len(s)
      BY <2>5, <2>6, <2>8
    <3>2. Collected(b, n)
      BY <2>2, <2>5, <2>8, <3>1 DEF Collected, S
    <3> QED
      BY <2>8, <3>2
  <2>9. CASE x.left # <<>> /\ ~full /\ KrSet(t, c)
    <3>1. n # Len(s) /\ n + 1 \in 0..Len(s) /\ (cap # 0 => n + 1 <= cap)
      BY <2>5, <2>6, <2>9
    <3>2. c.got = SubSeq(s, 1, n + 1) /\ c.left = SubSeq(s, n + 2, Len(s))
      <4>1. /\ Append(SubSeq(s, 1, n), Head(SubSeq(s, n + 1, Len(s)))) = SubSeq(s, 1, n + 1)
            /\ Tail(SubSeq(s, n + 1, Len(s))) = SubSeq(s, n + 2, Len(s))
        BY <2>5, <3>1, OneMore
      <4>2. c.got = Append(x.got, Head(x.left)) /\ c.left = Tail(x.left)
        BY <2>2
      <4>3. x.got = SubSeq(s, 1, n) /\ x.left = SubSeq(s, n + 1, Len(s))
        BY <2>5
      <4> QED
        BY <4>1, <4>2, <4>3, Zenon
    <3>3. (n + 1) + 1 = n + 2 /\ n + 1 \in Nat
      BY <2>5
    <3>4. Collected(c, n + 1)
      BY <2>2, <2>5, <3>1, <3>2, <3>3 DEF Collected, S
    <3> QED
      BY <2>9, <3>3, <3>4
  <2> QED
    BY <2>1, <2>7, <2>8, <2>9
<1> QED
  BY <1>1, <1>2, <1>3

\* The page of a listing: what was collected, filtered.
LEMMA PageIsFirst ==
  ASSUME KrAssumption, NEW x, RingFields \subseteq DOMAIN x, x.job \in KrJobs, x.pc = "abort",
         NEW n \in Nat, Collected(x, n), NEW y, y.job = x.job, y.read = x.read,
         y.got = zkr_filter_certs(x.got, x.job).items,
         y.more = IF Unfiltered(x.job) THEN x.more ELSE zkr_filter_certs(x.got, x.job).more
  PROVE  FirstPage(y) /\ DOMAIN y.read = 1..Len(y.read)
<1> DEFINE s == x.read
           j == x.job
           S == {x.read[i] : i \in 1..Len(x.read)}
           page == zkr_filter_certs(x.got, j)
           R(c, i) == Rank(c, j, i)
           L == Len(s)
<1>1. /\ s \in [1..L -> S] /\ L \in Nat /\ n \in 0..L /\ x.got = SubSeq(s, 1, n) /\ x.more \in BOOLEAN
      /\ ~x.more => n = L
      /\ x.more => Unfiltered(j) /\ j.max # 0 /\ n = j.max /\ n < L
      /\ Unfiltered(j) /\ j.max # 0 => n <= j.max
  BY DEF Collected, RingCap
<1>2. s \in Seq(S)
  <2> HIDE DEF S
  <2> QED
    BY <1>1
<1> HIDE DEF S, s
<1>3. j.max \in Nat
  BY KrAssumption DEF KrAssumption
<1>4. x.got \in Seq(S) /\ Len(x.got) = n /\ \A i \in 1..n : x.got[i] = s[i]
  BY <1>1, <1>2, OneMore
<1>5. page \in [items : Seq(S), more : BOOLEAN] /\ PageAt(page, x.got, j, n)
  BY <1>3, <1>4, FilterIsPage
<1>6. \A i \in 0..n : R(x.got, i) = R(s, i)
  <2> TAKE i \in 0..n
  <2>1. {k \in 1..i : Matching(x.got[k], j)} = {k \in 1..i : Matching(s[k], j)}
    <3>1. \A k \in 1..i : x.got[k] = s[k]
      <4>1. 1..i \subseteq 1..n
        OBVIOUS
      <4> QED
        BY <1>4, <4>1
    <3> QED
      BY <3>1
  <2> QED
    BY <2>1 DEF Rank
<1>7. /\ \A i \in Nat : R(s, i) \in Nat
      /\ \A i \in 1..n : R(s, i) <= R(s, n)
  <2>1. \A i \in 1..n : i \in Nat /\ n \in Nat /\ i <= n
    OBVIOUS
  <2> QED
    BY <2>1, RankCounts
<1> HIDE DEF page, R
<1>8. /\ page.more => j.max # 0 /\ Len(page.items) = j.max /\ R(s, n) > j.max
      /\ ~page.more => Len(page.items) = R(s, n) /\ (j.max # 0 => R(s, n) <= j.max)
      /\ \A i \in 1..n : Matching(s[i], j) /\ R(s, i) <= Len(page.items)
                           => page.items[R(s, i)] = s[i]
  <2>1. /\ page.more => j.max # 0 /\ Len(page.items) = j.max /\ R(x.got, n) > j.max
        /\ ~page.more => Len(page.items) = R(x.got, n) /\ (j.max # 0 => R(x.got, n) <= j.max)
        /\ \A i \in 1..n : Matching(x.got[i], j) /\ R(x.got, i) <= Len(page.items)
                             => page.items[R(x.got, i)] = x.got[i]
    BY <1>5, Zenon DEF PageAt, R
  <2>2. R(x.got, n) = R(s, n) /\ \A i \in 1..n : R(x.got, i) = R(s, i) /\ x.got[i] = s[i]
    <3>1. n \in 0..n /\ \A i \in 1..n : i \in 0..n
      OBVIOUS
    <3> QED
      BY <1>4, <1>6, <3>1
  <2> QED
    BY <2>1, <2>2, Zenon
<1>9. SUFFICES /\ y.more = (j.max # 0 /\ R(s, L) > j.max)
               /\ Len(page.items) = IF y.more THEN j.max ELSE R(s, L)
               /\ \A i \in 1..L : Matching(s[i], j) /\ R(s, i) <= Len(page.items)
                                    => page.items[R(s, i)] = s[i]
  BY <1>1 DEF FirstPage, R, s, page
<1>10. CASE ~x.more /\ ~Unfiltered(j)
  <2>1. n = L /\ y.more = page.more /\ page.more \in BOOLEAN
    BY <1>1, <1>5, <1>10 DEF page
  <2> HIDE DEF L
  <2>2. R(s, L) \in Nat
    BY <1>1, <1>7
  <2>3. CASE page.more
    BY <1>3, <1>8, <2>1, <2>2, <2>3
  <2>4. CASE ~page.more
    BY <1>3, <1>8, <2>1, <2>2, <2>4
  <2> QED
    BY <2>3, <2>4
<1>11. CASE Unfiltered(j)
  <2>1. \A c : Matching(c, j)
    BY <1>11 DEF Unfiltered, Matching
  <2>2. \A i \in Nat : R(s, i) = i
    <3> TAKE i \in Nat
    <3>1. {k \in 1..i : Matching(s[k], j)} = 1..i
      BY <2>1
    <3>2. Cardinality(1..i) = i
      BY FS_Interval
    <3> QED
      BY <3>1, <3>2 DEF Rank, R
  <2>3. y.more = x.more
    BY <1>11
  <2> HIDE DEF L
  <2>4. R(s, n) = n /\ R(s, L) = L
    BY <1>1, <2>2
  <2>5. ~page.more
    BY <1>1, <1>3, <1>8, <1>11, <2>4
  <2>6. Len(page.items) = n
    BY <1>8, <2>4, <2>5
  <2>7. x.more = (j.max # 0 /\ L > j.max)
    BY <1>1, <1>3, <1>11
  <2>8. n = IF x.more THEN j.max ELSE L
    BY <1>1
  <2>9. \A i \in 1..L : R(s, i) <= n => page.items[R(s, i)] = s[i]
    <3>1. \A i \in 1..L : i \in Nat /\ (i <= n => i \in 1..n)
      BY <1>1
    <3>2. \A i \in 1..n : i <= n /\ i \in Nat
      OBVIOUS
    <3>3. \A i \in 1..n : page.items[i] = s[i]
      BY <1>8, <2>1, <2>2, <2>6, <3>2
    <3> QED
      BY <2>2, <3>1, <3>3
  <2> QED
    BY <2>3, <2>4, <2>6, <2>7, <2>8, <2>9
<1> QED
  BY <1>1, <1>10, <1>11

\* Out of the loop, with a page or with what was found.
LEMMA PageAbortStep ==
  ASSUME KrAssumption, PageInv, NEW t \in KrTasks, DataAbort(t)
  PROVE  PageInv'
<1> DEFINE x == kr[t]
           r == [x EXCEPT !.handle = FALSE, !.left = <<>>]
           h == handle_cert_list(r)
<1>0. RingFields \subseteq DOMAIN x /\ PageOk(x) /\ x.pc = "abort" /\ x.job \in KrJobs
  BY DEF PageInv, PageOk, DataAbort
<1>1. /\ RingFields \subseteq DOMAIN r /\ r.job = x.job /\ r.rc = x.rc /\ r.got = x.got
      /\ r.read = x.read /\ r.more = x.more /\ r.pc = x.pc
  BY <1>0 DEF RingFields
<1>2. \/ x.rc # 0 /\ KrSet(t, [r EXCEPT !.pc = "end"])
      \/ x.rc = 0 /\ x.job.op = "list" /\ KrSet(t, Succeed(h))
      \/ x.job.op = "show" /\ KrSet(t, Succeed(r))
      \/ x.job.op \in {"connect", "setDefault"} /\ KrSet(t, [r EXCEPT !.pc = "put"])
  BY <1>1 DEF DataAbort
<1> HIDE DEF r, h
<1>3. CASE x.rc # 0 /\ KrSet(t, [r EXCEPT !.pc = "end"])
  <2> DEFINE y == [r EXCEPT !.pc = "end"]
  <2>1. RingFields \subseteq DOMAIN y /\ y.pc = "end" /\ y.job = x.job /\ y.rc = x.rc
    BY <1>1 DEF RingFields
  <2> HIDE DEF y
  <2> QED
    BY <1>0, <1>3, <2>1, PageEnds DEF y
<1>4. CASE x.job.op = "show" /\ KrSet(t, Succeed(r))
  <2>1. Ending(x, Succeed(r))
    BY <1>1, RingKept DEF Kept
  <2> QED
    BY <1>0, <1>4, <2>1, PageEnds DEF Ending, Kept
<1>5. CASE x.job.op \in {"connect", "setDefault"} /\ KrSet(t, [r EXCEPT !.pc = "put"])
  <2> DEFINE y == [r EXCEPT !.pc = "put"]
  <2>1. RingFields \subseteq DOMAIN y /\ y.pc = "put" /\ y.job = x.job
    BY <1>1 DEF RingFields
  <2> HIDE DEF y
  <2>2. PageOk(y)
    BY <1>0, <1>5, <2>1 DEF PageOk
  <2> QED
    BY <1>5, <2>1, <2>2, OnePage DEF y
<1>6. CASE x.rc = 0 /\ x.job.op = "list" /\ KrSet(t, Succeed(h))
  <2> DEFINE y == Succeed(h)
             page == zkr_filter_certs(r.got, r.job)
             m == IF Unfiltered(r.job) THEN r.more ELSE page.more
             g == page.items
  <2>1. h = [r EXCEPT !.got = g, !.more = m]
    BY DEF handle_cert_list, h
  <2> HIDE DEF page, m, g
  <2>2. /\ RingFields \subseteq DOMAIN y /\ y.pc = "end" /\ y.job = x.job /\ y.read = x.read
        /\ y.got = g /\ y.more = m
    BY <1>1, <2>1 DEF RingFields, Succeed
  <2> HIDE DEF y
  <2>3. PICK n \in Nat : Collected(x, n)
    BY <1>0, <1>6 DEF PageOk
  <2>4. FirstPage(y) /\ DOMAIN y.read = 1..Len(y.read)
    BY <1>0, <1>1, <2>2, <2>3, PageIsFirst DEF m, g, page
  <2>5. PageOk(y)
    BY <1>0, <2>2, <2>4 DEF PageOk
  <2> QED
    BY <1>6, <2>2, <2>5, OnePage DEF y
<1> QED
  BY <1>2, <1>3, <1>4, <1>5, <1>6

\* A step of an operation keeps the invariant.
LEMMA PageStep ==
  ASSUME KrAssumption, PageInv, [KrNext]_krVars
  PROVE  PageInv'
<1>1. CASE UNCHANGED krVars
  BY <1>1 DEF PageInv, krVars
<1>2. CASE KrNext
  <2>1. PICK t \in KrTasks :
     \/ \E j \in KrJobs : handle_cert(t, j)
     \/ Call(t, "create") /\ zkr_new_ring(t)
     \/ Call(t, "deleteRing") /\ zkr_del_ring(t)
     \/ Call(t, "refresh") /\ zkr_refresh(t)
     \/ Call(t, "delete") /\ zkr_del_cert(t)
     \/ Call(t, "import") /\ zkr_import_cert(t)
     \/ Call(t, "alter") /\ zkr_alter_cert(t)
     \/ Call(t, "rings") /\ zkr_list_rings(t)
     \/ Call(t, "export") /\ zkr_export_cert(t)
     \/ GetFirst(t) \/ GetFails(t) \/ zkr_list_ring(t) \/ zkr_show_cert(t)
     \/ DataAbort(t) \/ zkr_connect_cert(t) \/ zkr_set_default(t)
    BY <1>2, Zenon DEF KrNext
  <2>2. \A op : Call(t, op) => kr[t].pc = "call"
    BY DEF Call
  <2>3. zkr_connect_cert(t) \/ zkr_set_default(t) =>
          kr[t].pc = "put" /\ \E u, d : data_put_connect(t, u, d)
    BY Zenon DEF zkr_connect_cert, zkr_set_default
  <2> QED
    BY <2>1, <2>2, <2>3, PageAskStep, CallEnds, PageCallStep, PageFirstStep, PageLoopStep, PageAbortStep
<1> QED
  BY <1>1, <1>2

\* Operations begin with nothing read.
LEMMA PageBegin == KrInit => PageInv
<1> SUFFICES ASSUME KrInit PROVE PageInv
  OBVIOUS
<1>1. DOMAIN kr = KrTasks /\ \A t \in KrTasks : kr[t] = KrIdle
  BY DEF KrInit
<1>2. RingFields \subseteq DOMAIN KrIdle /\ PageOk(KrIdle)
  BY DEF RingFields, PageOk, KrIdle
<1> QED
  BY <1>1, <1>2 DEF PageInv

\* What the invariant says of a listing.
LEMMA PageSafe == PageInv => PageIsHonest
<1> SUFFICES ASSUME PageInv, NEW t \in KrTasks, kr[t].pc = "end", kr[t].rc = 0, kr[t].job.op = "list"
             PROVE  LET j == kr[t].job
                        read == kr[t].read
                        got == kr[t].got
                        rank(i) == Cardinality({k \in 1..i : /\ j.label \in {"", read[k].label}
                                                            /\ j.usage \in {"", read[k].usage}})
                        all == rank(Len(read))
                    IN  /\ kr[t].more = (j.max # 0 /\ all > j.max)
                        /\ Len(got) = IF kr[t].more THEN j.max ELSE all
                        /\ \A i \in DOMAIN read :
                             j.label \in {"", read[i].label} /\ j.usage \in {"", read[i].usage} /\ rank(i) <= Len(got)
                               => got[rank(i)] = read[i]
  BY Zenon DEF PageIsHonest
<1> DEFINE x == kr[t]
<1>1. FirstPage(x) /\ DOMAIN x.read = 1..Len(x.read)
  BY DEF PageInv, PageOk
<1>2. \A c : Matching(c, x.job) <=> x.job.label \in {"", c.label} /\ x.job.usage \in {"", c.usage}
  BY DEF Matching
<1>3. \A i : {k \in 1..i : /\ x.job.label \in {"", x.read[k].label}
                          /\ x.job.usage \in {"", x.read[k].usage}}
             = {k \in 1..i : Matching(x.read[k], x.job)}
  BY <1>2
<1>4. \A i : Cardinality({k \in 1..i : /\ x.job.label \in {"", x.read[k].label}
                                      /\ x.job.usage \in {"", x.read[k].usage}})
             = Rank(x.read, x.job, i)
  BY <1>3, Zenon DEF Rank
<1> QED
  BY <1>1, <1>2, <1>4, Zenon DEF FirstPage

-----------------------------------------------------------------------------
(* Services *)

SpawnFields == {"pc", "merge", "left", "child", "held", "pipe", "polled", "wrote", "got", "fds", "broken", "rc"}
CallFields == {"pc", "op", "table", "need", "storage", "loaded", "got", "asof", "shown", "rc"}
Ended == {"exited", "killed"}

(* A spawned program x, byte for byte: what it wrote was read or is still  *)
(* in its pipe; unless a read or poll failed, the parent stops reading a   *)
(* pipe only when it is empty and nobody writes to it any more.            *)
SpawnOk(x) ==
  /\ SpawnFields \subseteq DOMAIN x
  /\ x.pc \in {"idle", "poll", "wait", "end"} /\ x.merge \in BOOLEAN
  /\ x.pc \in {"idle", "wait", "end"} => x.fds = {}
  /\ x.left \in Seq(Streams)
  /\ x.pipe \in [Streams -> Nat] /\ x.wrote \in [Streams -> Nat] /\ x.got \in [Streams -> Nat]
  /\ x.polled \in [Streams -> BOOLEAN]
  /\ \A s \in Streams : x.wrote[s] = x.got[s] + x.pipe[s]
  /\ x.pc = "idle" => ~x.broken
  /\ x.broken \/ x.pc \in {"idle", "end"} => x.child # "running"
  /\ x.merge => x.pipe["e"] = 0
  /\ x.pc = "poll" /\ ~x.broken => \A s \in Streams : ~x.polled[s] =>
        x.pipe[s] = 0 /\ ((x.merge /\ s = "e") \/ x.child \in Ended)
  /\ x.pc # "poll" /\ ~x.broken => \A s \in Streams : x.pipe[s] = 0
  /\ x.pc = "poll" => x.child \in {"running"} \cup Ended
  /\ x.pc = "wait" => x.child \in Ended

(* A call y of a service: a module is in storage only while it runs; a     *)
(* list was fetched whole, of the table as it was then.                    *)
SizedLists == {"apf", "linklist"}
SystemLists == SizedLists \cup {"subsystems", "parmlib"}
CallOk(y) ==
  /\ CallFields \subseteq DOMAIN y
  /\ y.table \in Nat
  /\ y.pc = "idle" => ~y.loaded /\ y.storage = {} /\ y.got = 0 /\ y.rc = 0
  /\ y.pc = "sized" => ~y.loaded /\ y.op \in SizedLists
  /\ y.pc = "call" => y.op \notin SystemLists
  /\ y.pc \in {"end", "shown"} =>
       /\ ~y.loaded
       /\ y.storage = {} \/ (y.op = "dynalloc" /\ y.rc # 0)
       /\ y.rc = 0 /\ y.op \in SystemLists => y.got = y.asof
       /\ y.pc = "shown" /\ y.rc = 0 => y.shown = y.got

(* The step's authorisation z while commands run.                          *)
AuthOk(z) ==
  /\ {"authorised", "running", "lines"} \subseteq DOMAIN z
  /\ z.running = "plain" => ~z.authorised

ServiceInv == SpawnOk(sp) /\ CallOk(qy) /\ AuthOk(au)

\* The authorisation is given up before a plain command, or the command refused.
LEMMA AuthStep ==
  ASSUME AuthOk(au), (\E p, h \in BOOLEAN : setup_root_command(p, h)) \/ interactive_mode
  PROVE  AuthOk(au')
<1>0. {"authorised", "running", "lines"} \subseteq DOMAIN au
  BY DEF AuthOk
<1>1. CASE interactive_mode
  BY <1>0, <1>1 DEF interactive_mode, AuthOk
<1>2. CASE \E p, h \in BOOLEAN : setup_root_command(p, h)
  <2>1. CASE au' = [au EXCEPT !.running = "privileged", !.lines = @ + 1]
    BY <1>0, <2>1 DEF AuthOk
  <2>2. CASE \E out \in ZUTNOAUT :
             au' = [au EXCEPT !.authorised = out[2], !.lines = @ + 1,
                              !.running = IF out[1] THEN "plain" ELSE "none"]
    <3>1. PICK out \in ZUTNOAUT :
             au' = [au EXCEPT !.authorised = out[2], !.lines = @ + 1,
                              !.running = IF out[1] THEN "plain" ELSE "none"]
      BY <2>2
    <3>2. out = <<TRUE, FALSE>> \/ out = <<FALSE, TRUE>>
      BY DEF ZUTNOAUT
    <3>3. CASE out = <<TRUE, FALSE>>
      <4>1. out[1] = TRUE /\ out[2] = FALSE
        BY <3>3
      <4>2. au' = [au EXCEPT !.authorised = FALSE, !.lines = @ + 1, !.running = "plain"]
        BY <3>1, <4>1
      <4> QED
        BY <1>0, <4>2 DEF AuthOk
    <3>4. CASE out = <<FALSE, TRUE>>
      <4>1. out[1] = FALSE /\ out[2] = TRUE
        BY <3>4
      <4>2. au' = [au EXCEPT !.authorised = TRUE, !.lines = @ + 1, !.running = "none"]
        BY <3>1, <4>1
      <4> QED
        BY <1>0, <4>2 DEF AuthOk
    <3> QED
      BY <3>2, <3>3, <3>4
  <2> QED
    BY <1>2, <2>1, <2>2 DEF setup_root_command
<1> QED
  BY <1>1, <1>2

\* A call that ended with an error holds nothing but a refused allocation.
LEMMA CallFails ==
  ASSUME CallOk(qy), qy.pc = "idle", NEW op, NEW p \in {"end", "abend"},
         \/ qy' = [qy EXCEPT !.op = op, !.pc = p, !.rc = 1]
         \/ op = "dynalloc" /\ qy' = [qy EXCEPT !.op = op, !.pc = p, !.rc = 1, !.storage = {"parm"}]
  PROVE  CallOk(qy')
<1>0. CallFields \subseteq DOMAIN qy /\ qy.table \in Nat /\ ~qy.loaded /\ qy.storage = {}
  BY DEF CallOk
<1>1. /\ CallFields \subseteq DOMAIN qy' /\ qy'.table = qy.table /\ qy'.pc = p /\ qy'.rc = 1
      /\ qy'.storage = {} \/ qy'.op = "dynalloc"
  BY <1>0 DEF CallFields
<1>2. qy'.loaded = qy.loaded
  BY <1>0 DEF CallFields
<1> QED
  BY <1>0, <1>1, <1>2 DEF CallOk

\* The lists that are asked for twice.
LEMMA SizedListStep ==
  ASSUME CallOk(qy), zut_list_apf \/ zut_list_linklist
  PROVE  CallOk(qy')
<1>0. CallFields \subseteq DOMAIN qy /\ qy.table \in Nat
  BY DEF CallOk
<1>1. ASSUME NEW room \in Nat, NEW out \in ZUTMAPFQ(room) \cup ZUTMDYNQ(room)
      PROVE  out \in {"ok", "error", "notall"} /\ (out = "ok" => qy.table <= room)
  <2>1. CASE out \in ZUTMAPFQ(room)
    BY <2>1 DEF ZUTMAPFQ, zutm1apf
  <2>2. CASE out \in ZUTMDYNQ(room)
    <3>1. PICK w \in zutm1dyn(room) : out = IF w = "warning" THEN "notall" ELSE w
      BY <2>2 DEF ZUTMDYNQ
    <3> QED
      BY <3>1 DEF zutm1dyn
  <2> QED
    BY <1>1, <2>1, <2>2
<1>2. ASSUME NEW op \in SizedLists, NEW outs, AskSize(op, outs),
             outs \subseteq ZUTMAPFQ(0) \cup ZUTMDYNQ(0)
      PROVE  CallOk(qy')
  <2>1. PICK out \in outs :
       qy' = [qy EXCEPT !.op = op, !.storage = IF out = "notall" THEN {"fixed"} ELSE {},
                        !.pc = IF out = "notall" THEN "sized" ELSE "end", !.asof = qy.table,
                        !.need = qy.table, !.rc = IF out = "error" THEN 1 ELSE 0]
    BY <1>2 DEF AskSize
  <2> DEFINE a == IF out = "notall" THEN {"fixed"} ELSE {}
             p == IF out = "notall" THEN "sized" ELSE "end"
             c == IF out = "error" THEN 1 ELSE 0
  <2>2. qy' = [qy EXCEPT !.op = op, !.storage = a, !.pc = p, !.asof = qy.table, !.need = qy.table, !.rc = c]
    BY <2>1
  <2>3. /\ out \in {"ok", "error", "notall"}
        /\ out = "ok" => qy.table <= 0
    BY <1>1, <1>2, <2>1
  <2>4. /\ p \in {"sized", "end"} /\ (p = "end" => a = {}) /\ (p = "end" /\ c = 0 => qy.table = 0)
    BY <1>0, <2>3
  <2> HIDE DEF a, p, c
  <2>5. /\ CallFields \subseteq DOMAIN qy' /\ qy'.table = qy.table /\ qy'.pc = p /\ qy'.rc = c
        /\ qy'.op = op /\ qy'.storage = a /\ qy'.asof = qy.table /\ qy'.got = qy.got
        /\ qy'.loaded = qy.loaded
    BY <1>0, <2>2 DEF CallFields
  <2>6. qy.pc = "idle" /\ ~qy.loaded /\ qy.got = 0
    BY <1>2 DEF AskSize, CallOk
  <2> QED
    BY <1>0, <1>2, <2>4, <2>5, <2>6 DEF CallOk
<1>3. ASSUME NEW op, NEW outs, FetchList(op, outs)
      PROVE  CallOk(qy')
  <2>1. PICK out \in outs :
       qy' = [qy EXCEPT !.pc = "end", !.storage = {}, !.asof = qy.table,
                        !.got = IF out = "ok" THEN qy.table ELSE 0,
                        !.rc = IF out = "ok" THEN 0 ELSE 1]
    BY <1>3 DEF FetchList
  <2> DEFINE g == IF out = "ok" THEN qy.table ELSE 0
             c == IF out = "ok" THEN 0 ELSE 1
  <2>2. qy' = [qy EXCEPT !.pc = "end", !.storage = {}, !.asof = qy.table, !.got = g, !.rc = c]
    BY <2>1
  <2>3. c = 0 => g = qy.table
    OBVIOUS
  <2> HIDE DEF g, c
  <2>4. /\ CallFields \subseteq DOMAIN qy' /\ qy'.table = qy.table /\ qy'.pc = "end" /\ qy'.rc = c
        /\ qy'.storage = {} /\ qy'.asof = qy.table /\ qy'.got = g /\ qy'.loaded = qy.loaded
    BY <1>0, <2>2 DEF CallFields
  <2>5. ~qy.loaded
    BY <1>3 DEF FetchList, CallOk
  <2> QED
    BY <1>0, <2>3, <2>4, <2>5 DEF CallOk
<1>4. "apf" \in SizedLists /\ "linklist" \in SizedLists
  BY DEF SizedLists
<1> QED
  BY <1>2, <1>3, <1>4 DEF zut_list_apf, zut_list_linklist

\* The lists that are asked for once, what is shown, and changes meanwhile.
LEMMA ListStep ==
  ASSUME CallOk(qy),
         \/ TableChanges \/ zut_list_subsystems \/ zut_list_parmlib \/ \E op : Show(op)
         \/ zut_substitute_symbol
  PROVE  CallOk(qy')
<1>0. CallFields \subseteq DOMAIN qy /\ qy.table \in Nat
  BY DEF CallOk
<1>1. CASE TableChanges
  <2>1. PICK n \in Tables : qy' = [qy EXCEPT !.table = n]
    BY <1>1 DEF TableChanges
  <2>2. qy.pc = "sized" /\ n \in Nat
    BY <1>1, ServicesAssumption DEF TableChanges
  <2>3. /\ CallFields \subseteq DOMAIN qy' /\ qy'.table = n /\ qy'.pc = qy.pc /\ qy'.op = qy.op
        /\ qy'.loaded = qy.loaded
    BY <1>0, <2>1 DEF CallFields
  <2> QED
    BY <2>2, <2>3 DEF CallOk
<1>2. ASSUME NEW op, NEW g, g = qy.table, qy.pc = "idle",
             qy' = [qy EXCEPT !.op = op, !.pc = "end", !.got = g, !.asof = qy.table]
      PROVE  CallOk(qy')
  <2>1. /\ CallFields \subseteq DOMAIN qy' /\ qy'.table = qy.table /\ qy'.pc = "end" /\ qy'.got = g
        /\ qy'.asof = qy.table /\ qy'.loaded = qy.loaded /\ qy'.storage = qy.storage
    BY <1>0, <1>2 DEF CallFields
  <2>2. ~qy.loaded /\ qy.storage = {}
    BY <1>2 DEF CallOk
  <2> QED
    BY <1>0, <1>2, <2>1, <2>2 DEF CallOk
<1>3. ASSUME NEW op, ListFails(op) PROVE CallOk(qy')
  BY <1>3, CallFails DEF ListFails
<1>4. CASE zut_list_subsystems
  <2>1. CASE ListAtOnce("subsystems", {qy.table})
    <3>1. qy.pc = "idle" /\ qy' = [qy EXCEPT !.op = "subsystems", !.pc = "end", !.got = qy.table, !.asof = qy.table]
      BY <2>1 DEF ListAtOnce
    <3> QED
      BY <1>2, <3>1
  <2> QED
    BY <1>3, <1>4, <2>1 DEF zut_list_subsystems
<1>5. CASE zut_list_parmlib
  <2>1. CASE ListAtOnce("parmlib", {IF n > MaxParmlib THEN MaxParmlib ELSE n : n \in zutm1lpl})
    <3>1. PICK n \in zutm1lpl : qy' = [qy EXCEPT !.op = "parmlib", !.pc = "end",
                                         !.got = IF n > MaxParmlib THEN MaxParmlib ELSE n, !.asof = qy.table]
      BY <2>1 DEF ListAtOnce
    <3> DEFINE g == IF n > MaxParmlib THEN MaxParmlib ELSE n
    <3>2. n = qy.table /\ n <= MaxParmlib
      BY DEF zutm1lpl
    <3>3. g = qy.table
      BY <1>0, <3>2, ServicesAssumption
    <3>4. qy' = [qy EXCEPT !.op = "parmlib", !.pc = "end", !.got = g, !.asof = qy.table] /\ qy.pc = "idle"
      BY <2>1, <3>1 DEF ListAtOnce
    <3> HIDE DEF g
    <3> QED
      BY <1>2, <3>3, <3>4
  <2> QED
    BY <1>3, <1>5, <2>1 DEF zut_list_parmlib
<1>6. CASE \E op : Show(op)
  <2>1. PICK op : Show(op)
    BY <1>6
  <2> DEFINE n == IF qy.rc = 0 THEN qy.got ELSE 0
  <2>2. qy' = [qy EXCEPT !.pc = "shown", !.shown = n] /\ qy.pc = "end"
    BY <2>1 DEF Show
  <2>3. qy.rc = 0 => n = qy.got
    OBVIOUS
  <2> HIDE DEF n
  <2>4. /\ CallFields \subseteq DOMAIN qy' /\ qy'.table = qy.table /\ qy'.pc = "shown" /\ qy'.got = qy.got
        /\ qy'.asof = qy.asof /\ qy'.loaded = qy.loaded /\ qy'.storage = qy.storage /\ qy'.rc = qy.rc
        /\ qy'.shown = n /\ qy'.op = qy.op
    BY <1>0, <2>2 DEF CallFields
  <2> QED
    BY <1>0, <2>2, <2>3, <2>4 DEF CallOk
<1> QED
  BY <1>1, <1>3, <1>4, <1>5, <1>6 DEF zut_substitute_symbol

\* A module is loaded, called and deleted.
LEMMA ModuleStep ==
  ASSUME CallOk(qy),
         \/ \E op, areas, checked : load_module(op, areas, checked) /\ op \notin SystemLists
         \/ \E op : delete_module(op)
         \/ zut_bpxwdyn_common
  PROVE  CallOk(qy')
<1>0. CallFields \subseteq DOMAIN qy /\ qy.table \in Nat
  BY DEF CallOk
<1>1. CASE \E op, areas, checked : load_module(op, areas, checked) /\ op \notin SystemLists
  <2>1. PICK op, areas, checked : load_module(op, areas, checked) /\ op \notin SystemLists
    BY <1>1
  <2>2. CASE qy' = [qy EXCEPT !.op = op, !.pc = "call", !.loaded = TRUE, !.storage = areas]
    <3>1. CallFields \subseteq DOMAIN qy' /\ qy'.table = qy.table /\ qy'.pc = "call" /\ qy'.op = op
      BY <1>0, <2>2 DEF CallFields
    <3> QED
      BY <1>0, <2>1, <3>1 DEF CallOk
  <2>3. CASE qy' = [qy EXCEPT !.op = op, !.pc = IF checked THEN "end" ELSE "abend", !.rc = 1]
    <3> DEFINE p == IF checked THEN "end" ELSE "abend"
    <3>1. p \in {"end", "abend"} /\ qy' = [qy EXCEPT !.op = op, !.pc = p, !.rc = 1] /\ qy.pc = "idle"
      BY <2>1, <2>3 DEF load_module
    <3> HIDE DEF p
    <3> QED
      BY <3>1, CallFails
  <2> QED
    BY <2>1, <2>2, <2>3 DEF load_module
<1>2. CASE \E op : delete_module(op)
  <2>1. PICK op : delete_module(op)
    BY <1>2
  <2>2. PICK c \in {0, 1} : qy' = [qy EXCEPT !.pc = "end", !.loaded = FALSE, !.storage = {}, !.rc = c]
    BY <2>1 DEF delete_module
  <2>3. /\ CallFields \subseteq DOMAIN qy' /\ qy'.table = qy.table /\ qy'.pc = "end" /\ qy'.op = qy.op
        /\ ~qy'.loaded /\ qy'.storage = {}
    BY <1>0, <2>2 DEF CallFields
  <2>4. qy.op \notin SystemLists
    BY <2>1 DEF delete_module, CallOk
  <2> QED
    BY <1>0, <2>3, <2>4 DEF CallOk
<1>3. CASE zut_bpxwdyn_common
  BY <1>3, CallFails DEF zut_bpxwdyn_common
<1> QED
  BY <1>1, <1>2, <1>3

\* A program is spawned, or was not.
LEMMA SpawnStep ==
  ASSUME SpawnOk(sp), zut_spawn_shell_command \/ ztso_issue
  PROVE  SpawnOk(sp')
<1> DEFINE x == sp
<1>0. SpawnOk(x) /\ SpawnFields \subseteq DOMAIN x
  BY DEF SpawnOk
<1>1. PICK script \in Scripts, merge \in BOOLEAN, bg \in BOOLEAN : zut_private_run_program(script, merge, bg)
  BY DEF zut_spawn_shell_command, ztso_issue
<1>2. x.pc = "idle" /\ script \in Seq(Streams)
  BY <1>1, ServicesAssumption DEF zut_private_run_program
<1>3. CASE sp' = [x EXCEPT !.pc = "end", !.rc = 1]
  <2> DEFINE y == [x EXCEPT !.pc = "end", !.rc = 1]
  <2>1. /\ SpawnFields \subseteq DOMAIN y /\ y.pc = "end" /\ y.merge = x.merge /\ y.fds = x.fds
        /\ y.left = x.left /\ y.pipe = x.pipe /\ y.wrote = x.wrote /\ y.got = x.got
        /\ y.polled = x.polled /\ y.broken = x.broken /\ y.child = x.child
    BY <1>0 DEF SpawnFields
  <2> HIDE DEF y, x
  <2>2. SpawnOk(y)
    BY <1>0, <1>2, <2>1 DEF SpawnOk
  <2> QED
    BY <1>3, <2>2 DEF y, x
<1>4. CASE sp' = [x EXCEPT !.pc = "poll", !.left = script, !.merge = merge, !.held = bg,
                         !.child = "running", !.fds = PipeEnds \ {"null", "o1", "e1"},
                         !.polled = [s \in Streams |-> s = "o" \/ ~ merge]]
  <2> DEFINE f == PipeEnds \ {"null", "o1", "e1"}
             p == [s \in Streams |-> s = "o" \/ ~ merge]
             y == [x EXCEPT !.pc = "poll", !.left = script, !.merge = merge, !.held = bg,
                            !.child = "running", !.fds = f, !.polled = p]
  <2>1. p \in [Streams -> BOOLEAN] /\ \A s \in Streams : ~p[s] => merge /\ s = "e"
    BY DEF Streams
  <2> HIDE DEF f, p
  <2>2. /\ SpawnFields \subseteq DOMAIN y /\ y.pc = "poll" /\ y.merge = merge
        /\ y.left = script /\ y.pipe = x.pipe /\ y.wrote = x.wrote /\ y.got = x.got
        /\ y.polled = p /\ y.broken = x.broken /\ y.child = "running"
    BY <1>0 DEF SpawnFields
  <2>3. sp' = y
    BY <1>4 DEF f, p
  <2> HIDE DEF y, x
  <2>4. SpawnOk(y)
    BY <1>0, <1>2, <2>1, <2>2 DEF SpawnOk, Streams
  <2> QED
    BY <2>3, <2>4
<1> QED
  BY <1>1, <1>3, <1>4 DEF zut_private_run_program

\* The child writes, exits or is killed.
LEMMA ChildStep ==
  ASSUME SpawnOk(sp), ChildWrites \/ ChildExits \/ HolderExits
  PROVE  SpawnOk(sp')
<1> DEFINE x == sp
<1>0. SpawnOk(x) /\ SpawnFields \subseteq DOMAIN x
  BY DEF SpawnOk
<1>1. CASE HolderExits
  <2> DEFINE y == [x EXCEPT !.held = FALSE]
  <2>1. /\ SpawnFields \subseteq DOMAIN y /\ y.pc = x.pc /\ y.merge = x.merge /\ y.fds = x.fds
        /\ y.left = x.left /\ y.pipe = x.pipe /\ y.wrote = x.wrote /\ y.got = x.got
        /\ y.polled = x.polled /\ y.broken = x.broken /\ y.child = x.child
    BY <1>0 DEF SpawnFields
  <2> HIDE DEF y
  <2>2. SpawnOk(y)
    BY <1>0, <2>1 DEF SpawnOk
  <2> QED
    BY <1>1, <2>2 DEF HolderExits, y
<1>2. ASSUME NEW y, NEW c \in Ended, x.child = "running", sp' = y,
             SpawnFields \subseteq DOMAIN y, y.pc = x.pc, y.merge = x.merge, y.fds = x.fds,
             y.left = x.left, y.pipe = x.pipe, y.wrote = x.wrote, y.got = x.got,
             y.polled = x.polled, y.broken = x.broken, y.child = c
      PROVE  SpawnOk(sp')
  <2> HIDE DEF x
  <2>1. c # "running" /\ c \in Ended
    BY DEF Ended
  <2> QED
    BY <1>0, <1>2, <2>1 DEF SpawnOk
<1>3. CASE ChildExits
  <2> DEFINE y == [x EXCEPT !.child = "exited"]
  <2>1. /\ SpawnFields \subseteq DOMAIN y /\ y.pc = x.pc /\ y.merge = x.merge /\ y.fds = x.fds
        /\ y.left = x.left /\ y.pipe = x.pipe /\ y.wrote = x.wrote /\ y.got = x.got
        /\ y.polled = x.polled /\ y.broken = x.broken /\ y.child = "exited"
    BY <1>0 DEF SpawnFields
  <2>2. x.child = "running" /\ sp' = y /\ "exited" \in Ended
    BY <1>3 DEF ChildExits, Ended
  <2> HIDE DEF y
  <2> QED
    BY <1>2, <2>1, <2>2
<1>4. CASE ChildWrites
  <2> DEFINE s == IF x.merge THEN "o" ELSE Head(x.left)
  <2>0. /\ x.child = "running" /\ x.left # <<>>
    BY <1>4 DEF ChildWrites
  <2>1. s \in Streams /\ (x.merge => s = "o")
    BY <1>0, <2>0 DEF SpawnOk, Streams
  <2> HIDE DEF s
  <2>2. CASE sp' = [x EXCEPT !.child = "killed", !.held = FALSE]
    <3> DEFINE y == [x EXCEPT !.child = "killed", !.held = FALSE]
    <3>1. /\ SpawnFields \subseteq DOMAIN y /\ y.pc = x.pc /\ y.merge = x.merge /\ y.fds = x.fds
          /\ y.left = x.left /\ y.pipe = x.pipe /\ y.wrote = x.wrote /\ y.got = x.got
          /\ y.polled = x.polled /\ y.broken = x.broken /\ y.child = "killed"
      BY <1>0 DEF SpawnFields
    <3>2. sp' = y /\ "killed" \in Ended
      BY <2>2 DEF Ended
    <3> HIDE DEF y
    <3> QED
      BY <1>2, <2>0, <3>1, <3>2
  <2>3. CASE sp' = [x EXCEPT !.left = Tail(@), !.pipe[s] = @ + 1, !.wrote[s] = @ + 1]
    <3> DEFINE l == Tail(x.left)
               p == [x.pipe EXCEPT ![s] = @ + 1]
               w == [x.wrote EXCEPT ![s] = @ + 1]
               y == [x EXCEPT !.left = l, !.pipe = p, !.wrote = w]
    <3>1. sp' = y
      BY <2>3
    <3>2. l \in Seq(Streams)
      BY <1>0, <2>0 DEF SpawnOk
    <3>3. /\ p \in [Streams -> Nat] /\ w \in [Streams -> Nat]
          /\ \A u \in Streams : w[u] = x.got[u] + p[u]
          /\ \A u \in Streams \ {s} : p[u] = x.pipe[u]
      <4>1. /\ x.pipe \in [Streams -> Nat] /\ x.wrote \in [Streams -> Nat] /\ x.got \in [Streams -> Nat]
            /\ \A u \in Streams : x.wrote[u] = x.got[u] + x.pipe[u]
        BY <1>0 DEF SpawnOk
      <4>2. \A u \in Streams : /\ p[u] = IF u = s THEN x.pipe[u] + 1 ELSE x.pipe[u]
                               /\ w[u] = IF u = s THEN x.wrote[u] + 1 ELSE x.wrote[u]
        BY <2>1, <4>1
      <4>3. p \in [Streams -> Nat] /\ w \in [Streams -> Nat]
        BY <2>1, <4>1
      <4> HIDE DEF p, w, x
      <4>4. \A u \in Streams : w[u] = x.got[u] + p[u]
        BY <4>1, <4>2
      <4> QED
        BY <4>2, <4>3, <4>4
    <3> HIDE DEF l, p, w
    <3>4. /\ SpawnFields \subseteq DOMAIN y /\ y.pc = x.pc /\ y.merge = x.merge /\ y.fds = x.fds
          /\ y.left = l /\ y.pipe = p /\ y.wrote = w /\ y.got = x.got
          /\ y.polled = x.polled /\ y.broken = x.broken /\ y.child = x.child
      BY <1>0 DEF SpawnFields
    <3> HIDE DEF y, x
    <3>5. x.pc = "poll" /\ ~x.broken
      BY <1>0, <2>0 DEF SpawnOk, Ended
    <3>6. x.polled[s]
      BY <1>0, <2>0, <2>1, <3>5 DEF SpawnOk, Ended
    <3>7. x.merge => p["e"] = 0
      BY <1>0, <2>1, <3>3 DEF SpawnOk, Streams
    <3>8. \A u \in Streams : ~x.polled[u] => p[u] = 0 /\ ((x.merge /\ u = "e") \/ x.child \in Ended)
      BY <1>0, <3>3, <3>5, <3>6 DEF SpawnOk
    <3>9. SpawnOk(y)
      BY <1>0, <2>0, <3>2, <3>3, <3>4, <3>5, <3>7, <3>8 DEF SpawnOk
    <3> QED
      BY <3>1, <3>9
  <2> QED
    BY <1>4, <2>2, <2>3 DEF ChildWrites, s
<1> QED
  BY <1>1, <1>3, <1>4

\* The parent reads a pipe, or stops to.
LEMMA DrainStep ==
  ASSUME SpawnOk(sp), NEW s \in Streams, zut_private_drain_fd(s)
  PROVE  SpawnOk(sp')
<1> DEFINE x == sp
<1>0. /\ SpawnOk(x) /\ SpawnFields \subseteq DOMAIN x /\ x.pc = "poll" /\ x.polled[s]
      /\ x.pipe \in [Streams -> Nat] /\ x.wrote \in [Streams -> Nat] /\ x.got \in [Streams -> Nat]
      /\ \A u \in Streams : x.wrote[u] = x.got[u] + x.pipe[u]
      /\ x.polled \in [Streams -> BOOLEAN]
  BY DEF SpawnOk, zut_private_drain_fd, Polls
<1>1. CASE /\ x.pipe[s] > 0
           /\ LET n == IF x.pipe[s] > ReadSize THEN ReadSize ELSE x.pipe[s]
              IN  sp' = [x EXCEPT !.pipe[s] = @ - n, !.got[s] = @ + n]
  <2> DEFINE n == IF x.pipe[s] > ReadSize THEN ReadSize ELSE x.pipe[s]
             p == [x.pipe EXCEPT ![s] = @ - n]
             g == [x.got EXCEPT ![s] = @ + n]
             y == [x EXCEPT !.pipe = p, !.got = g]
  <2>1. n \in Nat /\ n <= x.pipe[s]
    BY <1>0, ServicesAssumption
  <2>2. sp' = y
    BY <1>1
  <2> HIDE DEF n
  <2>3. /\ p \in [Streams -> Nat] /\ g \in [Streams -> Nat]
        /\ \A u \in Streams : /\ p[u] = IF u = s THEN x.pipe[u] - n ELSE x.pipe[u]
                              /\ g[u] = IF u = s THEN x.got[u] + n ELSE x.got[u]
    BY <1>0, <2>1
  <2> HIDE DEF p, g
  <2>4. /\ SpawnFields \subseteq DOMAIN y /\ y.pc = x.pc /\ y.merge = x.merge /\ y.fds = x.fds
        /\ y.left = x.left /\ y.pipe = p /\ y.wrote = x.wrote /\ y.got = g
        /\ y.polled = x.polled /\ y.broken = x.broken /\ y.child = x.child
    BY <1>0 DEF SpawnFields
  <2> HIDE DEF y, x
  <2>5. \A u \in Streams : x.wrote[u] = g[u] + p[u]
    BY <1>0, <2>1, <2>3
  <2>6. \A u \in Streams : x.pipe[u] = 0 => p[u] = 0
    BY <1>0, <2>1, <2>3
  <2>7. SpawnOk(y)
    BY <1>0, <2>3, <2>4, <2>5, <2>6 DEF SpawnOk, Streams
  <2> QED
    BY <2>2, <2>7
<1>2. CASE x.pipe[s] = 0 /\ Closed /\ sp' = [x EXCEPT !.polled[s] = FALSE]
  <2> DEFINE p == [x.polled EXCEPT ![s] = FALSE]
             y == [x EXCEPT !.polled = p]
  <2>1. sp' = y
    BY <1>2
  <2>2. p \in [Streams -> BOOLEAN] /\ \A u \in Streams : ~p[u] => u = s \/ ~x.polled[u]
    BY <1>0
  <2> HIDE DEF p
  <2>3. /\ SpawnFields \subseteq DOMAIN y /\ y.pc = x.pc /\ y.merge = x.merge /\ y.fds = x.fds
        /\ y.left = x.left /\ y.pipe = x.pipe /\ y.wrote = x.wrote /\ y.got = x.got
        /\ y.polled = p /\ y.broken = x.broken /\ y.child = x.child
    BY <1>0 DEF SpawnFields
  <2>4. x.child \in Ended
    BY <1>2 DEF Closed, Ended
  <2> HIDE DEF y, x
  <2>5. SpawnOk(y)
    BY <1>0, <1>2, <2>2, <2>3, <2>4 DEF SpawnOk
  <2> QED
    BY <2>1, <2>5
<1>3. CASE sp' = [x EXCEPT !.polled[s] = FALSE, !.broken = TRUE, !.left = <<>>,
                            !.child = IF @ = "running" THEN "killed" ELSE @]
  <2> DEFINE p == [x.polled EXCEPT ![s] = FALSE]
             c == IF x.child = "running" THEN "killed" ELSE x.child
             y == [x EXCEPT !.polled = p, !.broken = TRUE, !.left = <<>>, !.child = c]
  <2>1. sp' = y
    BY <1>3
  <2>2. p \in [Streams -> BOOLEAN] /\ c \in Ended
    BY <1>0 DEF SpawnOk, Ended
  <2> HIDE DEF p, c
  <2>3. /\ SpawnFields \subseteq DOMAIN y /\ y.pc = x.pc /\ y.merge = x.merge /\ y.fds = x.fds
        /\ y.left = <<>> /\ y.pipe = x.pipe /\ y.wrote = x.wrote /\ y.got = x.got
        /\ y.polled = p /\ y.broken /\ y.child = c
    BY <1>0 DEF SpawnFields
  <2>4. c # "running"
    BY <2>2 DEF Ended
  <2> HIDE DEF y, x
  <2>5. y.left \in Seq(Streams) /\ y.polled \in [Streams -> BOOLEAN] /\ y.child \in Ended
    BY <2>2, <2>3
  <2>6. /\ x.merge \in BOOLEAN /\ (x.merge => x.pipe["e"] = 0)
    BY <1>0 DEF SpawnOk
  <2>7. SpawnOk(y)
    <3>1. /\ y.pc = "poll" /\ y.merge \in BOOLEAN
          /\ y.pipe \in [Streams -> Nat] /\ y.wrote \in [Streams -> Nat] /\ y.got \in [Streams -> Nat]
      BY <1>0, <2>3, <2>6
    <3>2. \A u \in Streams : y.wrote[u] = y.got[u] + y.pipe[u]
      BY <1>0, <2>3
    <3>3. (y.merge => y.pipe["e"] = 0) /\ y.broken /\ SpawnFields \subseteq DOMAIN y
      BY <2>3, <2>6
    <3>4. y.child # "running"
      BY <2>3, <2>4
    <3> QED
      BY <2>5, <3>1, <3>2, <3>3, <3>4 DEF SpawnOk
  <2> QED
    BY <2>1, <2>7
<1> QED
  BY <1>1, <1>2, <1>3 DEF zut_private_drain_fd

\* Both pipes are at their end, or poll failed; then the child is waited for.
LEMMA WaitStep ==
  ASSUME SpawnOk(sp), zut_private_drain_pipes \/ zut_run_program
  PROVE  SpawnOk(sp')
<1> DEFINE x == sp
<1>0. SpawnOk(x) /\ SpawnFields \subseteq DOMAIN x
  BY DEF SpawnOk
<1>1. CASE zut_private_drain_pipes /\ (\A s \in Streams : ~ x.polled[s]) /\ sp' = [x EXCEPT !.pc = "wait", !.fds = {}]
  <2> DEFINE y == [x EXCEPT !.pc = "wait", !.fds = {}]
  <2>1. /\ SpawnFields \subseteq DOMAIN y /\ y.pc = "wait" /\ y.merge = x.merge /\ y.fds = {}
        /\ y.left = x.left /\ y.pipe = x.pipe /\ y.wrote = x.wrote /\ y.got = x.got
        /\ y.polled = x.polled /\ y.broken = x.broken /\ y.child = x.child
    BY <1>0 DEF SpawnFields
  <2>2. x.pc = "poll"
    BY <1>1 DEF zut_private_drain_pipes
  <2>3. x.child \in Ended
    BY <1>0, <1>1, <2>2 DEF SpawnOk, Streams
  <2> HIDE DEF y, x
  <2>4. SpawnOk(y)
    BY <1>0, <1>1, <2>1, <2>2, <2>3 DEF SpawnOk, Ended
  <2> QED
    BY <1>1, <2>4 DEF y, x
<1>2. CASE /\ zut_private_drain_pipes
           /\ sp' = [x EXCEPT !.pc = "wait", !.fds = {}, !.broken = TRUE, !.left = <<>>,
                              !.child = IF @ = "running" THEN "killed" ELSE @]
  <2> DEFINE c == IF x.child = "running" THEN "killed" ELSE x.child
             y == [x EXCEPT !.pc = "wait", !.fds = {}, !.broken = TRUE, !.left = <<>>, !.child = c]
  <2>0. x.pc = "poll"
    BY <1>2 DEF zut_private_drain_pipes
  <2>1. sp' = y
    BY <1>2
  <2>2. c \in Ended
    BY <1>0, <2>0 DEF SpawnOk, Ended
  <2> HIDE DEF c
  <2>3. /\ SpawnFields \subseteq DOMAIN y /\ y.pc = "wait" /\ y.merge = x.merge /\ y.fds = {}
        /\ y.left = <<>> /\ y.pipe = x.pipe /\ y.wrote = x.wrote /\ y.got = x.got
        /\ y.polled = x.polled /\ y.broken /\ y.child = c
    BY <1>0 DEF SpawnFields
  <2>4. c # "running"
    BY <2>2 DEF Ended
  <2> HIDE DEF y, x
  <2>5. SpawnOk(y)
    BY <1>0, <2>2, <2>3, <2>4 DEF SpawnOk
  <2> QED
    BY <2>1, <2>5
<1>3. CASE zut_run_program
  <2> DEFINE c == IF x.child = "exited" THEN 0 ELSE 1
             y == [x EXCEPT !.pc = "end", !.rc = c]
  <2>1. sp' = y /\ x.pc = "wait"
    BY <1>3 DEF zut_run_program
  <2> HIDE DEF c
  <2>2. /\ SpawnFields \subseteq DOMAIN y /\ y.pc = "end" /\ y.merge = x.merge /\ y.fds = x.fds
        /\ y.left = x.left /\ y.pipe = x.pipe /\ y.wrote = x.wrote /\ y.got = x.got
        /\ y.polled = x.polled /\ y.broken = x.broken /\ y.child = x.child
    BY <1>0 DEF SpawnFields
  <2> HIDE DEF y, x
  <2>3. SpawnOk(y)
    BY <1>0, <2>1, <2>2 DEF SpawnOk, Ended
  <2> QED
    BY <2>1, <2>3
<1> QED
  BY <1>1, <1>2, <1>3 DEF zut_private_drain_pipes

\* A step moves one of the program, the call and the authorisation.
LEMMA ServiceStep ==
  ASSUME ServiceInv, [SvNext]_svVars
  PROVE  ServiceInv'
<1>0. SpawnOk(sp) /\ CallOk(qy) /\ AuthOk(au)
  BY DEF ServiceInv
<1>1. CASE UNCHANGED svVars
  BY <1>0, <1>1 DEF ServiceInv, svVars
<1>2. CASE zut_spawn_shell_command \/ ztso_issue
  <2>1. UNCHANGED <<qy, au>>
    BY <1>2 DEF zut_spawn_shell_command, ztso_issue, zut_private_run_program
  <2> QED
    BY <1>0, <1>2, <2>1, SpawnStep DEF ServiceInv
<1>3. CASE ChildWrites \/ ChildExits \/ HolderExits
  <2>1. UNCHANGED <<qy, au>>
    BY <1>3 DEF ChildWrites, ChildExits, HolderExits
  <2> QED
    BY <1>0, <1>3, <2>1, ChildStep DEF ServiceInv
<1>4. CASE \E s \in Streams : zut_private_drain_fd(s)
  <2>1. UNCHANGED <<qy, au>>
    BY <1>4 DEF zut_private_drain_fd
  <2> QED
    BY <1>0, <1>4, <2>1, DrainStep DEF ServiceInv
<1>5. CASE zut_private_drain_pipes \/ zut_run_program
  <2>1. UNCHANGED <<qy, au>>
    BY <1>5 DEF zut_private_drain_pipes, zut_run_program
  <2> QED
    BY <1>0, <1>5, <2>1, WaitStep DEF ServiceInv
<1>6. CASE zut_list_apf \/ zut_list_linklist
  <2>1. UNCHANGED <<sp, au>>
    BY <1>6 DEF zut_list_apf, zut_list_linklist, AskSize, FetchList
  <2> QED
    BY <1>0, <1>6, <2>1, SizedListStep DEF ServiceInv
<1>7. CASE \/ TableChanges \/ zut_list_subsystems \/ zut_list_parmlib \/ (\E op : Show(op))
           \/ zut_substitute_symbol
  <2>1. UNCHANGED <<sp, au>>
    BY <1>7 DEF TableChanges, zut_list_subsystems, zut_list_parmlib, Show, zut_substitute_symbol,
                ListAtOnce, ListFails
  <2> QED
    BY <1>0, <1>7, <2>1, ListStep DEF ServiceInv
<1>8. CASE \/ (\E op, areas, checked : load_module(op, areas, checked) /\ op \notin SystemLists)
           \/ (\E op : delete_module(op))
           \/ zut_bpxwdyn_common
  <2>1. UNCHANGED <<sp, au>>
    BY <1>8 DEF load_module, delete_module, zut_bpxwdyn_common
  <2> QED
    BY <1>0, <1>8, <2>1, ModuleStep DEF ServiceInv
<1>9. CASE (\E p, h \in BOOLEAN : setup_root_command(p, h)) \/ interactive_mode
  <2>1. UNCHANGED <<sp, qy>>
    BY <1>9 DEF setup_root_command, interactive_mode
  <2> QED
    BY <1>0, <1>9, <2>1, AuthStep DEF ServiceInv
<1>10. (\/ handle_system_list_apf \/ handle_system_list_linklist \/ handle_system_list_parmlib
        \/ handle_system_list_subsystems \/ handle_system_display_symbol) => \E op : Show(op)
  BY DEF handle_system_list_apf, handle_system_list_linklist, handle_system_list_parmlib,
         handle_system_list_subsystems, handle_system_display_symbol
<1>11. ASSUME ZUTRUN \/ ZUTMSDFP \/ zutm1call24("run24") \/ zutm1call24("utility") \/ ZUTWDYN
              \/ ZUTSYMBP \/ ZUTSRCH \/ ZUTEDSCT \/ ZUTIDCAM
       PROVE  \/ (\E op, areas, checked : load_module(op, areas, checked) /\ op \notin SystemLists)
              \/ (\E op : delete_module(op))
  <2>1. \A op \in {"run24", "run", "utility", "dynalloc", "symbol", "search", "dsect", "idcams"} :
          op \notin SystemLists
    BY DEF SystemLists, SizedLists
  <2>2. CASE \E op : delete_module(op)
    BY <2>2
  <2>3. CASE ~\E op : delete_module(op)
    <3>1. \/ load_module("run24", {}, TRUE) \/ load_module("run", {}, TRUE)
          \/ load_module("utility", {}, TRUE) \/ load_module("dynalloc", {"parm"}, TRUE)
          \/ load_module("symbol", {"parms"}, FALSE) \/ load_module("search", {}, FALSE)
          \/ load_module("dsect", {}, FALSE) \/ load_module("idcams", {}, FALSE)
      BY <1>11, <2>3 DEF ZUTRUN, ZUTMSDFP, zutm1call24, ZUTWDYN, ZUTSYMBP, ZUTSRCH, ZUTEDSCT, ZUTIDCAM
    <3> QED
      BY <2>1, <3>1
  <2> QED
    BY <2>2, <2>3
<1> QED
  BY <1>1, <1>2, <1>3, <1>4, <1>5, <1>6, <1>7, <1>8, <1>9, <1>10, <1>11 DEF SvNext

\* Nothing was spawned, called or authorised against the rules at the start.
LEMMA ServiceBegin ==
  ASSUME SpInit, QyInit \/ qy = QyIdle, AuInit \/ au = AuIdle
  PROVE  ServiceInv
<1>1. SpawnOk(sp)
  <2> DEFINE y == SpIdle
             z == [s \in Streams |-> 0]
             f == [s \in Streams |-> FALSE]
  <2>0. sp = y
    BY DEF SpInit
  <2>1. /\ SpawnFields \subseteq DOMAIN y /\ y.pc = "idle" /\ y.merge = FALSE /\ y.fds = {}
        /\ y.left = <<>> /\ y.pipe = z /\ y.wrote = z /\ y.got = z
        /\ y.polled = f /\ y.broken = FALSE /\ y.child = "none"
    BY DEF SpIdle, SpawnFields
  <2>2. z \in [Streams -> Nat] /\ f \in [Streams -> BOOLEAN] /\ \A s \in Streams : z[s] = 0
    OBVIOUS
  <2>3. z["e"] = 0 /\ \A s \in Streams : z[s] = z[s] + z[s]
    BY <2>2 DEF Streams
  <2>4. <<>> \in Seq(Streams)
    OBVIOUS
  <2> HIDE DEF y, z, f
  <2>5. SpawnOk(y)
    <3>1. /\ SpawnFields \subseteq DOMAIN y /\ y.pc = "idle" /\ y.merge \in BOOLEAN /\ y.fds = {}
          /\ y.left \in Seq(Streams) /\ ~y.broken /\ y.child # "running"
          /\ y.pipe \in [Streams -> Nat] /\ y.wrote \in [Streams -> Nat] /\ y.got \in [Streams -> Nat]
          /\ y.polled \in [Streams -> BOOLEAN]
      BY <2>1, <2>2, <2>4
    <3>2. /\ (y.merge => y.pipe["e"] = 0) /\ \A s \in Streams : y.pipe[s] = 0
          /\ \A s \in Streams : y.wrote[s] = y.got[s] + y.pipe[s]
      BY <2>1, <2>2, <2>3
    <3> QED
      BY <3>1, <3>2 DEF SpawnOk
  <2> QED
    BY <2>0, <2>5
<1>2. CallOk(qy)
  <2>1. CallFields \subseteq DOMAIN QyIdle /\ QyIdle.pc = "idle" /\ ~QyIdle.loaded /\ QyIdle.storage = {}
        /\ QyIdle.got = 0 /\ QyIdle.rc = 0 /\ QyIdle.table = 0
    BY DEF QyIdle, CallFields
  <2>2. CASE qy = QyIdle
    BY <2>1, <2>2 DEF CallOk
  <2>3. CASE QyInit
    <3>1. PICK n \in Tables : qy = [QyIdle EXCEPT !.table = n]
      BY <2>3 DEF QyInit
    <3>2. n \in Nat
      BY ServicesAssumption
    <3>3. /\ CallFields \subseteq DOMAIN qy /\ qy.pc = "idle" /\ ~qy.loaded /\ qy.storage = {}
          /\ qy.got = 0 /\ qy.rc = 0 /\ qy.table = n
      BY <2>1, <3>1 DEF CallFields
    <3> QED
      BY <3>2, <3>3 DEF CallOk
  <2> QED
    BY <2>2, <2>3
<1>3. AuthOk(au)
  <2>1. {"authorised", "running", "lines"} \subseteq DOMAIN AuIdle /\ AuIdle.running = "none"
    BY DEF AuIdle
  <2>2. CASE au = AuIdle
    BY <2>1, <2>2 DEF AuthOk
  <2>3. CASE AuInit
    <3>1. PICK b \in BOOLEAN : au = [AuIdle EXCEPT !.authorised = b]
      BY <2>3 DEF AuInit
    <3> QED
      BY <2>1, <3>1 DEF AuthOk
  <2> QED
    BY <2>2, <2>3
<1> QED
  BY <1>1, <1>2, <1>3 DEF ServiceInv

\* What the invariant says of calls, of programs and of the authorisation.
LEMMA ServiceSafe == ServiceInv => ServiceLeavesNothing /\ ProgramsRunRight
<1> SUFFICES ASSUME ServiceInv PROVE ServiceLeavesNothing /\ ProgramsRunRight
  OBVIOUS
<1> DEFINE x == sp
<1>0. SpawnOk(x) /\ CallOk(qy) /\ AuthOk(au)
  BY DEF ServiceInv
<1>1. ServiceLeavesNothing
  <2>1. x.pc = "end" => x.fds = {}
    BY <1>0 DEF SpawnOk
  <2> QED
    BY <1>0, <2>1 DEF CallOk, ServiceLeavesNothing, SystemLists, SizedLists
<1>2. PlainRunsUnauthorised
  BY <1>0 DEF AuthOk, PlainRunsUnauthorised
<1>3. OutputComplete
  <2> SUFFICES ASSUME x.pc = "end", ~x.broken PROVE x.got = x.wrote
    BY DEF OutputComplete
  <2>1. /\ x.wrote \in [Streams -> Nat] /\ x.got \in [Streams -> Nat] /\ x.pipe \in [Streams -> Nat]
        /\ \A s \in Streams : x.wrote[s] = x.got[s] + x.pipe[s]
        /\ \A s \in Streams : x.pipe[s] = 0
    BY <1>0 DEF SpawnOk
  <2> HIDE DEF x
  <2>2. \A s \in Streams : x.wrote[s] = x.got[s]
    BY <2>1
  <2>3. x.wrote = [s \in Streams |-> x.wrote[s]] /\ x.got = [s \in Streams |-> x.got[s]]
    BY <2>1
  <2> QED
    BY <2>2, <2>3
<1>4. NoStandoff
  <2> SUFFICES ASSUME x.child = "running", x.left # <<>>
               PROVE  LET s == IF x.merge THEN "o" ELSE Head(x.left)
                      IN  x.pipe[s] = PipeSize /\ ReadEnd(s) \in x.fds => Polls(s) /\ x.pipe[s] > 0
    BY DEF NoStandoff
  <2> DEFINE s == IF x.merge THEN "o" ELSE Head(x.left)
  <2>1. s \in Streams
    BY <1>0 DEF SpawnOk, Streams
  <2>2. ~(x.merge /\ s = "e")
    OBVIOUS
  <2> HIDE DEF s
  <2> SUFFICES ASSUME x.pipe[s] = PipeSize, ReadEnd(s) \in x.fds
               PROVE  Polls(s) /\ x.pipe[s] > 0
    BY DEF s
  <2>3. x.pipe[s] > 0
    BY ServicesAssumption
  <2>4. x.fds # {}
    OBVIOUS
  <2>5. x.pc = "poll"
    BY <1>0, <2>4 DEF SpawnOk
  <2>6. x.polled[s]
    <3> HIDE DEF x
    <3>1. ~x.broken /\ x.child \notin Ended
      BY <1>0 DEF SpawnOk, Ended
    <3> QED
      BY <1>0, <2>1, <2>3, <2>5, <3>1 DEF SpawnOk
  <2> QED
    BY <2>3, <2>5, <2>6 DEF Polls
<1> QED
  BY <1>1, <1>2, <1>3, <1>4 DEF ProgramsRunRight

-----------------------------------------------------------------------------
(* Every library *)

\* At rest or at work, jobs, consoles, key rings and services begin in order.
LEMMA ReleaseBegins ==
  ASSUME LibraryInit PROVE JobInv /\ ConsoleInv /\ KeyRingInv /\ PageInv /\ ServiceInv
<1>1. \E j : JbBegin(j)
  BY DEF LibraryInit, JbInit
<1>2. CnInit /\ KrInit /\ SpInit /\ (QyInit \/ qy = QyIdle) /\ (AuInit \/ au = AuIdle)
  BY DEF LibraryInit
<1> QED
  BY <1>1, <1>2, JobBegin, ConsoleBegin, KeyRingBegin, PageBegin, ServiceBegin

\* A step of one library is at most a step of each.
LEMMA ReleaseStep ==
  ASSUME [LibraryNext]_libraryVars
  PROVE  [JbNext]_jbVars /\ [CnNext]_cnVars /\ [KrNext]_krVars /\ [SvNext]_svVars
BY DEF LibraryNext, libraryVars

(* Everything that is held, and everything that is waited for, at once.    *)
ReleaseInv == WriterInv /\ DataSetInv /\ JobInv /\ ConsoleInv /\ KeyRingInv /\ PageInv /\ ServiceInv

\* The invariants of the six libraries hold together, for any tasks, jobs,
\* consoles, rings, scripts and limits.
THEOREM LibraryInductive == LibrarySpec => []ReleaseInv
<1>1. LibraryInit => ReleaseInv
  BY LibraryBegins, ReleaseBegins DEF ReleaseInv
<1>2. ReleaseInv /\ [LibraryNext]_libraryVars => ReleaseInv'
  BY LibraryStep, ReleaseStep, WriterStep, DataSetStep, JobStep, ConsoleStep, KeyRingStep, PageStep, ServiceStep, KrAssumption
  DEF ReleaseInv
<1> QED
  BY <1>1, <1>2, PTL DEF LibrarySpec, libraryVars

\* Whatever step of a request failed, it ends with what it took given back:
\* ENQ, RESERVE and DCB (zam.c), the DDs with fixed names (zds.cpp), spool DDs
\* (zjb.cpp), the console and its timer (zcn.cpp), the enumeration handle of a
\* key ring (zkr.cpp), loaded modules, storage and descriptors (zut.cpp); but
\* for a release that was refused, the DDs that a failed read of a volume and
\* a compress short of a DD keep, and the storage of a text that is too long.
THEOREM LibraryNothingLeft == LibrarySpec => []NothingLeftBehind
<1>1. ReleaseInv => NothingLeftBehind
  BY WriterSafe, DataSetSafe, JobSafe, ConsoleSafe, KeyRingSafe, ServiceSafe
  DEF ReleaseInv, NothingLeftBehind
<1> QED
  BY <1>1, LibraryInductive, PTL

\* A submission answers with its own job, and a log excerpt ends at its last
\* record's local time (zjb.cpp).
THEOREM LibraryJobAnswers == LibrarySpec => []JobAnswersHonest
<1>1. ReleaseInv => JobAnswersHonest
  BY JobSafe DEF ReleaseInv
<1> QED
  BY <1>1, LibraryInductive, PTL

\* A console waits on a clear ECB only with its timer set, and what it answers
\* is what the console said, from the start and without a hole (zcn.cpp).
THEOREM LibraryConsoleAnswers == LibrarySpec => []ConsoleAnswers
<1>1. ReleaseInv => ConsoleAnswers
  BY ConsoleSafe DEF ReleaseInv
<1> QED
  BY <1>1, LibraryInductive, PTL

\* A request that changed a certificate the class still has in memory says so,
\* and a listing is the first page of the certificates that match (zkr.cpp).
THEOREM LibraryKeyRings == LibrarySpec => []KeyRingAnswersHonest
<1>1. ReleaseInv => KeyRingAnswersHonest
  BY KeyRingSafe, PageSafe DEF ReleaseInv, KeyRingAnswersHonest
<1> QED
  BY <1>1, LibraryInductive, PTL

\* A spawned program and the parent that drains its pipes never wait for each
\* other, an undisturbed program is heard to its end (zut.cpp), and a plain
\* command runs unauthorised (commands/core.cpp).
THEOREM LibraryProgramsRun == LibrarySpec => []ProgramsRunRight
<1>1. ReleaseInv => ProgramsRunRight
  BY ServiceSafe DEF ReleaseInv
<1> QED
  BY <1>1, LibraryInductive, PTL

\* A write with an e-tag that succeeds replaced the contents the e-tag names,
\* of a data set (zds.cpp) or a UNIX file (zusf.cpp), unless it was overtaken
\* between the comparison and the write.
THEOREM LibraryEtags == LibrarySpec => []EtagsHold
<1>1. ReleaseInv /\ UssInv => EtagsHold
  BY DataSetSafe, UssSafe DEF ReleaseInv, EtagsHold
<1> QED
  BY <1>1, LibraryInductive, LibraryFiles, PTL
=============================================================================
