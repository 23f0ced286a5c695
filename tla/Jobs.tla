-------------------------------- MODULE Jobs --------------------------------
(***************************************************************************)
(* The job commands of zowex (commands/job.cpp, zjb.cpp) and the JES       *)
(* subsystem requests under them (zjbm.c), run by several workers, and the *)
(* system log and PROCLIB listings of commands/system.cpp that use them.   *)
(* JES itself is external: jobs appear, run, end and are purged between    *)
(* the steps of a request.  A job is [owner, phase, held, dds]: dds is the *)
(* number of its spool files, whose keys are 1..dds.  The text of a status *)
(* is its phase; the JES symbols SYS_LASTJOBID and SYS_CORR_LASTJOB belong *)
(* to the task that closed the internal reader.                            *)
(***************************************************************************)
EXTENDS Integers, Sequences, FiniteSets

CONSTANTS JbIds,        \* the job numbers JES can give, in order: 1..n
          JbTasks, JbNone,
          JbMaxDds,     \* most spool files a job can have
          JobsMax, DdsMax,      \* ZJB_DEFAULT_MAX_JOBS, ZJB_DEFAULT_MAX_DDS
          BufferSlots,  \* entries that fit ZJB_DEFAULT_BUFFER_SIZE
          MaxEntries,   \* MAX_DSN_ENTRIES
          JbJobs,       \* [before |-> jobs, ask |-> [JbTasks -> request]]
          SyslogCases   \* [tz, day, time, log, max]
CONSTANTS CsPerDay, Uint32

\* No job number stands for the lack of a job; log records are instants, in
\* hundredths of a second, of days that have some.
ASSUME JobsAssumption ==
    /\ JbNone \notin JbIds /\ CsPerDay \in Nat \ {0}
    /\ \A c \in SyslogCases : c.tz \in Int /\ c.log \in Seq(Int)

VARIABLES jes,          \* [JbIds -> job or JbNone]
          spool,        \* DDs allocated to spool files and internal readers, by task
          symbols,      \* [JbTasks -> [jobid, correlator]]
          jb            \* [JbTasks -> request, its progress and answer]

jbVars == <<jes, spool, symbols, jb>>

JbReq(t) == jb[t].req
JbAt(t, op, pc) == JbReq(t).op = op /\ jb[t].pc = pc
JbDone(t, rc) == jb' = [jb EXCEPT ![t].pc = "done", ![t].rc = rc]
JbStuck(t) == jb' = [jb EXCEPT ![t].pc = "done", ![t].rc = "failure", ![t].stuck = TRUE]
JbGoto(t, pc) == jb' = [jb EXCEPT ![t].pc = pc]

JobPhases == {"AWAIT MAIN SELECT", "EXECUTING", "AWAITING OUTPUT", "OTHER"}

-----------------------------------------------------------------------------
(* JES                                                                      *)

JesStep(i) ==
    /\ jes[i] # JbNone
    /\ \/ /\ jes[i].phase = "AWAIT MAIN SELECT" /\ ~jes[i].held
          /\ jes' = [jes EXCEPT ![i].phase = "EXECUTING"]
       \/ /\ jes[i].phase = "EXECUTING" /\ jes[i].dds < JbMaxDds
          /\ jes' = [jes EXCEPT ![i].dds = @ + 1]
       \/ /\ jes[i].phase = "EXECUTING"
          /\ jes' = [jes EXCEPT ![i].phase = "AWAITING OUTPUT"]
       \/ /\ jes[i].phase = "AWAITING OUTPUT" /\ jes' = [jes EXCEPT ![i] = JbNone]
    /\ UNCHANGED <<spool, symbols, jb>>

\* The internal reader takes a job when the JCL has one.
Intrdr(t, hasJob) ==
    LET free == {i \in JbIds : jes[i] = JbNone /\ \A u \in JbTasks : jb[u].mine # i}
    IN  IF hasJob
        THEN \E i \in free :
                /\ \A k \in free : i <= k
                /\ jes' = [jes EXCEPT ![i] = [owner |-> "me", phase |-> "AWAIT MAIN SELECT", held |-> FALSE, dds |-> 0]]
                /\ symbols' = [symbols EXCEPT ![t] = [jobid |-> i, correlator |-> i]]
                /\ jb' = [jb EXCEPT ![t].pc = "jobid", ![t].mine = i]
        ELSE /\ symbols' = [symbols EXCEPT ![t] = [jobid |-> JbNone, correlator |-> JbNone]]
             /\ JbGoto(t, "jobid") /\ UNCHANGED jes

-----------------------------------------------------------------------------
(* Extended status: one entry per job, the first jobs_max of them, as far   *)
(* as the buffer goes                                                       *)

\* What ZJBMTCOM returns for the matching jobs, in their order.
ZJBMTCOM(found, jobs_max) ==
    LET n == Cardinality(found)
        seen == IF n > jobs_max THEN jobs_max ELSE n
        kept == IF seen > BufferSlots THEN BufferSlots ELSE seen
    IN  [entries |-> {i \in found : Cardinality({k \in found : k < i}) < kept},
         rc |-> IF n > jobs_max THEN "warning" ELSE "ok"]

ZJBMLIST(r) == {i \in JbIds : /\ jes[i] # JbNone /\ jes[i].owner = r.owner
                              /\ r.status = "ACTIVE" => jes[i].phase = "EXECUTING"}
ZJBMVIEW(i) == {k \in JbIds : k = i /\ jes[k] # JbNone}

\* zjb_build_job_response
StatusOf(phase) == CASE phase = "AWAIT MAIN SELECT" -> "INPUT" [] phase = "EXECUTING" -> "ACTIVE"
                     [] phase = "AWAITING OUTPUT" -> "OUTPUT" [] OTHER -> phase

zjb_list_by_owner(r) == ZJBMTCOM(ZJBMLIST(r), IF r.max > 0 THEN r.max ELSE JobsMax)

\* A warning is hidden from a caller that asks so.
Warned(r, rc) == IF ~r.warn /\ rc = "warning" THEN "ok" ELSE rc

handle_job_list(t) ==
    /\ JbAt(t, "list", "start")
    /\ LET a == zjb_list_by_owner(JbReq(t))
       IN  \/ JbDone(t, "failure")                                 \* IEFSSREQ or IAZTLKUP
           \/ jb' = [jb EXCEPT ![t].pc = "done", ![t].rc = Warned(JbReq(t), a.rc),
                               ![t].got = a.entries, ![t].all = ZJBMLIST(JbReq(t))]
    /\ UNCHANGED <<jes, spool, symbols>>

\* zjb_view: the job, or none
zjb_view(i) == ZJBMTCOM(ZJBMVIEW(i), JobsMax).entries

handle_job_view_status(t) ==
    /\ JbAt(t, "status", "start")
    /\ \/ JbDone(t, "failure")
       \/ /\ zjb_view(JbReq(t).id) # {}
          /\ jb' = [jb EXCEPT ![t].pc = "done", ![t].got = {StatusOf(jes[JbReq(t).id].phase)}]
    /\ UNCHANGED <<jes, spool, symbols>>

-----------------------------------------------------------------------------
(* Spool files                                                              *)

\* ZJBMLSDS: verbose output entries of the job.
ZJBMLSDS(i, dds_max) ==
    LET n == jes[i].dds
        seen == IF n > dds_max THEN dds_max ELSE n
    IN  [keys |-> 1..(IF seen > BufferSlots THEN BufferSlots ELSE seen),
         rc |-> IF n > dds_max THEN "warning" ELSE "ok"]

\* The job is looked up first: its output cannot be asked for by id.
ZJBMGJQ(i) == jes[i] # JbNone

\* A job without output has the two files JES will write first.
zjb_list_dds(i, dds_max) ==
    IF ~ZJBMGJQ(i) THEN [keys |-> {}, rc |-> "failure"]
    ELSE IF ZJBMLSDS(i, dds_max).keys = {} THEN [keys |-> {2, 3}, rc |-> "ok"]
    ELSE ZJBMLSDS(i, dds_max)

handle_job_list_files(t) ==
    /\ JbAt(t, "files", "start")
    /\ LET r == JbReq(t)
           a == zjb_list_dds(r.id, IF r.max > 0 THEN r.max ELSE DdsMax)
       IN  \/ JbDone(t, "failure")
           \/ /\ a.rc # "failure"
              /\ jb' = [jb EXCEPT ![t].pc = "done", ![t].rc = Warned(r, a.rc), ![t].got = a.keys]
    /\ UNCHANGED <<jes, spool, symbols>>

\* By key: the files are listed (at most dds_max; more is an error here).
zjb_get_job_dsn_by_key(t) ==
    /\ JbAt(t, "file_by_id", "start")
    /\ LET a == zjb_list_dds(JbReq(t).id, DdsMax)
       IN  IF a.rc = "ok" /\ JbReq(t).key \in a.keys
           THEN jb' = [jb EXCEPT ![t].pc = "locate", ![t].key = JbReq(t).key]
           ELSE JbDone(t, "failure")
    /\ UNCHANGED <<jes, spool, symbols>>

\* The JCL is named after the first file; its name holds no key.
zjb_read_job_jcl(t) ==
    /\ JbAt(t, "jcl", "start")
    /\ LET a == zjb_list_dds(JbReq(t).id, DdsMax)
       IN  IF a.rc = "ok" THEN jb' = [jb EXCEPT ![t].pc = "locate", ![t].key = 0] ELSE JbDone(t, "failure")
    /\ UNCHANGED <<jes, spool, symbols>>

handle_job_view_file(t) ==
    /\ JbAt(t, "file", "start")
    /\ jb' = [jb EXCEPT ![t].pc = "locate", ![t].key = JbReq(t).key]
    /\ UNCHANGED <<jes, spool, symbols>>

\* owner.jobname.jobid.Dnnnnnnn.ddname holds a key, owner.jobname.jobid.JCL none.
zjb_parse_dsn_for_key(t) == jb[t].key # 0

\* By name: a name with a key is looked up again, for its token.
zjb_read_job_content_by_dsn(t) ==
    /\ jb[t].pc = "locate"
    /\ LET a == zjb_list_dds(JbReq(t).id, DdsMax)
       IN  IF zjb_parse_dsn_for_key(t) => a.rc = "ok" /\ jb[t].key \in a.keys
           THEN JbGoto(t, "alloc") ELSE JbDone(t, "failure")
    /\ UNCHANGED <<jes, spool, symbols>>

zjb_read_job_dynamic_allocation(t) ==
    /\ jb[t].pc = "alloc"
    /\ \/ JbDone(t, "failure") /\ UNCHANGED spool
       \/ spool' = spool \cup {t} /\ JbGoto(t, "read")
    /\ UNCHANGED <<jes, symbols>>

\* zds_read from the DD: spool that is still there.
JbRead(t) ==
    /\ jb[t].pc = "read"
    /\ \/ /\ jes[JbReq(t).id] # JbNone
          /\ jb' = [jb EXCEPT ![t].pc = "free", ![t].got = {jb[t].key}]
       \/ jb' = [jb EXCEPT ![t].pc = "free", ![t].rc = "failure"]
    /\ UNCHANGED <<jes, spool, symbols>>

\* Read or not, the DD is freed; a watcher then matches, sleeps or gives up.
zjb_free_job_dynamic_allocation(t) ==
    /\ jb[t].pc = "free"
    /\ \/ /\ spool' = spool \ {t}
          /\ JbGoto(t, IF JbReq(t).op = "watch" THEN "match" ELSE "done")
       \/ JbStuck(t) /\ UNCHANGED spool                           \* dynfree fails
    /\ UNCHANGED <<jes, symbols>>

handle_job_watch(t) ==
    /\ JbReq(t).op = "watch" /\ UNCHANGED <<jes, spool, symbols>>
    /\ \/ /\ jb[t].pc = "start"
          /\ IF JbReq(t).wait \notin 1..300 \/ (JbReq(t).any_case /\ JbReq(t).regex) THEN JbDone(t, "failure")
             ELSE jb' = [jb EXCEPT ![t].pc = "locate", ![t].key = JbReq(t).key]
       \/ /\ jb[t].pc = "match"
          /\ \/ jb[t].rc = "failure" /\ JbDone(t, "failure")
             \/ jb[t].rc = "ok" /\ JbDone(t, "ok")                \* found
             \/ /\ jb[t].rc = "ok"                                \* no match, or the pattern is in error
                /\ IF jb[t].slept + 1 < JbReq(t).wait
                   THEN jb' = [jb EXCEPT ![t].pc = "locate", ![t].slept = @ + 1]
                   ELSE jb' = [jb EXCEPT ![t].pc = "done", ![t].rc = "failure", ![t].slept = @ + 1]

-----------------------------------------------------------------------------
(* Changing a job: one SSI request, which names the jobs it found           *)

ZJBMMOD(t, new) ==
    \/ JbDone(t, "failure") /\ UNCHANGED jes
    \/ /\ jes[JbReq(t).id] # JbNone
       /\ jes' = [jes EXCEPT ![JbReq(t).id] = new]
       /\ JbDone(t, "ok")

zjb_delete(t) == ZJBMMOD(t, JbNone)
zjb_cancel(t) == ZJBMMOD(t, IF jes[JbReq(t).id] = JbNone THEN JbNone
                            ELSE [jes[JbReq(t).id] EXCEPT !.phase = "AWAITING OUTPUT"])
handle_job_delete(t) == JbAt(t, "delete", "start") /\ zjb_delete(t) /\ UNCHANGED <<spool, symbols>>
handle_job_cancel(t) == JbAt(t, "cancel", "start") /\ zjb_cancel(t) /\ UNCHANGED <<spool, symbols>>
SetHeld(t, h) == ZJBMMOD(t, IF jes[JbReq(t).id] = JbNone THEN JbNone ELSE [jes[JbReq(t).id] EXCEPT !.held = h])
handle_job_hold(t) == JbAt(t, "hold", "start") /\ SetHeld(t, TRUE) /\ UNCHANGED <<spool, symbols>>
handle_job_release(t) == JbAt(t, "release", "start") /\ SetHeld(t, FALSE) /\ UNCHANGED <<spool, symbols>>

-----------------------------------------------------------------------------
(* Submitting: read the JCL, write it to an internal reader, ask JES which  *)
(* job that was, look at it, wait for it                                    *)

SubmitOps == {"submit", "submit_uss", "submit_jcl"}

\* A data set or a file is read first; JCL from the request has its line ends removed.
SubmitSource(t, op, mayFail) ==
    /\ JbAt(t, op, "start")
    /\ JbGoto(t, "intrdr") \/ (mayFail /\ JbDone(t, "failure"))
    /\ UNCHANGED <<jes, spool, symbols>>
handle_job_submit(t) == SubmitSource(t, "submit", TRUE)
handle_job_submit_uss(t) == SubmitSource(t, "submit_uss", TRUE)
handle_job_submit_jcl(t) == SubmitSource(t, "submit_jcl", FALSE)

\* Mutant: the symbols of the last submission of any task.
SymbolOfAnyTask(t, symbol) ==
    LET set == {symbols[u][symbol] : u \in JbTasks} \ {JbNone}
    IN  IF set = {} THEN JbNone ELSE CHOOSE i \in set : \A k \in set : k <= i

\* IAZSYMBL: a JES symbol of the task
ZJBSYMB(t, symbol) == symbols[t][symbol]

\* Every way out frees the reader.
zjb_submit(t) ==
    \/ /\ jb[t].pc = "intrdr" /\ UNCHANGED <<jes, symbols>>
       /\ \/ JbDone(t, "failure") /\ UNCHANGED spool
          \/ spool' = spool \cup {t} /\ JbGoto(t, "write")
    \/ /\ jb[t].pc = "write"
       /\ \/ spool' = spool \ {t} /\ JbDone(t, "failure") /\ UNCHANGED <<jes, symbols>>
          \/ Intrdr(t, JbReq(t).hasJob) /\ UNCHANGED spool
    \/ /\ jb[t].pc = "jobid" /\ UNCHANGED <<jes, symbols>>         \* SYS_LASTJOBID
       /\ \/ spool' = spool \ {t} /\ JbDone(t, "failure")
          \/ /\ ZJBSYMB(t, "jobid") # JbNone /\ UNCHANGED spool
             /\ jb' = [jb EXCEPT ![t].pc = "corr", ![t].id = ZJBSYMB(t, "jobid")]
    \/ /\ jb[t].pc = "corr" /\ UNCHANGED <<jes, symbols>>          \* SYS_CORR_LASTJOB, dynfree
       /\ \/ /\ spool' = spool \ {t}
             /\ \/ JbDone(t, "failure")
                \/ jb' = [jb EXCEPT ![t].pc = "view", ![t].corr = ZJBSYMB(t, "correlator")]
          \/ JbStuck(t) /\ UNCHANGED spool

job_submit_common(t) ==
    /\ JbReq(t).op \in SubmitOps /\ jb[t].pc = "view"
    /\ \/ JbDone(t, "failure")
       \/ /\ zjb_view(jb[t].corr) # {}
          /\ CASE JbReq(t).status = "" -> JbDone(t, "ok")
               [] JbReq(t).status \in {"OUTPUT", "ACTIVE"} -> JbGoto(t, "wait")
               [] OTHER -> JbDone(t, "failure")
    /\ UNCHANGED <<jes, spool, symbols>>

\* Once a second; a job that is over is not waited for to be active.
zjb_wait(t) ==
    /\ JbReq(t).op \in SubmitOps /\ jb[t].pc = "wait"
    /\ \/ JbDone(t, "failure")
       \/ /\ zjb_view(jb[t].corr) # {}
          /\ LET s == StatusOf(jes[jb[t].corr].phase)
             IN  s = JbReq(t).status \/ (JbReq(t).status = "ACTIVE" /\ s = "OUTPUT")
          /\ JbDone(t, "ok")
    /\ UNCHANGED <<jes, spool, symbols>>

-----------------------------------------------------------------------------
(* PROCLIB: each concatenation's data sets, copied to a buffer of MaxEntries *)

ZJBMLPRC(n, freed) ==
    LET copied == IF n > MaxEntries THEN MaxEntries + 1 ELSE n
    IN  [entries |-> copied, rc |-> IF freed THEN "ok" ELSE "failure"]    \* the FREE's rc

handle_system_list_proclib(t) ==
    /\ JbAt(t, "proclib", "start")
    /\ \E n \in 0..(MaxEntries + 2), freed \in BOOLEAN :
          LET a == ZJBMLPRC(n, freed)
          IN  jb' = [jb EXCEPT ![t].pc = "done", ![t].rc = a.rc, ![t].slept = n,
                               ![t].got = IF a.rc = "ok" THEN 1..a.entries ELSE {}]
    /\ UNCHANGED <<jes, spool, symbols>>

-----------------------------------------------------------------------------
(* The system log: local time to UTC and back                               *)

\* The start is local time minus the offset, in unsigned arithmetic.
SyslogStart(c) == (c.time - c.tz) % Uint32

\* zds_read_vsam: POINT, then GET until the end or max lines.
zds_read_vsam(c) ==
    LET from == c.day * CsPerDay + SyslogStart(c)
        hit == {i \in DOMAIN c.log : c.log[i] >= from}
        n == Cardinality({i \in hit : Cardinality({k \in hit : k < i}) < c.max})
        first == IF hit = {} THEN 0 ELSE CHOOSE i \in hit : \A k \in hit : i <= k
    IN  [lines |-> n, has_more |-> n >= c.max, last |-> IF n = 0 THEN 0 ELSE c.log[first + n - 1]]

\* The last record's UTC date and time of day; local: into [0, a day), with the date moved along.
zjb_read_syslog(c) ==
    LET a == zds_read_vsam(c)
        day == a.last \div CsPerDay
        cs == (a.last % CsPerDay) + c.tz
        shift == cs \div CsPerDay
    IN  [lines |-> a.lines, has_more |-> a.has_more,
         end_day |-> day + shift, end_time |-> cs - shift * CsPerDay]

handle_system_view_syslog(t) ==
    /\ JbAt(t, "syslog", "start")
    /\ \/ JbDone(t, "failure")
       \/ \E c \in SyslogCases :
             jb' = [jb EXCEPT ![t].pc = "done", ![t].got = {<<c, zjb_read_syslog(c)>>}]
    /\ UNCHANGED <<jes, spool, symbols>>

-----------------------------------------------------------------------------

JbBegin(j) ==
    /\ jes = j.before /\ spool = {}
    /\ symbols = [t \in JbTasks |-> [jobid |-> JbNone, correlator |-> JbNone]]
    /\ jb = [t \in JbTasks |-> [req |-> j.ask[t], pc |-> "start", rc |-> "ok", got |-> {}, all |-> {}, key |-> 0,
                                slept |-> 0, id |-> JbNone, corr |-> JbNone, mine |-> JbNone,
                                stuck |-> FALSE]]

JbInit == \E j \in JbJobs : JbBegin(j)

JbNext ==
    \/ \E i \in JbIds : JesStep(i)
    \/ \E t \in JbTasks :
        \/ handle_job_list(t) \/ handle_job_view_status(t) \/ handle_job_list_files(t)
        \/ zjb_get_job_dsn_by_key(t) \/ zjb_read_job_jcl(t) \/ handle_job_view_file(t)
        \/ zjb_read_job_content_by_dsn(t) \/ zjb_read_job_dynamic_allocation(t) \/ JbRead(t)
        \/ zjb_free_job_dynamic_allocation(t) \/ handle_job_watch(t)
        \/ handle_job_delete(t) \/ handle_job_cancel(t) \/ handle_job_hold(t) \/ handle_job_release(t)
        \/ handle_job_submit(t) \/ handle_job_submit_uss(t) \/ handle_job_submit_jcl(t)
        \/ zjb_submit(t) \/ job_submit_common(t) \/ zjb_wait(t)
        \/ handle_system_list_proclib(t) \/ handle_system_view_syslog(t)

JbSpec == JbInit /\ [][JbNext]_jbVars

-----------------------------------------------------------------------------
(* Properties                                                               *)

\* A submission that answers success names, as jobid and as correlator, the
\* job its own JCL became, whatever other workers submitted meanwhile.
SubmitNamesOwnJob ==
    \A t \in JbTasks : JbReq(t).op \in SubmitOps /\ jb[t].pc = "done" /\ jb[t].rc = "ok" =>
        jb[t].mine # JbNone /\ jb[t].id = jb[t].mine /\ jb[t].corr = jb[t].mine

\* A request that is over holds no spool DD, unless freeing it failed and the
\* request said so.
SpoolFreed ==
    \A t \in JbTasks : jb[t].pc = "done" /\ t \in spool => jb[t].stuck /\ jb[t].rc = "failure"

\* The end of a system log answer is the last record's instant, in local time.
SyslogEndIsLocal ==
    \A t \in JbTasks : JbReq(t).op = "syslog" /\ jb[t].pc = "done" /\ jb[t].rc = "ok" =>
        \A e \in jb[t].got : e[2].lines > 0 =>
            /\ e[2].end_time \in 0..(CsPerDay - 1)
            /\ \E i \in DOMAIN e[1].log : e[2].end_day * CsPerDay + e[2].end_time = e[1].log[i] + e[1].tz

\* A job answer is about the job, and a log answer about the instant, it names
\* (zjb.cpp).
JobAnswersHonest == SubmitNamesOwnJob /\ SyslogEndIsLocal
=============================================================================
