------------------------------ MODULE Services ------------------------------
(***************************************************************************)
(* What the command handlers borrow from the system: a spawned program     *)
(* whose two output pipes are drained while it runs (zut.cpp, ztso.cpp),   *)
(* loaded modules and list services (zutm.c, zutm31.c), and the job step's *)
(* APF authorisation, given up before a command that does not need it      *)
(* (commands/core.cpp).  Each of the three is one record of state.         *)
(***************************************************************************)
EXTENDS Naturals, FiniteSets, Sequences

CONSTANTS Scripts,       \* what a child writes: sequences over {"o", "e"}
          PipeSize,      \* what a pipe holds
          ReadSize,      \* what one read takes
          Tables,        \* sizes a system list may have
          MaxParmlib,    \* entries of the parmlib answer area
          SvServices,    \* the services a handler may call
          ReplLines      \* lines of one interactive session

VARIABLES sp,            \* the spawned program and the parent draining it
          qy,            \* the service call in progress
          au             \* authorisation and the command that runs

svVars == <<sp, qy, au>>

Streams == {"o", "e"}
PipeEnds == {"o0", "o1", "e0", "e1", "null"}
ReadEnd(s) == IF s = "o" THEN "o0" ELSE "e0"

(* A child writes to its two streams; pipes and reads are not empty.       *)
ASSUME ServicesAssumption ==
  /\ Scripts \subseteq Seq(Streams) /\ PipeSize \in Nat \ {0} /\ ReadSize \in Nat \ {0}
  /\ Tables \subseteq Nat /\ MaxParmlib \in Nat

SpIdle == [pc |-> "idle", merge |-> FALSE, left |-> <<>>, child |-> "none", held |-> FALSE,
           pipe |-> [s \in Streams |-> 0], polled |-> [s \in Streams |-> FALSE],
           wrote |-> [s \in Streams |-> 0], got |-> [s \in Streams |-> 0],
           fds |-> {}, broken |-> FALSE, rc |-> 0]

SpInit == sp = SpIdle

-----------------------------------------------------------------------------
(* Spawned programs.                                                       *)

(* zut_private_run_program up to the spawn: two pipes, /dev/null, spawnp;  *)
(* whatever fails closes what was opened before it.                        *)
zut_private_run_program(script, merge, bg) ==
  /\ sp.pc = "idle"
  /\ UNCHANGED <<qy, au>>
  /\ \/ sp' = [sp EXCEPT !.pc = "end", !.rc = 1]
     \/ sp' = [sp EXCEPT !.pc = "poll", !.left = script, !.merge = merge, !.held = bg,
                         !.child = "running", !.fds = PipeEnds \ {"null", "o1", "e1"},
                         !.polled = [s \in Streams |-> s = "o" \/ ~ merge]]

(* The child (external): stderr is stdout when the streams are merged; a   *)
(* write to a pipe nobody reads any more ends it.                          *)
ChildWrites ==
  LET s == IF sp.merge THEN "o" ELSE Head(sp.left) IN
  /\ sp.child = "running" /\ sp.left # <<>>
  /\ UNCHANGED <<qy, au>>
  /\ \/ /\ ReadEnd(s) \notin sp.fds
        /\ sp' = [sp EXCEPT !.child = "killed", !.held = FALSE]
     \/ /\ ReadEnd(s) \in sp.fds /\ sp.pipe[s] < PipeSize
        /\ sp' = [sp EXCEPT !.left = Tail(@), !.pipe[s] = @ + 1, !.wrote[s] = @ + 1]

ChildExits ==
  /\ sp.child = "running" /\ sp.left = <<>>
  /\ sp' = [sp EXCEPT !.child = "exited"]
  /\ UNCHANGED <<qy, au>>

(* A background process the command started closes its end at last.        *)
HolderExits == sp.held /\ sp' = [sp EXCEPT !.held = FALSE] /\ UNCHANGED <<qy, au>>

Closed == sp.child \in {"exited", "killed"} /\ ~ sp.held

(* Mutant: stderr is read when stdout has ended.                           *)
StdoutFirst(s) == sp.pc = "poll" /\ sp.polled[s] /\ (s = "e" => ~ sp.polled["o"])

(* The parent polls this pipe: its descriptor is not -1 yet.               *)
Polls(s) == sp.pc = "poll" /\ sp.polled[s]

(* zut_private_drain_fd: one read when there is input, the end of file when*)
(* every writer is gone; another error kills the child.                    *)
zut_private_drain_fd(s) ==
  /\ Polls(s)
  /\ UNCHANGED <<qy, au>>
  /\ \/ /\ sp.pipe[s] > 0
        /\ LET n == IF sp.pipe[s] > ReadSize THEN ReadSize ELSE sp.pipe[s]
           IN  sp' = [sp EXCEPT !.pipe[s] = @ - n, !.got[s] = @ + n]
     \/ /\ sp.pipe[s] = 0 /\ Closed
        /\ sp' = [sp EXCEPT !.polled[s] = FALSE]
     \/ /\ sp.pipe[s] > 0
        /\ sp' = [sp EXCEPT !.polled[s] = FALSE, !.broken = TRUE, !.left = <<>>,
                            !.child = IF @ = "running" THEN "killed" ELSE @]

(* zut_private_drain_pipes: until both are at their end; poll itself may   *)
(* fail, which kills the child and leaves the loop.                        *)
zut_private_drain_pipes ==
  /\ sp.pc = "poll"
  /\ UNCHANGED <<qy, au>>
  /\ \/ /\ \A s \in Streams : ~ sp.polled[s]
        /\ sp' = [sp EXCEPT !.pc = "wait", !.fds = {}]
     \/ /\ \E s \in Streams : sp.polled[s]
        /\ sp' = [sp EXCEPT !.pc = "wait", !.fds = {}, !.broken = TRUE, !.left = <<>>,
                            !.child = IF @ = "running" THEN "killed" ELSE @]

(* waitpid and the exit status.                                            *)
zut_run_program ==
  /\ sp.pc = "wait" /\ sp.child \in {"exited", "killed"}
  /\ sp' = [sp EXCEPT !.pc = "end", !.rc = IF sp.child = "exited" THEN 0 ELSE 1]
  /\ UNCHANGED <<qy, au>>

(* zut_spawn_shell_command and ztso_issue: a shell with separate streams,  *)
(* tsocmd with merged ones (its echo of the command is the first line).    *)
zut_spawn_shell_command == \E script \in Scripts, bg \in BOOLEAN :
                              zut_private_run_program(script, FALSE, bg)

ztso_issue == \E script \in Scripts : zut_private_run_program(script, TRUE, FALSE)

-----------------------------------------------------------------------------
(* System lists: the first call learns the size, the second fetches; the   *)
(* list may change in between.                                             *)

QyIdle == [pc |-> "idle", op |-> "", table |-> 0, need |-> 0, storage |-> {}, loaded |-> FALSE,
           got |-> 0, asof |-> 0, shown |-> 0, rc |-> 0]

QyInit == qy \in {[QyIdle EXCEPT !.table = n] : n \in Tables}

(* Someone changes the list (SETPROG, external).                           *)
TableChanges ==
  /\ qy.pc \in {"sized"}
  /\ \E n \in Tables : n # qy.table /\ qy' = [qy EXCEPT !.table = n]
  /\ UNCHANGED <<sp, au>>

(* CSVAPF and CSVDYNL (zutm31.c): an answer area that holds the whole      *)
(* list, a warning with the size needed, or an error.                      *)
zutm1apf(room) == IF qy.table <= room THEN {"ok", "error"} ELSE {"notall", "error"}

zutm1dyn(room) == IF qy.table <= room THEN {"ok", "error"} ELSE {"warning", "error"}

(* The callers above see a failure and a reason; for the link list every   *)
(* warning stands for "not all data returned".                             *)
ZUTMAPFQ(room) == zutm1apf(room)

ZUTMDYNQ(room) == {IF out = "warning" THEN "notall" ELSE out : out \in zutm1dyn(room)}

(* The first call has room for the header only.                            *)
AskSize(op, outs) ==
  /\ qy.pc = "idle" /\ op \in SvServices
  /\ \E out \in outs :
       qy' = [qy EXCEPT !.op = op, !.storage = IF out = "notall" THEN {"fixed"} ELSE {},
                        !.pc = IF out = "notall" THEN "sized" ELSE "end", !.asof = qy.table,
                        !.need = qy.table, !.rc = IF out = "error" THEN 1 ELSE 0]
  /\ UNCHANGED <<sp, au>>

(* The second has the size the first one named; whatever it answers, both  *)
(* areas are freed.                                                        *)
FetchList(op, outs) ==
  /\ qy.pc = "sized" /\ qy.op = op
  /\ \E out \in outs :
       qy' = [qy EXCEPT !.pc = "end", !.storage = {}, !.asof = qy.table,
                        !.got = IF out = "ok" THEN qy.table ELSE 0,
                        !.rc = IF out = "ok" THEN 0 ELSE 1]
  /\ UNCHANGED <<sp, au>>

zut_list_apf == AskSize("apf", ZUTMAPFQ(0)) \/ FetchList("apf", ZUTMAPFQ(qy.need))

zut_list_linklist == AskSize("linklist", ZUTMDYNQ(0)) \/ FetchList("linklist", ZUTMDYNQ(qy.need))

(* One call that answers with the list or an error.                        *)
ListAtOnce(op, outs) ==
  /\ qy.pc = "idle" /\ op \in SvServices
  /\ \E got \in outs :
       qy' = [qy EXCEPT !.op = op, !.pc = "end", !.got = got, !.asof = qy.table]
  /\ UNCHANGED <<sp, au>>

ListFails(op) ==
  /\ qy.pc = "idle" /\ op \in SvServices
  /\ qy' = [qy EXCEPT !.op = op, !.pc = "end", !.rc = 1]
  /\ UNCHANGED <<sp, au>>

(* ZUTSSIQ: IEFSSI allocates the answer, zut_list_subsystems releases it.  *)
zut_list_subsystems == ListAtOnce("subsystems", {qy.table}) \/ ListFails("subsystems")

(* zutm1lpl through ZUTMLPLB: an area of MaxParmlib entries, which         *)
(* zut_list_parmlib clamps its count to.                                   *)
zutm1lpl == {n \in {qy.table} : n <= MaxParmlib}

zut_list_parmlib ==
  \/ ListAtOnce("parmlib", {IF n > MaxParmlib THEN MaxParmlib ELSE n : n \in zutm1lpl})
  \/ ListFails("parmlib")

(* The handlers show what they were given, or an error.                    *)
Show(op) ==
  /\ qy.pc = "end" /\ qy.op = op
  /\ qy' = [qy EXCEPT !.pc = "shown", !.shown = IF qy.rc = 0 THEN qy.got ELSE 0]
  /\ UNCHANGED <<sp, au>>

handle_system_list_apf == Show("apf")

handle_system_list_linklist == Show("linklist")

handle_system_list_parmlib == Show("parmlib")

handle_system_list_subsystems == Show("subsystems")

handle_system_display_symbol == Show("symbol")

-----------------------------------------------------------------------------
(* Loaded modules: LOAD, call, DELETE.                                     *)

(* load_module: the module is in storage, or there is none.  Some callers  *)
(* look at the answer, the others enter address 0, which abends the task.  *)
load_module(op, areas, checked) ==
  /\ qy.pc = "idle" /\ op \in SvServices
  /\ \/ qy' = [qy EXCEPT !.op = op, !.pc = "call", !.loaded = TRUE, !.storage = areas]
     \/ qy' = [qy EXCEPT !.op = op, !.pc = IF checked THEN "end" ELSE "abend", !.rc = 1]
  /\ UNCHANGED <<sp, au>>

(* delete_module and the way back; the callers free what they obtained.    *)
delete_module(op) ==
  /\ qy.pc = "call" /\ qy.op = op
  /\ \E rc \in {0, 1} :
       qy' = [qy EXCEPT !.pc = "end", !.loaded = FALSE, !.storage = {}, !.rc = rc]
  /\ UNCHANGED <<sp, au>>

(* An AMODE 24 program is entered through a copy of a shim, if it fits.    *)
zutm1call24(op) == op \in {"run24", "utility"} /\ delete_module(op)

ZUTRUN == load_module("run24", {}, TRUE) \/ load_module("run", {}, TRUE) \/ delete_module("run")

ZUTMSDFP == load_module("utility", {}, TRUE)

ZUTWDYN == load_module("dynalloc", {"parm"}, TRUE) \/ delete_module("dynalloc")

ZUTSYMBP == load_module("symbol", {"parms"}, FALSE) \/ delete_module("symbol")

ZUTSRCH == load_module("search", {}, FALSE) \/ delete_module("search")

ZUTEDSCT == load_module("dsect", {}, FALSE) \/ delete_module("dsect")

ZUTIDCAM == load_module("idcams", {}, FALSE) \/ delete_module("idcams")

(* A parameter too long for the interface is refused before the service;   *)
(* the symbol's storage is freed then, the allocation's is not             *)
(* (zut.cpp:533).                                                          *)
zut_substitute_symbol == ListFails("symbol")

zut_bpxwdyn_common ==
  /\ qy.pc = "idle" /\ "dynalloc" \in SvServices
  /\ qy' = [qy EXCEPT !.op = "dynalloc", !.pc = "end", !.rc = 1, !.storage = {"parm"}]
  /\ UNCHANGED <<sp, au>>

-----------------------------------------------------------------------------
(* Authorisation.  Several threads may run commands; the job step is       *)
(* authorised as a whole.                                                  *)

AuIdle == [authorised |-> FALSE, running |-> "none", lines |-> 0]

AuInit == au \in {[AuIdle EXCEPT !.authorised = b] : b \in BOOLEAN}

(* ZUTNOAUT: nothing to do, relinquished, or (abend, or authorisation      *)
(* still there afterwards) a failure.  The results: success and what is    *)
(* left of the authorisation.                                              *)
ZUTNOAUT ==
  IF ~ au.authorised THEN {<<TRUE, FALSE>>}
  ELSE {<<TRUE, FALSE>>, <<FALSE, TRUE>>}

(* setup_root_command's hook: a privileged command that is not a request   *)
(* for help keeps the authorisation, any other gives it up or is refused.  *)
setup_root_command(privileged, help) ==
  /\ au.running = "none" /\ au.lines < ReplLines
  /\ UNCHANGED <<sp, qy>>
  /\ \/ /\ privileged /\ ~ help
        /\ au' = [au EXCEPT !.running = "privileged", !.lines = @ + 1]
     \/ /\ help \/ ~ privileged
        /\ \E out \in ZUTNOAUT :
             au' = [au EXCEPT !.authorised = out[2], !.lines = @ + 1,
                              !.running = IF out[1] THEN "plain" ELSE "none"]

(* interactive_mode: the command ended, its code was printed, the next     *)
(* line is read.                                                           *)
interactive_mode ==
  /\ au.running # "none"
  /\ au' = [au EXCEPT !.running = "none"]
  /\ UNCHANGED <<sp, qy>>

SvInit == SpInit /\ QyInit /\ AuInit

SvNext ==
  \/ zut_spawn_shell_command \/ ztso_issue
  \/ ChildWrites \/ ChildExits \/ HolderExits
  \/ \E s \in Streams : zut_private_drain_fd(s)
  \/ zut_private_drain_pipes \/ zut_run_program
  \/ TableChanges \/ zut_list_apf \/ zut_list_linklist \/ zut_list_subsystems
  \/ zut_list_parmlib \/ handle_system_list_apf \/ handle_system_list_linklist
  \/ handle_system_list_parmlib \/ handle_system_list_subsystems \/ handle_system_display_symbol
  \/ ZUTRUN \/ ZUTMSDFP \/ zutm1call24("run24") \/ zutm1call24("utility") \/ ZUTWDYN
  \/ ZUTSYMBP \/ ZUTSRCH \/ ZUTEDSCT \/ ZUTIDCAM \/ zut_substitute_symbol \/ zut_bpxwdyn_common
  \/ \E privileged, help \in BOOLEAN : setup_root_command(privileged, help)
  \/ interactive_mode

SvSpec == SvInit /\ [][SvNext]_svVars

-----------------------------------------------------------------------------
(* The parent polls both pipes until their end: a child that fills one of  *)
(* them can be read from (that is when zut_private_drain_fd has something  *)
(* to do), or is told that nobody reads, so parent and child never wait    *)
(* for each other.                                                         *)
NoStandoff ==
  sp.child = "running" /\ sp.left # <<>> =>
    LET s == IF sp.merge THEN "o" ELSE Head(sp.left)
    IN  sp.pipe[s] = PipeSize /\ ReadEnd(s) \in sp.fds => Polls(s) /\ sp.pipe[s] > 0

(* A program that ended by itself, without a read or poll error, has all   *)
(* its output in the response, whichever pipe it came through, when it     *)
(* exited and however much was buffered.                                   *)
OutputComplete ==
  sp.pc = "end" /\ sp.child = "exited" /\ ~ sp.broken => sp.got = sp.wrote

(* A list that is shown has every entry there was when it was fetched,     *)
(* whatever changed between the two calls; an ended call holds no module   *)
(* and no storage, but for the refused allocation of zut.cpp:533; an ended *)
(* program leaves no descriptor.                                           *)
ServiceLeavesNothing ==
  /\ qy.pc \in {"end", "shown"} =>
       /\ ~ qy.loaded
       /\ qy.storage = {} \/ (qy.op = "dynalloc" /\ qy.rc # 0)
       /\ qy.rc = 0 /\ qy.op \in {"apf", "linklist", "subsystems", "parmlib"} => qy.got = qy.asof
       /\ qy.pc = "shown" /\ qy.rc = 0 => qy.shown = qy.got
  /\ sp.pc = "end" => sp.fds = {}

(* core.cpp:245: "never run a non-privileged command while the job step is *)
(* still APF-authorized", whatever came before it in the session.          *)
PlainRunsUnauthorised == au.running = "plain" => ~ au.authorised

(* A program runs to its end, is heard to its end, and only with the       *)
(* authorisation its command has.                                          *)
ProgramsRunRight == NoStandoff /\ OutputComplete /\ PlainRunsUnauthorised
=============================================================================
