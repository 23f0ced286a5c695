------------------------------- MODULE Tools -------------------------------
(***************************************************************************)
(* The "tool" commands (commands/tool.cpp): each allocates its DDs one by  *)
(* one (zut_loop_dynalloc), prepares an input DD, runs a program, shows an *)
(* output DD and frees the DDs (zut_free_dynalloc_dds).  The DDs belong to *)
(* the job step: in an interactive session they outlive the command.       *)
(***************************************************************************)
EXTENDS Naturals, Sequences

CONSTANTS ToolJobs,   \* commands: [op, dds: Seq([name, key]), indd, outdd, sysout]
          ToolLimit   \* commands of a session

ASSUME ToolAssumption ==
  \A job \in ToolJobs : job.dds \in Seq([name : STRING, key : STRING])

VARIABLES alloc,      \* DD names allocated in the job step
          tl          \* the command in progress

toVars == <<alloc, tl>>

ToolIdle == [pc |-> "idle", job |-> [op |-> "", dds |-> <<>>, indd |-> FALSE, outdd |-> FALSE,
                                     sysout |-> FALSE],
             i |-> 0, n |-> 0, rc |-> 0, written |-> FALSE, ran |-> 0, shown |-> FALSE,
             leak |-> FALSE]

ToInit == alloc = {} /\ tl = ToolIdle

DdNames == {tl.job.dds[k].name : k \in DOMAIN tl.job.dds}

(* The REPL reads the next tool command.                                   *)
StartTool ==
  /\ tl.pc = "idle" /\ tl.n < ToolLimit
  /\ \E job \in ToolJobs :
       tl' = [ToolIdle EXCEPT !.pc = "alloc", !.job = job, !.i = 1, !.n = tl.n + 1]
  /\ UNCHANGED alloc

(* zut_loop_dynalloc: a ddname that is already in use, or any other error, *)
(* ends the loop and the command; what was allocated before stays.         *)
zut_loop_dynalloc ==
  LET name == tl.job.dds[tl.i].name IN
  /\ tl.pc = "alloc" /\ tl.i <= Len(tl.job.dds)
  /\ \/ /\ name \notin alloc
        /\ alloc' = alloc \cup {name} /\ tl' = [tl EXCEPT !.i = @ + 1]
     \/ tl' = [tl EXCEPT !.pc = "end", !.rc = 1, !.leak = TRUE] /\ UNCHANGED alloc

Allocated(op) == tl.pc = "alloc" /\ tl.i = Len(tl.job.dds) + 1 /\ tl.job.op = op

(* Where a handler goes once its program ran: "free" always follows, with  *)
(* the code it returns.                                                    *)
Ended(written, ran, shown, rc) ==
  /\ tl' = [tl EXCEPT !.pc = "free", !.i = 1, !.written = written, !.ran = ran,
                      !.shown = shown, !.rc = rc]
  /\ UNCHANGED alloc

handle_tool_convert_dsect ==
  /\ Allocated("ccnedsct")
  /\ \E rc \in {0, 8} : Ended(TRUE, rc, rc = 0, IF rc = 0 THEN 0 ELSE 1)

(* The result of writing the control statement is not looked at: the       *)
(* search runs whatever is in SYSIN.  ISRSUPC 0, 1, 4 and 28 are answers.  *)
handle_tool_search ==
  /\ Allocated("search")
  /\ \E written \in BOOLEAN, ran \in {0, 1, 4, 8, 28}, read \in BOOLEAN :
       IF ran = 8 THEN Ended(written, ran, FALSE, 1)
       ELSE Ended(written, ran, read, IF read THEN 0 ELSE 1)

(* Neither is it here; AMBLIST must end with 0.                            *)
handle_tool_amblist ==
  /\ Allocated("amblist")
  /\ \E written \in BOOLEAN, ran \in {0, 4}, read \in BOOLEAN :
       IF ran # 0 THEN Ended(written, ran, FALSE, 1)
       ELSE Ended(written, ran, read, IF read THEN 0 ELSE 1)

(* A program of the user's choice, its return code the command's.  An      *)
(* input DD that cannot be opened ends the command.                        *)
handle_tool_run ==
  /\ Allocated("run")
  /\ \/ tl.job.indd /\ Ended(FALSE, 0, FALSE, 1)
     \/ \E ran \in {0, 4} :
          IF tl.job.outdd
          THEN /\ tl' = [tl EXCEPT !.pc = "show", !.written = TRUE, !.ran = ran, !.rc = ran]
               /\ UNCHANGED alloc
          ELSE Ended(TRUE, ran, FALSE, ran)

(* Its output DD: opened and copied, or, when it is SYSOUT, found among    *)
(* the job's own spool files; then rc becomes that of the spool services   *)
(* (tool.cpp:403), and a spool that cannot be listed returns without       *)
(* freeing.                                                                *)
ShowOutDd ==
  /\ tl.pc = "show"
  /\ \/ Ended(TRUE, tl.ran, FALSE, 1)
     \/ ~ tl.job.sysout /\ Ended(TRUE, tl.ran, TRUE, tl.ran)
     \/ tl.job.sysout /\ Ended(TRUE, tl.ran, TRUE, 0)
     \/ /\ tl.job.sysout
        /\ tl' = [tl EXCEPT !.pc = "end", !.rc = 1, !.leak = TRUE]
        /\ UNCHANGED alloc

(* handle_tool_dynalloc: the user's own request; an allocation by hand is  *)
(* meant to stay.                                                          *)
handle_tool_dynalloc ==
  /\ Allocated("bpxwdy2")
  /\ \E rc \in {0, 1} : tl' = [tl EXCEPT !.pc = "end", !.rc = rc]
  /\ UNCHANGED alloc

(* Mutant: the last DD is not freed.                                       *)
FreeAllButLast ==
  /\ tl.pc = "free"
  /\ IF tl.i >= Len(tl.job.dds) THEN tl' = [tl EXCEPT !.pc = "end"] /\ UNCHANGED alloc
     ELSE /\ tl' = [tl EXCEPT !.i = @ + 1]
          /\ alloc' = alloc \ {tl.job.dds[tl.i].name}

(* zut_free_dynalloc_dds: the ddnames are looked for as "dd(...)" first,   *)
(* and one that was allocated as "fi(...)" ends the function before any is *)
(* freed; then one free after the other until one fails.                   *)
zut_free_dynalloc_dds ==
  /\ tl.pc = "free"
  /\ IF \/ tl.i > Len(tl.job.dds)
        \/ tl.i = 1 /\ \E k \in DOMAIN tl.job.dds : tl.job.dds[k].key # "dd"
     THEN tl' = [tl EXCEPT !.pc = "end", !.leak = tl.i <= Len(tl.job.dds)] /\ UNCHANGED alloc
     ELSE \/ /\ tl' = [tl EXCEPT !.i = @ + 1]
             /\ alloc' = alloc \ {tl.job.dds[tl.i].name}
          \/ tl' = [tl EXCEPT !.pc = "end", !.leak = TRUE] /\ UNCHANGED alloc

(* The handler returned; the next command may come.                        *)
ToolDone == tl.pc = "end" /\ tl' = [ToolIdle EXCEPT !.n = tl.n] /\ UNCHANGED alloc

ToNext ==
  \/ StartTool \/ zut_loop_dynalloc \/ handle_tool_convert_dsect \/ handle_tool_search
  \/ handle_tool_amblist \/ handle_tool_run \/ ShowOutDd \/ handle_tool_dynalloc
  \/ zut_free_dynalloc_dds \/ ToolDone

ToSpec == ToInit /\ [][ToNext]_toVars

-----------------------------------------------------------------------------
(* A search, AMBLIST or program run whose allocations and frees were      *)
(* accepted, and whose spool could be listed (leak notes the others, which *)
(* tool.cpp leaves behind), keeps no DD; and a command that says it        *)
(* succeeded ran its program and showed what it was asked to.              *)
ToolEndsClean ==
  tl.pc = "end" /\ tl.job.op \in {"search", "amblist", "run"} =>
    /\ ~ tl.leak => DdNames \cap alloc = {}
    /\ tl.rc = 0 /\ (tl.job.outdd \/ tl.job.op # "run") => tl.shown
    /\ tl.rc = 0 /\ ~ tl.job.sysout /\ tl.job.op \in {"run", "amblist"} => tl.ran = 0
=============================================================================
