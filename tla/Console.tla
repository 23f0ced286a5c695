------------------------------ MODULE Console ------------------------------
(***************************************************************************)
(* The console command of the authorised program: an extended MCS console  *)
(* is activated, one operator command is issued and its response collected *)
(* (commands/console.cpp, zcn.cpp, zcnm.c, zcnm31.c), waiting on an event  *)
(* control block with a timer (zecb.h) and under a recovery routine        *)
(* (zrecovery.h).  The system delivers response lines, and the timer fires,*)
(* whenever they like; any service may fail or abend.                      *)
(***************************************************************************)
EXTENDS Naturals, FiniteSets, Sequences

CONSTANTS CnTasks,       \* processes issuing a command, numbered like pids
          CnDigits,      \* how many final digits a default name rotates over
          CnReplies,     \* responses of the system: sequences of line lengths
          BufferSize,    \* ZCN_DEFAULT_BUFFER_SIZE
          CnNone

(* Tasks are numbered; a response is the lengths of its lines.              *)
ASSUME ConsoleAssumption ==
  /\ CnTasks \subseteq Nat /\ CnNone \notin CnTasks /\ CnDigits \in Nat \ {0}
  /\ CnReplies \subseteq Seq(Nat) /\ BufferSize \in Nat

VARIABLES cn,            \* task -> its ZCN block, session and position
          mcs            \* console name -> what the system knows of it

cnVars == <<cn, mcs>>

(* A default name by its final digit; the last one is the fixed "zowex".   *)
CnNames == 0 .. CnDigits

NoConsole == [owner |-> CnNone, due |-> <<>>, queue |-> <<>>]

CnInit ==
  /\ cn = [t \in CnTasks |-> [pc |-> "idle", name |-> CnNone, wait |-> FALSE,
             ecb |-> "null", active |-> FALSE, timer |-> FALSE, entered |-> FALSE,
             out |-> <<>>, seen |-> <<>>, needed |-> 0, stuck |-> FALSE, rc |-> 0]]
  /\ mcs = [n \in CnNames |-> NoConsole]

CnAt(t, p) == cn[t].pc = p

CnSet(t, new) == cn' = [cn EXCEPT ![t] = new]

(* An error return of the handler: the session's destructor runs next.     *)
Failed(r) == [r EXCEPT !.pc = "unwind", !.rc = 1]

-----------------------------------------------------------------------------
(* Event control blocks and timers (zecb.h).  ECB_POST is also what the    *)
(* system does to the block named at activation when a line is queued.     *)

ECB_POST(r) == IF r.ecb = "null" THEN r ELSE [r EXCEPT !.ecb = "posted"]

ECB_WAIT(r) == r.ecb = "posted"

STIMERM_SET(r) == [r EXCEPT !.timer = TRUE]

STIMERM_CANCEL(r) == [r EXCEPT !.timer = FALSE]

(* The timer exit, an asynchronous routine of the waiting task.            *)
ZCNTIMER(t) ==
  /\ cn[t].timer
  /\ CnSet(t, [ECB_POST(cn[t]) EXCEPT !.timer = FALSE])
  /\ UNCHANGED mcs

(* The abend exit: wakes a waiter and stops the timers.                    *)
ZCNMABEX(r) == IF r.ecb = "null" THEN r ELSE STIMERM_CANCEL(ECB_POST(r))

(* The recovery routine: without an SDWA, on a second abend or for cleanup *)
(* only, the abend percolates and the task ends; otherwise the exit runs   *)
(* and enable_recovery returns a second time, into the error branch.       *)
ZRCVYARR(t, sdwa, cleanup) ==
  IF ~ sdwa \/ cn[t].entered \/ cleanup
  THEN /\ CnSet(t, [cn[t] EXCEPT !.pc = "terminated", !.timer = FALSE])
       /\ mcs' = [n \in CnNames |->
                    IF mcs[n].owner = t THEN NoConsole ELSE mcs[n]]
  ELSE LET r == [cn[t] EXCEPT !.entered = TRUE, !.pc = "retry"]
       IN  /\ CnSet(t, IF cn[t].pc \in {"arm", "wait", "read"} THEN ZCNMABEX(r) ELSE r)
           /\ UNCHANGED mcs

(* enable_recovery: the steps that run under the recovery routine.  (An    *)
(* abend of activation or deactivation is one of their failures.)          *)
enable_recovery(t) ==
  /\ cn[t].pc \in {"put", "arm", "wait", "read", "retry"}
  /\ \E sdwa, cleanup \in BOOLEAN : ZRCVYARR(t, sdwa, cleanup)

(* disable_recovery: the end of the error branch; what follows runs        *)
(* without recovery until the next call establishes its own.               *)
disable_recovery(t) ==
  /\ CnAt(t, "retry")
  /\ CnSet(t, Failed([STIMERM_CANCEL(cn[t]) EXCEPT !.entered = FALSE]))
  /\ UNCHANGED mcs

-----------------------------------------------------------------------------
(* The console services of MVS (external): activation fails for a name in  *)
(* use, a queued line posts the owner's block, deactivation drops the rest.*)

Deliver(n) ==
  /\ mcs[n].due # <<>>
  /\ mcs' = [mcs EXCEPT ![n].due = Tail(@), ![n].queue = Append(@, Head(mcs[n].due))]
  /\ LET o == mcs[n].owner IN cn' = [cn EXCEPT ![o] = ECB_POST(@)]

-----------------------------------------------------------------------------
(* The default name is the user ID and a digit that rotates with the pid;  *)
(* without a user ID the handler falls back to a fixed name.               *)
zcn_build_default_console_name(t) == {t % CnDigits, CnDigits}

(* zcnm1act, the activation itself: refused for a name already active.     *)
zcnm1act(t, n) ==
  /\ mcs[n].owner = CnNone
  /\ mcs' = [mcs EXCEPT ![n] = [NoConsole EXCEPT !.owner = t]]

(* ZCNACT: not authorised, failed, abended, or activated.                  *)
ZCNACT(t, n, r) ==
  \/ /\ zcnm1act(t, n)
     /\ CnSet(t, [r EXCEPT !.pc = "put", !.active = TRUE])
  \/ /\ CnSet(t, Failed([r EXCEPT !.ecb = "null"]))
     /\ UNCHANGED mcs

(* zcn_activate: the block is allocated first and freed on any failure.    *)
zcn_activate(t, n, wait) ==
  \/ ZCNACT(t, n, [cn[t] EXCEPT !.name = n, !.wait = wait, !.ecb = "clear"])
  \/ /\ CnSet(t, Failed([cn[t] EXCEPT !.name = n, !.wait = wait]))
     /\ UNCHANGED mcs

(* zcnm1put: MGCRE has no return code; the response will arrive later.     *)
zcnm1put(t, reply) == mcs' = [mcs EXCEPT ![cn[t].name].due = reply]

ZCNPUT(t) ==
  \E reply \in CnReplies :
     /\ zcnm1put(t, reply)
     /\ CnSet(t, [cn[t] EXCEPT !.pc = IF cn[t].wait THEN "get" ELSE "close"])

(* zcn_put: no 31-bit storage, or not authorised: nothing was issued.      *)
zcn_put(t) ==
  /\ CnAt(t, "put")
  /\ \/ ZCNPUT(t)
     \/ CnSet(t, Failed(cn[t])) /\ UNCHANGED mcs

(* zcn_get: the block is cleared, a post that came before is forgotten.    *)
zcn_get(t) ==
  /\ CnAt(t, "get")
  /\ \/ CnSet(t, [cn[t] EXCEPT !.pc = "arm", !.ecb = "clear"])
     \/ CnSet(t, Failed([cn[t] EXCEPT !.ecb = "clear"]))
  /\ UNCHANGED mcs

(* ZCNGET: the timer is set, then the task waits, then cancels the timer.  *)
ZCNGET(t) ==
  \/ /\ CnAt(t, "arm")
     /\ CnSet(t, [STIMERM_SET(cn[t]) EXCEPT !.pc = "wait"])
     /\ UNCHANGED mcs
  \/ /\ CnAt(t, "wait")
     /\ ECB_WAIT(cn[t])
     /\ CnSet(t, [STIMERM_CANCEL(cn[t]) EXCEPT !.pc = "read"])
     /\ UNCHANGED mcs

(* Mutant: a line that was not copied is not counted.                      *)
CountCopiedOnly(r, len) ==
  IF BufferSize >= r.needed + len
  THEN [r EXCEPT !.out = Append(@, len), !.needed = @ + len, !.seen = Append(@, len)]
  ELSE [r EXCEPT !.seen = Append(@, len)]

(* extract_text: a line is copied when the rest of the buffer holds it;    *)
(* the size needed counts it either way.                                   *)
extract_text(r, len) ==
  [r EXCEPT !.out = IF BufferSize >= r.needed + len THEN Append(@, len) ELSE @,
            !.needed = @ + len, !.seen = Append(@, len)]

(* zcnm1get: one GETMSG a step until there are no more messages, then      *)
(* RESUME; either service may fail.                                        *)
zcnm1get(t) ==
  /\ CnAt(t, "read")
  /\ LET q == mcs[cn[t].name].queue IN
     \/ /\ q # <<>>
        /\ CnSet(t, extract_text(cn[t], Head(q)))
        /\ mcs' = [mcs EXCEPT ![cn[t].name].queue = Tail(q)]
     \/ q = <<>> /\ CnSet(t, [cn[t] EXCEPT !.pc = "close"]) /\ UNCHANGED mcs
     \/ CnSet(t, Failed(cn[t])) /\ UNCHANGED mcs

(* zcn_deactivate: the block is freed, and only then the console goes.     *)
zcn_deactivate(t) ==
  /\ cn[t].pc \in {"close", "unwind"} /\ cn[t].active
  /\ CnSet(t, [cn[t] EXCEPT !.ecb = "null", !.active = FALSE, !.pc = "dact"])
  /\ UNCHANGED mcs

(* ZCNDACT and zcnm1dea: deactivated, or refused and left active.          *)
ZCNDACT(t) ==
  /\ CnAt(t, "dact")
  /\ \/ /\ mcs' = [mcs EXCEPT ![cn[t].name] = NoConsole]
        /\ CnSet(t, [cn[t] EXCEPT !.pc = "end"])
     \/ /\ CnSet(t, [cn[t] EXCEPT !.pc = "end", !.stuck = TRUE, !.rc = 1])
        /\ UNCHANGED mcs

(* ~ZcnSession: nothing to do for a session that was never active.         *)
ZcnSession(t) ==
  /\ CnAt(t, "unwind") /\ ~ cn[t].active
  /\ CnSet(t, [cn[t] EXCEPT !.pc = "end"])
  /\ UNCHANGED mcs

handle_console_issue(t) ==
  /\ CnAt(t, "idle")
  /\ \E wait \in BOOLEAN, n \in zcn_build_default_console_name(t) :
        zcn_activate(t, n, wait)

CnNext ==
  \/ \E t \in CnTasks :
        \/ handle_console_issue(t) \/ zcn_put(t) \/ zcn_get(t) \/ ZCNGET(t)
        \/ zcnm1get(t) \/ zcn_deactivate(t) \/ ZCNDACT(t) \/ ZcnSession(t)
        \/ ZCNTIMER(t) \/ enable_recovery(t) \/ disable_recovery(t)
  \/ \E n \in CnNames : Deliver(n)

CnSpec == CnInit /\ [][CnNext]_cnVars

-----------------------------------------------------------------------------
(* zcn.cpp:109 clears the block after the command was issued, so the post  *)
(* of a response that is already there is lost.  Nobody may then wait      *)
(* forever: a task waiting on a clear block has its timer running, whatever*)
(* posts, timers and abends came before.                                   *)
WaitHasTimer ==
  \A t \in CnTasks : CnAt(t, "wait") /\ cn[t].ecb # "posted" => cn[t].timer

(* zcnm31.c counts a line it could not copy as needed too, so what the     *)
(* handler prints is the beginning of what was received: never a response  *)
(* with a hole in it.                                                      *)
ResponseHasNoHole ==
  \A t \in CnTasks : cn[t].out = SubSeq(cn[t].seen, 1, Len(cn[t].out))

(* Whichever of the steps fails or abends, the handler ends with its       *)
(* console deactivated, unless the deactivation itself was refused; and no *)
(* timer outlives the wait it was set for.                                 *)
ConsoleReleased ==
  \A t \in CnTasks :
     /\ cn[t].pc \in {"end", "terminated"} /\ ~ cn[t].stuck =>
          \A n \in CnNames : mcs[n].owner # t
     /\ cn[t].timer => CnAt(t, "wait")

(* A console command waits no longer than its timer and shows no response  *)
(* with a line missing inside.                                             *)
ConsoleAnswers == WaitHasTimer /\ ResponseHasNoHole
=============================================================================
