--------------------------- MODULE ClientStartup ---------------------------
(***************************************************************************)
(* ZSshClient.create: from connect to the server's ready banner            *)
(* (packages/sdk/src/ZSshClient.ts).  An action is one callback with the   *)
(* promise reactions it triggers.  The server writes to two streams; each  *)
(* arrives in chunks that may end anywhere, and getServerStatus looks at   *)
(* one chunk and at what it collected.  A text is a sequence of fragments: *)
(* what the code searches for has two, so a chunk can cut it.              *)
(***************************************************************************)
EXTENDS Integers, Sequences, SequencesExt

CONSTANT StScripts      \* what the shell and the server may print: [out, err, ends]

VARIABLE st

Banner == <<"{status", "ready}">>
NotFound == <<"FSUM", "7351">>          \* the shell did not find the command
NoHome == <<"FOTS", "1681">>            \* the shell could not change to the home directory
LeMessage == <<"CEE", "3561S">>         \* Language Environment could not load the program
\* The wrapper's echo of the exit code: the marker and the digits of 127, or of 8.
Exit127 == <<"@@", "12", "7">>
Exit8 == <<"@@", "8">>

StreamNames == {"out", "err"}

StInit ==
  st \in {[pc |-> "connect", established |-> FALSE, timer |-> TRUE, listening |-> TRUE, conn |-> "up",
           script |-> s, wire |-> [x \in StreamNames |-> s[x]], output |-> <<>>, reading |-> FALSE, settled |-> FALSE,
           wired |-> FALSE, err |-> "", told |-> FALSE, cut |-> FALSE] : s \in StScripts}

-----------------------------------------------------------------------------
(* Reading what arrived.                                                   *)

Occurs(part, text) ==
  \E i \in 0..(Len(text) - Len(part)) : SubSeq(text, i + 1, i + Len(part)) = part

(* stripExitCode: the digits that follow the marker so far.                *)
stripExitCode(text) ==
  IF Occurs(Exit127, text) THEN 127
  ELSE IF Occurs(<<"@@", "12">>, text) THEN 12
  ELSE IF Occurs(Exit8, text) THEN 8
  ELSE -1

(* Mutant: the message is looked for in one chunk.                         *)
LeInChunk(chunk, output) == Occurs(LeMessage, chunk)

(* matchLeRuntimeFailure, on everything collected: the message can arrive  *)
(* in two chunks.                                                          *)
matchLeRuntimeFailure(chunk, output) == Occurs(LeMessage, output)

\* What JSON.parse takes without being the banner: a number.
NumberOnly(chunk) == chunk # <<>> /\ \A i \in DOMAIN chunk : chunk[i] \in {"12", "7", "8"}

(* getServerStatus: the class of error it throws, "ready", or "" to go on. *)
getServerStatus(chunk, output) ==
  IF chunk = Banner THEN "ready"
  ELSE IF NumberOnly(chunk) THEN ""
  ELSE IF Occurs(NotFound, chunk) \/ stripExitCode(output) = 127 THEN "ENOTFOUND"
  ELSE IF Occurs(NoHome, chunk) /\ stripExitCode(output) = -1 THEN "tell"
  ELSE IF matchLeRuntimeFailure(chunk, output) THEN "ELERUNTIME"
  ELSE IF stripExitCode(output) # -1 THEN "started"
  ELSE ""

-----------------------------------------------------------------------------
(* Settling.                                                               *)

(* onStartupError with the catch of create: only the first one counts; the *)
(* timer is cleared, the listeners are removed and the connection ended.   *)
onStartupError(r, why) ==
  IF r.established THEN r
  ELSE [r EXCEPT !.established = TRUE, !.timer = FALSE, !.err = why, !.pc = "failed",
                 !.listening = FALSE, !.conn = IF @ = "up" THEN "ended" ELSE @]

(* The reaction to execAsync: established, and create goes on to watch the *)
(* channel (if it was not rejected before).                                *)
Established(r) ==
  IF r.established THEN r
  ELSE [r EXCEPT !.established = TRUE, !.timer = FALSE, !.pc = "watched"]

(* settle of execAsync: the first call decides, and the channel is no      *)
(* longer read by it.                                                      *)
settle(r, why) ==
  IF r.settled THEN r
  ELSE LET q == [r EXCEPT !.settled = TRUE, !.reading = FALSE]
       IN  IF why = "ready" THEN Established(q) ELSE onStartupError(q, why)

-----------------------------------------------------------------------------
(* Events.                                                                 *)

(* The transport is ready: execAsync starts the server, or exec fails.     *)
Ready ==
  /\ st.pc = "connect" /\ st.conn = "up" /\ st.listening
  /\ \/ st' = [st EXCEPT !.pc = "banner", !.reading = TRUE]
     \/ st' = onStartupError(st, "exec")

StartupTimeout == st.timer /\ st' = onStartupError(st, "ESERVERSTARTUPTIMEOUT")

(* An error event: a failed startup, or reported to the handler; after     *)
(* dispose it is noise.  No listener hears it once startup has failed.     *)
ErrorEvent ==
  /\ st.listening /\ st.conn = "up"
  /\ st' = IF st.established THEN [st EXCEPT !.told = TRUE]
           ELSE onStartupError([st EXCEPT !.conn = "closed"], "error")

CloseEvent ==
  /\ st.conn \in {"up", "ended"}
  /\ st' = LET r == [st EXCEPT !.conn = "closed"]
           IN  IF ~ st.listening THEN r
               ELSE IF st.established THEN [r EXCEPT !.pc = "disconnected"]
               ELSE onStartupError(r, "ECONNCLOSED")

(* onData: a chunk of one stream.  Once the banner was read the chunks go  *)
(* to onErrData and onOutData.  A connection that was ended may still       *)
(* deliver.                                                                *)
onData(x, n) ==
  LET chunk == SubSeq(st.wire[x], 1, n)
      out == IF chunk = Banner \/ NumberOnly(chunk) THEN st.output ELSE st.output \o chunk
      r == [st EXCEPT !.wire[x] = SubSeq(@, n + 1, Len(@)),
                      !.cut = @ \/ Last(chunk) \in {"{status", "@@", "12"}
                                \/ (chunk # Banner /\ Occurs(Banner, chunk))]
      got == getServerStatus(chunk, out)
  IN  /\ st.reading /\ st.conn # "closed" /\ n \in 1..Len(st.wire[x])
      /\ st' = CASE got = "" -> [r EXCEPT !.output = out]
                 [] got = "tell" -> [r EXCEPT !.output = out, !.told = TRUE]
                 [] got = "ready" -> settle([r EXCEPT !.output = <<>>, !.wired = TRUE], "ready")
                 [] OTHER -> settle([r EXCEPT !.output = out], got)

(* The channel closes when the process is over and everything it printed   *)
(* was delivered: onStreamClose reports what was collected.                *)
onStreamClose ==
  /\ st.reading /\ st.conn # "closed" /\ st.script.ends /\ \A x \in StreamNames : st.wire[x] = <<>>
  /\ st' = settle(st, IF st.output # <<>> THEN "started" ELSE "ESERVEREXIT")

StNext ==
  \/ Ready \/ StartupTimeout \/ ErrorEvent \/ CloseEvent \/ onStreamClose
  \/ \E x \in StreamNames, n \in 1..6 : onData(x, n)

StSpec == StInit /\ [][StNext]_st

-----------------------------------------------------------------------------
(* Properties                                                              *)

\* The server of a script reports itself ready, or why it did not start.
Cause(s) ==
  CASE Occurs(Banner, s.out) -> "ready" [] Occurs(NotFound, s.err) -> "ENOTFOUND"
    [] Occurs(LeMessage, s.err) -> "ELERUNTIME" [] s.out \o s.err = <<>> -> "ESERVEREXIT"
    [] OTHER -> "started"

(* create tells why the server did not start, however its output was cut:  *)
(* a missing program, a program Language Environment refuses, any other    *)
(* failure, and it times out after the whole output only if the process    *)
(* lives on without a banner; the error handler hears of a failed startup  *)
(* only the home directory.  Cuts inside the banner and at the exit code   *)
(* are too much for the code.                                              *)
StartupDiagnosed ==
  st.pc \in {"failed", "watched"} /\ ~ st.cut =>
    /\ st.pc = "watched" => Cause(st.script) = "ready"
    /\ st.err \in {"ENOTFOUND", "ELERUNTIME", "started", "ESERVEREXIT"} => st.err = Cause(st.script)
    /\ st.err = "ESERVERSTARTUPTIMEOUT" /\ st.reading /\ (\A x \in StreamNames : st.wire[x] = <<>>)
         => Cause(st.script) # "ready"
    /\ st.told /\ st.pc = "failed" => Occurs(NoHome, st.script.err)

(* Whichever of timer, error, close, exec, output and channel ended the    *)
(* startup, a failed one leaves no timer and no open connection, and a     *)
(* successful one no timer, with the response handlers on the channel.     *)
StartupReleases ==
  /\ st.pc = "failed" => ~ st.timer /\ ~ st.listening /\ st.conn # "up"
  /\ st.pc \in {"watched", "disconnected"} => ~ st.timer /\ st.wired /\ ~ st.reading

(* A failed startup is explained by what the server wrote and leaves       *)
(* nothing running; a successful one saw the banner (ZSshClient.create).   *)
StartupSound == StartupDiagnosed /\ StartupReleases
=============================================================================
