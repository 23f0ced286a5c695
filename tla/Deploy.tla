------------------------------- MODULE Deploy -------------------------------
(***************************************************************************)
(* ZSshUtils.installServer and uninstallServer: several users of one       *)
(* server directory, each step one remote command, any of which can fail,  *)
(* meet an expired password or see what another user did meanwhile         *)
(* (packages/sdk/src/ZSshUtils.ts).                                        *)
(***************************************************************************)
EXTENDS Naturals, FiniteSets

CONSTANTS DpUsers, DpJobs,      \* DpJobs: what users ask: [op, callback, tilde]; tilde: the
                                \* path starts with ~, as the default one does
          MaxTries              \* bound on the installs a callback asks to repeat

VARIABLES host,     \* the server directory: [dir, was, pax, bin, files, runs,
                    \* expired, removed]
          dp        \* each user's call

dpVars == <<host, dp>>

NoCall == [pc |-> "idle", job |-> [op |-> "", callback |-> FALSE, tilde |-> FALSE], tries |-> 0,
           found |-> "none", existed |-> FALSE, extracting |-> FALSE, accepted |-> FALSE,
           cleaned |-> FALSE, disturbed |-> FALSE, result |-> ""]

DpInit ==
  /\ host \in {[dir |-> d, was |-> d, pax |-> "none", bin |-> b, files |-> b # "none", runs |-> r,
                expired |-> FALSE, removed |-> FALSE] : d \in BOOLEAN, b \in {"none", "old"}, r \in BOOLEAN}
  /\ host.bin = "old" => host.dir
  /\ dp = [u \in DpUsers |-> NoCall]

-----------------------------------------------------------------------------
(* A step of one user: whoever else is at work or has finished sees the    *)
(* directory change.                                                       *)

DpStep(u, new, h) ==
  /\ host' = h
  /\ dp' = [v \in DpUsers |-> IF v = u THEN new
                              ELSE IF h # host THEN [dp[v] EXCEPT !.disturbed = TRUE] ELSE dp[v]]
DpEnd(r, how) == [r EXCEPT !.pc = "end", !.result = how]
AtStep(u, pc) == dp[u].pc = pc

(* routeExpiredPasswordError: to the callback and false, or thrown.        *)
routeExpiredPasswordError(r) == DpEnd(r, IF r.job.callback THEN "false" ELSE "thrown")

(* The callback asks for another try, which starts over (extraction has    *)
(* not begun); without one, and when it declines, the install is off.      *)
Retried(r) ==
  {DpEnd(r, "false")}
  \cup (IF r.job.callback /\ r.tries < MaxTries
        THEN {[r EXCEPT !.pc = "check", !.tries = @ + 1]} ELSE {})

PasswordExpires == ~ host.expired /\ host' = [host EXCEPT !.expired = TRUE] /\ UNCHANGED dp

StartCall(u) ==
  \E j \in DpJobs :
    /\ AtStep(u, "idle")
    /\ DpStep(u, [NoCall EXCEPT !.pc = IF j.op = "install" THEN "check" ELSE "rm", !.job = j,
                                !.found = host.bin,
                                !.disturbed = \E v \in DpUsers \ {u} : dp[v].pc \notin {"idle", "end"}], host)

-----------------------------------------------------------------------------
(* installServer                                                           *)

\* test -e of the directory.
pathExists == host.dir

\* A command that cannot be run at all throws: cleaning follows.
CannotRun(u) == DpStep(u, [dp[u] EXCEPT !.pc = "clean archive"], host)

(* Step 1: whether the directory was there, mkdir -p, and its space.       *)
CheckDirectory(u) ==
  /\ AtStep(u, "check")
  /\ DpStep(u, IF host.expired THEN routeExpiredPasswordError(dp[u])
               ELSE [dp[u] EXCEPT !.existed = pathExists, !.pc = "mkdir"], host)

MakeDirectory(u) ==
  /\ AtStep(u, "mkdir")
  /\ \/ ~ host.expired /\ DpStep(u, [dp[u] EXCEPT !.pc = "df"], [host EXCEPT !.dir = TRUE])
     \/ \E r \in Retried(dp[u]) : DpStep(u, r, host)
     \/ CannotRun(u)

\* What df tells; what cannot be read is -1 and counts as too little.
getAvailableMb == {"enough", "too little", "unknown"}

CheckSpace(u) ==
  /\ AtStep(u, "df")
  /\ IF host.expired THEN DpStep(u, routeExpiredPasswordError(dp[u]), host)
     ELSE \/ \E mb \in getAvailableMb :
               \/ DpStep(u, [dp[u] EXCEPT !.pc = "put"], host)
               \/ mb # "enough" /\ dp[u].job.callback /\ DpStep(u, DpEnd(dp[u], "false"), host)
          \/ CannotRun(u)

(* Step 2: the archive; a failed transfer leaves what had arrived.         *)
Upload(u) ==
  /\ AtStep(u, "put")
  /\ IF host.expired THEN DpStep(u, routeExpiredPasswordError(dp[u]), host)
     ELSE \/ host.dir /\ DpStep(u, [dp[u] EXCEPT !.pc = "pax"], [host EXCEPT !.pax = "whole"])
          \/ \E r \in Retried(dp[u]), part \in {host.pax, "part"} :
               DpStep(u, r, [host EXCEPT !.pax = IF host.dir THEN part ELSE "none"])

(* Step 3: pax.  When it fails the callback may go on with what there is.  *)
Extract(u) ==
  LET r == [dp[u] EXCEPT !.extracting = TRUE]
  IN  /\ AtStep(u, "pax")
      /\ IF host.expired THEN DpStep(u, routeExpiredPasswordError(r), host)
         ELSE \/ /\ host.pax = "whole"
                 /\ DpStep(u, [r EXCEPT !.pc = "unlink"], [host EXCEPT !.bin = "new", !.files = TRUE])
              \/ \E some \in BOOLEAN, go \in BOOLEAN :
                   /\ (some => host.pax # "none") /\ (go => r.job.callback)
                   /\ DpStep(u, [r EXCEPT !.pc = IF go THEN "unlink" ELSE "clean archive"],
                             IF some THEN [host EXCEPT !.bin = "broken", !.files = TRUE] ELSE host)

(* After a failed extraction, or a command that threw: the archive, the    *)
(* program if extraction had started, and the directory if this call made  *)
(* it.  An error on the way ends the cleaning.                             *)
CleanArchive(u) ==
  /\ AtStep(u, "clean archive")
  /\ \/ ~ host.expired /\ DpStep(u, [dp[u] EXCEPT !.pc = "clean program"], [host EXCEPT !.pax = "none"])
     \/ DpStep(u, DpEnd(dp[u], "false"), host)

CleanProgram(u) ==
  /\ AtStep(u, "clean program")
  /\ \/ DpStep(u, [dp[u] EXCEPT !.pc = "clean dir"],
               \* a refused test -e is taken for a missing program
               IF dp[u].extracting /\ ~ host.expired THEN [host EXCEPT !.bin = "none"] ELSE host)
     \/ dp[u].extracting /\ DpStep(u, DpEnd(dp[u], "false"), host)

(* Mutant: the directory goes whether or not this call made it.            *)
CleanAnyDir(u) ==
  /\ AtStep(u, "clean dir")
  /\ \/ DpStep(u, DpEnd([dp[u] EXCEPT !.cleaned = TRUE], "false"), [host EXCEPT !.dir = FALSE])
     \/ DpStep(u, DpEnd(dp[u], "false"), host)

\* rmdir takes only an empty directory.
CleanDir(u) ==
  /\ AtStep(u, "clean dir")
  /\ \/ dp[u].existed /\ DpStep(u, DpEnd([dp[u] EXCEPT !.cleaned = TRUE], "false"), host)
     \/ /\ ~ dp[u].existed /\ host.dir /\ host.pax = "none" /\ host.bin = "none" /\ ~ host.files
        /\ DpStep(u, DpEnd([dp[u] EXCEPT !.cleaned = TRUE], "false"), [host EXCEPT !.dir = FALSE])
     \/ ~ dp[u].existed /\ DpStep(u, DpEnd(dp[u], "false"), host)

(* Step 4: the archive goes; a failure is told and the install goes on.    *)
RemoveArchive(u) ==
  /\ AtStep(u, "unlink")
  /\ \E gone \in BOOLEAN :
       DpStep(u, [dp[u] EXCEPT !.pc = "verify"], IF gone THEN [host EXCEPT !.pax = "none"] ELSE host)

ServerRuns == host.dir /\ (host.bin = "old" \/ (host.bin = "new" /\ host.runs))

\* zo --version ends with code 0.
verifyServerBinary == ServerRuns /\ ~ host.expired

(* Step 5: the program is tried.  The callback may settle for one that     *)
(* does not run.                                                           *)
Verify(u) ==
  /\ AtStep(u, "verify")
  /\ IF verifyServerBinary THEN DpStep(u, DpEnd(dp[u], "true"), host)
     ELSE IF dp[u].job.callback
     THEN \E go \in BOOLEAN :
            DpStep(u, [DpEnd(dp[u], IF go THEN "true" ELSE "false") EXCEPT !.accepted = go], host)
     ELSE DpStep(u, DpEnd(dp[u], "thrown"), host)

(* uninstallServer: rm -rf, again as long as the callback says so.  The    *)
(* path is quoted as it is: with a leading ~, which installServer replaces,*)
(* it names another directory, which is not there, and rm -f is content.   *)
uninstallServer(u) ==
  LET gone == [host EXCEPT !.dir = FALSE, !.pax = "none", !.bin = "none", !.files = FALSE,
                           !.removed = TRUE]
      part == IF dp[u].job.tilde THEN {host} ELSE {host, [host EXCEPT !.bin = "none"]}
  IN /\ AtStep(u, "rm")
     /\ IF host.expired THEN DpStep(u, [routeExpiredPasswordError(dp[u]) EXCEPT !.result =
                                          IF @ = "false" THEN "true" ELSE @], host)
        ELSE \/ DpStep(u, DpEnd(dp[u], "true"), IF dp[u].job.tilde THEN host ELSE gone)
             \/ \E again \in BOOLEAN, h \in part :
                  /\ again => dp[u].job.callback /\ dp[u].tries < MaxTries
                  /\ DpStep(u, IF again THEN [dp[u] EXCEPT !.tries = @ + 1] ELSE DpEnd(dp[u], "thrown"), h)

DpNext ==
  \/ PasswordExpires
  \/ \E u \in DpUsers :
       \/ StartCall(u) \/ CheckDirectory(u) \/ MakeDirectory(u) \/ CheckSpace(u) \/ Upload(u) \/ Extract(u)
       \/ CleanArchive(u) \/ CleanProgram(u) \/ CleanDir(u) \/ RemoveArchive(u) \/ Verify(u)
       \/ uninstallServer(u)

DpSpec == DpInit /\ [][DpNext]_dpVars

-----------------------------------------------------------------------------
(* Properties                                                              *)

(* An install that returned true left a program that runs, unless the user *)
(* settled for less or somebody else changed the directory meanwhile.      *)
InstalledRuns ==
  \A u \in DpUsers : LET r == dp[u] IN
    r.result = "true" /\ r.job.op = "install" /\ ~ r.accepted /\ ~ r.disturbed => ServerRuns

(* No failed install takes away a directory it found: only uninstallServer *)
(* does.                                                                   *)
DirectoryKept == host.was /\ ~ host.removed => host.dir

(* An install that has not begun to extract leaves the program it found,   *)
(* whichever way it ends: the returns after a failed mkdir or upload clean *)
(* nothing, and leave at most the directory and an archive.                *)
ProgramKept ==
  \A u \in DpUsers : LET r == dp[u] IN
    r.job.op = "install" /\ ~ r.extracting /\ ~ r.disturbed => host.bin = r.found

(* Cleaning that was not itself refused leaves no archive, the directory   *)
(* only if this try found it, and, once extraction has begun, no program:  *)
(* the one of an earlier install goes with it.                             *)
ExtractionUndone ==
  \A u \in DpUsers : LET r == dp[u] IN
    r.cleaned /\ ~ r.disturbed /\ ~ host.expired =>
      host.pax = "none" /\ (r.extracting => host.bin = "none") /\ host.dir = r.existed

(* An uninstall that returned removed the directory, unless the path began *)
(* with ~ or the expired password was left to the callback.                *)
UninstallRemoves ==
  \A u \in DpUsers : LET r == dp[u] IN
    r.job.op = "uninstall" /\ r.result = "true" /\ ~ r.job.tilde /\ ~ r.disturbed /\ ~ host.expired
      => ~ host.dir

(* What installServer and uninstallServer report and leave: a successful   *)
(* install left a server that runs, no install takes a directory it found, *)
(* one that has not begun to extract keeps the program it found, completed *)
(* cleaning leaves nothing behind but a directory it found, and a          *)
(* successful uninstall removed the directory, with the exceptions above.  *)
InstallHonest == InstalledRuns /\ DirectoryKept /\ ProgramKept /\ ExtractionUndone /\ UninstallRemoves
=============================================================================
