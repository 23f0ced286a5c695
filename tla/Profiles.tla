------------------------------ MODULE Profiles ------------------------------
(***************************************************************************)
(* AbstractConfigManager.promptForProfile: choosing, validating and saving *)
(* the SSH profile a client connects with (packages/sdk/src).  A profile   *)
(* is [name, host, user, key, phrase, pw, agent], Undef for an undefined   *)
(* field; a result of validateConfig is the fields it changes.  A dialogue *)
(* has one user and nothing runs beside it, so an action is everything up  *)
(* to the next stage, over whatever the user may answer.                   *)
(***************************************************************************)
EXTENDS Naturals, Sequences, SequencesExt

CONSTANTS PfWorlds,     \* the host: [reach, expired, agent, sock, keys]
          PfFiles,      \* team configurations: a profile for each name
          Migrated,     \* the entries of ~/.ssh/config
          FoundKeys,    \* the readable keys of ~/.ssh, in order
          Typed         \* what createNewProfile makes of the typed commands

VARIABLE pf

Undef == ""     \* undefined, or empty: the code tells neither from the other

Profile ==
  [name : STRING, host : STRING, user : STRING, key : STRING, phrase : STRING, pw : STRING, agent : STRING]
StoredProfile ==
  [host : STRING, user : STRING, key : STRING, phrase : STRING, pw : STRING, agent : STRING, comments : SUBSET STRING]

\* Neither a typed command nor ~/.ssh/config names a password.
ASSUME ProfileAssumption ==
  /\ \A f \in PfFiles : f \in [DOMAIN f -> StoredProfile]
  /\ Migrated \in Seq({c \in Profile : c.pw = Undef})
  /\ FoundKeys \in Seq(STRING)
  /\ Typed \subseteq {c \in Profile : c.pw = Undef}

\* The host knows user u with password p; a locked key opens with ph.
Users == {Undef, "u", "x"}
NoMods == <<>>

\* {...c, ...m}: the fields of c, those of m before them.
Spread(c, m) == [f \in DOMAIN c \cup DOMAIN m |-> IF f \in DOMAIN m THEN m[f] ELSE c[f]]

PfInit ==
  pf \in {[pc |-> "menu", world |-> w, file |-> f, before |-> f, autoStore |-> a, sel |-> <<>>, valid |-> FALSE,
           tries |-> <<>>, accepted |-> FALSE, overwrites |-> FALSE, result |-> Undef] :
          w \in PfWorlds, f \in PfFiles, a \in BOOLEAN}

-----------------------------------------------------------------------------
(* Connecting.                                                             *)

Resolved(w, agent) == IF agent = "SSH_AUTH_SOCK" /\ ~ w.sock THEN Undef ELSE agent

(* Connecting to host w over buildSshConfig: an agent hides the key and    *)
(* the password, buildSession hides the password behind a key; the errors  *)
(* are the texts validateConfig tells apart.                               *)
Connection(w, c) ==
  LET method == IF Resolved(w, c.agent) # Undef THEN "agent" ELSE IF c.key # Undef THEN "key" ELSE "pw"
      key == IF method = "key" THEN w.keys[c.key] ELSE Undef
      right == /\ c.user = "u"
               /\ CASE method = "agent" -> w.agent [] method = "key" -> key # "refused" [] OTHER -> c.pw = "p"
  IN  CASE c.user = Undef -> "Invalid username"
        [] key = "malformed" -> "malformed"
        [] key = "locked" /\ c.phrase = Undef -> "no passphrase"
        [] key = "locked" /\ c.phrase # "ph" -> "integrity"
        [] ~ w.reach -> "timeout"
        [] ~ right -> "refused"
        [] w.expired -> "FOTS1668"
        [] OTHER -> "ok"

attemptConnection(c) == Connection(pf.world, c)

-----------------------------------------------------------------------------
(* ConfigFileUtils and handleInvalidPrivateKey                             *)

commentOutProperty(f, n) == [f EXCEPT ![n].key = Undef, ![n].comments = @ \cup {f[n].key}]
deleteCommentedLine(f, n, k) == [f EXCEPT ![n].comments = @ \ {k}]

uncommentProperty(f, n, k) == [f EXCEPT ![n].key = k, ![n].comments = @ \ {k}]

(* Whether to go on with the next method, and the file: the stored key of  *)
(* the profile of that name is moved to a comment; the user accepts, has   *)
(* the comment deleted too, or undoes it and stops.                        *)
handleInvalidPrivateKey(f, c) ==
  LET out == commentOutProperty(f, c.name)
      k == f[c.name].key
  IN  IF c.key = Undef \/ c.name = Undef \/ ~ pf.autoStore THEN {[go |-> TRUE, file |-> f, accepted |-> FALSE]}
      ELSE IF c.name \notin DOMAIN f THEN {[go |-> FALSE, file |-> f, accepted |-> FALSE]}
      ELSE IF k = Undef THEN {[go |-> FALSE, file |-> f, accepted |-> FALSE]}
      ELSE {[go |-> TRUE, file |-> out, accepted |-> TRUE],
            [go |-> TRUE, file |-> deleteCommentedLine(out, c.name, k), accepted |-> TRUE],
            [go |-> FALSE, file |-> uncommentProperty(out, c.name, k), accepted |-> FALSE]}

-----------------------------------------------------------------------------
(* validateConfig: s is where it stands, [end, ok, mods, file, accepted].  *)

Stop(s) == [s EXCEPT !.end = TRUE]
Accept(s, more) == [s EXCEPT !.end = TRUE, !.ok = TRUE, !.mods = Spread(@, more)]
Handled(s, h) == [s EXCEPT !.file = h.file, !.accepted = @ \/ h.accepted]

(* Three tries: what fails, or is cancelled, ends in undefined.            *)
promptForPassword(a, s) ==
  {Stop(s)} \cup (IF attemptConnection([a EXCEPT !.pw = "p"]) = "ok" THEN {Accept(s, [pw |-> "p"])} ELSE {})

(* The catch of one attempt with error e.                                  *)
Failed(t, c, a, s, ask, e) ==
  CASE e = "Invalid username" ->
         {Stop(s)} \cup {IF attemptConnection([a EXCEPT !.user = u]) = "ok" THEN Accept(s, [user |-> u]) ELSE Stop(s)
                         : u \in Users \ {Undef}}
    [] t = "key" /\ e \in {"no passphrase", "integrity"} ->     \* three tries at the passphrase
         {Stop(Handled(s, h)) : h \in handleInvalidPrivateKey(s.file, c)}
         \cup (IF attemptConnection([a EXCEPT !.phrase = "ph"]) = "ok"
               THEN {Accept(s, [key |-> c.key, phrase |-> "ph"])} ELSE {})
    [] e = "refused" /\ t = "agent" -> {[s EXCEPT !.mods = Spread(@, [agent |-> Undef])]}
    [] e = "refused" /\ t = "key" ->
         {IF h.go THEN [Handled(s, h) EXCEPT !.mods = Spread(@, [key |-> Undef, phrase |-> Undef])]
          ELSE Stop(Handled(s, h)) : h \in handleInvalidPrivateKey(s.file, c)}
    [] e = "refused" /\ t = "pw" -> IF ask THEN promptForPassword(a, s) ELSE {s}
    [] e = "malformed" -> {Stop(Handled(s, h)) : h \in handleInvalidPrivateKey(s.file, c)}
    [] OTHER -> {Stop(s)}

(* One pass of the loop over the methods, with the others left out.        *)
WithMethod(t, c, s, ask) ==
  LET a == [Spread(c, s.mods) EXCEPT !.agent = IF t = "agent" THEN c.agent ELSE Undef,
                                     !.key = IF t = "key" THEN c.key ELSE Undef,
                                     !.phrase = IF t = "key" THEN c.phrase ELSE Undef,
                                     !.pw = IF t = "pw" THEN c.pw ELSE Undef]
      listed == CASE t = "agent" -> Resolved(pf.world, c.agent) # Undef
                  [] t = "key" -> c.key # Undef
                  [] OTHER -> c.pw # Undef \/ ask
      e == attemptConnection(a)
  IN  IF s.end \/ ~ listed THEN {s}
      ELSE IF t = "pw" /\ a.pw = Undef THEN promptForPassword(a, s)
      ELSE IF e = "ok" THEN {Accept(s, NoMods)}
      ELSE Failed(t, c, a, s, ask, e)

validateConfig(c, f, ask) ==
  LET start == {[end |-> FALSE, ok |-> FALSE, mods |-> m, file |-> f, accepted |-> FALSE] :
                m \in IF c.user = Undef THEN {[user |-> u] : u \in Users} ELSE {NoMods}}
      agent == UNION {WithMethod("agent", c, s, ask) : s \in start}
      key == UNION {WithMethod("key", c, s, ask) : s \in agent}
  IN  UNION {WithMethod("pw", c, s, ask) : s \in key}

-----------------------------------------------------------------------------
(* promptForProfile                                                        *)

\* A password replaces the other credentials.
NoKeys == [agent |-> Undef, key |-> Undef, phrase |-> Undef]
PfEnd(r, how) == [r EXCEPT !.pc = "end", !.result = how]
Settled(s) == [pf EXCEPT !.file = s.file, !.accepted = @ \/ s.accepted]
HostsKnown == {pf.file[n].host : n \in DOMAIN pf.file}
ProfileOf(n) ==
  [f \in {"name", "host", "user", "key", "phrase", "pw", "agent"} |-> IF f = "name" THEN n ELSE pf.file[n][f]]
InFile(c) == Spread([comments |-> {}], [f \in DOMAIN c \ {"name"} |-> c[f]])

(* The menu: dismissed; an entry of ~/.ssh/config whose host has no        *)
(* profile; or a typed command (createNewProfile), unless it is malformed. *)
Choose ==
  /\ pf.pc = "menu"
  /\ \/ pf' = PfEnd(pf, "cancelled")
     \/ \E c \in Typed \cup {m \in Range(Migrated) : m.host \notin HostsKnown} :
          pf' = [pf EXCEPT !.pc = "name", !.sel = c]

(* An existing profile: a password that was asked for replaces the other   *)
(* credentials, and setProfile updates what changed.                       *)
ChooseExisting ==
  /\ pf.pc = "menu"
  /\ \E n \in DOMAIN pf.file : \E s \in validateConfig(ProfileOf(n), pf.file, TRUE) :
       LET mods == IF "pw" \in DOMAIN s.mods THEN Spread(s.mods, NoKeys) ELSE s.mods
       IN  pf' = IF ~ s.ok THEN PfEnd(Settled(s), "cancelled")
                 ELSE [PfEnd(Settled(s), "profile") EXCEPT
                         !.file[n] = [f \in DOMAIN @ |-> IF f \in DOMAIN mods THEN mods[f] ELSE @[f]],
                         !.sel = Spread(ProfileOf(n), mods), !.valid = TRUE]

(* The keys validateFoundPrivateKeys goes through for profile c: those of  *)
(* ~/.ssh, then those ~/.ssh/config names.                                 *)
KeysToTry(c) ==
  [i \in DOMAIN FoundKeys |-> [found |-> TRUE, c |-> [c EXCEPT !.key = FoundKeys[i], !.agent = Undef]]]
  \o [i \in DOMAIN Migrated |-> [found |-> FALSE, c |-> [Migrated[i] EXCEPT !.agent = Undef]]]

(* An entry of ~/.ssh/config counts for its host, and for the user if one  *)
(* is known.                                                               *)
Matches(t) ==
  t.found \/ (t.c.host = pf.sel.host /\ t.c.key # Undef /\ (pf.sel.user = Undef \/ t.c.user = pf.sel.user))

(* getNewProfileName: the host's name, asked before it replaces a profile, *)
(* or another one; then the stages of validation.                          *)
getNewProfileName ==
  /\ pf.pc = "name"
  /\ \/ \E n \in {IF pf.sel.name = Undef THEN pf.sel.host ELSE pf.sel.name, "other"} :
          pf' = [pf EXCEPT !.sel.name = n, !.overwrites = n \in DOMAIN pf.file,
                           !.pc = IF pf.sel.agent # Undef \/ pf.sel.key # Undef THEN "own" ELSE "found",
                           !.tries = KeysToTry([pf.sel EXCEPT !.name = n])]
     \/ pf' = PfEnd(pf, "cancelled")

(* The agent and the key that came with the profile.                       *)
OwnCredentials ==
  /\ pf.pc = "own"
  /\ \E s \in validateConfig(pf.sel, pf.file, FALSE) :
       pf' = IF s.ok THEN [Settled(s) EXCEPT !.pc = "save", !.valid = TRUE, !.sel = Spread(@, s.mods)]
             ELSE [Settled(s) EXCEPT !.pc = "found"]

(* validateFoundPrivateKeys, one key: a found one is taken over with what  *)
(* its validation changed, of an entry of ~/.ssh/config only the key.      *)
validateFoundPrivateKeys ==
  /\ pf.pc = "found" /\ pf.tries # <<>>
  /\ LET try == Head(pf.tries)
     IN  IF ~ Matches(try) THEN pf' = [pf EXCEPT !.tries = Tail(@)]
         ELSE \E s \in validateConfig(try.c, pf.file, FALSE) :
           pf' = IF ~ s.ok THEN [Settled(s) EXCEPT !.tries = Tail(@)]
                 ELSE [Settled(s) EXCEPT !.pc = "save", !.valid = TRUE, !.tries = <<>>,
                         !.sel = IF try.found THEN Spread(Spread(try.c, s.mods), [key |-> try.c.key])
                                 ELSE Spread([@ EXCEPT !.key = try.c.key, !.phrase = try.c.phrase,
                                                       !.agent = Undef, !.pw = Undef], s.mods)]

(* Mutant: the key that failed stays beside the password.                  *)
PasswordBesideKey(s) == Spread(pf.sel, s.mods)

(* What a password leaves.                                                 *)
PasswordOnly(s) == Spread(Spread(pf.sel, s.mods), NoKeys)

(* The last resort: a password, without the agent and the key.             *)
AskPassword ==
  /\ pf.pc = "found" /\ pf.tries = <<>>
  /\ \E s \in validateConfig([pf.sel EXCEPT !.agent = Undef, !.key = Undef, !.phrase = Undef], pf.file, TRUE) :
       pf' = [Settled(s) EXCEPT !.pc = "save", !.valid = s.ok, !.sel = IF s.ok THEN PasswordOnly(s) ELSE @]

(* setProfile, unless there is nothing to connect with.  What no host      *)
(* accepted but came with the profile is saved too.                        *)
setProfile ==
  /\ pf.pc = "save"
  /\ pf' = IF pf.sel.key = Undef /\ pf.sel.pw = Undef /\ pf.sel.agent = Undef THEN PfEnd(pf, "cancelled")
           ELSE [PfEnd(pf, "profile") EXCEPT !.file = Spread(@, [n \in {pf.sel.name} |-> InFile(pf.sel)])]

PfNext ==
  \/ Choose \/ ChooseExisting \/ getNewProfileName \/ OwnCredentials
  \/ validateFoundPrivateKeys \/ AskPassword \/ setProfile

PfSpec == PfInit /\ [][PfNext]_pf

-----------------------------------------------------------------------------
(* Properties                                                              *)

\* A profile whose user is still to be asked for counts as the host's user.
Connects(c) == attemptConnection(IF c.user = Undef THEN [c EXCEPT !.user = "u"] ELSE c) = "ok"

(* A profile returned after a validation succeeded connects as it was      *)
(* saved, whatever mixture of agent, key and password it went through.     *)
SavedConnects == pf.result = "profile" /\ pf.valid => Connects(pf.sel) /\ Connects(pf.file[pf.sel.name])

\* File g is f, but that an undo deletes every comment of the key it restores.
Restored(f, g) ==
  /\ DOMAIN g = DOMAIN f
  /\ \A n \in DOMAIN f : g[n] = f[n] \/ g[n] = [f[n] EXCEPT !.comments = @ \ {f[n].key}]

(* A dialogue that ended without a profile left the configuration as it    *)
(* was, if no moved key was accepted; and a stored profile that connected  *)
(* without a question still does, unless a new one was to replace it or an *)
(* entry of ~/.ssh/config has its name: then its key is the one moved.     *)
CancelledKeeps ==
  pf.result = "cancelled" =>
    /\ ~ pf.accepted => Restored(pf.before, pf.file)
    /\ ~ pf.overwrites => \A n \in DOMAIN pf.before \ {m.name : m \in Range(Migrated)} :
         attemptConnection(pf.before[n]) = "ok" => attemptConnection(pf.file[n]) = "ok"

(* What promptForProfile keeps is what it tried, and giving up keeps what  *)
(* there was (AbstractConfigManager.ts).                                   *)
ProfilesSound == SavedConnects /\ CancelledKeeps
=============================================================================
