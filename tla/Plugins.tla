------------------------------ MODULE Plugins ------------------------------
(***************************************************************************)
(* Plug-ins: the directory is vetted, each file is opened and asked to     *)
(* register itself (PluginManager), then its providers describe commands   *)
(* through RegistrationContextImpl, the top-level ones are committed to    *)
(* the root, and those meant for the server are registered with the        *)
(* dispatcher (plugin_bridge.cpp).                                         *)
(*                                                                         *)
(* What a plug-in does is a script: the calls it makes, in order.          *)
(***************************************************************************)
EXTENDS Naturals, Sequences, FiniteSets, SequencesExt

CONSTANTS PlugDirs,    \* what stat may say of the directory: [kind, owner, writable]
          PlugFiles,   \* file -> [kind, owner, writable, opens, abi, entry, enter, script]
          Builtin,     \* tokens of the built-in commands
          RpcBuiltin,  \* RPC names of the built-in commands
          MaxDepth     \* levels of subcommands the bridge follows

(* The commands that a script has created before its n-th call.            *)
Created(script, n) == Cardinality({m \in 1 .. n - 1 : script[m].op = "create"})

(* A plug-in passes no handle but those it was given.                      *)
ASSUME PlugAssumption ==
  /\ MaxDepth \in Nat
  /\ \A f \in DOMAIN PlugFiles : LET s == PlugFiles[f].script IN
       \A n \in 1 .. Len(s) :
         /\ s[n].op \in {"alias", "sub", "server"} => s[n].k \in 1 .. Created(s, n)
         /\ s[n].op = "sub" => s[n].parent \in 0 .. Created(s, n)

VARIABLE pl

plVars == <<pl>>

NoDisplay == ""

(* One created command: its tokens, its subcommands and whose code it is.  *)
Rec(name, file) == [name |-> name, aliases |-> {}, kids |-> {}, file |-> file]

PlInit ==
  pl = [pc |-> "dir", present |-> {}, left |-> {}, diruid |-> "", file |-> "", step |-> 1, open |-> {}, provs |-> <<>>,
        loaded |-> {}, display |-> NoDisplay, pending |-> FALSE, rejected |-> FALSE, snap |-> 0,
        turn |-> 1, base |-> 0, recs |-> <<>>, root |-> {}, claimed |-> Builtin, pend |-> <<>>,
        server |-> {}, refused |-> {}, rpc |-> {}, aborted |-> FALSE]

is_trusted_owner(owner) == owner \in {"root", "self"}

(* validate_plugins_directory: nothing is loaded from a directory others   *)
(* can write to.                                                           *)
validate_plugins_directory(dir) ==
  dir.kind = "dir" /\ ~ dir.writable /\ is_trusted_owner(dir.owner)

should_load_plugin_entry(f) ==
  /\ PlugFiles[f].kind = "regular" /\ ~ PlugFiles[f].writable
  /\ PlugFiles[f].owner = pl.diruid \/ is_trusted_owner(PlugFiles[f].owner)

load_plugins ==
  /\ pl.pc = "dir"
  /\ \E dir \in PlugDirs, files \in SUBSET DOMAIN PlugFiles :
       pl' = IF validate_plugins_directory(dir)
             THEN [pl EXCEPT !.pc = "scan", !.present = files, !.left = files, !.diruid = dir.owner]
             ELSE [pl EXCEPT !.pc = "register", !.present = files]

(* load_plugin_file, up to the plug-in's own code: readdir has an order of *)
(* its own.                                                                *)
load_plugin_file ==
  /\ pl.pc = "scan"
  /\ \E f \in pl.left :
       pl' = IF should_load_plugin_entry(f) /\ PlugFiles[f].opens /\ PlugFiles[f].abi
                /\ PlugFiles[f].entry
             THEN [pl EXCEPT !.pc = "enter", !.left = @ \ {f}, !.file = f, !.step = 1,
                     !.open = @ \cup {f}, !.display = NoDisplay, !.pending = FALSE,
                     !.rejected = FALSE, !.snap = Len(pl.provs)]
             ELSE [pl EXCEPT !.left = @ \ {f}]

Entering == pl.pc = "enter" /\ pl.step <= Len(PlugFiles[pl.file].enter)
EnterCall == PlugFiles[pl.file].enter[pl.step]

is_display_name_in_use(name) == name # NoDisplay /\ \E p \in pl.loaded : p.display = name

register_plugin_metadata ==
  /\ Entering /\ EnterCall.op = "metadata"
  /\ pl' = IF pl.rejected THEN [pl EXCEPT !.step = @ + 1]
           ELSE IF is_display_name_in_use(EnterCall.display)
           THEN [pl EXCEPT !.step = @ + 1, !.rejected = TRUE, !.pending = FALSE, !.display = NoDisplay]
           ELSE [pl EXCEPT !.step = @ + 1, !.pending = TRUE, !.display = EnterCall.display]

register_command_provider ==
  /\ Entering /\ EnterCall.op = "provider"
  /\ pl' = [pl EXCEPT !.step = @ + 1,
                      !.provs = IF pl.rejected THEN @ ELSE Append(@, pl.file)]

(* Mutant: the providers of a rejected plug-in stay.                       *)
KeepProviders(start) == IF start <= Len(pl.provs) THEN pl.provs ELSE <<>>

(* Back in load_plugin_file: a duplicate's providers are discarded before  *)
(* its code goes; otherwise record_loaded_plugin names it, after its file  *)
(* if it gave no name.                                                     *)
discard_command_providers_from(start) == SubSeq(pl.provs, 1, start)

record_loaded_plugin ==
  /\ pl.pc = "enter" /\ pl.step > Len(PlugFiles[pl.file].enter)
  /\ pl' = IF pl.rejected
           THEN [pl EXCEPT !.pc = "scan", !.provs = discard_command_providers_from(pl.snap),
                           !.open = @ \ {pl.file}]
           ELSE [pl EXCEPT !.pc = "scan", !.pending = FALSE, !.display = NoDisplay,
                   !.loaded = @ \cup {[display |-> IF pl.pending THEN pl.display ELSE pl.file,
                                       file |-> pl.file]}]

Scanned ==
  /\ pl.pc = "scan" /\ pl.left = {}
  /\ pl' = [pl EXCEPT !.pc = "register"]

-----------------------------------------------------------------------------
(* register_commands: the providers one after the other, each running its  *)
(* script; k in a script is the k-th command the provider created, 0 the   *)
(* root.                                                                   *)
NextProvider ==
  /\ pl.pc = "register"
  /\ pl' = IF pl.turn > Len(pl.provs) THEN [pl EXCEPT !.pc = "commit"]
           ELSE [pl EXCEPT !.pc = "script", !.file = pl.provs[pl.turn], !.turn = @ + 1,
                           !.step = 1, !.base = Len(pl.recs)]

Scripting == pl.pc = "script" /\ pl.step <= Len(PlugFiles[pl.file].script)
Call == PlugFiles[pl.file].script[pl.step]
At(k) == pl.base + k
Tokens(r) == {pl.recs[r].name} \cup pl.recs[r].aliases

create_command ==
  /\ Scripting /\ Call.op = "create"
  /\ pl' = [pl EXCEPT !.step = @ + 1, !.recs = Append(@, Rec(Call.name, pl.file))]

(* add_alias: Command::add_alias throws for a command's own name, and      *)
(* nothing here catches it.                                                *)
add_alias ==
  /\ Scripting /\ Call.op = "alias"
  /\ pl' = IF Call.token = pl.recs[At(Call.k)].name
           THEN [pl EXCEPT !.pc = "aborted", !.aborted = TRUE]
           ELSE [pl EXCEPT !.step = @ + 1, !.recs[At(Call.k)].aliases = @ \cup {Call.token}]

(* Two siblings that share a token: add_command throws.                    *)
Clash(parent, child) == \E r \in pl.recs[parent].kids : Tokens(r) \cap Tokens(child) # {}

add_subcommand ==
  /\ Scripting /\ Call.op = "sub"
  /\ pl' = IF Call.parent = 0
           THEN [pl EXCEPT !.step = @ + 1, !.pend = Append(@, At(Call.k))]
           ELSE IF Clash(At(Call.parent), At(Call.k)) THEN [pl EXCEPT !.step = @ + 1]
           ELSE [pl EXCEPT !.step = @ + 1, !.recs[At(Call.parent)].kids = @ \cup {At(Call.k)}]

add_to_server ==
  /\ Scripting /\ Call.op = "server"
  /\ pl' = [pl EXCEPT !.step = @ + 1, !.server = @ \cup {At(Call.k)}]

ProviderDone ==
  /\ pl.pc = "script" /\ pl.step > Len(PlugFiles[pl.file].script)
  /\ pl' = [pl EXCEPT !.pc = "register"]

(* find_collision, over the name and the aliases the command ended up      *)
(* with.                                                                   *)
find_collision(r) == Tokens(r) \cap pl.claimed # {}

reject_pending_command(r) ==
  pl' = [pl EXCEPT !.pend = Tail(@), !.refused = @ \cup {r}, !.server = @ \ {r}]

commit_root_commands ==
  /\ pl.pc = "commit"
  /\ IF pl.pend = <<>> THEN pl' = [pl EXCEPT !.pc = "serve"]
     ELSE LET r == Head(pl.pend) IN
          IF find_collision(r) THEN reject_pending_command(r)
          ELSE pl' = [pl EXCEPT !.pend = Tail(@), !.root = @ \cup {r}, !.claimed = @ \cup Tokens(r)]

-----------------------------------------------------------------------------
(* traverse_and_register: the command and its subcommands, by their paths. *)
Paths(r) ==
  LET under[d \in 0 .. MaxDepth] ==
        IF d = 0 THEN {[path |-> <<pl.recs[r].name>>, rec |-> r]}
        ELSE UNION {{[path |-> Append(p.path, pl.recs[kid].name), rec |-> kid] :
                       kid \in pl.recs[p.rec].kids} : p \in under[d - 1]}
  IN  UNION {under[d] : d \in 0 .. MaxDepth}

(* register_commands_with_server: the set is ordered by address; a name    *)
(* already taken is refused.                                               *)
Taken == RpcBuiltin \cup {p.path : p \in pl.rpc}

register_commands_with_server ==
  /\ pl.pc = "serve"
  /\ IF pl.server = {} THEN pl' = [pl EXCEPT !.pc = "up"]
     ELSE \E r \in pl.server :
            pl' = [pl EXCEPT !.server = @ \ {r},
                             !.rpc = @ \cup {p \in Paths(r) : p.path \notin Taken}]

(* unload_plugins: the providers go before the code they are made of.      *)
unload_plugins ==
  /\ pl.pc = "up"
  /\ pl' = [pl EXCEPT !.pc = "unloaded", !.provs = <<>>, !.open = {}, !.root = {}, !.rpc = {}]

(* handle_plugins_list: the plug-ins that are loaded, and the files of the *)
(* directory that are not.                                                 *)
handle_plugins_list ==
  [named |-> {p.file : p \in pl.loaded}, others |-> pl.present \ {p.file : p \in pl.loaded}]

PlNext ==
  \/ load_plugins \/ load_plugin_file \/ register_plugin_metadata \/ register_command_provider
  \/ record_loaded_plugin \/ Scanned \/ NextProvider \/ create_command \/ add_alias
  \/ add_subcommand \/ add_to_server \/ ProviderDone \/ commit_root_commands
  \/ register_commands_with_server \/ unload_plugins

PlSpec == PlInit /\ [][PlNext]_plVars

-----------------------------------------------------------------------------
(* No code of a closed plug-in is reachable: every provider, every command *)
(* of the root and every RPC handler belongs to a file whose handle is     *)
(* open, and that the plug-in list names.  A plug-in rejected for its name *)
(* may have left providers behind, before or after the call that rejected  *)
(* it.                                                                     *)
PluginCodeAlive ==
  /\ \A n \in DOMAIN pl.provs : pl.provs[n] \in pl.open
  /\ \A r \in pl.root \cup {p.rec : p \in pl.rpc} : pl.recs[r].file \in pl.open
  /\ pl.pc \in {"register", "commit", "serve", "up"} => pl.open = handle_plugins_list.named

(* No plug-in takes a word of another: a token of a top-level command is   *)
(* never a built-in's nor that of a second top-level command, whatever     *)
(* order the files were read in and however late an alias was added; and a *)
(* command refused for it is not left with the server under its own name.  *)
NoShadowing ==
  /\ \A r, s \in pl.root : Tokens(r) \cap Builtin = {} /\ (r # s => Tokens(r) \cap Tokens(s) = {})
  /\ \A p \in pl.rpc : p.path \notin RpcBuiltin /\ \A q \in pl.rpc : p.path = q.path => p = q
  /\ pl.pc \in {"serve", "up"} => \A p \in pl.rpc : Len(p.path) = 1 => p.rec \notin pl.refused

(* Plug-ins in memory are the plug-ins in use, and no two claim one word.  *)
PluginsSound == PluginCodeAlive /\ NoShadowing
=============================================================================
