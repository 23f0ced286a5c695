----------------------------- MODULE MCServer ------------------------------
(***************************************************************************)
(* The program around the libraries, one part of it at a time: requests    *)
(* in process_request, the command line, plug-ins, utilities run by tool   *)
(* commands, JSON, the chunked transfers, and how a client is configured,  *)
(* installs the server and starts it.  The parts that are not at work rest *)
(* in an initial state, since they share no state with it.                 *)
(***************************************************************************)
EXTENDS RpcServer, Tools, CommandLine, Plugins, Json, Codecs, ClientStartup, Deploy,
        Profiles

VARIABLE which

-----------------------------------------------------------------------------
(* Tool commands with the DDs their users allocate.                        *)

McDd(n) == [name |-> n, key |-> "dd"]
McFi(n) == [name |-> n, key |-> "fi"]
McTool(op, dds, i, o, s) == [op |-> op, dds |-> dds, indd |-> i, outdd |-> o, sysout |-> s]
McToolJobs ==
  {McTool("ccnedsct", <<McFi("sysprint"), McFi("sysout")>>, FALSE, FALSE, FALSE),
   McTool("search", <<McDd("newdd"), McDd("sysin")>>, FALSE, FALSE, FALSE),
   McTool("amblist", <<McDd("sysprint"), McDd("sysin")>>, FALSE, FALSE, FALSE),
   McTool("run", <<>>, FALSE, FALSE, FALSE),
   McTool("run", <<McDd("sysin"), McDd("sysut1")>>, TRUE, TRUE, FALSE),
   McTool("run", <<McDd("sysprint")>>, FALSE, TRUE, TRUE),
   McTool("bpxwdy2", <<McDd("sysin")>>, FALSE, FALSE, FALSE)}

-----------------------------------------------------------------------------
(* A command tree with a group, aliases, clustered flags, a conflict, a    *)
(* pass-through command, and the lines typed at it.                        *)

McCmd(name, subs, aliases, handler, args) ==
  [name |-> name, subs |-> subs, aliases |-> aliases, handler |-> handler, args |-> args,
   json |-> TRUE, dynamic |-> "none", pass |-> FALSE, capture |-> TRUE]
McCmds ==
  [root |-> [McCmd(<<"z">>, {"ds", "tool", "leaf"}, {}, TRUE, <<>>) EXCEPT !.capture = FALSE],
   ds |-> McCmd(<<"d">>, {"write", "list"}, {<<"d", "s">>}, FALSE, <<>>),
   write |-> McCmd(<<"w">>, {}, {<<"a">>}, TRUE,
     <<[Plain(<<"n">>, {}, "single") EXCEPT !.positional = TRUE, !.required = TRUE],
       [Plain(<<"e", "t">>, {<<"e">>}, "single") EXCEPT !.etag = TRUE],
       [Plain(<<"b", "i">>, {<<"b">>}, "flag") EXCEPT !.conflicts = {<<"e", "t">>}],
       [Plain(<<"v", "o">>, {<<"v">>}, "flag") EXCEPT !.default = Bool(TRUE)]>>),
   list |-> McCmd(<<"l">>, {}, {}, TRUE,
     <<[Plain(<<"n">>, {}, "multiple") EXCEPT !.positional = TRUE],
       [Plain(<<"m", "x">>, {<<"m">>}, "multiple") EXCEPT !.required = TRUE]>>),
   tool |-> [McCmd(<<"t">>, {"leaf"}, {}, TRUE, <<[Plain(<<"n">>, {}, "single") EXCEPT !.positional = TRUE]>>)
               EXCEPT !.dynamic = "multiple", !.pass = TRUE, !.capture = FALSE],
   leaf |-> [McCmd(<<"q">>, {}, {}, TRUE, <<>>) EXCEPT !.dynamic = "single", !.pass = TRUE]]
McRoot == "root"
McJsonFlag == <<"j", "s">>

McVocabulary ==
  {<<"d">>, <<"d", "s">>, <<"w">>, <<"a">>, <<"l">>, <<"t">>, <<"q">>, <<"-", "-", "j", "s">>, <<"-", "h">>,
   <<"-", "-">>, <<"-", "v", "h">>, <<"-", "v", "b">>, <<"-", "e">>, <<"1", "e", "2">>, <<"1", "2">>,
   <<"-", "-", "y">>, <<"-", "m">>, <<"-", "v">>, <<"-", "-", "e", "t">>,
   <<"qt", "-", "-", "j", "s", "qt">>, <<"t", "r", "u", "e">>, <<"#">>}
McLast == {<<"a">>, <<"-", "-", "j", "s">>, <<"-", "h">>, <<"-", "-">>, <<"-", "e">>, <<"1", "2">>, <<"-", "-", "y">>,
           <<"-", "v">>, <<"#">>}
McFirst == {<<"d">>, <<"t">>, <<"q">>, <<"-", "-", "j", "s">>, <<"-", "h">>}
McWords ==
  {<<>>} \cup {<<r>> : r \in McFirst} \cup {<<r, x>> : r \in McFirst, x \in McVocabulary}
  \cup {<<r, x, y>> : r \in {<<"t">>, <<"q">>}, x \in McVocabulary, y \in McLast}
  \cup {<<<<"d">>, r, x, y>> : r \in {<<"w">>, <<"l">>}, x \in McVocabulary, y \in McVocabulary}
  \cup {<<<<"d">>, r, <<"-", "e">>, <<"1", "2">>, x>> : r \in {<<"w">>, <<"a">>, <<"l">>}, x \in McVocabulary}
  \cup {<<<<"d">>, <<"w">>, <<"a">>, x, y>> : x \in McVocabulary, y \in McLast}
McLines == {[mode |-> m, words |-> w] : m \in {"argv", "line"}, w \in McWords}

-----------------------------------------------------------------------------
(* Plug-in files: what each does when it is loaded and asked for commands. *)

McPlugDirs ==
  {[kind |-> "dir", owner |-> o, writable |-> w] : o \in {"root", "self", "other"}, w \in BOOLEAN}
  \cup {[kind |-> "file", owner |-> "self", writable |-> FALSE]}
McPlug(owner, enter, script) ==
  [kind |-> "regular", owner |-> owner, writable |-> FALSE, opens |-> TRUE, abi |-> TRUE, entry |-> TRUE,
   enter |-> enter, script |-> script]
McMeta(d) == [op |-> "metadata", display |-> d]
McProvide == [op |-> "provider"]
McCreate(n) == [op |-> "create", name |-> n]
McAlias(k, t) == [op |-> "alias", k |-> k, token |-> t]
McSub(p, k) == [op |-> "sub", parent |-> p, k |-> k]
McServe(k) == [op |-> "server", k |-> k]
McPlugFiles ==
  [a |-> McPlug("self", <<McMeta("A"), McProvide>>,
           <<McCreate("p"), McCreate("q"), McCreate("q"), McSub(1, 2), McSub(1, 3), McSub(0, 1), McServe(1),
             McAlias(1, "x")>>),
   b |-> McPlug("root", <<McProvide, McMeta("A"), McProvide>>,
           <<McCreate("r"), McSub(0, 1), McAlias(1, "p"), McServe(1)>>),
   c |-> McPlug("self", <<McProvide>>,
           <<McCreate("x"), McSub(0, 1), McSub(0, 1), McServe(1), McCreate("ds"), McCreate("q"), McSub(0, 2),
             McServe(2), McSub(2, 3), McServe(3), McCreate("b"), McSub(0, 4), McServe(4)>>),
   d |-> McPlug("other", <<McProvide>>, <<>>),
   e |-> McPlug("self", <<McProvide>>, <<McCreate("u"), McAlias(1, "u")>>),
   f |-> [McPlug("self", <<McProvide>>, <<>>) EXCEPT !.abi = FALSE]]
McRpc == {<<"b">>}

-----------------------------------------------------------------------------
(* JSON texts, values, a struct with its fields, and envelopes.            *)

McStrings == UNION {[1..n -> {"a", "n", "q", "bs", "nl", "ctl"}] : n \in 0..2}
McLeaves == {JNull, JBool(TRUE), JInt(-LLMax - 1), JInt(LLMax), JDbl(1), JDbl(4), JDbl(2 * LLMax + 2), JDbl(Infinity)}
            \cup {JStr(s) : s \in McStrings}
McValues ==
  {JInt(1)} \cup {JArr(<<l>>) : l \in McLeaves}
  \cup {JObj([k \in {"k", "m"} |-> IF k = "k" THEN l ELSE JArr(<<l>>)]) : l \in McLeaves}
  \cup {JArr(<<JArr(<<JArr(<<>>)>>)>>), JArr(<<JArr(<<JArr(<<JNull>>)>>)>>)}
McDocs ==
  {Malformed, IntText(3), Entry("str", <<"bs", "u", "0", "0", "1", "5">>),
   Entry("arr", <<IntText(LLMax), RealText(5), Entry("str", <<"bs", "u", "0", "0", "5", "a">>)>>),
   Entry("arr", <<Entry("str", <<"bs", "u", "q", "0", "5", "a">>)>>), Entry("arr", <<Entry("str", <<"bs", "u", "0">>)>>),
   Entry("arr", <<Entry("str", <<"bs", "a", "bs">>)>>),
   Entry("obj", << <<"k", IntText(1)>>, <<"k", IntText(2)>> >>)}
McField(name, type, skip, none, init) == [name |-> name, type |-> type, skip |-> skip, none |-> none, init |-> init]
McFields ==
  <<McField("id", [t |-> "int"], FALSE, FALSE, 0),
    McField("len", [t |-> "opt", of |-> [t |-> "uint"]], FALSE, TRUE, <<>>),
    McField("etag", [t |-> "opt", of |-> [t |-> "str"]], FALSE, FALSE, <<>>),
    McField("items", [t |-> "vec", of |-> [t |-> "bool"]], FALSE, FALSE, <<>>),
    McField("aux", [t |-> "int"], TRUE, FALSE, 0)>>
McObjects ==
  {[id |-> i, len |-> l, etag |-> e, items |-> v, aux |-> 1] : i \in {-IntMax - 1, IntMax},
     l \in {<<>>, <<0>>, <<UintMax>>}, e \in {<<>>, << <<>> >>, << <<"q">> >>, << <<"ctl">> >>},
     v \in {<<>>, <<TRUE, FALSE>>}}
McEnvelopes ==
  [out : UNION {[1..n -> {"a", "nl", "ctl"}] : n \in 0..3}, payload : BOOLEAN,
   data : {JNone, JInt(1), JDbl(Infinity), JObj([k \in {"data"} |-> JNull]), JObj([k \in {"k"} |-> JNull])},
   exit : {0, 1}, err : {<<>>, <<"ctl">>}, message : {<<"a">>}]
McJsJobs ==
  {[kind |-> "text", doc |-> d] : d \in McDocs} \cup {[kind |-> "value", v |-> v] : v \in McValues}
  \cup {[kind |-> "struct", fields |-> McFields, deny |-> d, obj |-> o] : d \in BOOLEAN, o \in McObjects}
  \cup {[kind |-> "envelope", env |-> e] : e \in McEnvelopes}

-----------------------------------------------------------------------------
(* Texts of one- and two-byte characters over chunks of FIFO_CHUNK_SIZE.   *)

McTexts == UNION {[1..n -> {<<65>>, <<195, 161>>}] : n \in 0..5}
McCdJobs ==
  [dir : {"get", "put"}, text : McTexts, from : {"utf", "dbcs"}, to : {"utf", "dbcs", "single"}, asa : {FALSE}]
  \cup [dir : {"get"}, text : [1..3 -> {<<65>>, <<64>>}], from : {"utf"}, to : {"utf", "dbcs"}, asa : {TRUE}]
RestCd == [dir |-> "get", text |-> <<>>, from |-> "utf", to |-> "utf", asa |-> FALSE]

-----------------------------------------------------------------------------
(* What the server's process prints at startup, and installing users.      *)

McStScripts ==
  {[out |-> o, err |-> <<>>, ends |-> FALSE] : o \in {Banner, <<>>, <<"text">> \o Banner}}
  \cup {[out |-> Banner, err |-> NoHome, ends |-> FALSE], [out |-> <<>>, err |-> <<>>, ends |-> TRUE],
        [out |-> <<>>, err |-> NotFound \o Exit127, ends |-> TRUE],
        [out |-> <<>>, err |-> LeMessage \o <<"text">> \o Exit8, ends |-> TRUE],
        [out |-> <<>>, err |-> NoHome \o Exit8, ends |-> TRUE],
        [out |-> <<"text">>, err |-> <<"text">> \o Exit8, ends |-> TRUE]}
RestScript == [out |-> <<>>, err |-> <<>>, ends |-> TRUE]

McDpJobs ==
  {[op |-> "install", callback |-> TRUE, tilde |-> TRUE], [op |-> "install", callback |-> FALSE, tilde |-> FALSE],
   [op |-> "uninstall", callback |-> TRUE, tilde |-> FALSE], [op |-> "uninstall", callback |-> FALSE, tilde |-> TRUE]}

-----------------------------------------------------------------------------
(* Hosts, stored profiles and entries of ~/.ssh/config, one of them named  *)
(* like a stored profile.                                                  *)

McProf(name, at, user, key, phrase, pw, agent) ==
  [name |-> name, host |-> at, user |-> user, key |-> key, phrase |-> phrase, pw |-> pw, agent |-> agent]
McWorld(reach, expired, agent, sock, k, l) ==
  [reach |-> reach, expired |-> expired, agent |-> agent, sock |-> sock, keys |-> [k |-> k, l |-> l]]
McPfWorlds ==
  {McWorld(TRUE, FALSE, a[1], a[2], k, l) : a \in {<<TRUE, TRUE>>, <<FALSE, TRUE>>, <<TRUE, FALSE>>},
     k \in {"good", "locked", "refused", "malformed"}, l \in {"good", "locked", "refused"}}
  \cup {McWorld(FALSE, FALSE, TRUE, TRUE, "good", "good"), McWorld(TRUE, TRUE, TRUE, TRUE, "good", "refused")}
McPfFiles ==
  {("a" :> InFile(McProf("", "a", c[1], c[2], c[3], c[4], c[5])))
     @@ ("b" :> [InFile(McProf("", "b", "u", "l", "", "", "")) EXCEPT !.comments = {"l"}]) :
     c \in {<<"", "", "", "", "">>, <<"u", "k", "", "", "">>, <<"u", "k", "ph", "p", "">>, <<"x", "k", "", "", "">>,
            <<"u", "", "", "p", "">>, <<"u", "", "", "old", "SSH_AUTH_SOCK">>, <<"u", "k", "", "p", "SSH_AUTH_SOCK">>}}
McMigrated == <<McProf("m", "h", "", "k", "", "", "agent"), McProf("b", "h", "u", "k", "", "", "")>>
McFoundKeys == <<"l">>
McTyped == {McProf("", "a", "u", "k", "", "", ""), McProf("", "h", "u", "", "", "", ""),
            McProf("", "h", "x", "k", "", "", "")}
RestWorld == McWorld(FALSE, FALSE, TRUE, TRUE, "good", "good")

-----------------------------------------------------------------------------
\* A part at rest has one initial state.
ServerInit ==
  /\ which \in {"requests", "tools", "command line", "plug-ins", "json", "transfers", "startup", "deploy",
               "profiles"}
  /\ Init /\ ToInit /\ ClInit /\ PlInit /\ JsInit
  /\ IF which = "transfers" THEN CdInit ELSE cd = Opened(RestCd)
  /\ StInit /\ (which # "startup" => st.script = RestScript)
  /\ DpInit /\ (which # "deploy" => ~ host.dir /\ ~ host.runs)
  /\ PfInit /\ (which # "profiles" => pf.world = RestWorld /\ pf.autoStore /\ pf.file.a.user = "")

\* Requests never come to a halt before they are answered; a part that runs
\* one command is done when that is over.
PartOver == which # "requests" /\ UNCHANGED <<vars, toVars, clVars, plVars, js, cd, st, dpVars, pf>>

ServerNext ==
  /\ UNCHANGED which
  /\ \/ which = "requests" /\ Next /\ UNCHANGED <<toVars, clVars, plVars, js, cd, st, dpVars, pf>>
     \/ which = "tools" /\ ToNext /\ UNCHANGED <<vars, clVars, plVars, js, cd, st, dpVars, pf>>
     \/ which = "command line" /\ ClNext /\ UNCHANGED <<vars, toVars, plVars, js, cd, st, dpVars, pf>>
     \/ which = "plug-ins" /\ PlNext /\ UNCHANGED <<vars, toVars, clVars, js, cd, st, dpVars, pf>>
     \/ which = "json" /\ JsNext /\ UNCHANGED <<vars, toVars, clVars, plVars, cd, st, dpVars, pf>>
     \/ which = "transfers" /\ CdNext /\ UNCHANGED <<vars, toVars, clVars, plVars, js, st, dpVars, pf>>
     \/ which = "startup" /\ StNext /\ UNCHANGED <<vars, toVars, clVars, plVars, js, cd, dpVars, pf>>
     \/ which = "deploy" /\ DpNext /\ UNCHANGED <<vars, toVars, clVars, plVars, js, cd, st, pf>>
     \/ which = "profiles" /\ PfNext /\ UNCHANGED <<vars, toVars, clVars, plVars, js, cd, st, dpVars>>
     \/ PartOver

ServerSpec == ServerInit /\ [][ServerNext]_<<which, vars, toVars, clVars, plVars, js, cd, st, dpVars, pf>>
=============================================================================
