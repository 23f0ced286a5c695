----------------------------- MODULE MCLibrary -----------------------------
(***************************************************************************)
(* The z/OS libraries behind the handlers, one of them at a time: `which`  *)
(* says whose requests a behaviour is about.  The others rest in one fixed *)
(* initial state, since they share no state with it.                       *)
(***************************************************************************)
EXTENDS MemberWriter, DataSets, Catalog, UssFiles, Jobs, Console, KeyRings, Services, TLC

CONSTANTS t1, t2, t3

VARIABLE which

-----------------------------------------------------------------------------
(* Member writes: attributes of the data set, the lines each task sends.   *)

McDcb(v, b, a, l, k) == [v |-> v, blocked |-> b, asa |-> a, lrecl |-> l, blksize |-> k]
McBlank == [kind |-> "blank", len |-> 0]
McText(n) == [kind |-> "text", len |-> n]
McFormFeed == [kind |-> "ff", len |-> 2]
McWork(d, a, b, ls_) == [dcb |-> d, load |-> t1 :> a @@ t2 :> b, lines |-> ls_]

McWorkloads == {
  McWork(McDcb(FALSE, TRUE, TRUE, 3, 6), 4, 0, {McBlank, McText(1)}),
  McWork(McDcb(FALSE, TRUE, TRUE, 3, 6), 2, 0, {McBlank, McFormFeed}),
  McWork(McDcb(FALSE, TRUE, FALSE, 2, 4), 3, 0, {McBlank, McText(3)}),
  McWork(McDcb(TRUE, TRUE, FALSE, 6, 16), 3, 0, {McBlank, McText(2)}),
  McWork(McDcb(TRUE, FALSE, TRUE, 7, 11), 2, 0, {McText(2), McText(4)}),
  McWork(McDcb(FALSE, TRUE, FALSE, 2, 3), 1, 0, {McText(1)}),
  McWork(McDcb(FALSE, TRUE, FALSE, 2, 2), 1, 1, {McText(1)})}

-----------------------------------------------------------------------------
(* Data sets: what is there before, and what two tasks ask for at once.    *)

McFb == [recfm |-> "FB", lrecl |-> 80, blksize |-> 800]
McPs(v) == [org |-> "PS", fmt |-> McFb, data |-> [p \in Parts |-> IF p = Whole THEN v ELSE Absent]]
McPo(a, b) == [org |-> "PDS", fmt |-> McFb,
               data |-> [p \in Parts |-> CASE p = "M1" -> a [] p = "M2" -> b [] OTHER -> Absent]]
McBoth == "D1" :> McPs("x") @@ "D2" :> McPo("x", "y")
McPair == "D1" :> McPo("x", Absent) @@ "D2" :> McPo("y", "y")
McOne == "D1" :> McPo("x", "y") @@ "D2" :> Missing

McNop == [op |-> "restore", d |-> "D1", p |-> Whole, to |-> <<"D2", Whole>>, v |-> "x", etag |-> NoEtag,
          volser |-> FALSE, streamed |-> FALSE, overwrite |-> FALSE, replace |-> FALSE, valid |-> TRUE,
          attr |-> zds_create_dsn_fb]
McAsk(op, d, p) == [McNop EXCEPT !.op = op, !.d = d, !.p = p]
McWrite(d, p, v, e) == [McAsk("write", d, p) EXCEPT !.v = v, !.etag = e]
McVol(r) == [r EXCEPT !.volser = TRUE]
McStream(r) == [r EXCEPT !.streamed = TRUE]
McCopy(d, p, e, q, rep, ow) ==
  [McAsk("copy", d, p) EXCEPT !.to = <<e, q>>, !.replace = rep, !.overwrite = ow]
McTwo(b, r1, r2) == [before |-> b, ask |-> t1 :> r1 @@ t2 :> r2 @@ t3 :> McNop]

McDsJobs ==
  {McTwo(McBoth, r, s) :
     r \in {McWrite("D1", Whole, "y", "x"), McStream(McWrite("D1", Whole, "y", "x")),
            McStream(McWrite("D2", "M1", "y", "x")), McWrite("D2", "M1", "y", "x"),
            McVol(McWrite("D2", "M1", "y", "x"))},
     s \in {McWrite("D1", Whole, "z", NoEtag), McVol(McWrite("D2", "M1", "z", NoEtag)),
            McAsk("delete", "D2", "M1"), McWrite("D1", Whole, "z", "y"),
            [McAsk("create_member", "D2", "M1") EXCEPT !.overwrite = TRUE, !.v = Empty],
            [McAsk("rename", "D1", Whole) EXCEPT !.to = <<"D2", Whole>>]}}
  \cup {McTwo(McBoth, r, s) :
     r \in {McVol(McAsk("view", "D2", "M1")), McAsk("compress", "D2", Whole)},
     s \in {McVol(McAsk("view", "D2", "M1")), McStream(McVol(McAsk("view", "D1", Whole))),
            McStream(McAsk("view", "D1", Whole)), McAsk("compress", "D2", Whole),
            McAsk("compress", "D1", Whole)}}
  \cup {McTwo(McPair, McCopy("D1", p, "D2", q, rep, ow), s) :
     p \in {Whole, "M1"}, q \in {Whole, "M1", "M2"}, rep \in BOOLEAN, ow \in BOOLEAN,
     s \in {McWrite("D2", "M2", "z", NoEtag), McAsk("delete", "D2", "M1"),
            [McAsk("rename_member", "D2", "M1") EXCEPT !.to = <<"D2", "M2">>]}}
  \cup {McTwo(McOne, c, s) :
     c \in {McCopy("D1", Whole, "D2", Whole, FALSE, FALSE), McCopy("D1", "M1", "D2", "M1", FALSE, FALSE)},
     s \in {[McAsk("create", "D2", p) EXCEPT !.attr = a, !.v = Empty] : p \in {Whole, "M1"},
              a \in {zds_create_dsn_fb, zds_create_dsn_vb, zds_create_dsn_adata, zds_create_dsn_loadlib,
                     [zds_create_dsn_fb EXCEPT !.alcunit = "BLK"]}}
           \cup {[McAsk("rename", "D1", Whole) EXCEPT !.to = <<"D2", Whole>>], McAsk("delete", "D1", Whole)}}
  \cup {McTwo("D1" :> McPs("x") @@ "D2" :> b, McCopy("D1", Whole, "D2", q, rep, FALSE), s) :
     q \in {Whole, "M1"}, rep \in BOOLEAN, b \in {McPs("y"), Missing},
     s \in {McWrite("D2", Whole, "z", NoEtag),
            [McAsk("create", "D2", Whole) EXCEPT !.attr = [zds_create_dsn_fb EXCEPT !.dsorg = "", !.blksize = -1]]}}

-----------------------------------------------------------------------------
(* Directories, catalog pages and dates.                                   *)

McEntry(n, h) == [name |-> n, half |-> h, extended |-> h = 20, blanks |-> TRUE, century |-> 1]
McEnd == [name |-> EndMarker, half |-> 0, extended |-> FALSE, blanks |-> FALSE, century |-> 0]
McBlock(n, es) == [count |-> n, entries |-> es]
McNames == {<<"A">>, <<"B">>, <<"A", "B">>, <<"B", "A">>, <<"A", "B", "A">>, <<"A", "A", "B">>}
McPatterns == UNION {[1..n -> {"A", "B", "*", "?"}] : n \in 0..3}

McDirs ==
  {[blocks |-> <<McBlock(36, <<McEntry(n, 0), McEntry(<<"A", "B", "A">>, 0), McEnd>>)>>,
    pattern |-> p, max |-> 9, attributes |-> FALSE] : n \in McNames, p \in McPatterns}
  \cup {[blocks |-> <<McBlock(c1, <<McEntry(<<"A">>, h), McEntry(<<"B">>, 15), McEnd, McEntry(<<"B", "B">>, 0)>>),
                      McBlock(c2, <<McEntry(<<"A", "B">>, 0)>>)>>,
         pattern |-> p, max |-> x, attributes |-> TRUE] :
     h \in {0, 15, 20}, c1 \in {0, 12, 53, 54, 82, 96, 300}, c2 \in {11, 12, 255},
     p \in {<<>>, <<"*", "B">>}, x \in 1..3}

McDscb == [dsorg |-> {"PS"}, recfm |-> [base |-> "F", flags |-> {"B"}], dspac |-> 2, contig |-> FALSE,
           ext |-> FALSE, scxtf |-> [unit |-> "TRACKS", value |-> 3, times |-> 256], scal3 |-> 2, noepv |-> 2,
           exnts |-> <<[lo |-> <<1, 0>>, hi |-> <<1, 4>>], [lo |-> <<2, 0>>, hi |-> <<3, 14>>]>>,
           lstar |-> 3, blkl |-> 800, lrecl |-> 80, pdse |-> FALSE, encrypted |-> FALSE]
McDscbs ==
  {[McDscb EXCEPT !.dsorg = o, !.dspac = d, !.contig = c, !.lstar = l, !.blkl = b] :
     o \in {{"PS"}, {"PO"}, {"VSAM"}}, d \in 0..3, c \in BOOLEAN, l \in {0, 4, 5, 6, 40}, b \in {0, 800}}
  \cup {[McDscb EXCEPT !.ext = TRUE, !.dspac = 0], [McDscb EXCEPT !.recfm.base = "U"],
        [McDscb EXCEPT !.noepv = 0, !.exnts = <<>>], [McDscb EXCEPT !.dsorg = {"PO"}, !.pdse = TRUE],
        [McDscb EXCEPT !.dsorg = {"DA"}]}

McItem(n, ty, v, f) == [name |-> n, type |-> ty, flag |-> "", vols |-> v, devtyp |-> "3390", dscb |-> f]
McCat(f) == [name |-> "CAT", type |-> "catalog", flag |-> f]
McCsi(ps, x, a) == [pages |-> ps, max |-> x, attributes |-> a]
McPages ==
  {McCsi(<<<<McCat(""), McItem("D", "nonvsam", <<"VOL1">>, f)>>>>, 2, TRUE) : f \in McDscbs}
  \cup {McCsi(<<<<McCat(""), McItem("D1", ty, v, McDscb)>>,
                <<McCat(g), McItem("D2", "nonvsam", <<"VOL1", "VOL2">>, McDscb)>>>>, x, TRUE) :
          ty \in Supported \cup {"library"}, v \in {<<"MIGRAT">>, <<"******">>, <<"">>},
          g \in {"", "error", "no entry"}, x \in 1..2}
  \cup {McCsi(<<<<McCat("no entry")>>>>, 1, FALSE), McCsi(<<<<McCat("incomplete")>>>>, 1, FALSE),
        McCsi(<<<<McCat("")>>, <<[McItem("D1", "nonvsam", <<"V">>, McDscb) EXCEPT !.flag = "error"]>>>>, 1, FALSE)}

McDates ==
  {[year |-> y, day |-> d, expiration |-> e] : y \in {1999, 2000, 2023, 2024, 2100},
      d \in {1, 31, 32, 58, 59, 60, 61, 90, 91, 365}, e \in BOOLEAN}
  \cup {[year |-> 1900, day |-> d, expiration |-> e] : d \in {0, 1, 60, 365}, e \in BOOLEAN}

-----------------------------------------------------------------------------
(* A small UNIX tree with a link that leaves it, one that loops and one    *)
(* that dangles.                                                           *)

McPaths == {<<>>, <<"a">>, <<"a", "b">>, <<"a", "l">>, <<"a", "b", "f">>, <<"a", ".h">>,
            <<"c">>, <<"c", "f">>, <<"c", "b">>, <<"c", "b", "f">>}
McNode(k) == [kind |-> k, to |-> <<>>, txt |-> "", enc |-> Utf8, tag |-> NoTag, mode |-> 0,
              owner |-> "me", mtime |-> 0]
McFile(x, e, g) == [McNode("file") EXCEPT !.txt = x, !.enc = e, !.tag = g]
McLink(p) == [McNode("link") EXCEPT !.to = p]
McSize == [x \in {"", "x", "y", "zz"} |-> IF x = "" THEN 0 ELSE IF x = "zz" THEN 2 ELSE 1]
McTree(l) ==
  [q \in McPaths |->
     CASE q \in {<<>>, <<"a">>, <<"a", "b">>, <<"c">>} -> McNode("dir")
       [] q = <<"a", "b", "f">> -> McFile("x", 1047, 1047) [] q = <<"a", "l">> -> McLink(l)
       [] q = <<"a", ".h">> -> McNode("pipe") [] q = <<"c", "f">> -> McFile("x", Utf8, NoTag)
       [] OTHER -> UfNone]

McUss(op, p) ==
  [op |-> op, p |-> p, to |-> <<>>, recursive |-> TRUE, follow |-> FALSE, preserve |-> FALSE, force |-> TRUE,
   overwrite |-> FALSE, slash |-> FALSE, mode |-> 7, owner |-> "you", ccsid |-> 819, depth |-> 2, all |-> FALSE,
   streamed |-> FALSE, binary |-> FALSE, codepage |-> NoTag, etag |-> NoUssEtag, txt |-> "y"]
McUssWrites ==
  {[McUss("write", p) EXCEPT !.streamed = s, !.codepage = c, !.etag = e] :
     p \in {<<"a", "b", "f">>, <<"a", "l">>}, s \in BOOLEAN, c \in {NoTag, 819}, e \in {<<0, 1>>, <<0, 2>>}}
  \cup {[McUss("write", <<"a", "b", "f">>) EXCEPT !.binary = TRUE, !.txt = "zz"]}
McUssOthers ==
  {[McUss("delete", p) EXCEPT !.recursive = b] : p \in {<<"a">>, <<"a", "l">>}, b \in BOOLEAN}
  \cup {[McUss(o, <<"a">>) EXCEPT !.recursive = b] : o \in {"chmod", "chown", "chtag"}, b \in BOOLEAN}
  \cup {[McUss("chown", <<"a">>) EXCEPT !.owner = ""], [McUss("chtag", <<"a">>) EXCEPT !.ccsid = -1]}
  \cup {[McUss("create_file", p) EXCEPT !.overwrite = b] : b \in BOOLEAN,
          p \in {<<"a", "b", "f">>, <<"c", "b", "f">>, <<"a", "l">>}}
  \cup {[McUss("create_dir", p) EXCEPT !.slash = b] : b \in BOOLEAN,
          p \in {<<"a">>, <<"c", "b">>, <<"c", "b", "f">>}}
  \cup {[McUss(o, <<"c", "b">>) EXCEPT !.mode = 0] : o \in {"create_file", "create_dir"}}
  \cup {[McUss("list", p) EXCEPT !.depth = d, !.all = b] : d \in {0, 2}, b \in BOOLEAN,
          p \in {<<"a">>, <<"a", "l">>, <<"c", "f">>, <<"a", ".h">>, <<>>}}
  \cup {[McUss("view", p) EXCEPT !.streamed = b] : p \in {<<"a", "b", "f">>, <<"a", "l">>}, b \in BOOLEAN}
  \cup {[McUss("copy", p[1]) EXCEPT !.to = p[2], !.recursive = b, !.follow = c] : b, c \in BOOLEAN,
          p \in {<<<<"a", "b">>, <<"c">>>>, <<<<"a", "b", "f">>, <<"c", "f">>>>, <<<<"a", ".h">>, <<"c">>>>,
                 <<<<"a", "b">>, <<"c", "b">>>>, <<<<"a", "l">>, <<"c", "f">>>>}}
  \cup {[McUss("move", p[1]) EXCEPT !.to = p[2], !.force = b] : b \in BOOLEAN,
          p \in {<<<<"a", "b">>, <<"c">>>>, <<<<"a", "b", "f">>, <<"c", "f">>>>, <<<<"a", ".h">>, <<"c">>>>,
                 <<<<"a", "l">>, <<"c">>>>, <<<<"a", "b">>, <<"c", "b">>>>}}
McUfJobs ==
  {[before |-> McTree(<<"c", "f">>), ask |-> (t1 :> x @@ t2 :> y)] : x \in McUssWrites,
     y \in {McUss("delete", <<"a">>), [McUss("write", <<"a", "b", "f">>) EXCEPT !.txt = "x"]}}
  \cup {[before |-> McTree(l), ask |-> (t1 :> x @@ t2 :> y)] : l \in {<<"c">>, <<"a">>, <<"c", "b">>},
     x \in McUssOthers,
     y \in {McUss("delete", <<"a", "b">>), [McUss("move", <<"a", "b">>) EXCEPT !.to = <<"c">>]}}

-----------------------------------------------------------------------------
(* Jobs: two tasks submit to an empty queue, or meet one running job.      *)

McJes == [i \in 1..3 |-> IF i = 1 THEN [owner |-> "me", phase |-> "EXECUTING", held |-> FALSE, dds |-> 0] ELSE JbNone]
McJob(op) == [op |-> op, id |-> 1, key |-> 1, owner |-> "me", status |-> "", max |-> 0, warn |-> TRUE,
              wait |-> 2, any_case |-> FALSE, regex |-> FALSE, hasJob |-> TRUE]
McSubmits ==
  {[McJob("submit_jcl") EXCEPT !.status = s] : s \in {"", "OUTPUT", "ACTIVE"}}
  \cup {[McJob("submit") EXCEPT !.hasJob = FALSE], McJob("submit_uss")}
McJobOthers ==
  {McJob(o) : o \in {"status", "jcl", "delete", "cancel", "hold", "release", "proclib", "syslog"}}
  \cup {[McJob(o) EXCEPT !.id = i, !.key = k] : o \in {"file", "file_by_id"}, i \in 1..2, k \in 1..2}
  \cup {[McJob("watch") EXCEPT !.wait = w, !.regex = TRUE, !.any_case = b] : w \in {0, 2}, b \in BOOLEAN}
  \cup {[McJob(o) EXCEPT !.max = m, !.warn = m = 0, !.status = s] : o \in {"list", "files"}, m \in {0, 1},
          s \in {"", "ACTIVE"}}
McJbJobs ==
  {[before |-> [i \in 1..3 |-> JbNone], ask |-> (t1 :> x @@ t2 :> y)] : x \in McSubmits, y \in {McJob("submit_jcl"), McJob("cancel")}}
  \cup {[before |-> McJes, ask |-> (t1 :> x @@ t2 :> y)] : x \in McJobOthers, y \in {McJob("release"), McJob("delete")}}
McSyslog == {[tz |-> z, day |-> 1, time |-> m, log |-> <<20, 23, 24, 30, 47, 48, 50>>, max |-> x] :
               z \in {-6, -1, 0, 1, 6}, m \in {0, 5, 20, 23}, x \in {1, 2, 4}}

McReplies == {<<>>, <<2, 1>>, <<1, 3, 1>>}

McScripts == {<<>>, <<"o", "e">>, <<"e", "e", "e", "o">>, <<"o", "o", "e", "o", "o">>}

-----------------------------------------------------------------------------
(* Key rings.                                                              *)

McKr(op) == [op |-> op, ring |-> "R1", label |-> "A", usage |-> "", max |-> 0, from |-> "",
             database |-> FALSE, default |-> FALSE, skip |-> FALSE, file |-> TRUE, cert |-> 2,
             status |-> "", newLabel |-> "", p12 |-> FALSE, password |-> TRUE]
McKrJobs ==
  {McKr(o) : o \in {"show", "setDefault", "create", "deleteRing", "refresh"}}
  \cup {[McKr("list") EXCEPT !.label = "", !.max = 1],
        [McKr("list") EXCEPT !.usage = "CERTAUTH", !.label = "", !.max = 1],
        [McKr("list") EXCEPT !.ring = "*", !.max = 1],
        [McKr("import") EXCEPT !.label = "B", !.usage = "CERTAUTH"],
        [McKr("import") EXCEPT !.label = "B", !.usage = "PERSONAL", !.cert = 1, !.skip = TRUE],
        [McKr("delete") EXCEPT !.ring = "", !.database = TRUE],
        [McKr("delete") EXCEPT !.skip = TRUE], [McKr("delete") EXCEPT !.ring = "*"],
        [McKr("connect") EXCEPT !.from = "R1", !.ring = "R2", !.default = TRUE],
        [McKr("connect") EXCEPT !.database = TRUE, !.usage = "CERTAUTH"],
        [McKr("setDefault") EXCEPT !.ring = "*"], [McKr("rings") EXCEPT !.ring = ""],
        [McKr("export") EXCEPT !.p12 = TRUE],
        [McKr("alter") EXCEPT !.status = "NOTRUST"], [McKr("alter") EXCEPT !.newLabel = "C"]}

-----------------------------------------------------------------------------
(* One component at work, the others at rest.                              *)

Components == {"members", "data sets", "catalog", "uss", "jobs", "console", "key rings",
               "spawn", "services", "authorisation"}

\* What the others were asked, while they rest.
RestWork == CHOOSE w \in McWorkloads : TRUE
RestDs == CHOOSE j \in DsJobs : TRUE
RestUf == CHOOSE j \in UfJobs : TRUE
RestJb == [before |-> McJes, ask |-> [t \in JbTasks |-> McJob("status")]]
RestDate == [year |-> 2023, day |-> 1, expiration |-> FALSE]

LibraryInit ==
  /\ which \in Components
  /\ IF which = "members" THEN MwInit ELSE MwBegin(RestWork)
  /\ IF which = "data sets" THEN DsInit ELSE DsBegin(RestDs)
  /\ IF which = "catalog" THEN CatInit ELSE CatDate(RestDate)
  /\ IF which = "uss" THEN UfInit ELSE UfBegin(RestUf)
  /\ IF which = "jobs" THEN JbInit ELSE JbBegin(RestJb)
  /\ CnInit /\ KrInit /\ SpInit
  /\ IF which = "services" THEN QyInit ELSE qy = QyIdle
  /\ IF which = "authorisation" THEN AuInit ELSE au = AuIdle

LibraryNext ==
  /\ UNCHANGED which
  /\ \/ which = "members" /\ MwNext
        /\ UNCHANGED <<dsVars, catVars, ufVars, jbVars, cnVars, krVars, svVars>>
     \/ which = "data sets" /\ DsNext
        /\ UNCHANGED <<mwVars, catVars, ufVars, jbVars, cnVars, krVars, svVars>>
     \/ which = "catalog" /\ CatNext
        /\ UNCHANGED <<mwVars, dsVars, ufVars, jbVars, cnVars, krVars, svVars>>
     \/ which = "uss" /\ UfNext
        /\ UNCHANGED <<mwVars, dsVars, catVars, jbVars, cnVars, krVars, svVars>>
     \/ which = "jobs" /\ JbNext
        /\ UNCHANGED <<mwVars, dsVars, catVars, ufVars, cnVars, krVars, svVars>>
     \/ which = "console" /\ CnNext
        /\ UNCHANGED <<mwVars, dsVars, catVars, ufVars, jbVars, krVars, svVars>>
     \/ which = "key rings" /\ KrNext
        /\ UNCHANGED <<mwVars, dsVars, catVars, ufVars, jbVars, cnVars, svVars>>
     \/ which \in {"spawn", "services", "authorisation"} /\ SvNext
        /\ (which = "spawn" \/ UNCHANGED sp)
        /\ (which = "services" \/ UNCHANGED qy)
        /\ (which = "authorisation" \/ UNCHANGED au)
        /\ UNCHANGED <<mwVars, dsVars, catVars, ufVars, jbVars, cnVars, krVars>>

LibrarySpec == LibraryInit /\ [][LibraryNext]_<<which, mwVars, dsVars, catVars, ufVars, jbVars, cnVars, krVars, svVars>>

(* Whatever step of a request failed, it ends with what it took given      *)
(* back: ENQ, RESERVE and DCB of a member write, the DDs with fixed names, *)
(* spool DDs, the console and its timer, the enumeration handle of a key   *)
(* ring, loaded modules, storage and descriptors.  What the code keeps,    *)
(* all of it after an error: what a release that was itself refused was to *)
(* give back, INPUT after a failed read of a volume (ds.cpp:420-425), the  *)
(* DDs got before one that compress did not get (ds.cpp:964-970), and the  *)
(* parameter area of an allocation text that is too long (zut.cpp:533).    *)
NothingLeftBehind ==
  /\ NothingHeldAtEnd /\ DdsGivenBack /\ SpoolFreed /\ ConsoleReleased
  /\ HandleReleased /\ ServiceLeavesNothing

(* A write given an e-tag and answered with success replaced the version   *)
(* the e-tag names, in a data set (zds.cpp) or a UNIX file (zusf.cpp),     *)
(* unless another request came between its look and its write.             *)
EtagsHold == EtagHolds /\ UssEtagHolds

(* What two requests must not use at once they do not: the blocks of one   *)
(* library (ENQ and RESERVE of zam.c), a DD with a fixed name (zds.cpp).   *)
ExclusiveUse == OneWriter /\ DdOwned
=============================================================================
