------------------------------ MODULE UssFiles ------------------------------
(***************************************************************************)
(* The USS commands of zowex: the handlers of commands/uss.cpp and the     *)
(* functions of zusf.cpp, run by several workers on one file system, one   *)
(* step per system call (or group of calls on one path) that another       *)
(* worker can come between.  A path is the sequence of its names; a node   *)
(* is [kind, to, txt, enc, tag, mode, owner, mtime]: `to` is the target of *)
(* a link, txt the text and enc the CCSID its bytes are really in.  Links  *)
(* are absolute and point at nodes that are no links.                      *)
(***************************************************************************)
EXTENDS Integers, Sequences, FiniteSets

CONSTANTS UfPaths,      \* the paths that can exist, closed under parents
          UfTasks, UfNone,
          UfSize,       \* [texts -> bytes]
          SymLoop,      \* links one path may go through before ELOOP
          MaxNow,       \* bound on the clock (seconds, the grain of st_mtime)
          UfJobs        \* [before |-> [UfPaths -> node or UfNone], ask |-> [UfTasks -> request]]

\* A tree holds nodes whose links point into it; what is asked for is a path.
UfTreeOk(before) ==
    /\ DOMAIN before = UfPaths
    /\ \A q \in UfPaths : before[q] # UfNone =>
          /\ {"kind", "to", "txt", "enc", "tag", "mode", "owner", "mtime"} \subseteq DOMAIN before[q]
          /\ before[q].to \in UfPaths

ASSUME UfAssumption ==
    /\ IsFiniteSet(UfPaths) /\ <<>> \in UfPaths
    /\ \A p \in UfPaths : p \in Seq({p[i] : i \in 1..Len(p)})
    /\ UfJobs # {} /\ \A j \in UfJobs : UfTreeOk(j.before) /\ \A t \in UfTasks : j.ask[t].p \in UfPaths

VARIABLES fs, now, us

ufVars == <<fs, now, us>>

Utf8 == 1208
BinaryTag == 65535
NoTag == 0
NoUssEtag == <<>>

UfParent(p) == SubSeq(p, 1, Len(p) - 1)
UfUnder(p, q) == Len(q) >= Len(p) /\ SubSeq(q, 1, Len(p)) = p
Children(p) == {q \in UfPaths : Len(q) = Len(p) + 1 /\ UfUnder(p, q) /\ fs[q] # UfNone}

\* lstat looks at the node, stat at what a link points to.
UfReal(p) == IF fs[p] # UfNone /\ fs[p].kind = "link" THEN fs[p].to ELSE p
UfStat(p) == fs[UfReal(p)]
IsDir(n) == n # UfNone /\ n.kind = "dir"
zusf_is_valid_path(p) == Len(p) > 0

\* st_mtime and st_size, seconds and bytes
zut_build_etag(n) == <<n.mtime, UfSize[n.txt]>>

zusf_get_file_ccsid(p) == IF UfStat(p) = UfNone \/ IsDir(UfStat(p)) THEN -1 ELSE UfStat(p).tag

\* The code page of the request, else a tag that is neither UTF-8 nor binary.
EncodingToUse(r) ==
    CASE r.binary -> NoTag
      [] ~r.binary /\ r.codepage # NoTag -> r.codepage
      [] OTHER -> LET c == zusf_get_file_ccsid(r.p) IN IF c > 0 /\ c \notin {Utf8, BinaryTag} THEN c ELSE NoTag

UfReq(t) == us[t].req
UfAt(t, op, pc) == UfReq(t).op = op /\ us[t].pc = pc
UfDone(t, rc) == us' = [us EXCEPT ![t].pc = "done", ![t].rc = rc]
UfGoto(t, pc) == us' = [us EXCEPT ![t].pc = pc]

\* Requests whose path, or what it stood for, changed under them are marked.
UfRaced(t, new) ==
    [u \in UfTasks |-> IF /\ u # t /\ us[u].pc \notin {"start", "done"}
                          /\ \E p \in {us[u].at, us[u].req.p} : new[p] # fs[p]
                       THEN [us[u] EXCEPT !.raced = TRUE] ELSE us[u]]

UfNode(k) == [kind |-> k, to |-> <<>>, txt |-> "", enc |-> Utf8, tag |-> NoTag,
              mode |-> 0, owner |-> "me", mtime |-> now]

-----------------------------------------------------------------------------
(* cp and mv: external programs; a directory target takes the source inside *)

Into(src, dst) == IF IsDir(UfStat(dst)) THEN UfReal(dst) \o <<src[Len(src)]>> ELSE dst
Moved(src, dst, q) == src \o SubSeq(q, Len(dst) + 1, Len(q))
\* node: what becomes of each node that is copied or moved.
Placed(src, dst, node) ==
    [q \in UfPaths |-> IF UfUnder(dst, q) /\ Moved(src, dst, q) \in UfPaths /\ fs[Moved(src, dst, q)] # UfNone
                       THEN node[Moved(src, dst, q)] ELSE fs[q]]
\* What the programs themselves refuse.
Possible(src, dst, new) ==
    /\ ~UfUnder(src, dst) /\ dst \in UfPaths /\ IsDir(fs[UfParent(dst)])
    /\ \A q \in UfPaths : UfUnder(src, q) /\ fs[q] # UfNone => Moved(dst, src, q) \in UfPaths
    /\ \A q \in UfPaths : fs[q] # UfNone /\ new[q] # UfNone /\ new[q] # fs[q] => IsDir(new[q]) = IsDir(fs[q])

zusf_copy_file_or_dir(t) ==
    LET r == UfReq(t)
        dst == UfReal(Into(r.p, r.to))
        copy == [q \in UfPaths |->
                   LET n == IF r.follow \/ ~r.recursive THEN UfStat(q) ELSE fs[q]
                   IN  IF n = UfNone THEN n ELSE [n EXCEPT !.mtime = IF r.preserve THEN @ ELSE now]]
    IN  /\ UNCHANGED now
        /\ \/ /\ UfAt(t, "copy", "start") /\ UNCHANGED fs
              /\ IF \/ ~zusf_is_valid_path(r.p) \/ ~zusf_is_valid_path(r.to)
                    \/ r.follow /\ ~r.recursive
                    \/ UfStat(r.p) # UfNone /\ UfStat(r.p).kind = "pipe"
                    \/ UfStat(r.to) # UfNone /\ UfStat(r.to).kind = "pipe"
                 THEN UfDone(t, "failure") ELSE UfGoto(t, "cp")
           \/ /\ UfAt(t, "copy", "cp")
              /\ \/ UfDone(t, "failure") /\ UNCHANGED fs
                 \/ /\ UfStat(r.p) # UfNone /\ (IsDir(UfStat(r.p)) => r.recursive)
                    /\ Possible(r.p, dst, Placed(r.p, dst, copy))
                    /\ fs' = Placed(r.p, dst, copy)
                    /\ us' = [UfRaced(t, fs') EXCEPT ![t].pc = "done"]

\* Two unresolved paths are compared as whatever the buffers hold.
SameResolved(s, d) ==
    IF UfStat(s) # UfNone /\ UfStat(d) # UfNone THEN {UfReal(s) = UfReal(d)} ELSE BOOLEAN

zusf_move_uss_file_or_dir(t) ==
    LET r == UfReq(t)
        dst == Into(r.p, r.to)
        new == [q \in UfPaths |-> IF UfUnder(r.p, q) THEN UfNone ELSE Placed(r.p, dst, fs)[q]]
        n == UfStat(r.p)  m == UfStat(r.to)
    IN  /\ UNCHANGED now
        /\ \/ /\ UfAt(t, "move", "start") /\ UNCHANGED fs
              /\ \E same \in SameResolved(r.p, r.to) :
                 IF \/ ~zusf_is_valid_path(r.p) \/ ~zusf_is_valid_path(r.to)
                    \/ fs[r.p] = UfNone \/ r.p = r.to
                    \/ fs[r.to] # UfNone /\ \/ ~r.force \/ same
                                            \/ IsDir(n) /\ ~IsDir(m)
                                            \/ n # UfNone /\ n.kind = "pipe" /\ (m = UfNone \/ m.kind # "pipe")
                 THEN UfDone(t, "failure") ELSE UfGoto(t, "mv")
           \/ /\ UfAt(t, "move", "mv")
              /\ \/ UfDone(t, "failure") /\ UNCHANGED fs
                 \/ /\ fs[r.p] # UfNone /\ Possible(r.p, dst, new) /\ (dst \in UfPaths => Children(dst) = {})
                    /\ fs' = new
                    /\ us' = [UfRaced(t, fs') EXCEPT ![t].pc = "done"]

-----------------------------------------------------------------------------
(* Creating                                                                *)

zusf_create_uss_file(t) ==
    LET r == UfReq(t)  q == UfReal(r.p)
    IN  /\ UNCHANGED now
        /\ \/ /\ UfAt(t, "create_file", "start") /\ UNCHANGED fs
              /\ IF UfStat(r.p) # UfNone /\ ~r.overwrite THEN UfDone(t, "warning")
                 ELSE us' = [us EXCEPT ![t].pc = "open", ![t].raced = FALSE]
           \/ /\ UfAt(t, "create_file", "open")
              /\ \/ UfDone(t, "failure") /\ UNCHANGED fs
                 \/ /\ ~IsDir(fs[q]) /\ IsDir(fs[UfParent(q)])      \* ofstream empties what is there
                    /\ fs' = [fs EXCEPT ![q] = IF @ = UfNone THEN [UfNode("file") EXCEPT !.mode = r.mode]
                                               ELSE [@ EXCEPT !.txt = "", !.mtime = now, !.mode = r.mode]]
                    /\ us' = [UfRaced(t, fs') EXCEPT ![t].pc = "done"]

\* The directories to make, outermost first.  A trailing slash makes the
\* path its own parent; the parent of a name directly under the root is "".
ToMake(r) ==
    LET missing == {i \in 1..Len(r.p) : UfStat(SubSeq(r.p, 1, i)) = UfNone}
    IN  [k \in 1..Cardinality(missing) |-> SubSeq(r.p, 1, Len(r.p) - Cardinality(missing) + k)]
            \o (IF r.slash THEN <<r.p>> ELSE <<>>)

zusf_create_uss_dir(t) ==
    LET r == UfReq(t)
    IN  /\ UNCHANGED now
        /\ \/ /\ UfAt(t, "create_dir", "start") /\ UNCHANGED fs
              /\ IF UfStat(r.p) # UfNone \/ Len(ToMake(r)[1]) = 1
                 THEN UfDone(t, "failure")                           \* a warning becomes a failure
                 ELSE us' = [us EXCEPT ![t].pc = "mkdir", ![t].todo = ToMake(r)]
           \/ /\ UfAt(t, "create_dir", "mkdir")
              /\ LET q == Head(us[t].todo)
                 IN  IF fs[q] = UfNone /\ IsDir(fs[UfParent(q)])
                     THEN /\ fs' = [fs EXCEPT ![q] = [UfNode("dir") EXCEPT !.mode = r.mode]]
                          /\ us' = [UfRaced(t, fs') EXCEPT ![t].todo = Tail(@),
                                      ![t].pc = IF Len(us[t].todo) = 1 THEN "done" ELSE "mkdir"]
                     ELSE /\ fs' = IF fs[q] = UfNone THEN fs ELSE [fs EXCEPT ![q].mode = r.mode]
                          /\ us' = [UfRaced(t, fs') EXCEPT ![t].pc = "done",    \* mkdir fails, chmod all the same
                                                           ![t].rc = "failure"]

-----------------------------------------------------------------------------
(* Listing: collect the names, then lstat each of them                     *)

HiddenName(n) == n = ".h"

zusf_collect_directory_entries_recursive(p, depth, all) ==
    {q \in UfPaths : /\ fs[q] # UfNone /\ UfUnder(p, q) /\ q # p /\ Len(q) - Len(p) <= depth
                     /\ \A i \in (Len(p) + 1)..Len(q) : all \/ ~HiddenName(q[i])
                     /\ \A i \in (Len(p) + 1)..(Len(q) - 1) : IsDir(fs[SubSeq(q, 1, i)])}

zusf_list_uss_file_path(t) ==
    LET r == UfReq(t)  n == UfStat(r.p)
    IN  /\ UNCHANGED <<fs, now>>
        /\ \/ /\ UfAt(t, "list", "start")
              /\ CASE ~zusf_is_valid_path(r.p) \/ n = UfNone -> UfDone(t, "failure")
                   [] n # UfNone /\ (n.kind = "file" \/ (n.kind = "dir" /\ r.depth = 0)) ->
                        us' = [us EXCEPT ![t].pc = "done", ![t].got = {r.p}]
                   [] n # UfNone /\ n.kind = "pipe" -> UfDone(t, "failure")
                   [] OTHER -> us' = [us EXCEPT ![t].pc = "lstat", ![t].left =
                        zusf_collect_directory_entries_recursive(UfReal(r.p), r.depth, r.all)]
           \/ UfAt(t, "list", "start") /\ IsDir(n) /\ UfDone(t, "failure")     \* opendir fails
           \/ /\ UfAt(t, "list", "lstat")
              /\ IF us[t].left = {} THEN UfGoto(t, "done")
                 ELSE \E q \in us[t].left :
                        IF fs[q] = UfNone THEN UfDone(t, "failure")
                        ELSE us' = [us EXCEPT ![t].left = @ \ {q}, ![t].got = @ \cup {q}]

-----------------------------------------------------------------------------
(* Reading: the e-tag is taken before the contents                         *)

ViewStat(t) ==
    /\ UfAt(t, "view", "start")
    /\ IF UfStat(UfReq(t).p) = UfNone THEN UfDone(t, "failure")
       ELSE us' = [us EXCEPT ![t].pc = "read", ![t].etag = zut_build_etag(UfStat(UfReq(t).p))]
    /\ UNCHANGED <<fs, now>>

\* Text is converted from the code page or the tag; what comes out is right
\* when that is what the bytes are in.
Decoded(n, cp) == [txt |-> n.txt, right |-> IF cp = NoTag THEN n.enc = Utf8 ELSE n.enc = cp]

zusf_read_from_uss_file(t) ==
    /\ UfAt(t, "view", "read") /\ ~UfReq(t).streamed
    /\ LET n == UfStat(UfReq(t).p)
       IN  \/ UfDone(t, "failure")                       \* open or conversion fails
           \/ /\ n # UfNone /\ ~IsDir(n)
              /\ us' = [us EXCEPT ![t].pc = "done", ![t].got = {Decoded(n, EncodingToUse(UfReq(t)))}]
    /\ UNCHANGED <<fs, now>>

\* Streamed: what was sent before an error stays sent.
zusf_read_from_uss_file_streamed(t) ==
    /\ UfAt(t, "view", "read") /\ UfReq(t).streamed
    /\ LET n == UfStat(UfReq(t).p)
       IN  \/ UfDone(t, "failure")
           \/ /\ n # UfNone /\ ~IsDir(n)
              /\ \E ok \in BOOLEAN :
                   us' = [us EXCEPT ![t].pc = "done", ![t].rc = IF ok THEN "ok" ELSE "failure",
                                    ![t].got = {Decoded(n, EncodingToUse(UfReq(t)))}]
    /\ UNCHANGED <<fs, now>>

-----------------------------------------------------------------------------
(* Writing: stat and e-tag, (encode,) open, data, tag, stat                *)

UssEtagMatches(r) == r.etag = NoUssEtag \/ UfStat(r.p) = UfNone \/ zut_build_etag(UfStat(r.p)) = r.etag

WriteStart(t) ==
    IF UssEtagMatches(UfReq(t))
    THEN us' = [us EXCEPT ![t].pc = "open", ![t].enc = EncodingToUse(UfReq(t)), ![t].at = UfReal(UfReq(t).p),
                          ![t].created = UfStat(UfReq(t).p) = UfNone, ![t].raced = FALSE]
    ELSE UfDone(t, "failure")

\* fopen("w"): a new file is untagged, an old one is emptied and keeps its tag.
OpenForWrite(t) ==
    LET q == UfReal(UfReq(t).p)
    IN  /\ ~IsDir(fs[q]) /\ IsDir(fs[UfParent(q)])
        /\ fs' = [fs EXCEPT ![q] = IF @ = UfNone THEN UfNode("file") ELSE [@ EXCEPT !.txt = "", !.mtime = now]]
        /\ us' = [UfRaced(t, fs') EXCEPT ![t].pc = "data", ![t].at = q,
                    ![t].over = IF fs[q] = UfNone THEN NoUssEtag ELSE zut_build_etag(fs[q])]

\* The handle keeps writing to the node it opened; here, while the path is there.
WriteData(t, v, pc, rc) ==
    LET q == us[t].at
    IN  /\ IF fs[q] # UfNone /\ fs[q].kind = "file"
           THEN fs' = [fs EXCEPT ![q].txt = v, ![q].mtime = now,
                                 ![q].enc = IF us[t].enc = NoTag THEN Utf8 ELSE us[t].enc]
           ELSE UNCHANGED fs
        /\ us' = [UfRaced(t, fs') EXCEPT ![t].pc = pc, ![t].rc = rc]

zusf_write_to_uss_file(t) ==
    /\ UfReq(t).op = "write" /\ ~UfReq(t).streamed /\ UNCHANGED now
    /\ \/ us[t].pc = "start" /\ WriteStart(t) /\ UNCHANGED fs
       \/ us[t].pc = "start" /\ UfDone(t, "failure") /\ UNCHANGED fs    \* stat, or the conversion
       \/ us[t].pc = "open" /\ \/ UfDone(t, "failure") /\ UNCHANGED fs
                               \/ OpenForWrite(t)
       \/ us[t].pc = "data" /\ \/ WriteData(t, UfReq(t).txt, "tag", "ok")
                               \/ WriteData(t, "", "done", "failure")   \* short write

\* The file is open, and empty, before the pipe and the converter are.
zusf_write_to_uss_file_streamed(t) ==
    /\ UfReq(t).op = "write" /\ UfReq(t).streamed /\ UNCHANGED now
    /\ \/ us[t].pc = "start" /\ WriteStart(t) /\ UNCHANGED fs
       \/ us[t].pc = "start" /\ UfDone(t, "failure") /\ UNCHANGED fs
       \/ us[t].pc = "open" /\ \/ UfDone(t, "failure") /\ UNCHANGED fs
                               \/ OpenForWrite(t)
       \/ us[t].pc = "data" /\ \/ WriteData(t, UfReq(t).txt, "tag", "ok")
                               \/ WriteData(t, "", "tag", "ok")         \* the pipe ended early
                               \/ WriteData(t, "", "done", "failure")   \* pipe, converter, flush, space

\* Mutant: the tag is the code page of the request, not the encoding used.
TagFromRequest(t) ==
    /\ UfAt(t, "write", "tag") /\ UNCHANGED now
    /\ LET q == us[t].at
       IN  \/ /\ us[t].enc # NoTag /\ fs[q] # UfNone /\ fs[q].kind = "file"
              /\ fs' = [fs EXCEPT ![q].tag = UfReq(t).codepage]
              /\ us' = [UfRaced(t, fs') EXCEPT ![t].pc = "restat", ![t].tagged = TRUE]
           \/ UfGoto(t, "restat") /\ UNCHANGED fs

\* The tag follows the encoding; its return code is not looked at.
WriteTag(t) ==
    /\ UfAt(t, "write", "tag") /\ UNCHANGED now
    /\ LET q == us[t].at
       IN  \/ /\ us[t].enc # NoTag /\ fs[q] # UfNone /\ fs[q].kind = "file"
              /\ fs' = [fs EXCEPT ![q].tag = us[t].enc]
              /\ us' = [UfRaced(t, fs') EXCEPT ![t].pc = "restat", ![t].tagged = TRUE]
           \/ UfGoto(t, "restat") /\ UNCHANGED fs

WriteRestat(t) ==
    /\ UfAt(t, "write", "restat")
    /\ LET n == UfStat(UfReq(t).p)
       IN  IF n = UfNone THEN UfDone(t, "failure")
           ELSE us' = [us EXCEPT ![t].pc = "done", ![t].etag = zut_build_etag(n)]
    /\ UNCHANGED <<fs, now>>

-----------------------------------------------------------------------------
(* Walking a tree: todo is the stack of <<path, links so far, leave>>      *)

Push(t, S, links) ==
    \E f \in [1..Cardinality(S) -> S] :
        /\ \A i, j \in DOMAIN f : i # j => f[i] # f[j]
        /\ us' = [UfRaced(t, fs') EXCEPT ![t].todo =
                    [i \in DOMAIN f |-> <<f[i], links, FALSE>>] \o Tail(us[t].todo)]

WalkStart(t, op) ==
    /\ UfAt(t, op, "start")
    /\ us' = [us EXCEPT ![t].pc = "walk", ![t].todo = <<<<UfReq(t).p, 0, FALSE>>>>]
    /\ UNCHANGED <<fs, now>>

WalkEnd(t) ==
    /\ us[t].pc = "walk" /\ us[t].todo = <<>>
    /\ UfGoto(t, "done") /\ UNCHANGED <<fs, now>>

\* Mutant: stat in place of lstat, so that a link to a directory is emptied.
DeleteThroughLinks(t) ==
    \/ WalkStart(t, "delete")
    \/ /\ UfAt(t, "delete", "walk") /\ us[t].todo # <<>> /\ UNCHANGED now
       /\ LET q == us[t].todo[1][1]  s == Children(UfReal(q))
          IN  \/ /\ IsDir(UfStat(q)) /\ s # {} /\ UNCHANGED fs
                 /\ us' = [us EXCEPT ![t].todo =
                             (CHOOSE f \in [1..Cardinality(s) -> {<<c, 0, FALSE>> : c \in s}] :
                                 \A i, j \in DOMAIN f : i # j => f[i] # f[j]) \o @]
              \/ /\ fs[q] # UfNone /\ s = {}
                 /\ fs' = [fs EXCEPT ![q] = UfNone]
                 /\ us' = [UfRaced(t, fs') EXCEPT ![t].todo = Tail(@)]

\* lstat: a link is removed, never what it points to.
zusf_delete_uss_item(t) ==
    \/ WalkStart(t, "delete")
    \/ /\ UfAt(t, "delete", "walk") /\ us[t].todo # <<>> /\ UNCHANGED now
       /\ LET q == us[t].todo[1][1]  leave == us[t].todo[1][3]  n == fs[q]
              gone == [fs EXCEPT ![q] = UfNone]
          IN  \/ /\ n = UfNone \/ (IsDir(n) /\ ~leave /\ ~UfReq(t).recursive) \/ (leave /\ Children(q) # {})
                 /\ UfDone(t, "failure") /\ UNCHANGED fs
              \/ UfDone(t, "failure") /\ UNCHANGED fs                   \* opendir, rmdir or remove
              \/ /\ IsDir(n) /\ ~leave /\ UfReq(t).recursive /\ UNCHANGED fs
                 /\ us' = [us EXCEPT ![t].todo = LET s == Children(q)
                                                 IN  (CHOOSE f \in [1..Cardinality(s) -> {<<c, 0, FALSE>> : c \in s}] :
                                                         \A i, j \in DOMAIN f : i # j => f[i] # f[j])
                                                     \o <<<<q, 0, TRUE>>>> \o Tail(@)]
              \/ /\ n # UfNone /\ (leave => IsDir(n)) /\ (IsDir(n) => leave /\ Children(q) = {})
                 /\ fs' = gone
                 /\ us' = [UfRaced(t, gone) EXCEPT ![t].todo = Tail(@)]

\* stat: a link to a directory is gone through; new is the node as changed.
WalkDown(t, links, new) ==
    LET q == us[t].todo[1][1]  n == UfStat(q)
        through == links + (IF UfReal(q) # q THEN 1 ELSE 0)
    IN  \/ (n = UfNone \/ through > SymLoop) /\ UfDone(t, "failure") /\ UNCHANGED fs
        \/ /\ n # UfNone /\ through <= SymLoop
           /\ fs' = [fs EXCEPT ![UfReal(q)] = new]
           /\ Push(t, IF IsDir(n) THEN Children(UfReal(q)) ELSE {}, through)

SetMode(m, n) == [n EXCEPT !.mode = m]
SetOwner(o, n) == [n EXCEPT !.owner = o]
SetTag(c, n) == IF IsDir(n) THEN n ELSE [n EXCEPT !.tag = c]

\* chmod's own return code is not looked at; a directory needs recursive.
zusf_chmod_uss_file_or_dir(t) ==
    \/ WalkStart(t, "chmod")
    \/ /\ UfAt(t, "chmod", "walk") /\ us[t].todo # <<>> /\ UNCHANGED now
       /\ LET n == UfStat(us[t].todo[1][1])
          IN  IF IsDir(UfStat(UfReq(t).p)) /\ ~UfReq(t).recursive
              THEN UfDone(t, "failure") /\ UNCHANGED fs
              ELSE \/ WalkDown(t, us[t].todo[1][2], SetMode(UfReq(t).mode, n))
                   \/ WalkDown(t, us[t].todo[1][2], n)
                   \/ UfDone(t, "failure") /\ UNCHANGED fs               \* opendir

\* user[:group]: each part a number, a known name, or empty; not both empty.
resolve_uid_from_str(o) == o \in {"me", "you", ""}
zusf_chown_uss_file_or_dir(t) ==
    \/ WalkStart(t, "chown")
    \/ /\ UfAt(t, "chown", "walk") /\ us[t].todo # <<>> /\ UNCHANGED now
       /\ LET n == UfStat(us[t].todo[1][1])
          IN  IF \/ IsDir(UfStat(UfReq(t).p)) /\ ~UfReq(t).recursive
                 \/ ~resolve_uid_from_str(UfReq(t).owner) \/ UfReq(t).owner = ""
              THEN UfDone(t, "failure") /\ UNCHANGED fs
              ELSE \/ WalkDown(t, us[t].todo[1][2], SetOwner(UfReq(t).owner, n))
                   \/ UfDone(t, "failure") /\ UNCHANGED fs

\* A tag is a number or a known name; a directory without recursive is left alone.
zusf_get_ccsid_from_display_name(tag) == IF tag = "unknown" THEN -1 ELSE tag
zusf_chtag_uss_file_or_dir(t) ==
    \/ WalkStart(t, "chtag")
    \/ /\ UfAt(t, "chtag", "walk") /\ us[t].todo # <<>> /\ UNCHANGED now
       /\ LET n == UfStat(us[t].todo[1][1])
          IN  IF UfReq(t).ccsid = -1 THEN UfDone(t, "failure") /\ UNCHANGED fs
              ELSE IF IsDir(UfStat(UfReq(t).p)) /\ ~UfReq(t).recursive
              THEN UfDone(t, "ok") /\ UNCHANGED fs
              ELSE \/ WalkDown(t, us[t].todo[1][2], SetTag(UfReq(t).ccsid, n))
                   \/ UfDone(t, "failure") /\ UNCHANGED fs

-----------------------------------------------------------------------------

(* The handlers: arguments, the library function, its return code           *)

NoMode(t, op) == UfAt(t, op, "start") /\ UfReq(t).mode = 0 /\ UfDone(t, "failure") /\ UNCHANGED <<fs, now>>

handle_uss_copy(t) == zusf_copy_file_or_dir(t)
handle_uss_create_file(t) == NoMode(t, "create_file") \/ (UfReq(t).mode # 0 /\ zusf_create_uss_file(t))
handle_uss_create_dir(t) == NoMode(t, "create_dir") \/ (UfReq(t).mode # 0 /\ zusf_create_uss_dir(t))
handle_uss_move(t) == zusf_move_uss_file_or_dir(t)
handle_uss_list(t) == zusf_list_uss_file_path(t)
handle_uss_view(t) == ViewStat(t) \/ zusf_read_from_uss_file(t) \/ zusf_read_from_uss_file_streamed(t)
handle_uss_write(t) ==
    zusf_write_to_uss_file(t) \/ zusf_write_to_uss_file_streamed(t) \/ WriteTag(t) \/ WriteRestat(t)
handle_uss_delete(t) == zusf_delete_uss_item(t)
handle_uss_chmod(t) == zusf_chmod_uss_file_or_dir(t)
handle_uss_chown(t) == zusf_chown_uss_file_or_dir(t)
handle_uss_chtag(t) == zusf_chtag_uss_file_or_dir(t)

UfTick == now < MaxNow /\ now' = now + 1 /\ UNCHANGED <<fs, us>>

UfBegin(j) ==
    /\ fs = j.before /\ now = 0
    /\ us = [t \in UfTasks |->
                [req |-> j.ask[t], pc |-> "start", rc |-> "ok", todo |-> <<>>, left |-> {}, got |-> {},
                 at |-> j.ask[t].p, etag |-> NoUssEtag, over |-> NoUssEtag, enc |-> NoTag,
                 created |-> FALSE, tagged |-> FALSE, raced |-> FALSE]]

UfInit == \E j \in UfJobs : UfBegin(j)

UfNext ==
    \/ UfTick
    \/ \E t \in UfTasks :
        \/ handle_uss_copy(t) \/ handle_uss_create_file(t) \/ handle_uss_create_dir(t)
        \/ handle_uss_move(t) \/ handle_uss_list(t) \/ handle_uss_view(t) \/ handle_uss_write(t)
        \/ handle_uss_delete(t) \/ handle_uss_chmod(t) \/ handle_uss_chown(t) \/ handle_uss_chtag(t)
        \/ WalkEnd(t)

UfSpec == UfInit /\ [][UfNext]_ufVars

-----------------------------------------------------------------------------
(* Properties                                                              *)

\* Deleting removes nothing outside the path that was asked for: a link in
\* the tree goes, what it points to stays (zusf_delete_uss_item).
DeleteStaysInside ==
    [][\A t \in UfTasks : UfReq(t).op = "delete" /\ us'[t].todo # us[t].todo =>
          \A q \in UfPaths : fs'[q] # fs[q] => UfUnder(UfReq(t).p, q)]_ufVars

\* A write with an e-tag that answers success replaced the version the e-tag
\* names, or found no file, or was overtaken between its stat and its open.
UssEtagHolds ==
    \A t \in UfTasks :
        /\ UfReq(t).op = "write" /\ us[t].pc = "done" /\ us[t].rc = "ok" /\ UfReq(t).etag # NoUssEtag
        => us[t].over \in {UfReq(t).etag, NoUssEtag} \/ us[t].raced

\* After a text write that succeeded undisturbed and could tag its file, the
\* tag names the encoding the bytes are in: the next untold reader gets the text.
TagTellsEncoding ==
    [][\A t \in UfTasks :
          /\ UfAt(t, "write", "restat") /\ us'[t].pc = "done" /\ us[t].tagged /\ ~us[t].raced
          => LET n == fs[us[t].at] IN n # UfNone => n.tag = n.enc]_ufVars
=============================================================================
