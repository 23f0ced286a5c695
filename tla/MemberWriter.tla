---------------------------- MODULE MemberWriter ----------------------------
(***************************************************************************)
(* Writing one member of a partitioned data set through BPAM: the line     *)
(* loop of zds.cpp (whole buffer or streamed), ASA conversion, the record  *)
(* buffer of zam.c, and the ENQ, RESERVE, DCB and DD the session holds.    *)
(*                                                                         *)
(* A line is [kind, len]: "text", "blank" or "ff" (a line that starts with *)
(* a form feed; len counts what follows it).  Code page conversion is      *)
(* abstracted to succeeding or failing on a line.  The macros of DFSMS are *)
(* external: each may fail, and a failed WRITE may also close the DCB.     *)
(***************************************************************************)
EXTENDS Integers, Sequences, FiniteSets, SequencesExt

CONSTANTS Tasks,     \* the worker threads that write
          Library,   \* members of the one partitioned data set
          Workloads  \* what may be asked: [dcb |-> attributes of the data set,
                     \*   lines |-> the lines a client may send,
                     \*   load |-> [Tasks -> how many at most, 0: no request]]

VARIABLES dcb,       \* attributes of the data set
          work,      \* the requests of this behaviour
          ss,        \* [Tasks -> session of zds_write_member_bpam(_streamed)]
          ioc,       \* [Tasks -> IO_CTRL]
          member,    \* [Library -> directory entry: records and ISPF statistics]
          dds        \* tasks whose DD is allocated

mwVars == <<dcb, work, ss, ioc, member, dds>>

RDW == 4
BDW == 4
AsaTripleSpaceLines == 3

AsaChars == {"", " ", "0", "-", "1"}
Records == [c : AsaChars, len : Nat]

IoCtrl == [enq : BOOLEAN, reserve : BOOLEAN, open : BOOLEAN, abend : BOOLEAN,
           buf : Seq(Nat), bytes : Nat, out : Seq(Nat), lines : Nat]

new_io_ctrl == [enq |-> FALSE, reserve |-> FALSE, open |-> FALSE, abend |-> FALSE,
                buf |-> <<>>, bytes |-> 0, out |-> <<>>, lines |-> 0]

NewSession == [pc |-> "idle", m |-> CHOOSE m \in Library : TRUE, streamed |-> FALSE,
               in |-> <<>>, ended |-> FALSE, blanks |-> 0, q |-> <<>>, prev |-> <<>>,
               trunc |-> FALSE, rc |-> "ok", stowed |-> FALSE, stuck |-> FALSE]

-----------------------------------------------------------------------------
(* ASA conversion and truncation                                           *)

get_effective_lrecl(d) ==
    d.lrecl - (IF d.v THEN RDW ELSE 0) - (IF d.asa THEN 1 ELSE 0)

\* What AsaStreamState makes of a line after `blanks` skipped blank lines.
prepare_line(line, blanks) ==
    IF line.kind = "blank"
    THEN [skip |-> TRUE, overflow |-> 0, c |-> "", blanks |-> blanks + 1]
    ELSE LET rest == blanks % AsaTripleSpaceLines
         IN  [skip |-> FALSE, overflow |-> blanks \div AsaTripleSpaceLines, blanks |-> 0,
              c |-> CASE line.kind = "ff" -> "1" [] rest = 1 -> "0" [] rest = 2 -> "-" [] OTHER -> " "]

Overflow(n) == [i \in 1..n |-> [c |-> "-", len |-> 0]]

\* The line loop's test counts the control character again: max_len excludes it already.
Truncates(line) == line.len + (IF dcb.asa THEN 1 ELSE 0) > get_effective_lrecl(dcb)

\* One line through the loop: the session with its records queued for writing.
\* The streamed loop queues the overflow records and the line before this one.
TakeLine(s, line) ==
    LET p == IF dcb.asa THEN prepare_line(line, s.blanks)
                        ELSE [skip |-> FALSE, overflow |-> 0, c |-> "", blanks |-> 0]
        r == <<[c |-> p.c, len |-> line.len]>>
        o == Overflow(p.overflow)
    IN  IF p.skip THEN [s EXCEPT !.blanks = p.blanks]
        ELSE [s EXCEPT !.blanks = p.blanks,
                       !.trunc = @ \/ Truncates(line),
                       !.q = @ \o (IF s.streamed THEN o \o s.prev ELSE o \o r),
                       !.prev = IF s.streamed THEN r ELSE @]

\* The last line, without a newline: empty ones are dropped before ASA sees them.
process_bpam_trailing_line(s, line) ==
    IF line.kind = "blank" THEN s ELSE TakeLine(s, line)

-----------------------------------------------------------------------------
(* The record buffer of zam.c; a buffer is the lengths of its records      *)

Cut(n) == LET max == dcb.lrecl - (IF dcb.v THEN RDW ELSE 0) IN IF n > max THEN max ELSE n

init_bdw(i) == IF i.bytes = 0 THEN [i EXCEPT !.bytes = BDW] ELSE i

copy_variable_record(i, n) ==
    [i EXCEPT !.lines = @ + 1, !.buf = Append(@, n), !.bytes = @ + n + RDW]

write_block(i) ==
    [i EXCEPT !.out = @ \o i.buf, !.buf = <<>>, !.bytes = IF dcb.v THEN BDW ELSE 0]

handle_fixed_record(i, n) ==
    LET j == [i EXCEPT !.lines = @ + 1, !.buf = Append(@, n), !.bytes = @ + dcb.lrecl]
    IN  IF j.bytes >= dcb.blksize THEN write_block(j) ELSE j

handle_variable_record(i, n) ==
    LET a == init_bdw(i)
        b == IF n + RDW >= dcb.blksize - a.bytes THEN write_block(a) ELSE a
    IN  IF ~dcb.blocked THEN write_block(copy_variable_record(a, n))
        ELSE IF n + RDW < dcb.blksize - b.bytes THEN copy_variable_record(b, n) ELSE b

write_output_bpam(i, n) ==
    IF dcb.v THEN handle_variable_record(i, Cut(n)) ELSE handle_fixed_record(i, Cut(n))

\* A WRITE that fails: the abend is noted, and the system may have closed the DCB.
Abended(i, still) == [i EXCEPT !.abend = TRUE, !.open = still]

validate_dcb_attributes ==
    /\ dcb.blksize >= 1
    /\ IF dcb.v THEN dcb.blksize >= dcb.lrecl + BDW ELSE dcb.blksize % dcb.lrecl = 0

-----------------------------------------------------------------------------
(* Opening                                                                 *)

Goto(t, pc) == ss' = [ss EXCEPT ![t].pc = pc]
Fail(t, pc) == ss' = [ss EXCEPT ![t].pc = pc, ![t].rc = IF @ = "ok" THEN "failure" ELSE @]

\* The ENQ on data set and member, and the RESERVE on the data set.
EnqFree(t) == \A u \in Tasks \ {t} : ~(ioc[u].enq /\ ss[u].m = ss[t].m)
ReserveFree(t) == \A u \in Tasks \ {t} : ~ioc[u].reserve

alloc_dd(t) ==
    /\ ss[t].pc = "idle" /\ work.load[t] > 0
    /\ \E m \in Library, streamed \in BOOLEAN :
          \/ /\ ss' = [ss EXCEPT ![t].pc = "jfcb", ![t].m = m, ![t].streamed = streamed]
             /\ dds' = dds \cup {t}
          \/ /\ ss' = [ss EXCEPT ![t].pc = "done", ![t].rc = "failure"]
             /\ UNCHANGED dds
    /\ UNCHANGED <<dcb, work, ioc, member>>

\* RDJFCB and validate_jfcb_attributes, then get_ucb: no resource is obtained.
read_output_jfcb(t) ==
    /\ ss[t].pc = "jfcb" /\ (Goto(t, "enq") \/ Fail(t, "flush"))
    /\ UNCHANGED <<dcb, work, ioc, member, dds>>

get_ucb(t) ==
    /\ ss[t].pc = "ucb" /\ (Goto(t, "reserve") \/ Fail(t, "flush"))
    /\ UNCHANGED <<dcb, work, ioc, member, dds>>

enq_data_set(t) ==
    /\ ss[t].pc = "enq"
    /\ \/ EnqFree(t) /\ ioc' = [ioc EXCEPT ![t].enq = TRUE] /\ Goto(t, "ucb")
       \/ Fail(t, "flush") /\ UNCHANGED ioc
    /\ UNCHANGED <<dcb, work, member, dds>>

\* Mutant: a RESERVE that fails returns at once, with the ENQ held.
ReserveFailsAtOnce(t) ==
    /\ ss[t].pc = "reserve"
    /\ \/ ReserveFree(t) /\ ioc' = [ioc EXCEPT ![t].reserve = TRUE] /\ Goto(t, "open")
       \/ Fail(t, "done") /\ UNCHANGED ioc
    /\ UNCHANGED <<dcb, work, member, dds>>

reserve_data_set(t) ==
    /\ ss[t].pc = "reserve"
    /\ \/ ReserveFree(t) /\ ioc' = [ioc EXCEPT ![t].reserve = TRUE] /\ Goto(t, "open")
       \/ Fail(t, "flush") /\ UNCHANGED ioc
    /\ UNCHANGED <<dcb, work, member, dds>>

open_data_set(t) ==
    /\ ss[t].pc = "open"
    /\ \/ /\ ioc' = [ioc EXCEPT ![t].open = TRUE]
          /\ IF validate_dcb_attributes THEN Goto(t, "read") ELSE Fail(t, "flush")
       \/ ioc' = [ioc EXCEPT ![t] = Abended(@, FALSE)] /\ Fail(t, "flush")
       \/ Fail(t, "flush") /\ UNCHANGED ioc
    /\ UNCHANGED <<dcb, work, member, dds>>

-----------------------------------------------------------------------------
(* Writing                                                                 *)

\* encode_line_if_needed may fail; the streamed loop writes before it reads on.
read_line(t) ==
    LET s == ss[t] IN
    /\ s.pc = "read" /\ Len(s.in) < work.load[t]
    /\ s.streamed => s.q = <<>>
    /\ \/ \E line \in work.lines :
             ss' = [ss EXCEPT ![t] = [TakeLine(s, line) EXCEPT !.in = Append(@, line)]]
       \/ Fail(t, "flush")
    /\ UNCHANGED <<dcb, work, ioc, member, dds>>

end_of_input(t) ==
    LET s == ss[t] IN
    /\ s.pc = "read"
    /\ s.streamed => s.q = <<>>
    /\ \E last \in {<<>>} \cup {<<l>> : l \in IF Len(s.in) < work.load[t] THEN work.lines ELSE {}} :
          LET e == IF last = <<>> THEN s
                   ELSE [process_bpam_trailing_line(s, last[1]) EXCEPT !.in = Append(@, last[1])]
          IN  ss' = [ss EXCEPT ![t] = [e EXCEPT !.pc = "write", !.ended = TRUE,
                                                !.q = @ \o e.prev, !.prev = <<>>]]
    /\ UNCHANGED <<dcb, work, ioc, member, dds>>

\* One call of zds_write_output_bpam: the control character is part of the record.
write_record(t) ==
    LET s == ss[t]
        r == Head(s.q)
        n == r.len + (IF r.c = "" THEN 0 ELSE 1)
        j == write_output_bpam(ioc[t], n)
    IN
    /\ s.pc = "write" \/ (s.pc = "read" /\ s.streamed)
    /\ s.q # <<>>
    /\ \/ ss' = [ss EXCEPT ![t].q = Tail(@)] /\ ioc' = [ioc EXCEPT ![t] = j]
       \/ /\ Len(j.buf) <= Len(ioc[t].buf)              \* a block is written
          /\ \E still \in BOOLEAN : ioc' = [ioc EXCEPT ![t] = Abended(@, still)]
          /\ Fail(t, "flush")
    /\ UNCHANGED <<dcb, work, member, dds>>

all_written(t) ==
    /\ ss[t].pc = "write" /\ ss[t].q = <<>> /\ Goto(t, "flush")
    /\ UNCHANGED <<dcb, work, ioc, member, dds>>

-----------------------------------------------------------------------------
(* Closing: every release is attempted whatever failed before it           *)

\* Mutant: a block that is not full at the end is forgotten.
FlushForgotten(t) ==
    /\ ss[t].pc = "flush" /\ Goto(t, "final")
    /\ UNCHANGED <<dcb, work, ioc, member, dds>>

write_flush(t) ==
    LET i == ioc[t] IN
    /\ ss[t].pc = "flush"
    /\ IF ~i.open \/ i.bytes <= (IF dcb.v THEN BDW ELSE 0)
       THEN Goto(t, "final") /\ UNCHANGED ioc
       ELSE \/ /\ ioc' = [ioc EXCEPT ![t] = write_block(@)]
               /\ IF i.abend THEN Fail(t, "final") ELSE Goto(t, "final")
            \/ /\ \E still \in BOOLEAN : ioc' = [ioc EXCEPT ![t] = Abended(@, still)]
               /\ Fail(t, "final")
    /\ UNCHANGED <<dcb, work, member, dds>>

\* A new member starts at level 0; an existing one moves up to level 0x99.
MaxLevel == 153
update_ispf_statistics(e, i) ==
    IF e.level = -1
    THEN [recs |-> i.out, level |-> 0, lines |-> i.lines]
    ELSE [recs |-> i.out, level |-> IF e.level < MaxLevel THEN e.level + 1 ELSE e.level,
          lines |-> i.lines]

\* Statistics, STOW (only if they succeed) and CLOSE, when the DCB is still open.
finalize_dcb(t) ==
    LET m == ss[t].m IN
    /\ ss[t].pc = "final"
    /\ IF ~ioc[t].open THEN Goto(t, "deqres") /\ UNCHANGED <<ioc, member>>
       ELSE \E stow, close \in BOOLEAN :
              /\ member' = IF stow THEN [member EXCEPT ![m] = update_ispf_statistics(@, ioc[t])]
                                   ELSE member
              /\ ioc' = [ioc EXCEPT ![t].open = ~close]
              /\ ss' = [ss EXCEPT ![t].pc = "deqres", ![t].stowed = stow, ![t].stuck = ~close,
                          ![t].rc = IF stow /\ close /\ ~ioc[t].abend THEN @ ELSE "failure"]
    /\ UNCHANGED <<dcb, work, dds>>

\* A release that fails: the resource stays held, and the close goes on.
Stuck(t, pc) == ss' = [ss EXCEPT ![t].pc = pc, ![t].rc = "failure", ![t].stuck = TRUE]

deq_reserve_data_set(t) ==
    /\ ss[t].pc = "deqres"
    /\ \/ Goto(t, "deq") /\ ioc' = [ioc EXCEPT ![t].reserve = FALSE]
       \/ ioc[t].reserve /\ Stuck(t, "deq") /\ UNCHANGED ioc
    /\ UNCHANGED <<dcb, work, member, dds>>

deq_data_set(t) ==
    /\ ss[t].pc = "deq"
    /\ \/ Goto(t, "free") /\ ioc' = [ioc EXCEPT ![t].enq = FALSE]
       \/ ioc[t].enq /\ Stuck(t, "free") /\ UNCHANGED ioc
    /\ UNCHANGED <<dcb, work, member, dds>>

\* FREE: its failure stays in the inner rc, so the caller is not told.
zds_close_output_bpam(t) ==
    LET s == ss[t] IN
    /\ s.pc = "free"
    /\ ss' = [ss EXCEPT ![t].pc = "done",
                        ![t].rc = IF @ = "ok" /\ s.trunc THEN "warning" ELSE @]
    /\ (dds' = dds \ {t} \/ dds' = dds)
    /\ UNCHANGED <<dcb, work, ioc, member>>

-----------------------------------------------------------------------------
MwBegin(w) ==
    /\ work = w /\ dcb = w.dcb
    /\ ss = [t \in Tasks |-> NewSession]
    /\ ioc = [t \in Tasks |-> new_io_ctrl]
    /\ member = [m \in Library |-> [recs |-> <<>>, level |-> -1, lines |-> 0]]
    /\ dds = {}

MwInit == \E w \in Workloads : MwBegin(w)

MwNext == \E t \in Tasks :
    \/ alloc_dd(t) \/ read_output_jfcb(t) \/ enq_data_set(t) \/ get_ucb(t)
    \/ reserve_data_set(t) \/ open_data_set(t) \/ read_line(t) \/ end_of_input(t)
    \/ write_record(t) \/ all_written(t) \/ write_flush(t) \/ finalize_dcb(t)
    \/ deq_reserve_data_set(t) \/ deq_data_set(t) \/ zds_close_output_bpam(t)

MwSpec == MwInit /\ [][MwNext]_mwVars

-----------------------------------------------------------------------------
(* Properties                                                              *)

\* A line stored as record lengths: what ASA adds, cut to the record length.
Rendered(line) == Cut(line.len + (IF dcb.asa THEN 1 ELSE 0))

\* A record that fills a block of its own exactly: handle_variable_record's
\* second test is "<" (zam.c:667), so it goes into no block at all.
BlockFilling(n) == dcb.v /\ dcb.blocked /\ n + RDW = dcb.blksize - BDW

\* Blank lines that become records of their own (three at a time, in ASA).
RunBefore(in, i) ==
    IF \E j \in 1..(i - 1) : in[j].kind # "blank"
    THEN i - 1 - (CHOOSE j \in 1..(i - 1) : /\ in[j].kind # "blank"
                                            /\ \A k \in (j + 1)..(i - 1) : in[k].kind = "blank")
    ELSE i - 1

Expected(t) ==
    LET in == ss[t].in
        one(i) == IF dcb.asa
                  THEN IF in[i].kind = "blank" THEN <<>>
                       ELSE [k \in 1..(RunBefore(in, i) \div 3) |-> 1] \o <<Rendered(in[i])>>
                  ELSE <<Rendered(in[i])>>
    IN  FlattenSeq([i \in DOMAIN in |-> one(i)])

\* Without ASA a last line that is empty is dropped.
Received(t) ==
    LET e == Expected(t)
    IN  {e} \cup IF ~dcb.asa /\ e # <<>> /\ Last(ss[t].in).kind = "blank"
                 THEN {Front(e)} ELSE {}

Succeeded(t) == ss[t].pc = "done" /\ ss[t].rc \in {"ok", "warning"}

\* Until another task writes the member, it holds what the last successful
\* session left in its own buffers.
StillOurs(t) == \A u \in Tasks \ {t} : ~(ss[u].stowed /\ ss[u].m = ss[t].m)

\* A member write that reports success has stored every line it was sent, in
\* order, through blocking, ASA conversion and the final flush (zam.c
\* handle_*_record, write_flush; zds.cpp line loop).  Two cases are left out:
\* a record that fills a block exactly, which handle_variable_record drops
\* without an error, and the overflow records of a streamed ASA write, which
\* go before the line ahead of theirs (zds.cpp:4247).
SuccessMeansStored == \A t \in Tasks :
    (/\ Succeeded(t) /\ StillOurs(t)
     /\ \A i \in DOMAIN Expected(t) : ~BlockFilling(Expected(t)[i])
     /\ ss[t].streamed /\ dcb.asa =>
            \A i \in DOMAIN ss[t].in : RunBefore(ss[t].in, i) < 3)
    => member[ss[t].m].recs \in Received(t)

\* A successful write with no warning cut no line (TruncationTracker and the
\* test before each record).
CutIsReported == \A t \in Tasks :
    (ss[t].pc = "done" /\ ss[t].rc = "ok") =>
        \A i \in DOMAIN ss[t].in : ss[t].in[i].len <= get_effective_lrecl(dcb)

\* ISPF statistics count the records of the member (update_ispf_statistics
\* against lines_written kept by the record handlers).
StatisticsCountRecords == \A t \in Tasks :
    (Succeeded(t) /\ StillOurs(t)) => member[ss[t].m].lines = Len(member[ss[t].m].recs)

\* A member write says what it did: success stands for every line stored, no
\* warning for none cut, the statistics for the records there are.
MemberWriteHonest == SuccessMeansStored /\ CutIsReported /\ StatisticsCountRecords

\* Whatever step of a session failed, it ends with its ENQ and RESERVE given
\* back and its DCB closed, unless that release itself failed and the caller
\* was told (close_output_bpam goes on after every error).
NothingHeldAtEnd == \A t \in Tasks :
    (ss[t].pc = "done" /\ (ioc[t].enq \/ ioc[t].reserve \/ ioc[t].open))
        => ss[t].stuck /\ ss[t].rc = "failure"

\* Two sessions never write blocks of the same partitioned data set at once:
\* the DCB is open only under the RESERVE (the order of close_output_bpam).
OneWriter == \A t, u \in Tasks :
    (t # u /\ ioc[t].open /\ ioc[u].open)
        => \E w \in {t, u} : ss[w].pc \in {"deqres", "deq", "free", "done"}
=============================================================================
