------------------------------ MODULE DataSets ------------------------------
(***************************************************************************)
(* The data set commands of zowex: the handlers of commands/ds.cpp and the *)
(* functions of zds.cpp they call, run by several worker threads of one    *)
(* address space.  A data set is [org, fmt, data]: data gives the contents *)
(* of each part, the members of a partitioned data set or the Whole of a   *)
(* sequential one.  An e-tag (Adler-32 of the contents) is the contents.   *)
(* DDs with a fixed name belong to the address space and are in `dd`; DDs  *)
(* with a system-assigned name are always freed by their user and are left *)
(* out.  How a member is written is the subject of module MemberWriter.    *)
(***************************************************************************)
EXTENDS Integers, FiniteSets, Sequences

CONSTANTS DsNames, Members, Whole, Contents, DsTasks,
          Missing,   \* stands for no data set
          DsJobs     \* [before |-> data sets, ask |-> [DsTasks -> request]]

VARIABLES ds,        \* [DsNames -> data set or Missing]
          dd,        \* [FixedDds -> the task that allocated it, or Free]
          tk         \* [DsTasks -> request, its progress and outcome]

dsVars == <<ds, dd, tk>>

Parts == Members \cup {Whole}
Absent == "absent"
Empty == "empty"
Partial == "partial"
Held == Contents \cup {Absent, Empty, Partial}
Free == "free"
FixedDds == {"INPUT", "OUTPUT", "A", "B", "SYSPRINT", "SYSIN"}
NoEtag == "no etag"

\* No thread stands for a DD that nobody has allocated.
ASSUME DdAssumption == Free \notin DsTasks

Orgs == {"PS", "PDS", "PDSE"}
Formats == [recfm : STRING, lrecl : Int, blksize : Int]
DataSet == [org : Orgs, fmt : Formats, data : [Parts -> Held]]

DsRequestOk(r) ==
    /\ r.d \in DsNames /\ r.p \in Parts /\ r.to \in DsNames \X Parts /\ r.v \in Held
    /\ r.attr.dsorg \in Orgs \cup {""} /\ r.attr.recfm \in STRING /\ {r.attr.lrecl, r.attr.blksize} \subseteq Int

\* A data set is not taken for none, and requests name data sets and members.
ASSUME DsAssumption ==
    /\ Missing \notin DataSet /\ DsJobs # {}
    /\ \A j \in DsJobs : /\ j.before \in [DsNames -> DataSet \cup {Missing}]
                         /\ \A t \in DsTasks : DsRequestOk(j.ask[t])

Partitioned(d) == ds[d].org \in {"PDS", "PDSE"}

Set(d, p, v) == [ds EXCEPT ![d].data[p] = v]

-----------------------------------------------------------------------------
(* What the handlers ask before they act                                   *)

zds_dataset_exists(d) == ds[d] # Missing
zds_member_exists(d, p) == zds_dataset_exists(d) /\ ds[d].data[p] # Absent
zds_has_member(p) == p # Whole

\* Attributes come from the catalog; when it cannot be listed they are unknown.
zds_get_dscb_attributes(d, listed) ==
    IF listed THEN ds[d].fmt ELSE [recfm |-> "", lrecl |-> 0, blksize |-> 0]

zds_write_recfm_unsupported(recfm, include_standard) ==
    recfm = "U" \/ (include_standard /\ recfm \in {"FBS", "VBS"})

\* fopen for read: a part that is there; a partitioned data set's directory.
Readable(d, p) == zds_dataset_exists(d) /\ (zds_member_exists(d, p) \/ (p = Whole /\ Partitioned(d)))

zds_get_type_info(d, p, listed) ==
    CASE ~zds_dataset_exists(d) \/ ~listed -> "UNKNOWN"
      [] zds_dataset_exists(d) /\ listed /\ ds[d].org = "PS" -> "PS"
      [] OTHER -> IF p = Whole THEN "PDS" ELSE "MEMBER"

\* zds_create_dsn: the attributes a new data set gets.
Normalised(a) ==
    [org |-> IF a.dsorg = "" THEN "PS" ELSE a.dsorg,
     fmt |-> [recfm |-> a.recfm,
              lrecl |-> IF a.recfm = "U" THEN 0 ELSE IF a.lrecl < 0 THEN 80 ELSE a.lrecl,
              blksize |-> IF a.recfm = "U" THEN 0
                          ELSE IF a.blksize < 0 THEN (IF a.lrecl > 0 THEN a.lrecl ELSE 80) ELSE a.blksize]]
ValidUnit(a) == a.alcunit \in {"", "TRACKS", "TRK", "CYL", "CYLINDERS"}

zds_create_dsn_fb == [alcunit |-> "CYL", dsorg |-> "PDSE", recfm |-> "FB", lrecl |-> 80, blksize |-> 0]
zds_create_dsn_vb == [zds_create_dsn_fb EXCEPT !.recfm = "VB", !.lrecl = 255]
zds_create_dsn_adata == [zds_create_dsn_fb EXCEPT !.recfm = "VB", !.lrecl = 32756, !.blksize = 32760]
zds_create_dsn_loadlib == [zds_create_dsn_fb EXCEPT !.recfm = "U", !.lrecl = 0, !.blksize = 32760]

NewData(a) ==
    [org |-> a.org, fmt |-> a.fmt,
     data |-> [p \in Parts |-> IF a.org = "PS" /\ p = Whole THEN Empty ELSE Absent]]

-----------------------------------------------------------------------------
(* Progress of a request                                                   *)

Req(t) == tk[t].req
At(t, op, pc) == Req(t).op = op /\ tk[t].pc = pc
Goto_(t, pc) == tk' = [tk EXCEPT ![t].pc = pc]
\* rc: "ok", or "failure", or the step that failed where the DDs are kept.
Done(t, rc) == tk' = [tk EXCEPT ![t].pc = "done", ![t].rc = rc]

Part(f, at) == IF f[at[1]] = Missing THEN Absent ELSE f[at[1]].data[at[2]]

\* Contents changed under the tasks between their check and their write.
Changed(t, new) ==
    [u \in DsTasks |->
        LET r == Req(u)
            dest == IF r.op = "copy" THEN r.to ELSE <<r.d, r.p>>
        IN
        IF /\ u # t /\ tk[u].pc \in {"write", "create", "consent", "overwrite", "recreate", "run"}
           /\ IF dest[2] = Whole THEN new[dest[1]] # ds[dest[1]]
              ELSE Part(new, dest) # Part(ds, dest)
        THEN [tk[u] EXCEPT !.raced = TRUE] ELSE tk[u]]

\* zut_loop_dynalloc: allocates the names in turn and stops at the first that fails.
zut_loop_dynalloc(t, names, n) ==
    dd' = [x \in FixedDds |-> IF \E i \in 1..n : names[i] = x THEN t ELSE dd[x]]
\* Mutant: ALLOC with REUSE takes a name that is in use.
AllocatedWithReuse(names, n) == n <= Len(names)

Allocatable(names, n) == \A i \in 1..n : dd[names[i]] = Free

\* zut_free_dynalloc_dds: frees the names in turn and stops at the first that fails.
zut_free_dynalloc_dds(names, n) ==
    dd' = [x \in FixedDds |-> IF \E i \in 1..n : names[i] = x THEN Free ELSE dd[x]]

-----------------------------------------------------------------------------
(* Creating, deleting, renaming                                            *)

\* create*: a member in the name is then written empty.
create_with_attributes(t) ==
    /\ At(t, "create", "start")
    /\ LET r == Req(t)
           new == [ds EXCEPT ![r.d] = NewData(Normalised(r.attr))]
       IN  \/ /\ ~ValidUnit(r.attr) \/ zds_dataset_exists(r.d)
              /\ Done(t, "failure") /\ UNCHANGED ds
           \/ Done(t, "failure") /\ UNCHANGED ds               \* ALLOC fails
           \/ /\ ValidUnit(r.attr) /\ ~zds_dataset_exists(r.d)
              /\ ds' = new
              /\ \/ tk' = [Changed(t, new) EXCEPT ![t].pc = "done", ![t].rc = "failure"]   \* FREE fails
                 \/ tk' = [Changed(t, new) EXCEPT
                             ![t].pc = IF zds_has_member(r.p) THEN "validate" ELSE "done"]
    /\ UNCHANGED dd

handle_data_set_create_member(t) ==
    /\ At(t, "create_member", "start")
    /\ LET r == Req(t)
       IN  \/ Done(t, "failure")                                \* no member, or not listed
           \/ /\ zds_has_member(r.p) /\ zds_dataset_exists(r.d)
              /\ IF ~r.overwrite /\ zds_member_exists(r.d, r.p)
                 THEN Done(t, "warning") ELSE Goto_(t, "validate")
    /\ UNCHANGED <<ds, dd>>

zds_delete_dsn(t) ==
    /\ At(t, "delete", "start")
    /\ LET r == Req(t)
           new == IF r.p = Whole THEN [ds EXCEPT ![r.d] = Missing] ELSE Set(r.d, r.p, Absent)
       IN  \/ Done(t, "failure") /\ UNCHANGED ds               \* remove() fails: absent or in use
           \/ /\ IF r.p = Whole THEN zds_dataset_exists(r.d) ELSE zds_member_exists(r.d, r.p)
              /\ ds' = new
              /\ tk' = [Changed(t, new) EXCEPT ![t].pc = "done"]
    /\ UNCHANGED dd

\* The checks come first; rename() is a later step and refuses an existing target itself.
zds_rename_dsn(t) ==
    LET r == Req(t)
        to == r.to[1]
        new == [ds EXCEPT ![to] = ds[r.d], ![r.d] = Missing]
    IN  /\ UNCHANGED dd
        /\ \/ /\ At(t, "rename", "start") /\ UNCHANGED ds
              /\ IF ~r.valid \/ ~zds_dataset_exists(r.d) \/ zds_dataset_exists(to)
                 THEN Done(t, "failure") ELSE Goto_(t, "rename")
           \/ /\ At(t, "rename", "rename")
              /\ \/ Done(t, "failure") /\ UNCHANGED ds
                 \/ /\ zds_dataset_exists(r.d) /\ ~zds_dataset_exists(to)
                    /\ ds' = new
                    /\ tk' = [Changed(t, new) EXCEPT ![t].pc = "done"]

zds_rename_members(t) ==
    LET r == Req(t)
        after == r.to[2]
        new == [ds EXCEPT ![r.d].data = [@ EXCEPT ![after] = ds[r.d].data[r.p], ![r.p] = Absent]]
    IN  /\ UNCHANGED dd
        /\ \/ /\ At(t, "rename_member", "start") /\ UNCHANGED ds
              /\ IF \/ ~zds_dataset_exists(r.d) \/ ~zds_member_exists(r.d, r.p)
                    \/ zds_member_exists(r.d, after) \/ ~r.valid
                 THEN Done(t, "failure") ELSE Goto_(t, "rename")
           \/ /\ At(t, "rename_member", "rename")
              /\ \/ Done(t, "failure") /\ UNCHANGED ds
                 \/ /\ zds_member_exists(r.d, r.p) /\ ~zds_member_exists(r.d, after)
                    /\ ds' = new
                    /\ tk' = [Changed(t, new) EXCEPT ![t].pc = "done"]

\* restore: ALLOC recalls a migrated data set, FREE DA releases it.
handle_data_set_restore(t) ==
    /\ At(t, "restore", "start")
    /\ \/ Done(t, "failure")
       \/ zds_dataset_exists(Req(t).d) /\ Done(t, "ok")
    /\ UNCHANGED <<ds, dd>>

-----------------------------------------------------------------------------
(* Writing                                                                 *)

OutputDd(r) == IF r.volser THEN <<"OUTPUT">> ELSE <<>>
InputDd(r) == IF r.volser THEN <<"INPUT">> ELSE <<>>

handle_data_set_write(t) ==
    /\ At(t, "write", "start")
    /\ LET names == OutputDd(Req(t))
       IN  \/ /\ Allocatable(names, Len(names))
              /\ zut_loop_dynalloc(t, names, Len(names)) /\ Goto_(t, "validate")
           \/ /\ Req(t).volser
              /\ Done(t, "failure") /\ UNCHANGED dd
    /\ UNCHANGED ds

\* What every write answers with once its contents are (not) written.
Finish(r) == IF r.op = "write" THEN "free" ELSE "done"

zds_validate_etag(r) == Readable(r.d, r.p) /\ r.etag = ds[r.d].data[r.p]
\* Mutant: the e-tag is computed but not compared.
EtagNotCompared(r) == r.etag = NoEtag \/ Readable(r.d, r.p)

validate_etag_if_present(r) == r.etag = NoEtag \/ zds_validate_etag(r)

zds_write_validate(t) ==
    /\ tk[t].pc = "validate"
    /\ LET r == Req(t)
       IN  \E listed \in BOOLEAN, readable \in BOOLEAN :
              IF /\ zds_dataset_exists(r.d)
                 /\ ~zds_write_recfm_unsupported(zds_get_dscb_attributes(r.d, listed).recfm, ~zds_has_member(r.p))
                 /\ validate_etag_if_present(r) /\ (r.etag = NoEtag \/ readable)
              THEN tk' = [tk EXCEPT ![t].pc = "write", ![t].raced = FALSE]
              ELSE tk' = [tk EXCEPT ![t].pc = Finish(r), ![t].rc = "failure"]
    /\ UNCHANGED <<ds, dd>>

\* fopen("w") empties a sequential data set before anything can fail.
zds_write_sequential(t) ==
    LET r == Req(t)
    IN  \E v \in {r.v, Empty, Partial} :
           /\ zds_dataset_exists(r.d) /\ ds[r.d].org = "PS"
           /\ ds' = Set(r.d, r.p, v)
           /\ tk' = [Changed(t, ds') EXCEPT ![t].over = ds[r.d].data[r.p],
                       ![t].pc = IF v = r.v THEN "reread" ELSE Finish(r),
                       ![t].rc = IF v = r.v THEN "ok" ELSE "failure"]

\* A member is replaced when the new one is complete; truncation only warns.
zds_write_member_bpam(t) ==
    LET r == Req(t)
    IN  /\ zds_dataset_exists(r.d) /\ Partitioned(r.d) /\ zds_has_member(r.p)
        /\ ds' = Set(r.d, r.p, r.v)
        /\ tk' = [Changed(t, ds') EXCEPT ![t].pc = "reread", ![t].rc = "ok",
                                         ![t].over = ds[r.d].data[r.p]]

\* Streamed, the contents are what came before the end of the pipe.
zds_write_sequential_streamed(t) ==
    LET r == Req(t)
    IN  \E v \in {r.v, Empty, Partial}, ok \in BOOLEAN :
           /\ zds_dataset_exists(r.d) /\ ds[r.d].org = "PS" /\ (v = r.v => ok)
           /\ ds' = Set(r.d, r.p, v)
           /\ tk' = [Changed(t, ds') EXCEPT ![t].over = ds[r.d].data[r.p],
                       ![t].pc = IF ok THEN "reread" ELSE Finish(r),
                       ![t].rc = IF ok THEN "ok" ELSE "failure"]

zds_write_streamed(t) ==
    /\ tk[t].pc = "write" /\ Req(t).streamed
    /\ \/ zds_has_member(Req(t).p) /\ zds_write_member_bpam(t)
       \/ ~zds_has_member(Req(t).p) /\ zds_write_sequential_streamed(t)
       \/ /\ tk' = [tk EXCEPT ![t].pc = Finish(Req(t)), ![t].rc = "failure"]
          /\ UNCHANGED ds
    /\ UNCHANGED dd

zds_write(t) ==
    /\ tk[t].pc = "write" /\ ~Req(t).streamed
    /\ \/ zds_has_member(Req(t).p) /\ zds_write_member_bpam(t)
       \/ ~zds_has_member(Req(t).p) /\ zds_write_sequential(t)
       \/ /\ tk' = [tk EXCEPT ![t].pc = Finish(Req(t)), ![t].rc = "failure"]   \* could not open
          /\ UNCHANGED ds
    /\ UNCHANGED dd

\* The new e-tag is that of what is there now, whoever wrote it.
zds_write_reread(t) ==
    /\ tk[t].pc = "reread"
    /\ LET r == Req(t)
       IN  \/ /\ Readable(r.d, r.p)
              /\ tk' = [tk EXCEPT ![t].pc = Finish(r), ![t].got = ds[r.d].data[r.p]]
           \/ tk' = [tk EXCEPT ![t].pc = Finish(r), ![t].rc = "failure"]
    /\ UNCHANGED <<ds, dd>>

\* The DD is freed whatever the write answered; a failing FREE fails the request.
handle_data_set_write_free(t) ==
    /\ At(t, "write", "free")
    /\ LET names == OutputDd(Req(t))
       IN  \/ zut_free_dynalloc_dds(names, Len(names)) /\ Goto_(t, "done")
           \/ Len(names) > 0 /\ Done(t, "not freed") /\ UNCHANGED dd
    /\ UNCHANGED ds

-----------------------------------------------------------------------------
(* Reading                                                                 *)

handle_data_set_view(t) ==
    /\ At(t, "view", "start")
    /\ LET names == InputDd(Req(t))
       IN  \/ /\ Allocatable(names, Len(names))
              /\ zut_loop_dynalloc(t, names, Len(names)) /\ Goto_(t, "read")
           \/ Req(t).volser /\ Done(t, "failure") /\ UNCHANGED dd
    /\ UNCHANGED ds

\* A failed read returns at once, leaving INPUT allocated.
zds_read(t) ==
    /\ At(t, "view", "read") /\ ~Req(t).streamed
    /\ \/ /\ Readable(Req(t).d, Req(t).p)
          /\ tk' = [tk EXCEPT ![t].pc = "free", ![t].got = ds[Req(t).d].data[Req(t).p]]
       \/ Done(t, "not read")
    /\ UNCHANGED <<ds, dd>>

\* A failed streamed read goes on to the FREE.
zds_read_streamed(t) ==
    /\ At(t, "view", "read") /\ Req(t).streamed
    /\ \/ /\ Readable(Req(t).d, Req(t).p)
          /\ tk' = [tk EXCEPT ![t].pc = "free", ![t].got = ds[Req(t).d].data[Req(t).p]]
       \/ tk' = [tk EXCEPT ![t].pc = "free", ![t].rc = "failure"]
    /\ UNCHANGED <<ds, dd>>

\* With a DD, the FREE's return code replaces that of the read.
handle_data_set_view_free(t) ==
    /\ At(t, "view", "free")
    /\ LET names == InputDd(Req(t))
       IN  \/ /\ zut_free_dynalloc_dds(names, Len(names))
              /\ Done(t, IF Req(t).volser THEN "ok" ELSE tk[t].rc)
           \/ Req(t).volser /\ Done(t, "not freed") /\ UNCHANGED dd
    /\ UNCHANGED ds

-----------------------------------------------------------------------------
(* Compressing: only a PDS, with four fixed DDs                            *)

CompressDds == <<"A", "B", "SYSPRINT", "SYSIN">>

\* An allocation that fails leaves the ones before it.
handle_data_set_compress(t) ==
    /\ At(t, "compress", "start")
    /\ \/ /\ ~(zds_dataset_exists(Req(t).d) /\ ds[Req(t).d].org = "PDS")
          /\ Done(t, "failure") /\ UNCHANGED dd
       \/ /\ zds_dataset_exists(Req(t).d) /\ ds[Req(t).d].org = "PDS"
          /\ \E n \in 0..4 :
                /\ Allocatable(CompressDds, n)
                /\ zut_loop_dynalloc(t, CompressDds, n)
                /\ IF n = 4 THEN Goto_(t, "iebcopy") ELSE Done(t, "not allocated")
    /\ UNCHANGED ds

\* Control statement, IEBCOPY, SYSPRINT: whatever fails, the DDs are freed.
handle_data_set_compress_run(t) ==
    /\ At(t, "compress", "iebcopy")
    /\ \E ok \in BOOLEAN, n \in 0..4 :
          /\ zut_free_dynalloc_dds(CompressDds, n)
          /\ Done(t, IF n < 4 THEN "not freed" ELSE IF ok THEN "ok" ELSE "failure")
    /\ UNCHANGED ds

-----------------------------------------------------------------------------
(* Copying                                                                 *)

validate_attributes(r, s, e) ==
    LET a == ds[r.d].fmt  b == ds[r.to[1]].fmt
    IN  /\ a.recfm = b.recfm /\ a.lrecl = b.lrecl
        /\ (s = "PDS" \/ e = "PDS") => a.blksize = b.blksize

target_exists(r) ==
    IF r.to[2] = Whole THEN zds_dataset_exists(r.to[1]) ELSE zds_member_exists(r.to[1], r.to[2])

\* When neither lookup listed its data set, both sets of attributes are empty and equal.
Compatible(r, s, e, l1, l2) ==
    IF l1 /\ l2 THEN validate_attributes(r, s, e) ELSE ~l1 /\ ~l2

zds_copy_dsn(t) ==
    /\ At(t, "copy", "start")
    /\ \E l1, l2 \in BOOLEAN :
        LET r == Req(t)
            s == zds_get_type_info(r.d, r.p, l1)
            e == zds_get_type_info(r.to[1], r.to[2], l2)
            tt == IF e # "UNKNOWN" THEN e ELSE IF r.to[2] # Whole THEN "MEMBER" ELSE s
            there == zds_dataset_exists(r.to[1])
        IN  IF /\ zds_dataset_exists(r.d)
               /\ r.p # Whole => zds_member_exists(r.d, r.p)
               /\ <<s, tt>> \notin {<<"PDS", "MEMBER">>, <<"MEMBER", "PS">>, <<"PS", "MEMBER">>, <<"PDS", "PS">>}
               /\ there => Compatible(r, s, e, l1, l2)
            THEN tk' = [tk EXCEPT ![t].pc = IF there THEN "consent" ELSE "create",
                                  ![t].tx = target_exists(r), ![t].types = <<s, tt>>]
            ELSE Done(t, "failure")
    /\ UNCHANGED <<ds, dd>>

\* ALLOC LIKE ... NEW CATALOG
AllocLike(d, like) == [ds EXCEPT ![d] = NewData([org |-> ds[like].org, fmt |-> ds[like].fmt])]

zds_copy_dsn_create(t) ==
    /\ At(t, "copy", "create")
    /\ LET r == Req(t)
       IN  \/ Done(t, "failure") /\ UNCHANGED ds
           \/ /\ zds_dataset_exists(r.d) /\ ~zds_dataset_exists(r.to[1])
              /\ ds' = AllocLike(r.to[1], r.d)
              /\ tk' = [Changed(t, ds') EXCEPT ![t].pc = "consent"]
    /\ UNCHANGED dd

\* Mutant: a target that exists is not asked about.
ConsentUnasked(t) ==
    LET r == Req(t)
    IN  CASE tk[t].types = <<"PS", "PS">> -> ~r.overwrite
          [] tk[t].types \in {<<"PDS", "PDS">>, <<"MEMBER", "MEMBER">>} -> r.overwrite => r.to[2] = Whole
          [] OTHER -> FALSE

\* The tests of copy_sequential and copy_partitioned before they touch the target.
CopyConsent(t) ==
    LET r == Req(t)
    IN  CASE tk[t].types = <<"PS", "PS">> -> ~r.overwrite /\ (tk[t].tx => r.replace)
          [] tk[t].types \in {<<"PDS", "PDS">>, <<"MEMBER", "MEMBER">>} ->
                 (r.overwrite => r.to[2] = Whole) /\ (tk[t].tx => r.replace \/ r.overwrite)
          [] OTHER -> FALSE

copy_consent(t) ==
    /\ At(t, "copy", "consent")
    /\ IF ~CopyConsent(t) THEN Done(t, "failure")
       ELSE tk' = [tk EXCEPT ![t].pc =
                              IF Req(t).overwrite /\ Req(t).p = Whole /\ Req(t).to[2] = Whole
                              THEN "overwrite" ELSE "run"]
    /\ UNCHANGED <<ds, dd>>

\* overwrite: the target is deleted, then allocated again like the source.
copy_overwrite_delete(t) ==
    /\ At(t, "copy", "overwrite")
    /\ \/ /\ ds' = [ds EXCEPT ![Req(t).to[1]] = Missing]
          /\ tk' = [Changed(t, ds') EXCEPT ![t].pc = "recreate"]
       \/ Goto_(t, "recreate") /\ UNCHANGED ds                  \* remove() failed: not looked at
    /\ UNCHANGED dd

copy_overwrite_recreate(t) ==
    /\ At(t, "copy", "recreate")
    /\ LET r == Req(t)
       IN  \/ Done(t, "failure") /\ UNCHANGED ds
           \/ /\ zds_dataset_exists(r.d) /\ ~zds_dataset_exists(r.to[1])
              /\ ds' = AllocLike(r.to[1], r.d)
              /\ \E freed \in BOOLEAN :
                    tk' = [Changed(t, ds') EXCEPT ![t].pc = IF freed THEN "run" ELSE "done",
                                                  ![t].rc = IF freed THEN "ok" ELSE "failure"]
    /\ UNCHANGED dd

\* IEBGENER: sequential to sequential; a sequential data set named with a member does not open.
copy_sequential(t) ==
    /\ At(t, "copy", "run") /\ tk[t].types = <<"PS", "PS">>
    /\ LET r == Req(t)
       IN  \/ Done(t, "failure") /\ UNCHANGED ds
           \/ /\ r.to[2] = Whole /\ zds_dataset_exists(r.d) /\ zds_dataset_exists(r.to[1])
              /\ ds[r.d].org = "PS" /\ ds[r.to[1]].org = "PS"
              /\ \E ok \in BOOLEAN :
                    /\ ds' = Set(r.to[1], Whole, IF ok THEN ds[r.d].data[Whole] ELSE Partial)
                    /\ tk' = [Changed(t, ds') EXCEPT ![t].pc = "done", ![t].rc = IF ok THEN "ok" ELSE "failure"]
    /\ UNCHANGED dd

\* What IEBCOPY is told to select: a function from target parts to source parts.
control_stmt(r) ==
    IF r.p # Whole /\ r.to[2] # Whole THEN [x \in {r.to[2]} |-> r.p]
    ELSE [x \in {m \in Members : ds[r.d].data[m] # Absent} |-> x]

\* IEBCOPY: without the replace option a member that is there stays.
copy_partitioned(t) ==
    /\ At(t, "copy", "run") /\ tk[t].types # <<"PS", "PS">>
    /\ LET r == Req(t)
       IN  \/ Done(t, "failure") /\ UNCHANGED ds
           \/ /\ zds_dataset_exists(r.d) /\ zds_dataset_exists(r.to[1])
              /\ Partitioned(r.d) /\ Partitioned(r.to[1])
              /\ LET sel == control_stmt(r)
                     old == ds[r.to[1]].data
                     may == {x \in DOMAIN sel : ds[r.d].data[sel[x]] # Absent /\ (r.replace \/ old[x] = Absent)}
                 IN  \E done \in SUBSET may, freed \in BOOLEAN :
                       /\ ds' = [ds EXCEPT ![r.to[1]].data =
                                   [x \in Parts |-> IF x \in done THEN ds[r.d].data[sel[x]] ELSE old[x]]]
                       /\ tk' = [Changed(t, ds') EXCEPT ![t].pc = "done",
                                   ![t].rc = IF done = may /\ freed THEN "ok" ELSE "failure"]
    /\ UNCHANGED dd

-----------------------------------------------------------------------------

NewTask(r) == [req |-> r, pc |-> "start", rc |-> "ok", got |-> Absent, over |-> Absent,
               raced |-> FALSE, tx |-> FALSE, types |-> <<"UNKNOWN", "UNKNOWN">>]

DsBegin(j) ==
    /\ ds = j.before
    /\ dd = [n \in FixedDds |-> Free]
    /\ tk = [t \in DsTasks |-> NewTask(j.ask[t])]

DsInit == \E j \in DsJobs : DsBegin(j)

DsNext ==
    \E t \in DsTasks :
        \/ create_with_attributes(t) \/ handle_data_set_create_member(t) \/ zds_delete_dsn(t)
        \/ zds_rename_dsn(t) \/ zds_rename_members(t) \/ handle_data_set_restore(t)
        \/ handle_data_set_write(t) \/ zds_write_validate(t) \/ zds_write(t) \/ zds_write_streamed(t)
        \/ zds_write_reread(t) \/ handle_data_set_write_free(t)
        \/ handle_data_set_view(t) \/ zds_read(t) \/ zds_read_streamed(t) \/ handle_data_set_view_free(t)
        \/ handle_data_set_compress(t) \/ handle_data_set_compress_run(t)
        \/ zds_copy_dsn(t) \/ zds_copy_dsn_create(t) \/ copy_consent(t) \/ copy_overwrite_delete(t)
        \/ copy_overwrite_recreate(t) \/ copy_sequential(t) \/ copy_partitioned(t)

DsSpec == DsInit /\ [][DsNext]_dsVars

-----------------------------------------------------------------------------
(* Properties                                                              *)

\* A write given an e-tag and answered with success replaced the contents the
\* e-tag stands for, unless another request changed the data set between the
\* comparison and the write (nothing is held over the two).
EtagHolds ==
    \A t \in DsTasks :
        /\ tk[t].pc = "done" /\ tk[t].rc = "ok" /\ Req(t).op = "write" /\ Req(t).etag # NoEtag
        => tk[t].over = Req(t).etag \/ tk[t].raced

\* A request that works through a DD with a fixed name is the one that
\* allocated it: no other request frees or takes the name in between.
DdOwned ==
    \A t \in DsTasks :
        /\ (Req(t).op = "write" /\ Req(t).volser /\ tk[t].pc \in {"validate", "write", "reread", "free"})
              => dd["OUTPUT"] = t
        /\ (Req(t).op = "view" /\ Req(t).volser /\ tk[t].pc \in {"read", "free"}) => dd["INPUT"] = t
        /\ At(t, "compress", "iebcopy") => \A i \in 1..4 : dd[CompressDds[i]] = t

\* The three early returns that keep DDs: the unstreamed view whose read failed
\* (INPUT), the compress that could not allocate them all (those it got), and
\* the request whose FREE was refused.
MayKeepDds(x) ==
    \/ x.req.op = "view" /\ ~x.req.streamed /\ x.rc = "not read"
    \/ x.req.op = "compress" /\ x.rc = "not allocated"
    \/ x.req.op \in {"write", "view", "compress"} /\ x.rc = "not freed"

\* An answered request has given its DDs with fixed names back, so that the
\* next one finds the names free, in every case but those three: a success, a
\* write that failed or whose e-tag is another, a failed streamed read, a
\* failed control statement, IEBCOPY or SYSPRINT.
DdsGivenBack ==
    \A t \in DsTasks : /\ tk[t].pc = "done"
                       /\ \E n \in FixedDds : dd[n] = t
                       => MayKeepDds(tk[t])

\* A copy replaces contents that were there only with the replace or the
\* overwrite option, unless they appeared after it looked for its target.
CopyAsksFirst ==
    [][\A t \in DsTasks :
          /\ Req(t).op = "copy" /\ tk'[t].pc # tk[t].pc /\ ds' # ds
          /\ ~Req(t).replace /\ ~Req(t).overwrite
          => \A d \in DsNames : ds[d] # Missing =>
                /\ ds'[d] # Missing
                /\ \A p \in Parts : \/ ds[d].data[p] \in {Absent, Empty}
                                    \/ ds'[d].data[p] = ds[d].data[p]
                                    \/ tk[t].raced]_dsVars
=============================================================================
