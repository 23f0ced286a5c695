------------------------------ MODULE Catalog -------------------------------
(***************************************************************************)
(* Listing: the members of a partitioned data set (its directory read      *)
(* block by block), the data sets of the catalog (the catalog search       *)
(* interface, resumed until it has given all), and what is made of a       *)
(* format 1 DSCB.  Names are sequences of characters where a pattern is    *)
(* matched, model data elsewhere; DSCB fields are their decoded bits.      *)
(***************************************************************************)
EXTENDS Integers, Sequences, SequencesExt, FiniteSetsExt

CONSTANTS DirCases,  \* member listings: [blocks, pattern, max, attributes]
          CsiCases,  \* catalog listings: [pages, max, attributes]
          DateCases  \* dates: [year, day, expiration]

VARIABLES ls         \* the listing: [kind, case, page, k, out, rc, found, area, csi]

catVars == <<ls>>

-----------------------------------------------------------------------------
(* Patterns of member names                                                *)

At_(s, i) == IF i <= Len(s) THEN s[i] ELSE "end"

\* Mutant: after a mismatch the name is not taken up again behind the star.
MatchWithoutRewind(s, p, st) ==
    CASE st.done \/ st.i > Len(s) -> [st EXCEPT !.done = TRUE]
      [] ~st.done /\ st.i <= Len(s) /\ (At_(p, st.j) = "?" \/ At_(p, st.j) = s[st.i]) ->
            [st EXCEPT !.i = @ + 1, !.j = @ + 1]
      [] ~st.done /\ st.i <= Len(s) /\ At_(p, st.j) = "*" /\ s[st.i] # "*" ->
            [st EXCEPT !.star_p = st.j, !.star_s = st.i, !.j = @ + 1]
      [] OTHER ->
            IF st.star_p # 0 THEN [st EXCEPT !.j = st.star_p + 1, !.i = @ + 1]
            ELSE [st EXCEPT !.done = TRUE, !.failed = TRUE]

\* One turn of is_match's loop: i, j are the places in the name and the pattern.
match_step(s, p, st) ==
    CASE st.done \/ st.i > Len(s) -> [st EXCEPT !.done = TRUE]
      [] ~st.done /\ st.i <= Len(s) /\ (At_(p, st.j) = "?" \/ At_(p, st.j) = s[st.i]) ->
            [st EXCEPT !.i = @ + 1, !.j = @ + 1]
      [] ~st.done /\ st.i <= Len(s) /\ At_(p, st.j) = "*" /\ s[st.i] # "*" ->
            [st EXCEPT !.star_p = st.j, !.star_s = st.i, !.j = @ + 1]
      [] OTHER ->
            IF st.star_p # 0
            THEN [st EXCEPT !.j = st.star_p + 1, !.star_s = @ + 1, !.i = st.star_s + 1]
            ELSE [st EXCEPT !.done = TRUE, !.failed = TRUE]

is_match(s, p) ==
    LET start == [i |-> 1, j |-> 1, star_p |-> 0, star_s |-> 0, done |-> FALSE, failed |-> FALSE]
        turns == (Len(s) + 2) * (Len(p) + 2)
        run[n \in 0..turns] == IF n = 0 THEN start ELSE match_step(s, p, run[n - 1])
        end == run[turns]
    IN  ~end.failed /\ \A j \in end.j..Len(p) : p[j] = "*"

\* What a pattern means: "*" stands for any characters, "?" for one.
Matches(s, p) ==
    LET m[i \in 1..(Len(s) + 1), j \in 1..(Len(p) + 1)] ==
            IF j > Len(p) THEN i > Len(s)
            ELSE IF p[j] = "*" THEN m[i, j + 1] \/ (i <= Len(s) /\ m[i + 1, j])
            ELSE i <= Len(s) /\ p[j] \in {"?", s[i]} /\ m[i + 1, j + 1]
    IN  m[1, 1]

-----------------------------------------------------------------------------
(* The directory of a partitioned data set                                 *)

RECLEN == 254
ENTRY == 12          \* sizeof(RECORD_ENTRY)
ISPF == 30           \* sizeof(ISPF_STATS)
EndMarker == "end of directory"

\* Statistics need 30 bytes of user data with blanks, or 40 and the flag for it.
is_valid_ispf_stats(e) ==
    /\ \/ ~e.extended /\ 2 * e.half = 30 /\ e.blanks
       \/ e.extended /\ 2 * e.half = 40
    /\ e.century <= 1

Offset(block, k) == FoldLeft(LAMBDA n, e : n + ENTRY + 2 * e.half, 0, SubSeq(block.entries, 1, k - 1))
UsedCount(block) == IF block.count > RECLEN THEN RECLEN ELSE block.count

\* How many entries of a block the loop looks at before it leaves the block.
Reached(block) ==
    LET stop == {k \in DOMAIN block.entries :
                    Offset(block, k) + ENTRY > UsedCount(block) \/ block.entries[k].name = EndMarker}
    IN  IF stop = {} THEN Len(block.entries) ELSE Min(stop) - 1

\* The statistics of an entry are taken if they lie within the block.
HasStats(block, k, attributes) ==
    LET e == block.entries[k]
    IN  /\ attributes /\ 2 * e.half >= ISPF
        /\ Offset(block, k) + ENTRY + 2 * e.half <= UsedCount(block)
        /\ is_valid_ispf_stats(e)

Wanted(c, e) == c.pattern = <<>> \/ is_match(e.name, c.pattern)

\* One block: the members it adds; the listing ends with a warning at the first
\* member over the limit, or goes on with a warning that a block was corrupt.
zds_list_members(c, block, out) ==
    LET add == [k \in 1..Reached(block) |->
                  IF Wanted(c, block.entries[k])
                  THEN <<[name |-> block.entries[k].name, stats |-> HasStats(block, k, c.attributes)]>>
                  ELSE <<>>]
        all == out \o FlattenSeq(add)
    IN  [out |-> SubSeq(all, 1, IF Len(all) > c.max THEN c.max ELSE Len(all)),
         maxed |-> Len(all) > c.max,
         corrupt |-> block.count > RECLEN]

read_directory_block ==
    /\ ls.kind = "members" /\ ls.rc = "running"
    /\ \/ /\ ls.page = 0
          /\ \/ ls' = [ls EXCEPT !.page = 1]
             \/ ls' = [ls EXCEPT !.rc = "failure"]            \* fopen fails
       \/ /\ ls.page \in DOMAIN ls.case.blocks
          /\ LET r == zds_list_members(ls.case, ls.case.blocks[ls.page], ls.out)
             IN  ls' = [ls EXCEPT !.out = r.out, !.page = @ + 1, !.found = @ \/ r.corrupt,
                                  !.rc = IF r.maxed THEN "maxed" ELSE @]
       \/ /\ ls.page = Len(ls.case.blocks) + 1
          /\ ls' = [ls EXCEPT !.rc = IF ls.found THEN "corrupt" ELSE "ok"]

-----------------------------------------------------------------------------
(* Format 1 DSCB                                                           *)

load_dsorg_from_dscb(f) ==
    CASE "PS" \in f.dsorg -> "PS" [] "DA" \in f.dsorg -> "DA"
      [] "PO" \in f.dsorg -> "PO" [] "VSAM" \in f.dsorg -> "VSAM" [] OTHER -> "unknown"

\* recfm: base F, V, U by the first two bits, then B, S, A, M.
load_recfm_from_dscb(f) ==
    IF f.recfm.base = "" /\ f.recfm.flags = {} THEN [base |-> "U", flags |-> {}]
    ELSE [base |-> f.recfm.base,
          flags |-> IF f.recfm.base = "U" /\ "B" \notin f.recfm.flags THEN f.recfm.flags \ {"S"} ELSE f.recfm.flags]

DaysInMonth == <<31, 28, 31, 30, 31, 30, 31, 31, 30, 31, 30, 31>>
IsLeap(y) == (y % 4 = 0 /\ y % 100 # 0) \/ y % 400 = 0

load_date_from_dscb(y, d, expiration) ==
    IF (y = 1900 /\ d = 0) \/ (expiration /\ y = 1999 /\ d = 365) THEN <<>>
    ELSE LET step(st, i) ==
                IF st.stop \/ st.day <= DaysInMonth[i] THEN [st EXCEPT !.stop = TRUE]
                ELSE [st EXCEPT !.month = @ + 1,
                                !.day = @ - (IF i = 2 /\ IsLeap(y) THEN 29 ELSE DaysInMonth[i])]
             end == FoldLeft(step, [month |-> 1, day |-> d, stop |-> FALSE], [i \in 1..12 |-> i])
         IN  <<y, end.month, end.day>>

TRACKS_PER_CYLINDER == 15

ucb_to_devtype(b) == IF b \in {"3380", "3390", "9345"} THEN b ELSE "none"
get_bytes_per_track(devtype) == CASE devtype = "3380" -> 47476 [] devtype = "9345" -> 46456 [] OTHER -> 56664

\* An extent is [lo, hi], each <<cylinder, head>>.
calculate_extent_tracks(x) ==
    IF x.hi[1] < x.lo[1] THEN 0
    ELSE (x.hi[1] - x.lo[1]) * TRACKS_PER_CYLINDER + (x.hi[2] - x.lo[2]) + 1

load_spacu_from_dscb(f) ==
    CASE f.dspac = 3 -> "CYLINDERS"
      [] f.dspac = 2 -> IF f.contig THEN "BYTES" ELSE "TRACKS"
      [] f.dspac = 1 -> "BLOCKS"
      [] OTHER -> IF f.ext THEN f.scxtf.unit ELSE "BYTES"

Cylinders(x) == x.hi[1] - x.lo[1] + 1

load_primary_secondary_from_dscb(f) ==
    [primary |-> IF f.noepv = 0 THEN 0
                 ELSE IF f.dspac = 3 THEN Cylinders(f.exnts[1]) ELSE calculate_extent_tracks(f.exnts[1]),
     secondary |-> IF load_spacu_from_dscb(f) = "BYTES" THEN f.scxtf.value * f.scxtf.times ELSE f.scal3]

load_general_attrs_from_dscb(f) ==
    LET vsam == "VSAM" \in f.dsorg
    IN  [dsorg |-> load_dsorg_from_dscb(f), spacu |-> load_spacu_from_dscb(f),
         recfm |-> IF vsam THEN "" ELSE load_recfm_from_dscb(f),
         blksize |-> IF vsam THEN -1 ELSE f.blkl, lrecl |-> IF vsam THEN -1 ELSE f.lrecl,
         dsntype |-> IF "PO" \notin f.dsorg THEN "" ELSE IF f.pdse THEN "LIBRARY" ELSE "PDS",
         encrypted |-> f.encrypted]

SumOver(op(_), s) == FoldLeft(LAMBDA n, x : n + op(x), 0, s)
GrownUp(x) == x.hi[1] >= x.lo[1]

\* Bytes of the whole blocks that fit on a track.
BytesPerTrack(g, devtype) ==
    LET blocks == get_bytes_per_track(devtype) \div g.blksize
    IN  (IF blocks <= 0 THEN 1 ELSE blocks) * g.blksize

load_alloc_attrs_from_dscb(f, g, devtype) ==
    LET xs == SelectSeq(f.exnts, GrownUp)
        units == IF f.dspac = 3 THEN SumOver(Cylinders, xs) ELSE SumOver(calculate_extent_tracks, xs)
        bytes == g.spacu = "BYTES" /\ g.blksize > 0
    IN  [allocx |-> f.noepv, units |-> units,
         alloc |-> IF bytes THEN units * BytesPerTrack(g, devtype) ELSE units]

\* The extents up to the one whose end the last used track does not pass.
load_used_attrs_from_dscb(f, g, a, devtype) ==
    IF \/ "DA" \in f.dsorg \/ "VSAM" \in f.dsorg \/ f.pdse THEN [usedp |-> -1, usedx |-> -1]
    ELSE IF f.lstar = 0 /\ g.blksize = 0 THEN [usedp |-> 0, usedx |-> 0]
    ELSE LET upto(i) == SumOver(calculate_extent_tracks, SubSeq(f.exnts, 1, i))
             in == {i \in DOMAIN f.exnts : f.lstar <= upto(i)}
             tracks == IF f.dspac = 3 THEN a.alloc * TRACKS_PER_CYLINDER
                       ELSE IF g.spacu = "BYTES" /\ g.blksize > 0
                       THEN a.alloc \div BytesPerTrack(g, devtype) ELSE a.alloc
             percent == (100 * (f.lstar + 1)) \div tracks
         IN  [usedx |-> IF in = {} THEN 0 ELSE Min(in),
              usedp |-> IF a.alloc <= 0 THEN -1 ELSE IF percent > 100 THEN 100 ELSE percent]

\* The DSCB may not be obtainable: then the numbers are unknown.
zds_get_attrs_from_dscb(f, devtype, obtained) ==
    IF ~obtained
    THEN [dsorg |-> "", spacu |-> "", recfm |-> "", blksize |-> -1, lrecl |-> -1, dsntype |-> "",
          encrypted |-> FALSE, primary |-> -1, secondary |-> -1, alloc |-> -1, allocx |-> -1,
          usedp |-> -1, usedx |-> -1]
    ELSE LET g == load_general_attrs_from_dscb(f)
             q == load_primary_secondary_from_dscb(f)
             a == load_alloc_attrs_from_dscb(f, g, devtype)
             u == load_used_attrs_from_dscb(f, g, a, devtype)
             scale == IF g.spacu = "BYTES" /\ g.blksize > 0 THEN BytesPerTrack(g, devtype) ELSE 1
         IN  [dsorg |-> g.dsorg, spacu |-> g.spacu, recfm |-> g.recfm, blksize |-> g.blksize,
              lrecl |-> g.lrecl, dsntype |-> g.dsntype, encrypted |-> g.encrypted,
              primary |-> q.primary * scale, secondary |-> q.secondary,
              alloc |-> a.alloc, allocx |-> a.allocx, usedp |-> u.usedp, usedx |-> u.usedx]

-----------------------------------------------------------------------------
(* The catalog search interface                                            *)

Supported == {"nonvsam", "cluster", "data", "index", "gdg", "gds", "alias", "path", "aix"}

\* Volumes: blanks are dropped; the symbol of the IPL volume is substituted if it can be.
load_volsers_from_catalog(vols, symbol) ==
    LET vs == SelectSeq(vols, LAMBDA v : v # "")
        first == IF vs = <<>> THEN "unknown" ELSE vs[1]
        sub(v) == IF symbol /\ v = "******" THEN "SYSR1" ELSE v
    IN  [volser |-> sub(first), multivolume |-> Len(vols) > 1,
         volsers |-> IF first = "******" THEN [i \in DOMAIN vs |-> sub(vs[i])] ELSE vs]

load_devtype_from_catalog(devtyp) == IF devtyp = "zero" THEN "3390" ELSE ucb_to_devtype(devtyp)

TypeVolser(type, volser) ==
    CASE type = "gdg" -> "*GDG" [] type = "cluster" -> "*VSAM" [] type = "aix" -> "*AIX"
      [] type = "path" -> "*PATH" [] type = "alias" -> "*ALIAS" [] OTHER -> volser

Attributes(e, obtained, symbol) ==
    LET v == load_volsers_from_catalog(e.vols, symbol)
        migrated == v.volser \in {"MIGRAT", "ARCIVE"}
        base == zds_get_attrs_from_dscb(e.dscb, load_devtype_from_catalog(e.devtyp), obtained /\ ~migrated)
        volser == TypeVolser(e.type, v.volser)
    IN  [attrs |-> IF migrated THEN [base EXCEPT !.recfm = [base |-> "U", flags |-> {}]] ELSE base,
         dsorg |-> CASE e.type \in {"cluster", "data", "index"} -> "VSAM"
                     [] e.type = "alias" -> "unknown" [] OTHER -> base.dsorg,
         migrated |-> migrated, multivolume |-> v.multivolume, volser |-> volser,
         volsers |-> IF volser # v.volser THEN <<volser>> ELSE v.volsers]

Ends(rc) == ls' = [ls EXCEPT !.rc = rc, !.area = FALSE, !.csi = FALSE]

\* A buffer that is too small, or no storage for it, ends the request.
start_list_data_sets ==
    /\ ls.kind = "catalog" /\ ls.rc = "running" /\ ls.page = 0
    /\ \/ ls' = [ls EXCEPT !.rc = "failure"]
       \/ ls' = [ls EXCEPT !.area = TRUE, !.page = 1, !.k = 0]

\* IGGCSI00 is loaded at the first call and fills the work area; k = 0: to be called.
ZDSCSI00 ==
    /\ ls.kind = "catalog" /\ ls.rc = "running" /\ ls.page > 0 /\ ls.k = 0
    /\ \/ Ends("failure")
       \/ ls' = [ls EXCEPT !.csi = TRUE, !.k = 1]

\* One entry of the work area.
zds_list_data_sets ==
    /\ ls.kind = "catalog" /\ ls.rc = "running" /\ ls.page > 0 /\ ls.k > 0
    /\ ls.k <= Len(ls.case.pages[ls.page])
    /\ LET e == ls.case.pages[ls.page][ls.k]
       IN  CASE e.type = "catalog" ->
                  IF e.flag \in {"error", "incomplete"} THEN Ends("failure")
                  ELSE ls' = [ls EXCEPT !.k = @ + 1, !.found = @ \/ e.flag # "no entry"]
             [] e.type # "catalog" /\ (e.flag = "error" \/ e.type \notin Supported) -> Ends("failure")
             [] OTHER ->
                  IF Len(ls.out) + 1 > ls.case.max THEN Ends("maxed")
                  ELSE \E obtained, symbol \in IF ls.case.attributes THEN BOOLEAN ELSE {FALSE} :
                         ls' = [ls EXCEPT !.k = @ + 1,
                                  !.out = Append(@, [name |-> e.name,
                                             at |-> IF ls.case.attributes THEN Attributes(e, obtained, symbol) ELSE <<>>])]

\* The work area is done: resumed for another page, or finished.
resume_list_data_sets ==
    /\ ls.kind = "catalog" /\ ls.rc = "running" /\ ls.page > 0 /\ ls.k > 0
    /\ ls.k > Len(ls.case.pages[ls.page])
    /\ IF ls.page < Len(ls.case.pages) THEN ls' = [ls EXCEPT !.page = @ + 1, !.k = 0]
       ELSE Ends(IF ls.found THEN "ok" ELSE "not found")

-----------------------------------------------------------------------------

CatBegin(kind, c, out, rc) ==
    ls = [kind |-> kind, case |-> c, page |-> 0, k |-> 0, out |-> out, rc |-> rc,
          found |-> FALSE, area |-> FALSE, csi |-> FALSE]

\* A date is converted in one step; the listings run.
CatDate(c) == CatBegin("date", c, load_date_from_dscb(c.year, c.day, c.expiration), "ok")

CatInit ==
    \/ \E c \in DirCases : CatBegin("members", c, <<>>, "running")
    \/ \E c \in CsiCases : CatBegin("catalog", c, <<>>, "running")
    \/ \E c \in DateCases : CatDate(c)

CatNext == read_directory_block \/ start_list_data_sets \/ ZDSCSI00 \/ zds_list_data_sets \/ resume_list_data_sets

CatSpec == CatInit /\ [][CatNext]_catVars

-----------------------------------------------------------------------------
(* Properties                                                              *)

AllPages(c) == SelectSeq(FlattenSeq(c.pages), LAMBDA e : e.type # "catalog")
Names(s) == [i \in DOMAIN s |-> s[i].name]
Firsts(s, n) == SubSeq(s, 1, IF Len(s) < n THEN Len(s) ELSE n)

\* The listing of members that ends is the members of the directory that the
\* pattern means, in order: all of them, or as many as allowed and then only if
\* there were more.  Entries after the end marker or outside the used bytes of a
\* block are never listed (zds_list_members, is_match).
MembersListed ==
    ls.kind = "members" /\ ls.rc \notin {"running", "failure"} =>
        LET c == ls.case
            live(b) == SubSeq(b.entries, 1, Reached(b))
            all == SelectSeq(FlattenSeq([i \in DOMAIN c.blocks |-> live(c.blocks[i])]),
                             LAMBDA e : c.pattern = <<>> \/ Matches(e.name, c.pattern))
        IN  /\ Names(ls.out) = Names(Firsts(all, c.max))
            /\ (ls.rc = "maxed") = (Len(all) > c.max)

\* A catalog listing that succeeds has every entry of every page the search
\* interface gave, in order; one that is cut off has exactly as many as allowed.
\* Whatever the end, the work area is freed and IGGCSI00 deleted.
CatalogListed ==
    ls.kind = "catalog" /\ ls.rc # "running" =>
        /\ ~ls.area /\ ~ls.csi
        /\ ls.rc \in {"ok", "not found"} => Names(ls.out) = Names(AllPages(ls.case))
        /\ ls.rc = "maxed" => /\ Len(ls.out) = ls.case.max
                              /\ Names(ls.out) = Names(Firsts(AllPages(ls.case), ls.case.max))

\* The space figures of a listed data set agree: no more extents in use than
\* the last used track needs, a percentage, and nothing known of a migrated one.
SpaceAgrees ==
    ls.kind = "catalog" /\ ls.case.attributes =>
        \A i \in DOMAIN ls.out :
            LET e == CHOOSE x \in ToSet(AllPages(ls.case)) : x.name = ls.out[i].name
                a == ls.out[i].at.attrs
                before(n) == SumOver(calculate_extent_tracks, SubSeq(e.dscb.exnts, 1, n))
            IN  /\ a.usedp \in -1..100
                /\ a.usedx > 1 => before(a.usedx - 1) <= e.dscb.lstar
                /\ ls.out[i].at.migrated => a.alloc = -1 /\ a.usedp = -1

\* A DSCB date is the day of the year it stands for, except the last day of
\* February in a leap year, which comes out as March 0 (load_date_from_dscb).
DatesAreDays ==
    ls.kind = "date" /\ ls.out # <<>> =>
        LET c == ls.case
            long == [i \in 1..12 |-> IF i = 2 /\ IsLeap(c.year) THEN 29 ELSE DaysInMonth[i]]
            m == ls.out[2]
        IN  \/ IsLeap(c.year) /\ c.day = 60
            \/ /\ ls.out[3] \in 1..long[m]
               /\ SumOver(LAMBDA n : n, SubSeq(long, 1, m - 1)) + ls.out[3] = c.day

\* What the listings say is so: members, catalog entries, space and dates.
ListingsHonest == MembersListed /\ CatalogListed /\ SpaceAgrees /\ DatesAreDays
=============================================================================
