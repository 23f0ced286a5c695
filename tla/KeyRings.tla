------------------------------ MODULE KeyRings ------------------------------
(***************************************************************************)
(* Key rings and certificates (zkr.cpp, commands/certificates.cpp): every  *)
(* operation is one or several calls of the R_datalib service, which other *)
(* tasks call too.  Listing, showing, connecting and setting the default   *)
(* enumerate a ring one certificate a call; connecting then puts back what *)
(* it read.  The security manager (ESM) answers 0, a warning (SAF 4 with a *)
(* reason) or a failure (SAF 8).  A certificate is what its bytes say (its *)
(* number here); its label and trust are the database's.                   *)
(***************************************************************************)
EXTENDS Naturals, FiniteSets, Sequences

CONSTANTS Certs,        \* certificates, a set of numbers (enumeration order)
          Labels,       \* labels; "" means none was given
          Rings,        \* names of real key rings
          Virtual,      \* the ring name "*": all certificates of the owner
          KrTasks, KrJobs,
          RingsFit,     \* rings the buffer of GetRingInfo holds
          KrNone

(* A negative --max-entries is refused before anything is read             *)
(* (certificates.cpp:125); a key ring database is finite.                  *)
ASSUME KrAssumption ==
  /\ Certs \subseteq Nat /\ IsFiniteSet(Certs)
  /\ \A j \in KrJobs : j.max \in Nat

VARIABLES esm,          \* database, rings and whether DIGTCERT must be refreshed
          kr            \* task -> the operation it is running

krVars == <<esm, kr>>

Usages == {"PERSONAL", "CERTAUTH"}
Reasons == {"ok", "notrust", "refresh", "exists", "existsRefresh", "partly", "fail"}

KrIdle == [job |-> KrNone, pc |-> "idle", left |-> <<>>, read |-> <<>>, got |-> <<>>, more |-> FALSE,
           handle |-> FALSE, put |-> KrNone, rc |-> 0, warning |-> FALSE, needs |-> FALSE]

KrInit ==
  /\ esm = [db |-> [c \in Certs |-> IF c = 1 THEN [label |-> "A", status |-> "TRUST"] ELSE KrNone],
            rings |-> [r \in Rings |-> [c \in Certs |-> IF c = 1 THEN "PERSONAL" ELSE KrNone]],
            default |-> [r \in Rings |-> KrNone]]
  /\ kr = [t \in KrTasks |-> KrIdle]

-----------------------------------------------------------------------------
(* R_datalib (external), by the outcomes the code tells apart.             *)

InDb(c) == esm.db[c] # KrNone

OnRing(r) == {c \in Certs : IF r = Virtual THEN InDb(c)
                            ELSE r \in Rings /\ esm.rings[r] # KrNone /\ esm.rings[r][c] # KrNone}

Connect(e, r, c, usage, def) ==
  [e EXCEPT !.rings[r][c] = usage,
            !.default[r] = IF def THEN c ELSE IF @ = c THEN KrNone ELSE @]

(* DataPut: connects a certificate to a ring, adding it to the database    *)
(* when it is not there; a label in use or a ring that is not refuses it.  *)
DataPut(r, c, label, usage, def) ==
  IF r \notin Rings \/ esm.rings[r] = KrNone
     \/ (~ InDb(c) /\ \E d \in Certs : InDb(d) /\ esm.db[d].label = label)
  THEN {<<"fail", esm>>}
  ELSE LET known == Connect(esm, r, c, usage, def)
           added == [known EXCEPT !.db[c] = [label |-> label, status |-> "TRUST"]]
       IN  IF InDb(c) THEN {"ok", "exists", "existsRefresh"} \X {known}
                      ELSE {"ok", "notrust", "refresh"} \X {added}

(* DataRemove: from one ring, or with "*" from all of them and the database.*)
DataRemove(r, label) ==
  LET hit == {c \in OnRing(r) : InDb(c) /\ esm.db[c].label = label}
      gone(c) == [esm EXCEPT !.db = [@ EXCEPT ![c] = KrNone],
                             !.rings = [q \in Rings |-> IF @[q] = KrNone THEN KrNone
                                                        ELSE [@[q] EXCEPT ![c] = KrNone]]]
      off(c) == [esm EXCEPT !.rings[r][c] = KrNone]
  IN  IF hit = {} THEN {<<"fail", esm>>}
      ELSE {"ok", "refresh", "partly"} \X
           {IF r = Virtual THEN gone(c) ELSE off(c) : c \in hit}

-----------------------------------------------------------------------------
(* Helpers of zkr.cpp.                                                     *)

(* saf_failed: only SAF 8 and above fail; a warning is a success.          *)
saf_failed(reason) == reason = "fail"

Refreshing(reason) == reason \in {"refresh", "existsRefresh"}

record_saf_error(r) == [r EXCEPT !.pc = "end", !.rc = 8]

(* note_saf_warning: the answer stays a success and says what is left over.*)
note_saf_warning(r) == [r EXCEPT !.warning = TRUE]

Succeed(r) == [r EXCEPT !.pc = "end", !.rc = 0]

KrSet(t, new) == kr' = [kr EXCEPT ![t] = new]

(* simple_action: one ring-scoped call without parameters of its own.      *)
simple_action(t, after) ==
  \/ /\ esm' = after
     /\ \E w \in BOOLEAN : KrSet(t, Succeed([kr[t] EXCEPT !.warning = w]))
  \/ KrSet(t, record_saf_error(kr[t])) /\ UNCHANGED esm

zkr_new_ring(t) ==
  /\ esm.rings[kr[t].job.ring] = KrNone
  /\ simple_action(t, [esm EXCEPT !.rings[kr[t].job.ring] = [c \in Certs |-> KrNone]])

zkr_del_ring(t) ==
  /\ esm.rings[kr[t].job.ring] # KrNone
  /\ simple_action(t, [esm EXCEPT !.rings[kr[t].job.ring] = KrNone,
                                  !.default[kr[t].job.ring] = KrNone])

zkr_refresh(t) == simple_action(t, esm)

(* Mutant: a refresh that failed is not mentioned.                         *)
RefreshUnchecked(r) == {[r EXCEPT !.needs = FALSE], r}

(* The automatic refresh after a change: it works, or its failure becomes  *)
(* a warning of the change that did succeed.                               *)
AutoRefresh(r) == {[r EXCEPT !.needs = FALSE], note_saf_warning(r)}

(* zkr_del_cert: refreshed on request of the ESM unless told to skip it.   *)
zkr_del_cert(t) ==
  LET j == kr[t].job
      target == IF j.database THEN Virtual ELSE j.ring
  IN  \E out \in DataRemove(target, j.label) :
        /\ esm' = out[2]
        /\ LET r == [kr[t] EXCEPT !.needs = Refreshing(out[1])] IN
           \/ saf_failed(out[1]) /\ KrSet(t, record_saf_error(r))
           \/ /\ Refreshing(out[1]) /\ ~ j.skip
              /\ \E q \in AutoRefresh(r) : KrSet(t, Succeed(q))
           \/ /\ Refreshing(out[1]) /\ j.skip
              /\ KrSet(t, Succeed(note_saf_warning(r)))
           \/ out[1] = "partly" /\ KrSet(t, Succeed(note_saf_warning(r)))
           \/ out[1] = "ok" /\ KrSet(t, Succeed(r))

(* load_pkcs12_file and the System SSL decoding: no file, a bad password.  *)
load_pkcs12_file(j) == j.file

(* zkr_import_cert: a label and a usage, a readable file, then DataPut.    *)
zkr_import_cert(t) ==
  LET j == kr[t].job IN
  \/ KrSet(t, record_saf_error(kr[t])) /\ UNCHANGED esm
  \/ /\ j.usage \in Usages /\ load_pkcs12_file(j)
     /\ \E out \in DataPut(j.ring, j.cert, j.label, j.usage, FALSE) :
          /\ esm' = out[2]
          /\ LET r == [kr[t] EXCEPT !.needs = Refreshing(out[1])] IN
             \/ saf_failed(out[1]) /\ KrSet(t, record_saf_error(r))
             \/ /\ Refreshing(out[1]) /\ ~ j.skip
                /\ \E q \in AutoRefresh(r) :
                     KrSet(t, Succeed(IF out[1] = "existsRefresh" THEN note_saf_warning(q) ELSE q))
             \/ /\ ~ saf_failed(out[1]) /\ out[1] # "ok" /\ ~ (Refreshing(out[1]) /\ ~ j.skip)
                /\ KrSet(t, Succeed(note_saf_warning(r)))
             \/ out[1] = "ok" /\ KrSet(t, Succeed(r))

(* zkr_alter_cert: the trust and the label, by label; a warning asks for a *)
(* refresh, which this operation leaves to the user.                       *)
zkr_alter_cert(t) ==
  LET j == kr[t].job
      hit == {c \in Certs : InDb(c) /\ esm.db[c].label = j.label}
  IN  \/ KrSet(t, record_saf_error(kr[t])) /\ UNCHANGED esm
      \/ /\ (j.status # "") \/ (j.newLabel # "")
         /\ \E c \in hit, refresh \in BOOLEAN :
              /\ ~ \E d \in Certs : InDb(d) /\ esm.db[d].label = j.newLabel
              /\ esm' = [esm EXCEPT !.db[c] =
                           [label |-> IF j.newLabel = "" THEN j.label ELSE j.newLabel,
                            status |-> IF j.status = "" THEN @.status ELSE j.status]]
              /\ LET r == [kr[t] EXCEPT !.needs = refresh]
                 IN  KrSet(t, Succeed(IF refresh THEN note_saf_warning(r) ELSE r))

(* handle_list_rings: "*" filters nothing here.                            *)
handle_list_rings(j) == IF j.ring = Virtual THEN "" ELSE j.ring

(* zkr_list_rings: one call fills a fixed buffer with the owner's rings; a *)
(* buffer too small for all of them is a warning with a shortened list.    *)
zkr_list_rings(t) ==
  LET there == {r \in Rings : esm.rings[r] # KrNone /\ handle_list_rings(kr[t].job) \in {"", r}}
  IN  /\ UNCHANGED esm
      /\ \/ KrSet(t, record_saf_error(kr[t]))
         \/ \E shown \in SUBSET there :
              /\ Cardinality(shown) = IF Cardinality(there) > RingsFit
                                      THEN RingsFit ELSE Cardinality(there)
              /\ LET r == Succeed([kr[t] EXCEPT !.got = [q \in shown |-> Cardinality(OnRing(q))]])
                 IN  KrSet(t, IF shown = there THEN r ELSE note_saf_warning(r))

(* zkr_export_cert and its handler: the ring is opened, the certificate (or*)
(* with a password its key) encoded, the database closed; then the output  *)
(* file is written, which a PKCS#12 export needs.                          *)
zkr_export_cert(t) ==
  LET j == kr[t].job IN
  /\ UNCHANGED esm
  /\ \/ KrSet(t, record_saf_error(kr[t]))
     \/ /\ \E c \in OnRing(j.ring) : InDb(c) /\ esm.db[c].label = j.label
        /\ j.p12 => j.file
        /\ KrSet(t, Succeed(kr[t]))

-----------------------------------------------------------------------------
(* Enumerations.  The handle is opened by the first call and released by   *)
(* DataAbort on every way out of the loop.                                 *)

\* The numbers of S from the smallest to the largest.
Ordered(S) ==
  [i \in 1..Cardinality(S) |-> CHOOSE c \in S : Cardinality({d \in S : d <= c}) = i]

(* add_cert_item: what a listing keeps of a certificate.                   *)
add_cert_item(c, usage) == [cert |-> c, label |-> esm.db[c].label, usage |-> usage]

UsageOn(r, c) == IF r = Virtual THEN "PERSONAL" ELSE esm.rings[r][c]

RingOf(j) == IF j.op = "connect" THEN (IF j.database THEN Virtual ELSE j.from) ELSE j.ring

(* The first call: an empty ring ends the enumeration without a handle     *)
(* (an empty list, or a certificate that was not found).                   *)
GetFirst(t) ==
  LET r == RingOf(kr[t].job)
      found == Ordered({c \in OnRing(r) : InDb(c)})
      items == [i \in DOMAIN found |-> add_cert_item(found[i], UsageOn(r, found[i]))]
  IN  /\ kr[t].pc = "first"
      /\ UNCHANGED esm
      /\ \/ /\ found # <<>>
            /\ KrSet(t, [kr[t] EXCEPT !.pc = "next", !.handle = TRUE,
                                      !.left = items, !.read = items])
         \/ /\ found = <<>> /\ kr[t].job.op = "list"
            /\ KrSet(t, Succeed(kr[t]))
         \/ KrSet(t, record_saf_error(kr[t]))

(* A call failed in the middle: out of the loop, with an error.            *)
GetFails(t) ==
  /\ kr[t].pc = "next" /\ kr[t].left # <<>>
  /\ KrSet(t, [kr[t] EXCEPT !.pc = "abort", !.rc = 8])
  /\ UNCHANGED esm

Unfiltered(j) == j.label = "" /\ j.usage = ""

(* zkr_list_ring: collects until the cap, and one more to know of the rest.*)
zkr_list_ring(t) ==
  LET r == kr[t]
      cap == IF Unfiltered(r.job) THEN r.job.max ELSE 0
      full == cap # 0 /\ Len(r.got) >= cap
  IN  /\ r.pc = "next" /\ r.job.op = "list"
      /\ UNCHANGED esm
      /\ \/ r.left = <<>> /\ KrSet(t, [r EXCEPT !.pc = "abort"])
         \/ /\ r.left # <<>> /\ full
            /\ KrSet(t, [r EXCEPT !.pc = "abort", !.more = TRUE])
         \/ /\ r.left # <<>> /\ ~ full
            /\ KrSet(t, [r EXCEPT !.left = Tail(@), !.got = Append(@, Head(r.left))])

Matching(x, j) == (j.label = "" \/ x.label = j.label) /\ (j.usage = "" \/ x.usage = j.usage)

(* zkr_filter_certs: the matching entries up to the cap; the match that    *)
(* finds the cap full ends the loop.                                       *)
FilterNext(page, x, j) ==
  CASE page.more \/ ~ Matching(x, j) -> page
    [] ~ page.more /\ Matching(x, j) /\ j.max # 0 /\ Len(page.items) >= j.max ->
         [items |-> page.items, more |-> TRUE]
    [] OTHER -> [items |-> Append(page.items, x), more |-> FALSE]

zkr_filter_certs(certs, j) ==
  LET page[n \in 0..Len(certs)] ==
        IF n = 0 THEN [items |-> <<>>, more |-> FALSE] ELSE FilterNext(page[n - 1], certs[n], j)
  IN  page[Len(certs)]

(* handle_cert_list: the rows shown and whether the filter left some out.  *)
handle_cert_list(r) ==
  LET page == zkr_filter_certs(r.got, r.job)
  IN  [r EXCEPT !.got = page.items, !.more = IF Unfiltered(r.job) THEN @ ELSE page.more]

(* zkr_show_cert and fetch_cert_from_ring: until the label is met.         *)
zkr_show_cert(t) ==
  LET r == kr[t] IN
  /\ r.pc = "next" /\ r.job.op \in {"show", "connect", "setDefault"}
  /\ UNCHANGED esm
  /\ \/ r.left = <<>> /\ KrSet(t, [r EXCEPT !.pc = "abort", !.rc = 8])
     \/ /\ r.left # <<>> /\ Head(r.left).label = r.job.label
        /\ KrSet(t, [r EXCEPT !.pc = "abort", !.put = Head(r.left)])
     \/ /\ r.left # <<>> /\ Head(r.left).label # r.job.label
        /\ KrSet(t, [r EXCEPT !.left = Tail(@)])

(* DataAbort, then the answer: filtered for a listing, the second half of  *)
(* a connect for a certificate that was found.                             *)
DataAbort(t) ==
  LET r == [kr[t] EXCEPT !.handle = FALSE, !.left = <<>>]
  IN  /\ kr[t].pc = "abort"
      /\ UNCHANGED esm
      /\ \/ r.rc # 0 /\ KrSet(t, [r EXCEPT !.pc = "end"])
         \/ /\ r.rc = 0 /\ r.job.op = "list"
            /\ KrSet(t, Succeed(handle_cert_list(r)))
         \/ r.rc = 0 /\ r.job.op = "show" /\ KrSet(t, Succeed(r))
         \/ r.rc = 0 /\ r.job.op \in {"connect", "setDefault"} /\ KrSet(t, [r EXCEPT !.pc = "put"])

(* data_put_connect: puts the bytes read before back, with the usage and   *)
(* default flag wanted.                                                    *)
data_put_connect(t, usage, def) ==
  \E out \in DataPut(kr[t].job.ring, kr[t].put.cert, kr[t].job.label, usage, def) :
     /\ esm' = out[2]
     /\ LET r == [kr[t] EXCEPT !.needs = Refreshing(out[1])] IN
        \/ saf_failed(out[1]) /\ KrSet(t, record_saf_error(r))
        \/ out[1] = "ok" /\ KrSet(t, Succeed(r))
        \/ out[1] \notin {"ok", "fail"} /\ KrSet(t, Succeed(note_saf_warning(r)))

(* zkr_connect_cert: with the usage asked for, or the one it has.          *)
zkr_connect_cert(t) ==
  /\ kr[t].pc = "put" /\ kr[t].job.op = "connect"
  /\ LET asked == kr[t].job.usage IN
     data_put_connect(t, IF asked = "" THEN kr[t].put.usage ELSE asked, kr[t].job.default)

zkr_set_default(t) ==
  /\ kr[t].pc = "put" /\ kr[t].job.op = "setDefault"
  /\ data_put_connect(t, kr[t].put.usage, TRUE)

-----------------------------------------------------------------------------
(* The command handlers: what they refuse before any call.                 *)

(* reject_virtual_ring: "*" is no ring to create, delete or change.        *)
reject_virtual_ring(j) ==
  j.op \in {"create", "deleteRing", "import", "connect", "setDefault"} /\ j.ring = Virtual

handle_cert_delete(j) ==
  /\ j.label # ""
  /\ j.ring # Virtual
  /\ j.database = (j.ring = "")

handle_cert_connect(j) ==
  /\ j.label # ""
  /\ j.from # Virtual
  /\ j.database = (j.from = "")

handle_cert_import(j) == j.label # "" /\ j.usage # ""

(* cert trust wants a status, cert rename a new label.                     *)
handle_cert_trust(j) == j.label # "" /\ j.status # ""

handle_cert_rename(j) == j.label # "" /\ j.newLabel # ""

handle_cert_show(j) == j.label # ""

handle_cert_set_default(j) == j.label # ""

(* cert export: a key export needs a passphrase.                           *)
handle_cert_export(j) == j.label # "" /\ (j.p12 => j.password)

Accepted(j) ==
  /\ ~ reject_virtual_ring(j)
  /\ j.op = "delete" => handle_cert_delete(j)
  /\ j.op = "connect" => handle_cert_connect(j)
  /\ j.op = "import" => handle_cert_import(j)
  /\ j.op = "alter" => handle_cert_trust(j) \/ handle_cert_rename(j)
  /\ j.op = "show" => handle_cert_show(j)
  /\ j.op = "setDefault" => handle_cert_set_default(j)
  /\ j.op = "export" => handle_cert_export(j)

handle_cert(t, j) ==
  /\ kr[t].pc = "idle"
  /\ UNCHANGED esm
  /\ KrSet(t, IF Accepted(j)
              THEN [kr[t] EXCEPT !.job = j,
                      !.pc = IF j.op \in {"list", "show", "connect", "setDefault"}
                             THEN "first" ELSE "call"]
              ELSE [record_saf_error(kr[t]) EXCEPT !.job = j])

Call(t, op) == kr[t].pc = "call" /\ kr[t].job.op = op

KrNext ==
  \E t \in KrTasks :
     \/ \E j \in KrJobs : handle_cert(t, j)
     \/ Call(t, "create") /\ zkr_new_ring(t)
     \/ Call(t, "deleteRing") /\ zkr_del_ring(t)
     \/ Call(t, "refresh") /\ zkr_refresh(t)
     \/ Call(t, "delete") /\ zkr_del_cert(t)
     \/ Call(t, "import") /\ zkr_import_cert(t)
     \/ Call(t, "alter") /\ zkr_alter_cert(t)
     \/ Call(t, "rings") /\ zkr_list_rings(t)
     \/ Call(t, "export") /\ zkr_export_cert(t)
     \/ GetFirst(t) \/ GetFails(t) \/ zkr_list_ring(t) \/ zkr_show_cert(t)
     \/ DataAbort(t) \/ zkr_connect_cert(t) \/ zkr_set_default(t)

KrSpec == KrInit /\ [][KrNext]_krVars

-----------------------------------------------------------------------------
(* An operation that succeeded although the class must still be refreshed  *)
(* for it to take effect says so, also when the automatic refresh failed   *)
(* or was skipped (zkr.cpp:407-428, 684-712).                              *)
StaleClassIsReported ==
  \A t \in KrTasks : kr[t].pc = "end" /\ kr[t].rc = 0 /\ kr[t].needs => kr[t].warning

(* An enumeration handle is held only inside the loop: every break of it,  *)
(* with an error or without, passes DataAbort (zkr.cpp:506).               *)
HandleReleased == \A t \in KrTasks : kr[t].pc \in {"end", "put"} => ~ kr[t].handle

(* A listing is the first page of the matches in the ring it read: the     *)
(* n-th match is its n-th row, and it announces more exactly when there    *)
(* are more, whether the cap was applied to the enumeration (no filter) or *)
(* to the matching rows (certificates.cpp:132-160).                        *)
PageIsHonest ==
  \A t \in KrTasks :
     LET j == kr[t].job
         read == kr[t].read
         got == kr[t].got
         rank(i) == Cardinality({k \in 1..i : /\ j.label \in {"", read[k].label}
                                             /\ j.usage \in {"", read[k].usage}})
         all == rank(Len(read))
     IN  kr[t].pc = "end" /\ kr[t].rc = 0 /\ j.op = "list" =>
           /\ kr[t].more = (j.max # 0 /\ all > j.max)
           /\ Len(got) = IF kr[t].more THEN j.max ELSE all
           /\ \A i \in DOMAIN read :
                j.label \in {"", read[i].label} /\ j.usage \in {"", read[i].usage} /\ rank(i) <= Len(got)
                  => got[rank(i)] = read[i]

(* What a key ring command says of its outcome holds.                      *)
KeyRingAnswersHonest == StaleClassIsReported /\ PageIsHonest
=============================================================================
