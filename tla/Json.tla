-------------------------------- MODULE Json --------------------------------
(***************************************************************************)
(* JSON: the Value type and its conversions, structs described by fields,  *)
(* the parser and the serializer (zjson.hpp) over the z/OS JSON parser's   *)
(* instances and the 31-bit storage their wrappers obtain (zjsonm.c), and  *)
(* the --json result envelope (json_output.cpp).                           *)
(*                                                                         *)
(* The z/OS parser (HWTJ) is external: a text is the tree of entries it    *)
(* parses to, with strings as they stand in the text, and any service may  *)
(* fail.  A string is a sequence of characters out of a small set; a       *)
(* double is a number of halves, or Infinity.  Integer limits are           *)
(* constants, scaled down from 2^31, 2^32 and 2^63.                        *)
(***************************************************************************)
EXTENDS Integers, Sequences, SequencesExt

CONSTANTS
  IntMax, UintMax, LLMax,  \* limits of int, unsigned int and long long
  PlainMax,                \* whole doubles up to this print without an exponent
  MAX_JSON_DEPTH,
  MAX_PAYLOAD_BYTES,
  JsJobs,                  \* what the process does with JSON, one job at a time
  MaxJobs                  \* bound: jobs of one process

ASSUME JsonLimits ==
  /\ 0 < IntMax /\ IntMax < UintMax /\ UintMax < PlainMax /\ PlainMax < LLMax /\ LLMax < 100
  /\ MAX_JSON_DEPTH \in Nat /\ MAX_PAYLOAD_BYTES \in Nat /\ MaxJobs \in Nat

VARIABLE js

Err == [t |-> "error"]

-----------------------------------------------------------------------------
(* Values.                                                                 *)

JNull == [t |-> "null"]
JNone == [t |-> "none"]   \* no Value at all
JBool(b) == [t |-> "bool", v |-> b]
JInt(n) == [t |-> "int", v |-> n]
JDbl(h) == [t |-> "dbl", v |-> h]
JStr(s) == [t |-> "str", v |-> s]
JArr(s) == [t |-> "arr", v |-> s]
JObj(f) == [t |-> "obj", v |-> f]

Infinity == 1000   \* halves: stands for every double that is not finite
Finite(v) == v.v # Infinity

\* The limit of long long as a double is the next power of two: the comparison lets
\* that value through, and the cast of it is undefined.
as_int64(v) ==
  CASE v.t = "int" -> {v}
    [] v.t = "dbl" ->
         IF ~Finite(v) THEN {Err}
         ELSE IF v.v % 2 # 0 \/ v.v > 2 * (LLMax + 1) \/ v.v < -2 * (LLMax + 1) THEN {Err}
         ELSE IF v.v = 2 * (LLMax + 1) THEN {JInt(LLMax), JInt(-LLMax - 1)}
         ELSE {JInt(v.v \div 2)}
    [] OTHER -> {Err}

as_uint64(v) ==
  CASE v.t = "int" -> IF v.v < 0 THEN {Err} ELSE {v}
    [] v.t = "dbl" ->
         IF ~Finite(v) THEN {Err}
         ELSE IF v.v < 0 \/ v.v % 2 # 0 \/ v.v > 4 * (LLMax + 1) THEN {Err}
         ELSE IF v.v = 4 * (LLMax + 1) THEN {JInt(0), JInt(2 * LLMax + 1)}
         ELSE {JInt(v.v \div 2)}
    [] OTHER -> {Err}

as_double(v) ==
  CASE v.t = "dbl" -> IF Finite(v) THEN v ELSE Err
    [] v.t = "int" -> JDbl(2 * v.v)
    [] OTHER -> Err

-----------------------------------------------------------------------------
(* Strings.  Characters: "q" is the quote, "bs" the backslash, "nl" a      *)
(* control character with an escape of its own, "ctl" one without; the     *)
(* others stand for themselves.                                            *)

NamedEscape == [q |-> "q", bs |-> "bs", nl |-> "n"]
Control == {"nl", "ctl"}
Replacement == <<"bs", "u", "f", "f", "f", "d">>

\* Mutant: the backslash itself is not escaped.
EscapeAllButBackslash(s) ==
  FlattenSeq([i \in DOMAIN s |->
    IF s[i] \in DOMAIN NamedEscape \ {"bs"} THEN <<"bs", NamedEscape[s[i]]>>
    ELSE IF s[i] \in Control THEN Replacement
    ELSE <<s[i]>>])

escape_json_string(s) ==
  FlattenSeq([i \in DOMAIN s |->
    IF s[i] \in DOMAIN NamedEscape THEN <<"bs", NamedEscape[s[i]]>>
    ELSE IF s[i] \in Control THEN Replacement
    ELSE <<s[i]>>])

HexValue == [c \in {"0", "1", "5", "a", "d", "f"} |->
               CASE c = "0" -> 0 [] c = "1" -> 1 [] c = "5" -> 5
                 [] c = "a" -> 10 [] c = "d" -> 13 [] c = "f" -> 15]
\* The native byte of a code point below 256, and which of them are controls.
NativeByte == [n \in 0..255 |-> IF n < 64 THEN "ctl" ELSE "a"]

\* What one escape at the start of s yields: characters consumed, characters added.
Unescape(s) ==
  LET c == s[2]
      hex == SubSeq(s, 3, 6)
      value == LET Shift(n, d) == n * 16 + HexValue[d] IN FoldLeft(Shift, 0, hex)
  IN CASE c \in {"q", "bs", "slash"} -> [n |-> 2, add |-> <<c>>]
       [] c = "n" -> [n |-> 2, add |-> <<"nl">>]
       [] c = "u" /\ Len(s) < 6 -> [n |-> 2, add |-> <<"bs", "u">>]
       [] c = "u" /\ Len(s) >= 6 ->
            IF \E i \in DOMAIN hex : hex[i] \notin DOMAIN HexValue THEN [n |-> 0, add |-> <<>>]
            ELSE IF value >= 256 \/ NativeByte[value] = "ctl" THEN [n |-> 0, add |-> <<>>]
            ELSE [n |-> 6, add |-> <<NativeByte[value]>>]
       [] OTHER -> [n |-> 2, add |-> <<"bs", c>>]

RECURSIVE unescape_json_string(_)
unescape_json_string(s) ==
  IF s = <<>> THEN JStr(<<>>)
  ELSE LET step == IF s[1] = "bs" /\ Len(s) > 1 THEN Unescape(s)
                   ELSE [n |-> 1, add |-> <<s[1]>>]
       IN IF step.n = 0 THEN Err
          ELSE LET rest == unescape_json_string(SubSeq(s, step.n + 1, Len(s)))
               IN IF rest = Err THEN Err ELSE JStr(step.add \o rest.v)

-----------------------------------------------------------------------------
(* Entries of the parser: <<"num", kind, n>> with n in halves, strings raw. *)

Entry(t, v) == [t |-> t, v |-> v]
IntText(n) == Entry("num", [kind |-> "int", n |-> 2 * n])
RealText(h) == Entry("num", [kind |-> "real", n |-> h])

\* strtoll returns the nearest limit when the digits say more.
strtoll(n) == IF n > LLMax THEN LLMax ELSE IF n < -LLMax - 1 THEN -LLMax - 1 ELSE n

NoErr(vs) == \A i \in DOMAIN vs : vs[i] # Err

\* The object of entries <<name, value>>: a name that comes twice keeps the last value.
ObjectOf(es) ==
  [k \in {es[i][1] : i \in DOMAIN es} |->
     es[CHOOSE i \in DOMAIN es : es[i][1] = k /\ \A m \in DOMAIN es : es[m][1] = k => m <= i][2]]

\* A failed read of any entry, a number that is none, a refused escape and too deep a
\* nesting all fail the whole conversion.
RECURSIVE json_handle_to_value(_, _)
json_handle_to_value(e, depth) ==
  IF depth >= MAX_JSON_DEPTH THEN Err
  ELSE CASE e.t = "null" -> JNull
         [] e.t = "bool" -> JBool(e.v)
         [] e.t = "num" -> IF e.v.kind = "int" THEN JInt(strtoll(e.v.n \div 2)) ELSE JDbl(e.v.n)
         [] e.t = "str" -> unescape_json_string(e.v)
         [] e.t = "arr" ->
              LET vs == [i \in DOMAIN e.v |-> json_handle_to_value(e.v[i], depth + 1)]
              IN IF NoErr(vs) THEN JArr(vs) ELSE Err
         [] e.t = "obj" ->
              LET vs == [i \in DOMAIN e.v |-> json_handle_to_value(e.v[i][2], depth + 1)]
              IN IF NoErr(vs) THEN JObj(ObjectOf([i \in DOMAIN vs |-> <<e.v[i][1], vs[i]>>]))
                 ELSE Err
         [] OTHER -> Err

\* An object's names in the order of std::map.
KeysOf(f) == SetToSeq(DOMAIN f)

\* A whole double prints as an integer does; past PlainMax it has an exponent.
NumberText(v) ==
  IF v.t = "int" THEN IntText(v.v)
  ELSE IF v.v % 2 = 0 /\ v.v <= 2 * PlainMax /\ v.v >= -2 * PlainMax THEN IntText(v.v \div 2)
  ELSE RealText(v.v)

\* The entry value_to_json_instance creates for a value; an entry of an object needs a
\* name, and a number that is not finite throws.
RECURSIVE value_to_json_instance(_)
value_to_json_instance(v) ==
  CASE v.t = "null" -> Entry("null", <<>>)
    [] v.t = "bool" -> Entry("bool", v.v)
    [] v.t \in {"int", "dbl"} -> IF v.t = "int" \/ as_double(v) # Err THEN NumberText(v) ELSE Err
    [] v.t = "str" -> Entry("str", escape_json_string(v.v))
    [] v.t = "arr" ->
         LET es == [i \in DOMAIN v.v |-> value_to_json_instance(v.v[i])]
         IN IF NoErr(es) THEN Entry("arr", es) ELSE Err
    [] v.t = "obj" ->
         LET ks == KeysOf(v.v)
             es == [i \in DOMAIN ks |-> value_to_json_instance(v.v[ks[i]])]
         IN IF NoErr(es) THEN Entry("obj", [i \in DOMAIN ks |-> <<ks[i], es[i]>>]) ELSE Err

-----------------------------------------------------------------------------
(* Structs: a type is a basic type's name or [t |-> "opt"/"vec", of].      *)

RECURSIVE Serializable(_, _)
Serializable(type, x) ==
  CASE type.t = "bool" -> JBool(x)
    [] type.t \in {"int", "uint"} -> JInt(x)
    [] type.t = "str" -> JStr(x)
    [] type.t = "opt" -> IF x = <<>> THEN JNull ELSE Serializable(type.of, x[1])
    [] type.t = "vec" -> JArr([i \in DOMAIN x |-> Serializable(type.of, x[i])])

InRange(vs, lo, hi) == {IF r # Err /\ lo <= r.v /\ r.v <= hi THEN [ok |-> TRUE, v |-> r.v]
                        ELSE [ok |-> FALSE, v |-> 0] : r \in vs}

\* The results deserializing may have (a cast may be undefined, hence a set).
RECURSIVE Deserializable(_, _)
Deserializable(type, v) ==
  LET no == {[ok |-> FALSE, v |-> 0]}
  IN CASE type.t \in {"bool", "str"} -> IF v.t = type.t THEN {[ok |-> TRUE, v |-> v.v]} ELSE no
       [] type.t = "int" -> InRange(as_int64(v), -IntMax - 1, IntMax)
       [] type.t = "uint" -> InRange(as_uint64(v), 0, UintMax)
       [] type.t = "opt" ->
            IF v.t = "null" THEN {[ok |-> TRUE, v |-> <<>>]}
            ELSE {IF r.ok THEN [ok |-> TRUE, v |-> <<r.v>>] ELSE r : r \in Deserializable(type.of, v)}
       [] type.t = "vec" ->
            IF v.t # "arr" THEN no
            ELSE LET each == [i \in DOMAIN v.v |-> CHOOSE r \in Deserializable(type.of, v.v[i]) : TRUE]
                 IN IF \A i \in DOMAIN each : each[i].ok
                    THEN {[ok |-> TRUE, v |-> [i \in DOMAIN each |-> each[i].v]]} ELSE no

\* A field: [name, type, skip, none] - skipped both ways, or left out when it has no value.
serialize_field(f, x) ==
  IF f.skip \/ (f.type.t = "opt" /\ x = <<>> /\ f.none) THEN <<>>
  ELSE << <<f.name, Serializable(f.type, x)>> >>

serialize_fields(fields, obj) ==
  JObj(ObjectOf(FlattenSeq([i \in DOMAIN fields |-> serialize_field(fields[i], obj[fields[i].name])])))

\* A skipped field keeps its initial value, an absent one is an error unless optional.
deserialize_field(f, object) ==
  IF f.skip THEN {[ok |-> TRUE, v |-> f.init]}
  ELSE IF f.name \in DOMAIN object THEN Deserializable(f.type, object[f.name])
  ELSE IF f.type.t = "opt" THEN {[ok |-> TRUE, v |-> <<>>]}
  ELSE {[ok |-> FALSE, v |-> 0]}

validate_no_unknown_fields(fields, object) ==
  \A k \in DOMAIN object : \E i \in DOMAIN fields : fields[i].name = k

deserialize_fields(fields, deny, v) ==
  IF v.t # "obj" THEN Err
  ELSE LET each == [i \in DOMAIN fields |-> CHOOSE r \in deserialize_field(fields[i], v.v) : TRUE]
       IN IF (\E i \in DOMAIN each : ~each[i].ok)
             \/ (deny /\ ~validate_no_unknown_fields(fields, v.v))
          THEN Err
          ELSE [t |-> "struct",
                v |-> [k \in {fields[i].name : i \in DOMAIN fields} |->
                         each[CHOOSE i \in DOMAIN fields : fields[i].name = k].v]]

-----------------------------------------------------------------------------
(* The envelope of a command run with --json:                              *)
(* [out, payload, data, exit, err, message]; data is a Value or JNone.     *)

\* zbase64::encode, by what matters here: safe characters, and no two alike.
Base64 == [c \in {"a", "q", "bs", "nl", "ctl", "n"} |->
             CASE c = "a" -> "B" [] c = "q" -> "C" [] c = "bs" -> "D"
               [] c = "nl" -> "E" [] c = "ctl" -> "F" [] c = "n" -> "G"]

is_json_safe_text(s) == \A i \in DOMAIN s : s[i] = "nl" \/ s[i] \notin Control

\* The handler's result as an object; anything else is nested under "value".
build_data(env) ==
  IF env.data = JNone THEN JObj(<<>>)
  ELSE IF env.data.t = "obj" THEN env.data
  ELSE JObj([k \in {"value"} |-> env.data])

resolve_payload(env) ==
  LET fields == DOMAIN build_data(env).v
      kept == SubSeq(env.out, 1, IF Len(env.out) > MAX_PAYLOAD_BYTES THEN MAX_PAYLOAD_BYTES
                                 ELSE Len(env.out))
      none == [present |-> FALSE, text |-> <<>>, encoded |-> FALSE, truncated |-> FALSE]
  IN IF env.out = <<>> \/ "data" \in fields \/ (~env.payload /\ fields # {}) THEN none
     ELSE [present |-> TRUE, encoded |-> ~is_json_safe_text(kept),
           text |-> IF is_json_safe_text(kept) THEN kept ELSE [i \in DOMAIN kept |-> Base64[kept[i]]],
           truncated |-> Len(env.out) > MAX_PAYLOAD_BYTES]

diagnostics(env) == IF env.err = <<>> THEN env.message ELSE env.err

Put(f, k, v) == [x \in DOMAIN f \cup {k} |-> IF x = k THEN v ELSE f[x]]

EnvelopeValue(env) ==
  LET p == resolve_payload(env)
      data == IF p.present THEN JObj(Put(build_data(env).v, "data", JStr(p.text)))
              ELSE build_data(env)
      base == [k \in {"success", "exitCode", "data", "stderr"} |->
                 CASE k = "success" -> JBool(env.exit = 0)
                   [] k = "exitCode" -> JInt(env.exit)
                   [] k = "data" -> data
                   [] k = "stderr" -> JStr(diagnostics(env))]
      coded == IF p.encoded THEN Put(base, "encoding", JStr(<<"b64">>)) ELSE base
  IN JObj(IF p.truncated THEN Put(coded, "truncated", JBool(TRUE)) ELSE coded)

\* The hand-built envelope.
fallback(env) ==
  Entry("obj", << <<"success", Entry("bool", env.exit = 0)>>,
                  <<"exitCode", IntText(env.exit)>>, <<"data", Entry("obj", <<>>)>>,
                  <<"stderr", Entry("str", <<>>)>>,
                  <<"jsonError", Entry("str", <<"a">>)>> >>)

-----------------------------------------------------------------------------
(* The process: one job after another.  A job parses a text, or writes a   *)
(* value, a struct or an envelope and (the first two) reads it back.       *)

Malformed == [t |-> "malformed"]

JsInit ==
  js = [pc |-> "idle", job |-> [kind |-> "none"], n |-> 0, live |-> 0, blocks |-> 0, base |-> 0,
        json |-> FALSE, val |-> JNull, doc |-> Malformed, res |-> Err, failed |-> FALSE]

JsStart ==
  /\ js.pc = "idle" /\ js.n < MaxJobs
  /\ \E j \in JsJobs :
       js' = [js EXCEPT !.pc = IF j.kind = "text" THEN "parse_init" ELSE "write_init",
                        !.job = j, !.base = js.live, !.failed = FALSE, !.json = FALSE,
                        !.doc = IF j.kind = "text" THEN j.doc ELSE Malformed,
                        !.val = CASE j.kind = "value" -> j.v
                                  [] j.kind = "struct" -> serialize_fields(j.fields, j.obj)
                                  [] j.kind = "envelope" -> EnvelopeValue(j.env)
                                  [] OTHER -> JNull]

\* The job ends with an error: of an envelope, the hand-built one is left.
JsFail(s) == [s EXCEPT !.pc = "done", !.res = Err,
                       !.doc = IF s.job.kind = "envelope" THEN fallback(s.job.env) ELSE @]

\* The wrapper saves the text's address in the caller's instance and then copies the
\* instance it saved before over it: the address is lost.
ZJSMPARS(s) == [s EXCEPT !.blocks = @ + 1, !.json = FALSE]

ZJSMTERM(s) == [s EXCEPT !.live = @ - 1, !.blocks = IF s.json THEN @ - 1 ELSE @, !.json = FALSE]

\* Any service may fail; the wrappers return its code.
ZJSMINIT ==
  /\ js.pc \in {"write_init", "parse_init"}
  /\ \/ js' = [js EXCEPT !.live = @ + 1, !.pc = IF @ = "write_init" THEN "write" ELSE "parse"]
     \/ js' = JsFail([js EXCEPT !.failed = TRUE])

\* value_to_json_string up to the serialized text: an empty container is parsed, then
\* entries are added to it.  A failed service terminates the instance; an Error thrown
\* on the way (a primitive root, a number that is not finite) goes up without that.
value_to_json_string ==
  LET container == ZJSMPARS(js)
      e == value_to_json_instance(js.val)
  IN /\ js.pc = "write"
     /\ \/ /\ js.val.t \notin {"obj", "arr"}
           /\ js' = JsFail(js)
        \/ /\ js.val.t \in {"obj", "arr"}
           /\ \/ e = Err /\ js' = JsFail(container)
              \/ e # Err /\ js' = [container EXCEPT !.doc = e, !.pc = "serialize"]
              \/ js' = JsFail(ZJSMTERM([container EXCEPT !.failed = TRUE]))

\* A buffer of one byte first, then one of the length that call reported.
ZJSMSERI ==
  /\ js.pc = "serialize"
  /\ \/ js' = [ZJSMTERM(js) EXCEPT !.pc = IF js.job.kind = "envelope" THEN "done" ELSE "parse_init"]
     \/ js' = JsFail(ZJSMTERM([js EXCEPT !.failed = TRUE]))

\* The parsed value as the type the caller asked for: a Value, or a struct.
from_value(j, v) == IF j.kind = "struct" THEN deserialize_fields(j.fields, j.deny, v) ELSE v

\* from_str: parse, convert, terminate, and give the value its type.
from_str ==
  LET parsed == ZJSMPARS(js)
      v == json_handle_to_value(js.doc, 0)
  IN /\ js.pc = "parse"
     /\ \/ /\ js.doc # Malformed /\ v # Err
           /\ js' = [ZJSMTERM(parsed) EXCEPT !.pc = "done", !.res = from_value(js.job, v)]
        \/ /\ js.doc = Malformed \/ v = Err
           /\ js' = JsFail(ZJSMTERM(parsed))
        \/ js' = JsFail(ZJSMTERM([parsed EXCEPT !.failed = TRUE]))

JsDone == js.pc = "done" /\ js' = [js EXCEPT !.pc = "idle", !.n = @ + 1]

JsNext == JsStart \/ ZJSMINIT \/ value_to_json_string \/ ZJSMSERI \/ from_str \/ JsDone

-----------------------------------------------------------------------------
(* Properties.                                                             *)

\* The same value, whether a number is kept as an integer or as a double.
RECURSIVE SameValue(_, _)
SameValue(v, w) ==
  CASE v.t \in {"int", "dbl"} /\ w.t \in {"int", "dbl"} -> as_double(v) = as_double(w)
    [] v.t = "arr" /\ w.t = "arr" ->
         DOMAIN v.v = DOMAIN w.v /\ \A i \in DOMAIN v.v : SameValue(v.v[i], w.v[i])
    [] v.t = "obj" /\ w.t = "obj" ->
         DOMAIN v.v = DOMAIN w.v /\ \A i \in DOMAIN v.v : SameValue(v.v[i], w.v[i])
    [] OTHER -> v = w

RECURSIVE Plainly(_, _)
Plainly(v, depth) ==   \* nothing in v that JSON or the nesting limit cannot carry
  /\ depth < MAX_JSON_DEPTH
  /\ CASE v.t = "dbl" -> Finite(v)
       [] v.t = "str" -> is_json_safe_text(v.v)
       [] v.t \in {"arr", "obj"} -> \A i \in DOMAIN v.v : Plainly(v.v[i], depth + 1)
       [] OTHER -> TRUE

\* What is written as JSON reads back the same: a value, or a struct through its fields.
\* It is an error, never another value, when a service failed or JSON cannot carry it
\* (zjson.hpp:1256-1395, 1732-1829, 2183-2290).
RoundTrip ==
  js.pc = "done" /\ js.job.kind \in {"value", "struct"} =>
    /\ js.res = Err =>
         js.failed \/ ~Plainly(js.val, 0) \/ js.val.t \notin {"arr", "obj"}
    /\ js.res # Err =>
         IF js.job.kind = "value" THEN SameValue(js.res, js.val)
         ELSE \A i \in DOMAIN js.job.fields :
                LET f == js.job.fields[i]
                IN js.res.v[f.name] = IF f.skip THEN f.init ELSE js.job.obj[f.name]

\* What a client's JSON reader makes of the text of a string (it knows U+FFFD).
RECURSIVE ClientReads(_)
ClientReads(raw) ==
  IF raw = <<>> THEN <<>>
  ELSE LET step == IF raw[1] # "bs" THEN [n |-> 1, add |-> <<raw[1]>>]
                   ELSE IF IsPrefix(Replacement, raw) THEN [n |-> 6, add |-> <<"U+FFFD">>]
                   ELSE Unescape(raw)
       IN step.add \o ClientReads(SubSeq(raw, step.n + 1, Len(raw)))

EntriesOf(e) == ObjectOf(e.v)

\* What a reader of the envelope recovers of a handler's output is that output, cut
\* only where the envelope says so; it is missing only where the handler's own fields
\* stand for it or the envelope reports a JSON error (json_output.cpp:41-135, 215-253).
JsonKeepsPayload ==
  js.pc = "done" /\ js.job.kind = "envelope" =>
    LET env == js.job.env
        root == EntriesOf(js.doc)
        has(k) == k \in DOMAIN root
        text == ClientReads(EntriesOf(root["data"])["data"].v)
        decoded == IF has("encoding")
                   THEN [i \in DOMAIN text |-> CHOOSE c \in DOMAIN Base64 : Base64[c] = text[i]]
                   ELSE text
    IN \/ has("jsonError") \/ env.out = <<>>
       \/ ~env.payload /\ build_data(env).v # <<>>
       \/ "data" \in DOMAIN build_data(env).v
       \/ IF has("truncated") THEN IsStrictPrefix(decoded, env.out) ELSE decoded = env.out

\* Every way out of from_str, and every way a failed service takes out of the
\* serializer, terminates the parser instance (zjson.hpp:1594-1633, 1832-1959).
InstancesClosed ==
  js.pc = "done" /\ js.live # js.base =>
    /\ js.job.kind # "text" /\ ~js.failed
    /\ js.val.t \notin {"arr", "obj"} \/ value_to_json_instance(js.val) = Err

\* JSON carries what the program put in it, both ways, and leaves no parser
\* instance open (zjson.hpp, json_output.cpp).
JsonFaithful == RoundTrip /\ JsonKeepsPayload /\ InstancesClosed
=============================================================================
