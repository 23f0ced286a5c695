---------------------------- MODULE CommandLine ----------------------------
(***************************************************************************)
(* The command-line parser: the lexer (lexer.hpp), the recursive descent   *)
(* of Command::parse over the command tree, the hooks before a handler and *)
(* the --json envelope after it (parser.hpp, json_output.cpp), and what a  *)
(* handler reads back from its arguments (extend/plugin.hpp).              *)
(*                                                                         *)
(* A text is a sequence of characters, each a one-letter string; "sp",     *)
(* "nl", "qt" and "bs" are blank, newline, double quote and backslash.     *)
(***************************************************************************)
EXTENDS Integers, Sequences, SequencesExt

CONSTANTS Cmds,       \* command -> [name, subs, aliases, handler, args, json, dynamic, pass, capture]
          Root,       \* the root command
          JsonEnabled, \* FALSE in zoa, which must not serialize
          Lines,      \* inputs: [mode: "argv" or "line", words: sequence of texts]
          JsonFlag,   \* the name of --json, a text
          IntDigits,  \* digits a 64-bit integer holds
          ExpDigits   \* digits a float's exponent may have

VARIABLE cl           \* one invocation of the parser

clVars == <<cl>>

Eof == "nul"
Dec == {"0", "1", "2"}
Hex == Dec \cup {"a", "b", "e"}
Bin == {"0", "1"}
Blank == {"sp", "nl"}

(* InputIter: the character at a position, or the end.                     *)
CharAt(s, i) == IF i <= Len(s) THEN s[i] ELSE Eof

(* is_ident_start: anything but a blank or a control character.            *)
is_ident_start(c) == c \notin Blank \cup {Eof}

(* The first position from i on whose character is not in set.             *)
RunEnd(s, i, set) ==
  CHOOSE j \in i .. Len(s) + 1 : CharAt(s, j) \notin set /\ \A k \in i .. j - 1 : s[k] \in set

IdentEnd(s, i) ==
  CHOOSE j \in i .. Len(s) + 1 :
    ~ is_ident_start(CharAt(s, j)) /\ \A k \in i .. j - 1 : is_ident_start(s[k])

Token(kind, text, end) == [kind |-> kind, text |-> text, end |-> end]
LexError == Token("Error", <<>>, 0)

(* eat_whitespace_and_comments: blanks, and "# " up to the end of line.    *)
RECURSIVE eat_whitespace_and_comments(_, _)
eat_whitespace_and_comments(s, i) ==
  IF CharAt(s, i) \in Blank THEN eat_whitespace_and_comments(s, i + 1)
  ELSE IF CharAt(s, i) = "#" /\ CharAt(s, i + 1) = "sp"
  THEN eat_whitespace_and_comments(s, RunEnd(s, i, {s[k] : k \in i .. Len(s)} \ {"nl"}))
  ELSE i

(* A keyword or an identifier: everything up to a blank.                   *)
lex_identifier_or_keyword(s, i) ==
  LET j == IdentEnd(s, i)  text == SubSeq(s, i, j - 1)
  IN  CASE text = <<"t", "r", "u", "e">> -> Token("True", text, j)
        [] text = <<"f", "a", "l", "s", "e">> -> Token("False", text, j)
        [] OTHER -> Token("Id", text, j)

(* A quoted string: its end, or an error at a newline, at the end of the   *)
(* input, or at an escape the language does not have.                      *)
RECURSIVE QuoteEnd(_, _)
QuoteEnd(s, i) ==
  LET c == CharAt(s, i) IN
  CASE c \in {Eof, "nl"} -> 0
    [] c = "qt" -> i
    [] c = "bs" -> IF CharAt(s, i + 1) \in {"n", "r", "t", "bs", "qt", "0"}
                   THEN QuoteEnd(s, i + 2) ELSE 0
    [] OTHER -> QuoteEnd(s, i + 1)

(* get_str_lit_value: the escapes replaced.                                *)
RECURSIVE get_str_lit_value(_)
get_str_lit_value(raw) ==
  IF raw = <<>> THEN <<>>
  ELSE IF Head(raw) = "bs" /\ Len(raw) > 1
  THEN <<IF raw[2] = "n" THEN "nl" ELSE raw[2]>> \o get_str_lit_value(SubSeq(raw, 3, Len(raw)))
  ELSE <<Head(raw)>> \o get_str_lit_value(Tail(raw))

lex_string(s, i) ==
  LET j == QuoteEnd(s, i + 1)
  IN  IF j = 0 THEN LexError ELSE Token("Str", get_str_lit_value(SubSeq(s, i + 1, j - 1)), j + 1)

(* print_integer_literal, print_float_literal: a number is printed from    *)
(* its value; leading zeros, underscores, and with an exponent the typed   *)
(* form, are gone.                                                         *)
Digits(s, i, j) == SelectSeq(SubSeq(s, i, j - 1), LAMBDA c : c # "_")

RECURSIVE StripZeros(_)
StripZeros(d) == IF Len(d) > 1 /\ Head(d) = "0" THEN StripZeros(Tail(d)) ELSE d

print_integer_literal(base, d) ==
  (IF base = Hex THEN <<"0", "x">> ELSE IF base = Bin THEN <<"0", "b">> ELSE <<>>) \o StripZeros(d)

print_float_literal(d, exponent) == IF exponent THEN <<"sci">> \o StripZeros(d) ELSE StripZeros(d)

(* lex_number: a base prefix, digits, and for a decimal number a fraction  *)
(* and an exponent; the rest of the word is another token.                 *)
lex_number(s, i) ==
  LET p    == CharAt(s, i + 1)
      base == CASE s[i] = "0" /\ p = "x" -> Hex [] s[i] = "0" /\ p = "b" -> Bin [] OTHER -> Dec
      from == IF base = Dec THEN i ELSE i + 2
      j    == RunEnd(s, from, base \cup {"_"})
      frac == base = Dec /\ CharAt(s, j) = "." /\ CharAt(s, j + 1) \in Dec
      k    == IF frac THEN RunEnd(s, j + 1, Dec \cup {"_"}) ELSE j
      expo == /\ base = Dec /\ CharAt(s, k) = "e"
              /\ \/ CharAt(s, k + 1) \in Dec
                 \/ CharAt(s, k + 1) \in {"+", "-"} /\ CharAt(s, k + 2) \in Dec
      e    == IF CharAt(s, k + 1) \in {"+", "-"} THEN k + 2 ELSE k + 1
      end  == IF expo THEN RunEnd(s, e, Dec \cup {"_"}) ELSE k
  IN  CASE s[i] = "0" /\ base = Dec /\ p \notin Dec \cup {".", "e"} -> Token("Int", <<"0">>, i + 1)
        [] base # Dec /\ CharAt(s, from) \notin base -> LexError
        [] base # Dec /\ CharAt(s, j) \in {".", "e"} -> LexError
        [] expo /\ Len(StripZeros(Digits(s, e, end))) > ExpDigits -> LexError
        [] frac \/ expo -> Token("Float", print_float_literal(Digits(s, i, end), expo), end)
        [] Len(StripZeros(Digits(s, from, j))) > IntDigits -> LexError
        [] OTHER -> Token("Int", print_integer_literal(base, Digits(s, from, j)), j)

lex_short_flag(s, i) == LET j == IdentEnd(s, i) IN Token("Short", SubSeq(s, i, j - 1), j)

lex_long_flag(s, i) == LET j == IdentEnd(s, i) IN Token("Long", SubSeq(s, i, j - 1), j)

(* next_token: one token from a position that is not blank.                *)
next_token(s, i) ==
  LET c == CharAt(s, i) IN
  CASE c = Eof -> Token("Eof", <<>>, i)
    [] c = "*" -> Token("Times", <<"*">>, i + 1)
    [] c = "-" /\ CharAt(s, i + 1) = "-" ->
         IF is_ident_start(CharAt(s, i + 2)) THEN lex_long_flag(s, i + 2)
         ELSE Token("DoubleMinus", <<"-", "-">>, i + 2)
    [] c = "-" /\ CharAt(s, i + 1) # "-" ->
         IF is_ident_start(CharAt(s, i + 1)) THEN lex_short_flag(s, i + 1)
         ELSE Token("Minus", <<"-">>, i + 1)
    [] c = "qt" -> lex_string(s, i)
    [] c \in Dec -> lex_number(s, i)
    [] OTHER -> lex_identifier_or_keyword(s, i)

(* lex_all: tokens up to the end; an error ends it.                        *)
RECURSIVE lex_all(_, _)
lex_all(s, i) ==
  LET t == next_token(s, eat_whitespace_and_comments(s, i))
  IN  IF t.kind \in {"Eof", "Error"} THEN <<t>> ELSE <<t>> \o lex_all(s, t.end)

Spoiled(toks) == Last(toks).kind = "Error"

-----------------------------------------------------------------------------
(* The two ways in.                                                        *)

(* classify_literal_or_identifier: a literal only if it is the whole word. *)
classify_literal_or_identifier(w) ==
  LET toks == lex_all(w, 1)
  IN  IF ~ Spoiled(toks) /\ Len(toks) = 2 /\ toks[1].kind \in {"Int", "Float", "True", "False"}
      THEN toks[1] ELSE Token("Id", w, 0)

classify_argument(w) ==
  CASE Len(w) > 2 /\ w[1] = "-" /\ w[2] = "-" -> Token("Long", SubSeq(w, 3, Len(w)), 0)
    [] Len(w) > 1 /\ w[1] = "-" /\ ~ (Len(w) > 2 /\ w[2] = "-") -> Token("Short", Tail(w), 0)
    [] Len(w) > 1 /\ w[1] = "qt" /\ Last(w) = "qt" ->
         Token("Str", get_str_lit_value(SubSeq(w, 2, Len(w) - 1)), 0)
    [] OTHER -> classify_literal_or_identifier(w)

(* parse_impl(argc, argv): word by word; what follows "--" stays as it is. *)
ArgvTokens(words) ==
  LET cut == CHOOSE n \in 1 .. Len(words) + 1 :
               /\ n <= Len(words) => words[n] = <<"-", "-">>
               /\ \A m \in 1 .. n - 1 : words[m] # <<"-", "-">>
  IN  [n \in DOMAIN words |-> IF n < cut THEN classify_argument(words[n])
                              ELSE IF n = cut THEN Token("DoubleMinus", words[n], 0)
                              ELSE Token("Id", words[n], 0)]

(* parse_impl(command_line): the line as one text, without its end.        *)
JoinWords(words) == FoldLeft(LAMBDA a, w : IF a = <<>> THEN w ELSE a \o <<"sp">> \o w, <<>>, words)

LineTokens(words) == lex_all(JoinWords(words), 1)

(* argv_requests_json: the flag is looked for among the raw words, up to   *)
(* "--".                                                                   *)
argv_requests_json(words) ==
  \E n \in DOMAIN words : /\ words[n] = <<"-", "-">> \o JsonFlag
                          /\ \A m \in 1 .. n - 1 : words[m] # <<"-", "-">>

(* line_requests_json: the line is cut at every blank, quotes or not.      *)
RECURSIVE SplitLine(_)
SplitLine(s) ==
  IF s = <<>> THEN <<>>
  ELSE IF Head(s) \in Blank THEN SplitLine(Tail(s))
  ELSE LET j == IdentEnd(s, 1) IN <<SubSeq(s, 1, j - 1)>> \o SplitLine(SubSeq(s, j, Len(s)))

line_requests_json(words) == argv_requests_json(SplitLine(JoinWords(words)))

-----------------------------------------------------------------------------
(* Values.                                                                 *)

Val(kind, text) == [kind |-> kind, text |-> text]
None == Val("none", <<>>)
Bool(b) == Val("bool", IF b THEN <<"t", "r", "u", "e">> ELSE <<"f", "a", "l", "s", "e">>)

(* Io::get<bool>: the negation first, if there is one.                     *)
GetBool(vals, name) ==
  IF <<"n", "o">> \o name \in DOMAIN vals THEN vals[<<"n", "o">> \o name] # Bool(TRUE)
  ELSE name \in DOMAIN vals /\ vals[name] = Bool(TRUE)

IsFlagToken(t) == t.kind \in {"Short", "Long"}

(* parse_token_value: what a token means where a flag, or a value, is      *)
(* expected; a number stays a number unless the argument wants a string.   *)
parse_token_value(t, type, coerce) ==
  IF type = "flag"
  THEN CASE t.kind \in {"Id", "Str"} -> Bool(t.text = <<"t", "r", "u", "e">>)
         [] t.kind \in {"True", "False"} -> Bool(t.kind = "True")
         [] OTHER -> None
  ELSE CASE t.kind \in {"Int", "Float"} ->
              IF type = "multiple" \/ coerce THEN Val("str", t.text)
              ELSE Val(IF t.kind = "Int" THEN "int" ELSE "float", t.text)
         [] t.kind \in {"True", "False", "Str", "Id", "Times"} -> Val("str", t.text)
         [] OTHER -> None

(* An argument: [name, short, long, type, positional, required, coerce,    *)
(* default, conflicts, help, json, etag], the texts without their dashes.  *)
Plain(name, short, type) ==
  [name |-> name, short |-> short, long |-> {}, type |-> type, positional |-> FALSE,
   required |-> FALSE, coerce |-> FALSE, default |-> None, conflicts |-> {}, help |-> FALSE,
   json |-> FALSE, etag |-> FALSE]

ensure_help_argument == [Plain(<<"h", "e">>, {<<"h">>}, "flag") EXCEPT !.help = TRUE]

ensure_json_argument == [Plain(JsonFlag, {}, "flag") EXCEPT !.json = TRUE]

(* register_argument: a flag is FALSE by default, and one that is TRUE     *)
(* brings its negation along.  Two of a name, and one that looks like a    *)
(* negation, are refused when the program starts.                          *)
NoName(name) == <<"n", "o">> \o name

register_argument(arg) ==
  IF arg.type = "flag" /\ arg.default = Bool(TRUE) THEN <<arg, Plain(NoName(arg.name), {}, "flag")>>
  ELSE IF arg.type = "flag" THEN <<[arg EXCEPT !.default = Bool(FALSE)]>> ELSE <<arg>>

Args ==
  [c \in DOMAIN Cmds |->
     <<ensure_help_argument>> \o (IF Cmds[c].json THEN <<ensure_json_argument>> ELSE <<>>)
       \o FlattenSeq([n \in DOMAIN Cmds[c].args |-> register_argument(Cmds[c].args[n])])]

ArgumentsRegistered ==
  \A c \in DOMAIN Cmds : \A m, n \in DOMAIN Args[c] :
    m # n => /\ Args[c][m].name # Args[c][n].name
             /\ Args[c][m].short \cap Args[c][n].short = {}

(* add_command: the names and the aliases of siblings are all different.   *)
CommandsAdded ==
  \A c \in DOMAIN Cmds : \A a, b \in Cmds[c].subs :
    /\ Cmds[a].name \notin Cmds[b].aliases
    /\ a # b => Cmds[a].name # Cmds[b].name /\ Cmds[a].aliases \cap Cmds[b].aliases = {}

(* disable_json_output, for the parser of zoa: the root loses the flag.    *)
JsonDisabled == ~ JsonEnabled => ~ Cmds[Root].json

ASSUME TreeBuilt == ArgumentsRegistered /\ CommandsAdded /\ JsonDisabled

(* find_keyword_arg: the first argument whose name, or alias of the same   *)
(* kind, is the flag's.                                                    *)
FlagMatches(arg, text, short) ==
  ~ arg.positional /\ (arg.name = text \/ text \in IF short THEN arg.short ELSE arg.long)

find_keyword_arg(cmd, text, short) ==
  SelectInSeq(Args[cmd], LAMBDA arg : FlagMatches(arg, text, short))

ArgNamed(cmd, name) == Args[cmd][CHOOSE n \in DOMAIN Args[cmd] : Args[cmd][n].name = name]

ArgNames(cmd) == {Args[cmd][n].name : n \in DOMAIN Args[cmd]}

Positionals(cmd) == SelectSeq(Args[cmd], LAMBDA arg : arg.positional)

Fresh(cmd) == [name \in ArgNames(cmd) |-> ArgNamed(cmd, name).default]

-----------------------------------------------------------------------------
(* One invocation.                                                         *)

ClIdle == [pc |-> "idle", line |-> [mode |-> "argv", words |-> <<>>], toks |-> <<>>, idx |-> 1,
           cmd |-> Root, vals |-> Fresh(Root), dyn |-> {}, pass |-> <<>>, seen |-> {}, pos |-> 1,
           json |-> FALSE, status |-> "success", exit |-> 0, hooked |-> FALSE, ran |-> FALSE,
           rc |-> 0, out |-> {}, suppressed |-> FALSE, captured |-> FALSE]

ClInit == cl = ClIdle

(* parse: what the lexer makes of each input.  A line it cannot lex is an  *)
(* error before any command is looked at.                                  *)
Lexed == {[line |-> line, toks |-> IF line.mode = "argv" THEN ArgvTokens(line.words)
                                   ELSE LineTokens(line.words)] : line \in Lines}

Start ==
  /\ cl.pc = "idle"
  /\ \E in \in Lexed :
       cl' = IF in.line.mode = "line" /\ Spoiled(in.toks)
             THEN [ClIdle EXCEPT !.pc = "emit", !.line = in.line, !.status = "error", !.exit = 1]
             ELSE [ClIdle EXCEPT !.pc = "parse", !.line = in.line,
                     !.toks = IF in.line.mode = "line" THEN Front(in.toks) ELSE in.toks]

Tok == cl.toks[cl.idx]
More == cl.pc = "parse" /\ cl.idx <= Len(cl.toks)

(* Mutant: an error that leaves the exit code at 0.                        *)
RefuseWithZero == cl' = [cl EXCEPT !.pc = "emit", !.status = "error"]

(* Every error prints the help to stderr and returns.                      *)
Refuse == cl' = [cl EXCEPT !.pc = "emit", !.status = "error", !.exit = 1]

(* execute_pre_hooks: the first hook that says no ends it; the result      *)
(* keeps its status and gets the exit code 1.                              *)
execute_pre_hooks(then) ==
  \/ cl' = [then EXCEPT !.hooked = TRUE]
  \/ cl' = [cl EXCEPT !.pc = "emit", !.exit = 1]

ShowHelp(c) == [c EXCEPT !.pc = "emit", !.status = "help", !.exit = 0, !.out = @ \cup {"text"}]

TakeDelimiter ==
  /\ More /\ Tok.kind = "DoubleMinus"
  /\ IF Cmds[cl.cmd].pass
     THEN cl' = [cl EXCEPT !.pass = [n \in 1 .. Len(cl.toks) - cl.idx |-> cl.toks[cl.idx + n].text],
                           !.idx = Len(cl.toks) + 1]
     ELSE Refuse

(* Combined short flags: each letter must be a flag; the first that is not *)
(* decides, and help is shown at once, without the hooks.                  *)
TakeCombined ==
  LET flag(n) == find_keyword_arg(cl.cmd, <<Tok.text[n]>>, TRUE)
      arg(n)  == Args[cl.cmd][flag(n)]
      odd     == {n \in DOMAIN Tok.text : flag(n) = 0 \/ arg(n).help \/ arg(n).type # "flag"}
      first   == CHOOSE n \in odd : \A m \in odd : n <= m
      names   == {arg(n).name : n \in DOMAIN Tok.text}
  IN  /\ More /\ Tok.kind = "Short" /\ Len(Tok.text) > 1
      /\ IF odd = {}
         THEN cl' = [cl EXCEPT !.idx = @ + 1, !.seen = @ \cup names,
                       !.vals = [a \in DOMAIN @ |-> IF a \in names THEN Bool(TRUE) ELSE @[a]]]
         ELSE IF flag(first) # 0 /\ arg(first).help THEN cl' = ShowHelp(cl) ELSE Refuse

(* The first token from n on that is no value, for an argument that takes  *)
(* many.                                                                   *)
NoValue(t) == IsFlagToken(t) \/ parse_token_value(t, "multiple", FALSE) = None

ManyEnd(n) ==
  CHOOSE m \in n .. Len(cl.toks) + 1 :
    /\ m <= Len(cl.toks) => NoValue(cl.toks[m])
    /\ \A k \in n .. m - 1 : ~ NoValue(cl.toks[k])

Texts(n, m) == [k \in 1 .. m - n |-> cl.toks[n + k - 1].text]

(* A long flag nobody declared, where the command takes such: its value,   *)
(* or its values.                                                          *)
TakeDynamic ==
  LET t == IF cl.idx < Len(cl.toks) THEN cl.toks[cl.idx + 1] ELSE Token("Short", <<>>, 0)
      m == ManyEnd(cl.idx + 1)
  IN  /\ More /\ Tok.kind = "Long" /\ find_keyword_arg(cl.cmd, Tok.text, FALSE) = 0
      /\ Cmds[cl.cmd].dynamic # "none"
      /\ IF IsFlagToken(t) \/ parse_token_value(t, "single", FALSE) = None THEN Refuse
         ELSE IF Cmds[cl.cmd].dynamic = "single"
         THEN cl' = [cl EXCEPT !.idx = @ + 2, !.dyn = @ \cup {Tok.text}]
         ELSE cl' = [cl EXCEPT !.idx = m, !.dyn = @ \cup {Tok.text}]

TakeUnknown ==
  /\ More /\ IsFlagToken(Tok) /\ (Tok.kind = "Short" => Len(Tok.text) <= 1)
  /\ find_keyword_arg(cl.cmd, Tok.text, Tok.kind = "Short") = 0
  /\ Tok.kind = "Short" \/ Cmds[cl.cmd].dynamic = "none"
  /\ Refuse

(* A declared flag: help, --json, a flag with or without a value, a value, *)
(* or several.                                                             *)
TakeOption ==
  LET n    == find_keyword_arg(cl.cmd, Tok.text, Tok.kind = "Short")
      arg  == Args[cl.cmd][n]
      seen == [cl EXCEPT !.idx = @ + 1, !.seen = @ \cup {arg.name}]
      t    == IF cl.idx < Len(cl.toks) THEN cl.toks[cl.idx + 1] ELSE Token("Short", <<>>, 0)
      val  == parse_token_value(t, arg.type, arg.coerce)
      m    == ManyEnd(cl.idx + 1)
      old  == IF cl.vals[arg.name].kind = "list" THEN cl.vals[arg.name].text ELSE <<>>
  IN  /\ More /\ IsFlagToken(Tok) /\ (Tok.kind = "Short" => Len(Tok.text) <= 1) /\ n # 0
      /\ CASE arg.help -> execute_pre_hooks(ShowHelp(cl))
           [] arg.json -> cl' = [seen EXCEPT !.vals[arg.name] = Bool(TRUE)]
           [] ~ arg.help /\ ~ arg.json /\ arg.type = "flag" ->
                cl' = IF IsFlagToken(t) \/ val = None
                      THEN [seen EXCEPT !.vals[arg.name] = Bool(TRUE)]
                      ELSE [seen EXCEPT !.vals[arg.name] = val, !.idx = @ + 1]
           [] arg.type # "flag" /\ (IsFlagToken(t) \/ val = None) -> Refuse
           [] arg.type = "single" /\ ~ IsFlagToken(t) /\ val # None ->
                cl' = [seen EXCEPT !.vals[arg.name] = val, !.idx = @ + 1]
           [] arg.type = "multiple" /\ ~ IsFlagToken(t) /\ val # None ->
                cl' = [seen EXCEPT !.vals[arg.name] = Val("list", old \o Texts(cl.idx + 1, m)),
                                   !.idx = m]

(* The subcommand of that name, or else the one with that alias; two with  *)
(* the alias are an error, as is an unknown word where only a subcommand   *)
(* can stand.                                                              *)
Named(text) == {c \in Cmds[cl.cmd].subs : Cmds[c].name = text}
Aliased(text) == {c \in Cmds[cl.cmd].subs : text \in Cmds[c].aliases}

IsSub(t) == t.kind = "Id" /\ Named(t.text) \cup Aliased(t.text) # {}

NotHere(t) == /\ t.kind = "Id" /\ ~ IsSub(t) /\ Cmds[cl.cmd].subs # {} /\ cl.pos = 1
              /\ ~ Cmds[cl.cmd].handler

TakeSubcommand ==
  LET subs == IF Named(Tok.text) # {} THEN Named(Tok.text) ELSE Aliased(Tok.text)
      sub  == CHOOSE c \in subs : TRUE
  IN  /\ More /\ (IsSub(Tok) \/ NotHere(Tok))
      /\ IF \E c \in subs : subs = {c}
         THEN cl' = [cl EXCEPT !.idx = @ + 1, !.cmd = sub, !.vals = Fresh(sub), !.seen = {},
                       !.pos = 1, !.dyn = {}, !.json = @ \/ GetBool(cl.vals, JsonFlag)]
         ELSE Refuse

TakePositional ==
  LET args == Positionals(cl.cmd)
      arg  == args[cl.pos]
      val  == parse_token_value(Tok, arg.type, arg.coerce)
      m    == ManyEnd(cl.idx + 1)
  IN  /\ More /\ ~ IsFlagToken(Tok) /\ Tok.kind # "DoubleMinus" /\ ~ IsSub(Tok) /\ ~ NotHere(Tok)
      /\ IF cl.pos > Len(args) THEN Refuse
         ELSE IF val = None THEN Refuse
         ELSE cl' = IF arg.type = "single"
                    THEN [cl EXCEPT !.vals[arg.name] = val, !.idx = @ + 1, !.pos = @ + 1]
                    ELSE [cl EXCEPT !.vals[arg.name] = Val("list", Texts(cl.idx, m)), !.idx = m,
                                    !.pos = @ + 1]

Missing ==
  \/ \E n \in DOMAIN Args[cl.cmd] :
       LET arg == Args[cl.cmd][n]
       IN  arg.required /\ ~ arg.positional /\ arg.name \notin cl.seen
  \/ \E n \in cl.pos .. Len(Positionals(cl.cmd)) : Positionals(cl.cmd)[n].required

Conflicting(seen) ==
  \E a, b \in seen : a # b /\ a \in ArgNames(cl.cmd) /\ b \in ArgNamed(cl.cmd, a).conflicts

(* The end of the tokens: the checks, then the hooks and the handler, its  *)
(* output captured when JSON is wanted and this command allows it.         *)
RunHandler ==
  LET wanted == cl.json \/ GetBool(cl.vals, JsonFlag)
      active == wanted /\ Cmds[cl.cmd].capture
  IN  /\ cl.pc = "parse" /\ cl.idx > Len(cl.toks)
      /\ IF Missing \/ Conflicting(cl.seen) THEN Refuse
         ELSE /\ Cmds[cl.cmd].handler
              /\ \E rc \in {0, 8} :
                   execute_pre_hooks(
                     [cl EXCEPT !.pc = "emit", !.ran = TRUE, !.exit = rc, !.rc = rc,
                                !.captured = active, !.suppressed = wanted /\ ~ active,
                                !.out = IF active THEN @ ELSE @ \cup {"text"}])

(* A group without a handler shows its help; a leaf without one does       *)
(* nothing.                                                                *)
GroupHelp ==
  /\ cl.pc = "parse" /\ cl.idx > Len(cl.toks) /\ ~ (Missing \/ Conflicting(cl.seen))
  /\ ~ Cmds[cl.cmd].handler
  /\ IF Cmds[cl.cmd].subs = {} THEN cl' = [cl EXCEPT !.pc = "emit"]
     ELSE execute_pre_hooks(ShowHelp(cl))

(* Mutant: the envelope follows the help text, too.                        *)
EnvelopeAfterHelp ==
  LET trailing == cl.status = "success" /\ cl.idx <= Len(cl.toks)
      raw  == IF cl.line.mode = "argv" THEN argv_requests_json(cl.line.words)
              ELSE line_requests_json(cl.line.words)
  IN  /\ cl.pc = "emit"
      /\ cl' = [cl EXCEPT !.pc = "done", !.status = IF trailing THEN "error" ELSE @,
                          !.exit = IF trailing THEN 1 ELSE @,
                          !.out = IF ~ cl.suppressed /\ (cl.captured \/ raw) THEN @ \cup {"json"} ELSE @]

(* parse_impl's last look: a hook that said no to a help request leaves    *)
(* the status at success and tokens unread, which is then an error.        *)
(* emit_json_envelope: an envelope unless help was shown or this command   *)
(* suppressed it, if JSON was captured or the raw input asked for it.      *)
emit_json_envelope ==
  LET trailing == cl.status = "success" /\ cl.idx <= Len(cl.toks)
      raw  == IF cl.line.mode = "argv" THEN argv_requests_json(cl.line.words)
              ELSE line_requests_json(cl.line.words)
      show == JsonEnabled /\ cl.status # "help" /\ ~ cl.suppressed /\ (cl.captured \/ raw)
  IN  /\ cl.pc = "emit"
      /\ cl' = [cl EXCEPT !.pc = "done", !.out = IF show THEN @ \cup {"json"} ELSE @,
                          !.status = IF trailing THEN "error" ELSE @,
                          !.exit = IF trailing THEN 1 ELSE @]

ClNext ==
  \/ Start \/ TakeDelimiter \/ TakeCombined \/ TakeDynamic \/ TakeUnknown \/ TakeOption
  \/ TakeSubcommand \/ TakePositional \/ RunHandler \/ GroupHelp \/ emit_json_envelope

ClSpec == ClInit /\ [][ClNext]_clVars

-----------------------------------------------------------------------------
(* A command started with separate words (argv) writes text or one JSON    *)
(* document to stdout, never both, and if its handler ran one of them:     *)
(* what asks for the envelope is the raw word, what decides where the      *)
(* handler writes is the parsed flag, and help, a refused hook, an error   *)
(* and a command that never captures lie in between.                       *)
JsonAlone ==
  cl.pc = "done" /\ cl.line.mode = "argv" =>
    /\ ~ ({"text", "json"} \subseteq cl.out)
    /\ cl.ran => cl.out # {}

(* The exit code tells what happened: 0 only if help was shown or a        *)
(* handler ran with every word of the line used and returned 0; not 0      *)
(* whenever the parser refused or a hook said no.                          *)
ExitTellsTruth ==
  cl.pc = "done" =>
    /\ cl.exit = 0 => cl.status = "help" \/ (cl.ran /\ cl.rc = 0 /\ cl.idx > Len(cl.toks))
    /\ cl.ran => cl.exit = cl.rc /\ cl.status = "success" /\ cl.hooked
=============================================================================
