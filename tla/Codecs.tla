------------------------------- MODULE Codecs -------------------------------
(***************************************************************************)
(* The byte pipeline of a streamed transfer: base64 with a left-over       *)
(* (zbase64.h), code page conversion with one converter for all chunks     *)
(* (zut.cpp: zut_iconv, zut_encode, zut_iconv_flush) and the running       *)
(* Adler-32 e-tag, as the streamed readers and writers of zds.cpp and      *)
(* zusf.cpp drive them: one action per chunk, one for the end.             *)
(*                                                                         *)
(* A text is a sequence of characters; a character is its sequence of one  *)
(* or two bytes.  The C library's iconv is external: it is modelled by the *)
(* properties of the encodings that matter to a caller that feeds it       *)
(* chunks (characters of several bytes, shift states).                     *)
(*                                                                         *)
(* I/O may fail: a read error looks to the loops like the end of the file, *)
(* and the readers do not look at what fwrite and fflush return.  The      *)
(* client then compares lengths (RpcStreamManager.ts).                     *)
(***************************************************************************)
EXTENDS Integers, Sequences, SequencesExt

CONSTANTS
  FIFO_CHUNK_SIZE,   \* symbols read from a pipe at a time (32768 in ztype.h)
  AdlerBlock,        \* bytes between two reductions of the checksum
  MOD_ADLER,         \* its modulus
  MaxIoErrors,       \* bound: failing reads and writes of one transfer
  CdJobs             \* the transfers: [dir, text, from, to, asa]

ASSUME CodecSizes ==
  /\ FIFO_CHUNK_SIZE \in Nat /\ FIFO_CHUNK_SIZE > 0 /\ FIFO_CHUNK_SIZE % 4 = 0
  /\ MaxIoErrors \in Nat
  /\ AdlerBlock \in Nat /\ AdlerBlock > 0 /\ MOD_ADLER \in Nat /\ MOD_ADLER > 0

VARIABLE cd   \* the transfer under way; cut: how much of rest was never read

-----------------------------------------------------------------------------
(* base64: the alphabet is written in the native code page, EBCDIC.        *)

Pad == 126          \* EBCDIC '='
NotBase64 == 255    \* what the decode table holds elsewhere
Bad == <<-1>>       \* std::invalid_argument

\* The EBCDIC runs of the alphabet: first code, first value, length.
Runs == << <<193, 0, 9>>, <<209, 9, 9>>, <<226, 18, 8>>, <<129, 26, 9>>,
           <<145, 35, 9>>, <<162, 44, 8>>, <<240, 52, 10>>,
           <<78, 62, 1>>, <<97, 63, 1>> >>

encode_table_ascii ==
  [v \in 0..63 |->
     LET r == CHOOSE i \in DOMAIN Runs : Runs[i][2] <= v /\ v < Runs[i][2] + Runs[i][3]
     IN Runs[r][1] + (v - Runs[r][2])]

decode_table ==
  [c \in 0..255 |->
     IF c = Pad THEN 254
     ELSE IF \E i \in DOMAIN Runs : Runs[i][1] <= c /\ c < Runs[i][1] + Runs[i][3]
     THEN LET r == CHOOSE i \in DOMAIN Runs : Runs[i][1] <= c /\ c < Runs[i][1] + Runs[i][3]
          IN Runs[r][2] + (c - Runs[r][1])
     ELSE NotBase64]

\* The i-th sextet, from the left, of three bytes read as 24 bits.
Sextet(b0, b1, b2, i) ==
  ((b0 * 65536 + b1 * 256 + b2) \div (64 ^ (4 - i))) % 64

\* One group of up to three bytes as four symbols.
Quad(b) ==
  LET B(k) == IF k <= Len(b) THEN b[k] ELSE 0
  IN [i \in 1..4 |-> IF i <= Len(b) + 1
                     THEN encode_table_ascii[Sextet(B(1), B(2), B(3), i)]
                     ELSE Pad]

\* The sequence s cut into groups of n.
Groups(s, n) ==
  [i \in 1..((Len(s) + n - 1) \div n) |->
     SubSeq(s, (i - 1) * n + 1, IF i * n < Len(s) THEN i * n ELSE Len(s))]

encode(bytes) ==
  LET g == Groups(bytes, 3) IN FlattenSeq([i \in DOMAIN g |-> Quad(g[i])])

\* Four symbols as one to three bytes.
Unquad(q) ==
  LET c == [i \in 1..4 |-> IF i > 2 /\ q[i] = Pad THEN 0 ELSE decode_table[q[i]]]
      v == ((c[1] * 64 + c[2]) * 64 + c[3]) * 64 + c[4]
      b == << (v \div 65536) % 256, (v \div 256) % 256, v % 256 >>
  IN IF \E i \in 1..4 : c[i] >= 128 THEN Bad
     ELSE SubSeq(b, 1, IF q[3] = Pad THEN 1 ELSE IF q[4] = Pad THEN 2 ELSE 3)

decode(symbols) ==
  LET g == Groups(symbols, 4)
      u == [i \in DOMAIN g |-> Unquad(g[i])]
  IN IF Len(symbols) % 4 # 0 \/ \E i \in DOMAIN u : u[i] = Bad THEN Bad
     ELSE FlattenSeq(u)

\* The left-over goes in front of the new input ...
load_leftover(left, input) == left \o input

\* ... and what does not fill a group stays for the next chunk.
store_leftover(input, n) ==
  LET total == Len(input) - (Len(input) % n)
  IN [whole |-> SubSeq(input, 1, total), left |-> SubSeq(input, total + 1, Len(input))]

encode_chunk(left, input) ==
  LET s == store_leftover(load_leftover(left, input), 3)
  IN [out |-> encode(s.whole), left |-> s.left]

decode_chunk(left, input) ==
  LET s == store_leftover(load_leftover(left, input), 4)
  IN [out |-> decode(s.whole), left |-> s.left]

-----------------------------------------------------------------------------
(* Adler-32.                                                               *)

zut_adler32_update(state, bytes) ==
  LET Add(s, byte) == [a |-> s.a + byte, b |-> s.b + s.a + byte]
      Reduce(s) == [a |-> s.a % MOD_ADLER, b |-> s.b % MOD_ADLER]
      Block(s, g) == Reduce(FoldLeft(Add, s, g))
  IN Reduce(FoldLeft(Block, state, Groups(bytes, AdlerBlock)))

AdlerStart == [a |-> 1, b |-> 0]

-----------------------------------------------------------------------------
(* Code pages.  "utf" writes a character as its bytes, the first of two    *)
(* being at least 192; "dbcs" (as IBM-939) writes characters of two bytes  *)
(* between SO and SI; "single" has no character of two bytes.              *)

SO == 14
SI == 15
Newline == <<37>>
Blank_ == 64
IsLead(enc, shift, byte) ==
  \/ enc = "utf" /\ byte >= 192
  \/ enc = "dbcs" /\ shift

\* Reading bytes of an encoding: the characters, the shift state after them and
\* the first byte of a character that is not complete.
Read(enc, shift, bytes) ==
  LET Take(s, byte) ==
        IF s.half # <<>> THEN [s EXCEPT !.chars = Append(@, s.half \o <<byte>>), !.half = <<>>]
        ELSE IF enc = "dbcs" /\ byte \in {SO, SI} THEN [s EXCEPT !.shift = byte = SO]
        ELSE IF IsLead(enc, s.shift, byte) THEN [s EXCEPT !.half = <<byte>>]
        ELSE [s EXCEPT !.chars = Append(@, <<byte>>)]
  IN FoldLeft(Take, [chars |-> <<>>, shift |-> shift, half |-> <<>>], bytes)

\* Writing characters in an encoding, from a shift state.
Write(enc, shift, chars) ==
  LET Put(s, c) ==
        LET wide == enc = "dbcs" /\ Len(c) = 2
            mark == IF enc # "dbcs" \/ wide = s.shift THEN <<>> ELSE IF wide THEN <<SO>> ELSE <<SI>>
        IN [bytes |-> s.bytes \o mark \o c, shift |-> wide]
  IN FoldLeft(Put, [bytes |-> <<>>, shift |-> shift], chars)

Representable(enc, chars) == enc # "single" \/ \A i \in DOMAIN chars : Len(chars[i]) = 1

\* A text as the bytes of an encoding, ending in the initial shift state.
Bytes(enc, chars) ==
  LET w == Write(enc, FALSE, chars) IN w.bytes \o (IF w.shift THEN <<SI>> ELSE <<>>)

\* A converter: iconv keeps both shift states between calls.
Converter(from, to) == [from |-> from, to |-> to, in |-> FALSE, out |-> FALSE]

\* iconv stops with an error at a character that is not complete or that the
\* target does not have; zut_iconv reports either as a failure of the chunk.
zut_iconv(conv, bytes, flush_state) ==
  LET r == Read(conv.from, conv.in, bytes)
      w == Write(conv.to, conv.out, r.chars)
  IN [ok |-> r.half = <<>> /\ Representable(conv.to, r.chars),
      out |-> w.bytes \o (IF flush_state /\ w.shift THEN <<SI>> ELSE <<>>),
      conv |-> [conv EXCEPT !.in = r.shift, !.out = w.shift /\ ~flush_state]]

\* Mutant: the converter is closed without its last shift.
NoShiftAtEnd(conv) == IF conv.to = "utf" /\ conv.out THEN <<SI>> ELSE <<>>

zut_iconv_flush(conv) == IF conv.out THEN <<SI>> ELSE <<>>

\* Conversion with a converter of its own; nothing to do between equal names.
zut_encode(bytes, from, to) ==
  IF from = to THEN [ok |-> TRUE, out |-> bytes]
  ELSE LET r == zut_iconv(Converter(from, to), bytes, TRUE) IN [ok |-> r.ok, out |-> r.out]

-----------------------------------------------------------------------------
(* The transfers.                                                          *)

Converts(j) == j.from # j.to

\* What fread returns next: a full chunk, or what is left.
Chunk(rest, n) == SubSeq(rest, 1, IF n < Len(rest) THEN n ELSE Len(rest))
After(rest, n) == SubSeq(rest, n + 1, Len(rest))

\* A record read with record I/O: a newline in front, trailing blanks cut.
AsaRecord(c, first) ==
  LET used == {i \in DOMAIN c : c[i] # Blank_}
      last == IF used = {} THEN 0 ELSE CHOOSE i \in used : \A k \in used : k <= i
  IN (IF first THEN <<>> ELSE Newline) \o SubSeq(c, 1, last)

\* A reader has the stored bytes in front of it, a writer what the client sent:
\* the text in the client's encoding, in base64.
Opened(j) ==
  [job |-> j, pc |-> "run", conv |-> Converter(j.from, j.to), left |-> <<>>, out |-> <<>>,
   len |-> 0, adler |-> AdlerStart, first |-> TRUE, cut |-> 0, errors |-> 0,
   rest |-> IF j.dir = "get" THEN Bytes(j.from, j.text) ELSE encode(Bytes(j.from, j.text))]

CdInit == cd \in {Opened(j) : j \in CdJobs}

\* fread fails, or the pipe ends too soon: the loop takes the bytes read so far and
\* then the end of the file for granted, in either direction.
ReadBreaks ==
  LET n == IF cd.job.asa THEN 1
           ELSE Len(Chunk(cd.rest, IF cd.job.dir = "get" THEN (FIFO_CHUNK_SIZE * 3) \div 4
                                   ELSE FIFO_CHUNK_SIZE))
  IN /\ cd.pc = "run" /\ cd.rest # <<>> /\ cd.errors < MaxIoErrors
     /\ \E k \in 0..(n - 1) :
          cd' = [cd EXCEPT !.rest = Chunk(cd.rest, k), !.cut = @ + Len(cd.rest) - k,
                           !.errors = @ + 1]

\* One converted chunk on its way to the pipe.
Send(c, bytes) ==
  LET e == encode_chunk(c.left, bytes)
  IN [c EXCEPT !.out = @ \o e.out, !.left = e.left, !.len = @ + Len(bytes),
               !.adler = zut_adler32_update(@, bytes)]

\* What the pipe holds after a write whose result nobody looks at: everything, or
\* a write failed and the end of it, with what was still buffered, is lost.
Written(c) ==
  {c} \cup {[c EXCEPT !.out = SubSeq(@, 1, k), !.errors = @ + 1] :
             k \in IF c.errors < MaxIoErrors THEN 0..(Len(c.out) - 1) ELSE {}}

Convert(c, bytes) ==
  IF Converts(c.job) THEN zut_iconv(c.conv, bytes, FALSE)
  ELSE [ok |-> TRUE, out |-> bytes, conv |-> c.conv]

\* The chunk loop of the readers: convert, count, checksum, encode, write.  The chunk
\* is the record length of an ASA data set, else three quarters of the pipe's.
GetChunk ==
  LET n == (FIFO_CHUNK_SIZE * 3) \div 4
      raw == Chunk(cd.rest, n)
      r == Convert(cd, IF cd.job.asa THEN AsaRecord(raw, cd.first) ELSE raw)
  IN /\ cd.pc = "run" /\ cd.job.dir = "get" /\ cd.rest # <<>>
     /\ cd' \in IF ~r.ok THEN {[cd EXCEPT !.pc = "failed"]}
                ELSE Written([Send(cd, r.out) EXCEPT !.rest = After(@, n), !.conv = r.conv,
                                                     !.first = FALSE])

\* After the loop of a reader: a last newline for ASA records, the shift state ...
GetFlush ==
  LET nl == IF cd.job.asa /\ ~cd.first THEN Convert(cd, Newline)
            ELSE [ok |-> TRUE, out |-> <<>>, conv |-> cd.conv]
      a == Send(cd, nl.out)
      b == Send(a, IF Converts(cd.job) THEN zut_iconv_flush(nl.conv) ELSE <<>>)
  IN /\ cd.pc = "run" /\ cd.job.dir = "get" /\ cd.rest = <<>>
     /\ cd' \in IF ~nl.ok THEN {[cd EXCEPT !.pc = "failed"]}
                ELSE Written([b EXCEPT !.pc = "last"])

\* ... and the bytes that did not fill a group of three; then fflush, and success.
GetEnd ==
  /\ cd.pc = "last"
  /\ cd' \in Written([cd EXCEPT !.out = @ \o encode(cd.left), !.left = <<>>, !.pc = "ok"])

\* The chunk loop of the writers: decode, count, convert, write.  A symbol outside
\* the alphabet is an exception the request's handler reports; a short write (a full
\* file system) leaves the loop.
PutChunk ==
  LET d == decode_chunk(cd.left, Chunk(cd.rest, FIFO_CHUNK_SIZE))
      r == Convert(cd, d.out)
  IN /\ cd.pc = "run" /\ cd.job.dir = "put" /\ cd.rest # <<>>
     /\ \/ cd' = IF d.out = Bad \/ ~r.ok THEN [cd EXCEPT !.pc = "failed"]
                 ELSE [cd EXCEPT !.rest = After(@, FIFO_CHUNK_SIZE), !.left = d.left,
                                 !.len = @ + Len(d.out), !.out = @ \o r.out,
                                 !.conv = r.conv]
        \/ /\ d.out # Bad /\ r.ok /\ r.out # <<>>
           /\ cd' = [cd EXCEPT !.pc = "short", !.len = @ + Len(d.out), !.conv = r.conv,
                               !.out = @ \o SubSeq(r.out, 1, Len(r.out) - 1)]

\* The end of a writer: the shift state, then the verdict on the writes.  Symbols
\* that do not fill a group are forgotten.
PutEnd ==
  LET flushed == cd.out \o (IF Converts(cd.job) THEN zut_iconv_flush(cd.conv) ELSE <<>>)
  IN /\ cd.job.dir = "put" /\ (cd.pc = "short" \/ (cd.pc = "run" /\ cd.rest = <<>>))
     /\ \E flush_rc \in {0, -1} :
          cd' = [cd EXCEPT !.out = flushed,
                           !.pc = IF cd.pc = "short" \/ flush_rc # 0 THEN "nospace" ELSE "ok"]

CdNext == ReadBreaks \/ GetChunk \/ GetFlush \/ GetEnd \/ PutChunk \/ PutEnd

-----------------------------------------------------------------------------
(* The client (external: base64-stream) decodes what arrives, padded or    *)
(* not, and accepts a transfer if the server reports success and counted   *)
(* as many bytes as the client did.                                        *)

Base64Decode(symbols) ==
  LET data == SelectSeq(symbols, LAMBDA c : c # Pad)
      used == Chunk(data, Len(data) - (IF Len(data) % 4 = 1 THEN 1 ELSE 0))
  IN decode(used \o [i \in 1..((4 - (Len(used) % 4)) % 4) |-> Pad])

expectContentLengthMatches ==
  cd.len = IF cd.job.dir = "get" THEN Len(Base64Decode(cd.out))
           ELSE Len(Bytes(cd.job.from, cd.job.text))

-----------------------------------------------------------------------------
(* Properties.                                                             *)

SourceBytes == Bytes(cd.job.from, cd.job.text)

\* A transfer that the client accepts moved exactly what was read, wherever the chunks
\* end and whichever writes failed unnoticed: chunked base64, chunked conversion and
\* the chunked checksum give what one unstreamed call over all these bytes gives
\* (zusf.cpp:1492-1562, zds.cpp:3887-3965).  Unless a read failed that is the whole
\* text in the target encoding; an upload that broke off is never accepted, while a
\* download cut short by a read error is: its lengths agree.
StreamedIsWhole ==
  cd.pc = "ok" /\ ~cd.job.asa /\ expectContentLengthMatches =>
    LET moved == zut_encode(Chunk(SourceBytes, Len(SourceBytes) - cd.cut), cd.job.from, cd.job.to).out
    IN /\ cd.cut = 0 => moved = Bytes(cd.job.to, cd.job.text)
       /\ IF cd.job.dir = "get"
          THEN /\ Base64Decode(cd.out) = moved
               /\ cd.adler = zut_adler32_update(AdlerStart, moved)
          ELSE cd.cut = 0 /\ cd.out = moved
=============================================================================
