------------------------------ MODULE Protocol ------------------------------
(***************************************************************************)
(* The bytes of requests and responses: the functions of MRD_utility.h     *)
(* that write and read them, parse_req, response_begin and response_end of *)
(* the server, and print_response of the client.                           *)
(*                                                                         *)
(* A byte is a digit; a uint32_t is W of them, the lowest first, and an    *)
(* int64_t or a double D of them (4 and 8 in the code).  A string is a     *)
(* sequence of bytes.  A value of the protocol is a tuple of its kind and  *)
(* its contents: <<"nil">>, <<"err", code, text>>, <<"str", s>>,           *)
(* <<"int", i>>, <<"dbl", d>>, <<"arr", values>>.                          *)
(***************************************************************************)
EXTENDS Buffer, SequencesExt

CONSTANTS
  Base,             \* the number of values of a byte
  W, D,
  MAX_MSG, MAX_CMDS

TAG_NIL == 0
TAG_ERR == 1
TAG_STR == 2
TAG_INT == 3
TAG_DBL == 4
TAG_ARR == 5

ERR_OUT_OF_RANGE == 2
ERR_UNEXPECTED == 3

\* "response is too long" and "unexpected error in error"
TooLongText == <<1>>
ErrorInErrorText == <<2, 2>>

\* n without its k lowest digits.
Shift(n, k) ==
  LET rest[i \in Nat] == IF i = 0 THEN n ELSE rest[i - 1] \div Base
  IN  rest[k]

Digits(n, width) == [i \in 1 .. width |-> Shift(n, i - 1) % Base]
u32(n) == Digits(n, W)

\* The number of digits s; high[k] is that of its k last ones.
Number(s) ==
  LET high[k \in 0 .. Len(s)] ==
        IF k = 0 THEN 0 ELSE s[Len(s) - k + 1] + Base * high[k - 1]
  IN  high[Len(s)]

ASSUME ByteAssumption ==
  /\ Base \in Nat /\ Base > TAG_ARR /\ 0 .. Base - 1 \subseteq Byte
  /\ W \in Nat \ {0} /\ D \in Nat /\ MAX_MSG \in Nat /\ MAX_CMDS \in Nat

\* Every length the server sends or accepts fits in a uint32_t.
ASSUME LengthAssumption == Shift(MAX_MSG + W, W) = 0

-----------------------------------------------------------------------------
(* Writing values.  Each operator gives the buffer and the bytes it counted *)
(* as written.                                                              *)

Out(b, n) == [buf |-> b, n |-> n]

out_nil(b) == Out(append(b, <<TAG_NIL>>), 1)

out_str(b, s) ==
  Out(append(append(append(b, <<TAG_STR>>), u32(Len(s))), s), 1 + W + Len(s))

out_int(b, v) == Out(append(append(b, <<TAG_INT>>), Digits(v, D)), 1 + D)

out_dbl(b, v) == Out(append(append(b, <<TAG_DBL>>), Digits(v, D)), 1 + D)

out_err(b, code, text) ==
  Out(append(append(append(append(b, <<TAG_ERR>>), <<code>>), u32(Len(text))), text),
      1 + 1 + W + Len(text))

\* The array's tag and a place for its length.
out_begin_arr(b) == append(append(b, <<TAG_ARR>>), u32(0))

\* ctx bytes back is that place; the byte before it must be the tag.
out_end_arr(b, ctx, n) ==
  IF b.mem[b.data_end - ctx - 1] # TAG_ARR THEN [b EXCEPT !.broken = TRUE]
  ELSE Write(b, b.data_end - ctx, u32(n))

\* The array of a ZQUERY: strings and doubles in turn.
OutItem(r, v) ==
  LET o == IF v[1] = "str" THEN out_str(r.buf, v[2]) ELSE out_dbl(r.buf, v[2])
  IN  Out(o.buf, r.n + o.n)

out_list(b, items) ==
  LET listed[i \in 0 .. Len(items)] ==
        IF i = 0 THEN Out(out_begin_arr(b), 0) ELSE OutItem(listed[i - 1], items[i])
      all == listed[Len(items)]
  IN  Out(out_end_arr(all.buf, W + all.n, Len(items)), all.n + 1 + W)

\* What the do_* functions write for an answer v.
out_value(b, v) ==
  CASE v[1] = "nil" -> out_nil(b)
    [] v[1] = "err" -> out_err(b, v[2], v[3])
    [] v[1] = "str" -> out_str(b, v[2])
    [] v[1] = "int" -> out_int(b, v[2])
    [] v[1] = "arr" -> out_list(b, v[2])

response_begin(b) == append(b, u32(0))

\* The two error branches of response_end.
ErrorFrame(b, code, text) ==
  LET e == out_err(append(consume(b, b.data_length), u32(0)), code, text)
  IN  Write(e.buf, e.buf.data_end - e.n - W, u32(e.n))

Mut_response_end(b, rv) == Write(b, b.data_end - rv, u32(rv))

\* len_ptr is computed before the second branch, which may move the data or
\* replace the memory, and is written through after it.
response_end(b, rv) ==
  LET short == IF rv > MAX_MSG THEN ErrorFrame(b, ERR_OUT_OF_RANGE, TooLongText)
               ELSE b
      len_ptr == short.data_end - rv - W
      final == IF len_ptr < short.data_begin
               THEN ErrorFrame(short, ERR_UNEXPECTED, ErrorInErrorText)
               ELSE short
  IN  IF final.buf_size # short.buf_size THEN [final EXCEPT !.broken = TRUE]
      ELSE Write(final, len_ptr, u32(rv))

\* response_begin, do_request and response_end for the answer v.
respond(b, v) ==
  LET o == out_value(response_begin(b), v) IN response_end(o.buf, o.n)

-----------------------------------------------------------------------------
(* Reading requests. *)

Bad == [ok |-> FALSE, words |-> <<>>]

\* A round of the loop of parse_req, with r.pos bytes of data read.
ReadWord(data, r) ==
  LET from == r.pos + 1 + W
      len == Number(SubSeq(data, r.pos + 2, from))
  IN  IF ~ r.ok \/ from > Len(data) THEN [r EXCEPT !.ok = FALSE]
      ELSE IF data[r.pos + 1] # TAG_STR \/ from + len > Len(data)
      THEN [r EXCEPT !.ok = FALSE]
      ELSE [ok |-> TRUE, pos |-> from + len,
            words |-> Append(r.words, SubSeq(data, from + 1, from + len))]

\* The words, if they are n and end with the data.
ReadWords(data, n) ==
  LET read[i \in 0 .. n] ==
        IF i = 0 THEN [ok |-> TRUE, pos |-> W, words |-> <<>>]
        ELSE ReadWord(data, read[i - 1])
      r == read[n]
  IN  IF r.ok /\ r.pos = Len(data) THEN [ok |-> TRUE, words |-> r.words] ELSE Bad

Mut_parse_req(data) ==
  LET nstr == Number(SubSeq(data, 1, W))
  IN  IF Len(data) < W \/ nstr >= MAX_CMDS THEN Bad ELSE ReadWords(data, nstr)

parse_req(data) ==
  LET nstr == Number(SubSeq(data, 1, W))
  IN  IF Len(data) < W \/ nstr > MAX_CMDS THEN Bad ELSE ReadWords(data, nstr)

-----------------------------------------------------------------------------
(* Reading responses, as the client does: the value, and what             *)
(* print_response returns.                                                 *)

BadResponse == [rv |-> -1, val |-> <<"bad">>]

Mut_Text(data, skip) ==
  LET len == Number(SubSeq(data, skip - W + 1, skip))
  IN  [len |-> len, ok |-> skip <= Len(data) /\ skip + len < Len(data),
       s |-> SubSeq(data, skip + 1, skip + len)]

\* A length that ends at the byte skip, and the string of that length after
\* it, if data has that many bytes.
Text(data, skip) ==
  LET len == Number(SubSeq(data, skip - W + 1, skip))
  IN  [len |-> len, ok |-> skip <= Len(data) /\ skip + len <= Len(data),
       s |-> SubSeq(data, skip + 1, skip + len)]

\* A value that is not an array.  nil counts as no byte and an error as more
\* than it has; only elements of an array are counted at all, and those are
\* strings and doubles.
PrintScalar(data) ==
  LET str == Text(data, 1 + W)
      err == Text(data, 1 + 1 + W)
      num == Number(SubSeq(data, 2, 1 + D))
      long == Len(data) >= 1 + D
  IN  CASE data[1] = TAG_NIL -> [rv |-> 0, val |-> <<"nil">>]
        [] data[1] = TAG_ERR /\ err.ok ->
             [rv |-> 1 + 2 * W + err.len, val |-> <<"err", data[2], err.s>>]
        [] data[1] = TAG_STR /\ str.ok -> [rv |-> 1 + W + str.len, val |-> <<"str", str.s>>]
        [] data[1] = TAG_INT /\ long -> [rv |-> 1 + D, val |-> <<"int", num>>]
        [] data[1] = TAG_DBL /\ long -> [rv |-> 1 + D, val |-> <<"dbl", num>>]
        [] OTHER -> BadResponse

\* A round of the loop over the elements of an array, with r.rv bytes read.
PrintItem(r, item) ==
  IF r.rv < 0 \/ item.rv < 0 THEN BadResponse
  ELSE [rv |-> r.rv + item.rv, val |-> <<"arr", Append(r.val[2], item.val)>>]

\* The loop over the n elements of an array that is at p; print[q] is what the
\* call for the bytes behind the first q gives.
PrintItems(p, n, print) ==
  LET items[i \in 0 .. n] ==
        IF i = 0 THEN [rv |-> 1 + W, val |-> <<"arr", <<>>>>]
        ELSE PrintItem(items[i - 1], print[p + items[i - 1].rv])
  IN  items[n]

\* The call for the bytes of data behind the first p.
PrintFrom(data, p, print) ==
  LET rest == SubSeq(data, p + 1, Len(data))
  IN  IF rest = <<>> THEN BadResponse
      ELSE IF rest[1] = TAG_ARR /\ Len(rest) >= 1 + W
      THEN PrintItems(p, Number(SubSeq(rest, 2, 1 + W)), print)
      ELSE PrintScalar(rest)

print_response(data) ==
  LET print[p \in Nat] == PrintFrom(data, p, print) IN print[0]

-----------------------------------------------------------------------------
(* The documented format. *)

\* The values commands answer; an int64_t or a double has D bytes.
ByteString == Seq(0 .. Base - 1)
Wide == {n \in Nat : Shift(n, D) = 0}
Scalar == ({"str"} \X ByteString) \cup ({"dbl"} \X Wide)
Reply ==
  {<<"nil">>} \cup ({"err"} \X (0 .. Base - 1) \X ByteString)
    \cup ({"str"} \X ByteString) \cup ({"int"} \X Wide) \cup ({"arr"} \X Seq(Scalar))

\* A length and what it is the length of.
Field(s) == u32(Len(s)) \o s

\* A request, without its length and with it.
Content(cmd) ==
  u32(Len(cmd)) \o FlattenSeq([i \in DOMAIN cmd |-> <<TAG_STR>> \o Field(cmd[i])])
Sent(cmd) == Field(Content(cmd))

\* A response, without its length.
EncodedItem(v) ==
  IF v[1] = "str" THEN <<TAG_STR>> \o Field(v[2]) ELSE <<TAG_DBL>> \o Digits(v[2], D)

Encoded(v) ==
  CASE v[1] = "nil" -> <<TAG_NIL>>
    [] v[1] = "err" -> <<TAG_ERR, v[2]>> \o Field(v[3])
    [] v[1] = "str" -> <<TAG_STR>> \o Field(v[2])
    [] v[1] = "int" -> <<TAG_INT>> \o Digits(v[2], D)
    [] v[1] = "arr" -> <<TAG_ARR>> \o u32(Len(v[2]))
                         \o FlattenSeq([i \in DOMAIN v[2] |-> EncodedItem(v[2][i])])
=============================================================================
