-------------------------------- MODULE Resp --------------------------------
(***************************************************************************)
(* The RESP wire format (crates/proto/src/resp.rs, and encode_command of   *)
(* crates/server/src/persistence.rs): incremental parsing of commands and  *)
(* encoding of replies.                                                    *)
(*                                                                         *)
(* A byte is a string of one character, except that CR and LF have names   *)
(* and that a command's name is one symbol.  The limits of the code are    *)
(* constants, so that an instance can stand on both sides of each; i64 is  *)
(* as wide as I64_MAX says.  An error's text is a sequence of bytes: its   *)
(* wording is one symbol, and what it repeats of the client's input is     *)
(* there byte by byte.                                                     *)
(***************************************************************************)
EXTENDS Integers, SequencesExt

CONSTANTS
  I64_MAX,        \* the largest i64
  MAX_BULK_LEN,   \* the longest argument
  MAX_ARRAY_LEN,  \* the most arguments
  MAX_INLINE      \* the longest input without a line end (64 KiB in the code)

ASSUME RespAssumption ==
  /\ {I64_MAX, MAX_BULK_LEN, MAX_ARRAY_LEN, MAX_INLINE} \subseteq Nat \ {0}
  /\ MAX_BULK_LEN < I64_MAX /\ MAX_ARRAY_LEN < I64_MAX

CRLF == <<"CR", "LF">>

\* u8::is_ascii_whitespace.
Whitespace == {" ", "CR", "LF"}

Digits == <<"0", "1", "2", "3", "4", "5", "6", "7", "8", "9">>

\* n.to_string() and write_uint, digit by digit.
decimal[n \in Nat] ==
  IF n < 10 THEN <<Digits[n + 1]>> ELSE Append(decimal[n \div 10], Digits[(n % 10) + 1])

to_string(n) == IF n < 0 THEN <<"-">> \o decimal[-n] ELSE decimal[n]

\* The number that digits make, with its sign.
number(sign, digits) ==
  LET digit(d) == (CHOOSE i \in DOMAIN Digits : Digits[i] = d) - 1
  IN IF digits = <<>> \/ ~(Range(digits) \subseteq Range(Digits)) THEN [ok |-> FALSE]
     ELSE [ok |-> TRUE, val |-> sign * FoldLeft(LAMBDA v, d : 10 * v + digit(d), 0, digits)]

\* A whole number in decimal: an optional sign, and digits.
whole(text) ==
  IF text = <<>> \/ text[1] \notin {"-", "+"} THEN number(1, text)
  ELSE number(IF text[1] = "-" THEN -1 ELSE 1, Tail(text))

in_i64(n) == IF n.ok /\ (n.val > I64_MAX \/ n.val < -I64_MAX - 1) THEN [ok |-> FALSE] ELSE n

\* parse::<i64>(): refused when it is out of range.
parse_int(line) == in_i64(whole(line))

-----------------------------------------------------------------------------
(* Commands                                                                *)

\* A parse is complete, needs more bytes, or has failed.
parsed(argv, consumed) == [st |-> "ok", argv |-> argv, consumed |-> consumed]

more == [st |-> "more"]

failed == [st |-> "error"]

\* The line that starts at start, without its CRLF, and where the next begins.
read_line(buf, start) ==
  LET ends == {i \in start..(Len(buf) - 1) : buf[i] = "CR" /\ buf[i + 1] = "LF"}
  IN IF ends = {} THEN more
     ELSE [st |-> "ok", line |-> SubSeq(buf, start, Min(ends) - 1), next |-> Min(ends) + 2]

\* The data of a bulk string of length n, from offset, and its CRLF.
bulk_data(buf, offset, n) ==
  LET data_end == offset + n.val
  IN IF ~n.ok THEN failed
     ELSE IF n.val < 0 \/ n.val > MAX_BULK_LEN THEN failed
     ELSE IF data_end + 1 > Len(buf) THEN more
     ELSE IF SubSeq(buf, data_end, data_end + 1) # CRLF THEN failed
     ELSE [st |-> "ok", range |-> <<offset, n.val>>, next |-> data_end + 2]

\* The bulk string at pos; l is the line that begins behind its "$".
bulk_at(buf, pos, l) ==
  IF pos > Len(buf) THEN more
  ELSE IF buf[pos] # "$" THEN failed
  ELSE IF l.st = "more" THEN more
  ELSE bulk_data(buf, l.next, parse_int(l.line))

\* One turn of the loop over the arguments: b is the next bulk.
with_bulk(so_far, b) ==
  IF b.st # "ok" THEN b
  ELSE [st |-> "ok", argv |-> Append(so_far.argv, b.range), next |-> b.next]

\* An array of n bulk strings from pos.
array_from(buf, pos, n) ==
  LET turn(r, i) == IF r.st # "ok" THEN r
                    ELSE with_bulk(r, bulk_at(buf, r.next, read_line(buf, r.next + 1)))
      end(r) == IF r.st = "ok" THEN parsed(r.argv, r.next - 1) ELSE r
  IN end(FoldLeft(turn, [st |-> "ok", argv |-> <<>>, next |-> pos], [i \in 1..n |-> i]))

\* An array of n elements from pos; a null array is an empty command.
array_of(buf, pos, n) ==
  IF ~n.ok THEN failed
  ELSE IF n.val < 0 THEN parsed(<<>>, pos - 1)
  ELSE IF n.val > MAX_ARRAY_LEN THEN failed
  ELSE array_from(buf, pos, n.val)

\* The array form, `*N` and the bulks, with the arguments as ranges.
array_ranges(buf) ==
  LET l == read_line(buf, 2)
  IN IF l.st = "more" THEN more ELSE array_of(buf, l.next, parse_int(l.line))

\* The arguments that the ranges of a complete parse p stand for.
owned(buf, p) ==
  IF p.st # "ok" THEN p
  ELSE [p EXCEPT !.argv = [i \in DOMAIN @ |-> SubSeq(buf, @[i][1], @[i][1] + @[i][2] - 1)]]

\* The inline form: split the line at whitespace, leave out the empty pieces.
parse_inline_command(buf) ==
  LET l == read_line(buf, 1)
      cuts == SetToSortSeq({i \in DOMAIN l.line : l.line[i] \in Whitespace} \cup
                           {0, Len(l.line) + 1}, <)
      pieces == [j \in 1..(Len(cuts) - 1) |-> SubSeq(l.line, cuts[j] + 1, cuts[j + 1] - 1)]
  IN IF l.st = "ok" THEN parsed(SelectSeq(pieces, LAMBDA p : p # <<>>), l.next - 1)
     ELSE IF Len(buf) > MAX_INLINE THEN failed
     ELSE more

\* parse_command: owned arguments, for the replay of a file.
parse_command(buf) ==
  IF buf = <<>> THEN more
  ELSE IF buf[1] = "*" THEN owned(buf, array_ranges(buf))
  ELSE parse_inline_command(buf)

\* The inline form of parse_command_ranges: where each word begins, and how
\* long it is.
inline_ranges(buf) ==
  LET l == read_line(buf, 1)
      word(i) == i \in DOMAIN l.line /\ l.line[i] \notin Whitespace
      starts == SetToSortSeq({i \in DOMAIN l.line : word(i) /\ ~word(i - 1)}, <)
      end(i) == CHOOSE j \in i..Len(l.line) : ~word(j + 1) /\ \A m \in i..j : word(m)
  IN IF l.st = "ok"
     THEN parsed([j \in DOMAIN starts |-> <<starts[j], end(starts[j]) - starts[j] + 1>>],
                 l.next - 1)
     ELSE IF Len(buf) > MAX_INLINE THEN failed
     ELSE more

\* parse_command_ranges: arguments as (offset, length) in the buffer.
parse_command_ranges(buf) ==
  IF buf = <<>> THEN more
  ELSE IF buf[1] = "*" THEN array_ranges(buf)
  ELSE inline_ranges(buf)

-----------------------------------------------------------------------------
(* Replies                                                                 *)

Simple(s) == [simple |-> s]
Error(e) == [error |-> e]
Number(n) == [int |-> n]
Bulk(b) == [bulk |-> b]
Array(a) == [array |-> a]
Map(m) == [map |-> m]
NilBulk == [nil |-> "bulk"]
NilArray == [nil |-> "array"]

ok == Simple("OK")

write_bulk(b) == <<"$">> \o to_string(Len(b)) \o CRLF \o b \o CRLF

\* Mutant of write_null: RESP3 is sent an empty string.
write_null_empty(resp3) == (IF resp3 THEN <<"$", "0">> \o CRLF ELSE <<"$", "-", "1">>) \o CRLF

write_null(resp3) == (IF resp3 THEN <<"_">> ELSE <<"$", "-", "1">>) \o CRLF

write_simple(s) == <<"+", s>> \o CRLF

\* The text is not escaped.
write_error(e) == <<"-">> \o e \o CRLF

write_int(n) == <<":">> \o to_string(n) \o CRLF

\* The prefix of an array or a map.
head(r, resp3) ==
  IF "array" \in DOMAIN r THEN <<"*">> \o to_string(Len(r.array)) \o CRLF
  ELSE IF resp3 THEN <<"%">> \o to_string(Len(r.map)) \o CRLF
  ELSE <<"*">> \o to_string(2 * Len(r.map)) \o CRLF

RECURSIVE encode(_, _)

\* Reply::encode.
encode(r, resp3) ==
  LET all(items) == FlattenSeq([i \in DOMAIN items |-> encode(items[i], resp3)])
  IN CASE "simple" \in DOMAIN r -> write_simple(r.simple)
       [] "error" \in DOMAIN r  -> write_error(r.error)
       [] "int" \in DOMAIN r    -> write_int(r.int)
       [] "bulk" \in DOMAIN r   -> write_bulk(r.bulk)
       [] "array" \in DOMAIN r  -> head(r, resp3) \o all(r.array)
       [] "map" \in DOMAIN r    -> head(r, resp3) \o all(FlattenSeq(r.map))
       [] r = NilBulk           -> write_null(resp3)
       [] r = NilArray          -> IF resp3 THEN write_null(TRUE)
                                   ELSE <<"*", "-", "1">> \o CRLF

\* encode_command, and write_cmd and encode of the dump and of the replicas'
\* stream: an array of bulk strings.
encode_command(argv) ==
  <<"*">> \o to_string(Len(argv)) \o CRLF \o
  FlattenSeq([i \in DOMAIN argv |-> write_bulk(argv[i])])

=============================================================================
