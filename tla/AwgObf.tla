------------------------------- MODULE AwgObf -------------------------------
(***************************************************************************)
(* The pure parts of the configuration: base64 in both directions and the  *)
(* templates of the obfuscation packets (awg_obf.c), addresses             *)
(* (awg_config.c).  input is one input to one of them; nothing changes it. *)
(*                                                                         *)
(* A character is a number: its value if it is a digit of base64 or of an  *)
(* address, and a number beyond the digits if it is not.  A 32-bit word is *)
(* the sequence of its bytes, the highest first, except the accumulator of *)
(* the decoder, a number below AccMod.  Random bytes and those of the      *)
(* clock are written down as AnyByte; a tag is [kind, len, data].          *)
(***************************************************************************)
EXTENDS Integers, Sequences, FiniteSets

LOCAL INSTANCE SequencesExt

CONSTANTS
  AccMod,              \* 2^32; what is read of the accumulator is below 2^12
  Keys,                \* sequences of bytes
  Renderings,          \* templates, sequences of tags, each with a payload
  Addresses            \* sequences of digits, Dot and others

VARIABLE input

ASSUME AccAssumption == AccMod \in Nat /\ AccMod > 0 /\ AccMod % 4096 = 0

\* Not a byte.
Unset   == 256
AnyByte == 257

\* Marks awg_b64_decode passes over, and one that is not base64.
Skipped   == 64..67
NotBase64 == 68

\* Not a decimal digit.
Dot == 10
End == 12

Failed == <<-1>>

-----------------------------------------------------------------------------
(* base64 *)

\* The 24 bits of the group that starts at i; bytes beyond the end are 0.
Group(in, i) ==
  LET at(k) == IF k <= Len(in) THEN in[k] ELSE 0
  IN at(i) * 65536 + at(i + 1) * 256 + at(i + 2)

Unit(v, k) == (v \div (2 ^ (18 - 6 * k))) % 64

\* Raw: no padding.
Units(rem) == IF rem >= 3 THEN 4 ELSE rem + 1

EncodedLen(n) == 4 * (n \div 3) + (IF n % 3 = 0 THEN 0 ELSE Units(n % 3))

\* awg_b64_encode_raw, which fails at the group that does not fit any more.
EncodeRaw(in, out_cap) ==
  IF EncodedLen(Len(in)) > out_cap THEN Failed
  ELSE [o \in 1..EncodedLen(Len(in)) |->
          Unit(Group(in, 3 * ((o - 1) \div 4) + 1), (o - 1) % 4)]

\* One character of awg_b64_decode.
DecodeStepEarly(st, v) ==
  LET acc  == (st.acc * 64 + v) % AccMod
      bits == st.bits + 6
  IN IF bits < 6 THEN [st EXCEPT !.acc = acc, !.bits = bits]
     ELSE [acc |-> acc, bits |-> bits - 6, out |-> Append(st.out, (acc \div 2 ^ (bits - 6)) % 256)]

DecodeStep(st, v) ==
  LET acc  == (st.acc * 64 + v) % AccMod
      bits == st.bits + 6
  IN IF bits < 8 THEN [acc |-> acc, bits |-> bits, out |-> st.out]
     ELSE [acc |-> acc, bits |-> bits - 8, out |-> Append(st.out, (acc \div 2 ^ (bits - 8)) % 256)]

DecodeStart == [acc |-> 0, bits |-> 0, out |-> <<>>]

Value(c) == c \notin Skipped

\* awg_b64_decode; it fails at a strange character and when out is full.
Decode(in, out_cap) ==
  LET marks == SelectSeq(in, Value)
      st    == FoldLeft(DecodeStep, DecodeStart, marks)
  IN IF \E i \in DOMAIN marks : marks[i] = NotBase64 THEN Failed
     ELSE IF Len(st.out) > out_cap THEN Failed ELSE st.out

-----------------------------------------------------------------------------
(* Templates *)

TagOutLen(o, src_len) ==
  CASE o.kind = "b"  -> Len(o.data)
    [] o.kind = "t"  -> 4
    [] o.kind = "d"  -> src_len
    [] o.kind = "ds" -> (src_len \div 3) * 4 + (IF src_len % 3 = 0 THEN 0 ELSE (src_len % 3) + 1)
    [] OTHER         -> o.len

OutLen(c, src_len) == FoldLeft(LAMBDA n, o : n + TagOutLen(o, src_len), 0, c)

\* The payload's length, the highest byte first, cut to the width that was declared.
SizeBytes(len, src_len) == [k \in 1..len |-> (src_len \div 256 ^ (len - k)) % 256]

\* What a tag writes; a payload tag without payload writes nothing.
TagBytes(o, src) ==
  CASE o.kind = "b"  -> o.data
    [] o.kind = "t"  -> [k \in 1..4 |-> AnyByte]
    [] o.kind = "d"  -> src
    [] o.kind = "ds" -> EncodeRaw(src, TagOutLen(o, Len(src)))
    [] o.kind = "dz" -> SizeBytes(o.len, Len(src))
    [] OTHER         -> [k \in 1..o.len |-> AnyByte]

\* dst with bytes from w on; the room is what awg_obf_out_len said.
Placed(dst, w, bytes) ==
  [k \in 1..(IF w + Len(bytes) > Len(dst) THEN w + Len(bytes) ELSE Len(dst)) |->
     IF k - w \in DOMAIN bytes THEN bytes[k - w] ELSE dst[k]]

\* awg_obf_render.
Render(c, src) ==
  LET step(st, o) == [dst |-> Placed(st.dst, st.w, TagBytes(o, src)),
                      w   |-> st.w + TagOutLen(o, Len(src))]
  IN FoldLeft(step, [dst |-> [k \in 1..OutLen(c, Len(src)) |-> Unset], w |-> 0], c).dst

-----------------------------------------------------------------------------
(* Addresses *)

\* One character of parse_ipv4, of which End is the last.
AddressStep(st, c) ==
  IF ~ st.ok THEN st
  ELSE IF c \in 0..9
  THEN [st EXCEPT !.octet = @ * 10 + c, !.digits = @ + 1,
                  !.ok = st.digits < 3 /\ st.octet * 10 + c <= 255]
  ELSE IF c \in {Dot, End}
  THEN [st EXCEPT !.v = Append(Tail(@), st.octet), !.parts = @ + 1, !.octet = 0, !.digits = 0,
                  !.ok = st.digits > 0 /\ (c = End \/ st.parts + 1 # 4)]
  ELSE [st EXCEPT !.ok = FALSE]

\* parse_ipv4: the word in network order has the first octet in its lowest byte.
ParseIpv4(s) ==
  LET st == FoldLeft(AddressStep,
                     [v |-> <<0, 0, 0, 0>>, octet |-> 0, digits |-> 0, parts |-> 0, ok |-> TRUE],
                     Append(s, End))
  IN IF ~ st.ok \/ st.parts # 4 THEN Failed ELSE Reverse(st.v)

-----------------------------------------------------------------------------
ObfInit ==
  \/ \E key \in Keys, mark \in Skipped \cup {NotBase64}, at \in 0..3 :
       input = [what |-> "key", key |-> key, mark |-> mark, at |-> at]
  \/ \E r \in Renderings : input = [what |-> "template", chain |-> r[1], src |-> r[2]]
  \/ \E text \in Addresses : input = [what |-> "address", text |-> text]

\* A key survives the way through base64 with whatever padding or white space is in it;
\* a strange character is refused, and so is a key longer than its buffer, which
\* parse_key relies on.
KeysSurvive ==
  input.what = "key" =>
    LET n    == Len(input.key)
        text == EncodeRaw(input.key, EncodedLen(n))
        at   == IF input.at > Len(text) THEN Len(text) ELSE input.at
        got  == Decode(InsertAt(text, at + 1, input.mark), n)
    IN /\ got = IF input.mark = NotBase64 THEN Failed ELSE input.key
       /\ n > 0 => Decode(text, n - 1) = Failed /\ EncodeRaw(input.key, EncodedLen(n) - 1) = Failed

\* What a template renders fills the room that awg_obf_out_len announced to the byte, and
\* each tag finds its own bytes at its own place, whatever the other tags wrote; the
\* length field is the payload's length in big-endian order.
FillsItsRoom ==
  input.what = "template" =>
    LET out == Render(input.chain, input.src)
        starts(i) == OutLen(SubSeq(input.chain, 1, i - 1), Len(input.src))
        piece(i)  == SubSeq(out, starts(i) + 1, starts(i) + TagOutLen(input.chain[i], Len(input.src)))
    IN /\ Len(out) = OutLen(input.chain, Len(input.src))
       /\ \A k \in DOMAIN out : out[k] # Unset
       /\ \A i \in DOMAIN input.chain :
            /\ input.chain[i].kind = "d" => piece(i) = input.src
            /\ input.chain[i].kind = "ds" => Decode(piece(i), Len(input.src)) = input.src
            /\ input.chain[i].kind = "dz" =>
                 FoldLeft(LAMBDA v, b : v * 256 + b, 0, piece(i))
                   = Len(input.src) % (256 ^ input.chain[i].len)

Octet(field) == FoldLeft(LAMBDA v, c : v * 10 + c, 0, field)

\* The fields of a text between its dots.
Fields(text) ==
  LET dots == {0, Len(text) + 1} \cup {k \in DOMAIN text : text[k] = Dot}
      from(k) == SetToSortSeq(dots, <)[k]
  IN [k \in 1..Cardinality(dots) - 1 |-> SubSeq(text, from(k) + 1, from(k + 1) - 1)]

\* parse_ipv4 takes four numbers of one to three digits up to 255, and nothing else.
AddressIsRead ==
  input.what = "address" =>
    LET fields == Fields(input.text)
        good   == /\ Len(fields) = 4
                  /\ \A k \in DOMAIN fields :
                       /\ Len(fields[k]) \in 1..3 /\ ToSet(fields[k]) \subseteq 0..9
                       /\ Octet(fields[k]) <= 255
    IN ParseIpv4(input.text) = IF good THEN Reverse([k \in 1..4 |-> Octet(fields[k])]) ELSE Failed

\* The conversions of the configuration do what they are for, at their edges too.
ConfigTextAgrees == KeysSurvive /\ FillsItsRoom /\ AddressIsRead
=============================================================================
