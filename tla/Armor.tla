-------------------------------- MODULE Armor --------------------------------
(***************************************************************************)
(* base64 (common/encode/armor.c) as buffer::list uses it                  *)
(* (encode_base64() and decode_base64(), common/buffer/buffer_list.cc):    *)
(* three bytes become four characters, `=' fills the last group up, and    *)
(* the decoder takes lines, a second alphabet, and whatever it is given.   *)
(* A byte is 0..255 and a character its ASCII code.                        *)
(*                                                                         *)
(* A client armors a list, somebody may change one character or cut the    *)
(* text into lines, and the client appends the decoded text to a list.     *)
(***************************************************************************)
EXTENDS Integers, Sequences, FiniteSets

CONSTANTS Texts,       \* the contents of the list that is armored
          Before,      \* what the list that is decoded to already holds
          LineWidths,  \* the widths a text may be cut to, 0 for no lines
          Garbage      \* characters that may take the place of another

VARIABLES plain,       \* the list that is armored
          armored,     \* its text
          damage,      \* the character changed on the way: << >> or <<place, what it was>>
          list,        \* the list that is decoded to
          stage

vars == <<plain, armored, damage, list, stage>>

Pad == 61
Newline == 10
Hyphen == 45
Underscore == 95
ERANGE == -34
EINVAL == -22

EncodeBits(c) == CASE c < 26 -> 65 + c
                   [] c \in 26..51 -> 97 + c - 26
                   [] c \in 52..61 -> 48 + c - 52
                   [] c = 62 -> 43
                   [] c = 63 -> 47

DecodeBits(c) == CASE c \in 65..90 -> c - 65
                   [] c \in 97..122 -> c - 97 + 26
                   [] c \in 48..57 -> c - 48 + 52
                   [] c \in {43, Hyphen} -> 62
                   [] c \in {47, Underscore} -> 63
                   [] c = Pad -> 0
                   [] OTHER -> EINVAL

(* One turn of the loop: the characters of one, two or three bytes.         *)
EncodeGroup(g) ==
  LET a == g[1]
      b == IF Len(g) > 1 THEN g[2] ELSE 0
      c == IF Len(g) > 2 THEN g[3] ELSE 0
  IN  << EncodeBits(a \div 4),
         EncodeBits((a % 4) * 16 + b \div 16),
         IF Len(g) > 1 THEN EncodeBits((b % 16) * 4 + c \div 64) ELSE Pad,
         IF Len(g) > 2 THEN EncodeBits(c % 64) ELSE Pad >>

(* SET_DST: what is written and the code returned, 0 while it fits. *)
SetDst(out, chars, dstLen) ==
  IF Len(out.text) + Len(chars) <= dstLen
    THEN [text |-> out.text \o chars, ret |-> 0]
    ELSE [text |-> out.text \o SubSeq(chars, 1, dstLen - Len(out.text)), ret |-> ERANGE]

(* spec_armor_line_break(): out_len is the length of what is written.       *)
SpecArmorLineBreak(src, dstLen, lineWidth) ==
  LET groups == (Len(src) + 2) \div 3
      Turn(n) == EncodeGroup(SubSeq(src, 3 * n - 2, IF 3 * n < Len(src) THEN 3 * n ELSE Len(src)))
      LineFull(n) == lineWidth # 0 /\ lineWidth % 4 = 0 /\ (4 * n) % lineWidth = 0
      Out[n \in 0..groups] ==
        IF n = 0 THEN [text |-> <<>>, ret |-> 0]
        ELSE LET out == Out[n - 1]
             IN  IF out.ret < 0 THEN out
                 ELSE SetDst(out, Turn(n) \o (IF LineFull(n) THEN <<Newline>> ELSE <<>>), dstLen)
  IN  Out[groups]

SpecArmor(src, dstLen) == SpecArmorLineBreak(src, dstLen, 0)

(* What a group of four characters becomes, and whether it is the last that *)
(* is looked at; a character of neither alphabet makes the text malformed.  *)
DecodeGroup(s) ==
  LET v == [i \in 1..4 |-> DecodeBits(s[i])]
      bytes == << (v[1] * 4 + v[2] \div 16) % 256, (v[2] % 16) * 16 + v[3] \div 4, (v[3] % 4) * 64 + v[4] >>
  IN  [bad |-> \E i \in 1..4 : v[i] < 0,
       bytes |-> SubSeq(bytes, 1, IF s[3] = Pad THEN 1 ELSE IF s[4] = Pad THEN 2 ELSE 3),
       last |-> s[3] = Pad \/ s[4] = Pad]

(* spec_unarmor(): At[n] is the state after n turns of the loop.            *)
SpecUnarmor(src, dstLen) ==
  LET Stop(s, ret) == [s EXCEPT !.ret = ret, !.done = TRUE]
      Turn(s) ==
        IF s.at = Len(src) THEN Stop(s, 0)
        ELSE IF src[s.at + 1] = Newline THEN [s EXCEPT !.at = @ + 1]
        ELSE IF s.at + 4 > Len(src) THEN Stop(s, EINVAL)
        ELSE LET g == DecodeGroup(SubSeq(src, s.at + 1, s.at + 4))
                 out == SetDst(s, g.bytes, dstLen)
             IN  IF g.bad THEN Stop(s, EINVAL)
                 ELSE [text |-> out.text, ret |-> out.ret, at |-> s.at + 4,
                       done |-> g.last \/ out.ret < 0]
      At[n \in 0..(Len(src) + 1)] ==
        IF n = 0 THEN [text |-> <<>>, ret |-> 0, at |-> 0, done |-> FALSE]
        ELSE LET s == At[n - 1] IN IF s.done THEN s ELSE Turn(s)
      end == At[Len(src) + 1]
  IN  [text |-> end.text, ret |-> end.ret]

(* Variant of EncodeRoom that is one short. *)
EncodeRoomShort(n) == (n * 4) \div 3 + 2

(* Of the two lists: the sizes of the buffers they make for the result.     *)
EncodeRoom(n) == (n * 4) \div 3 + 3
DecodeRoom(n) == 4 + (n * 3) \div 4

Init == /\ plain \in Texts
        /\ list = Before
        /\ armored = <<>>
        /\ damage = <<>>
        /\ stage = "plain"

(* encode_base64() *)
EncodeBase64 ==
  /\ stage = "plain"
  /\ LET out == SpecArmor(plain, EncodeRoom(Len(plain)))
     IN  /\ armored' = out.text
         /\ stage' = IF out.ret < 0 THEN "overflow" ELSE "armored"
  /\ UNCHANGED <<plain, damage, list>>

(* The same text from spec_armor_line_break(), in a buffer of any size.     *)
EncodeLines ==
  /\ stage = "plain"
  /\ \E w \in LineWidths, n \in 0..(3 * Len(plain) + 4) :
       LET out == SpecArmorLineBreak(plain, n, w)
       IN  /\ armored' = out.text
           /\ stage' = IF out.ret < 0 THEN "cut" ELSE "armored"
  /\ UNCHANGED <<plain, damage, list>>

(* One character becomes another on the way. *)
Change ==
  /\ stage = "armored" /\ damage = <<>>
  /\ \E i \in 1..Len(armored), c \in Garbage :
       /\ c # armored[i]
       /\ armored' = [armored EXCEPT ![i] = c]
       /\ damage' = <<i, armored[i]>>
  /\ UNCHANGED <<plain, list, stage>>

(* decode_base64(): for a negative length malformed_input is thrown before  *)
(* the list is touched.                                                     *)
DecodeBase64 ==
  /\ stage = "armored"
  /\ LET out == SpecUnarmor(armored, DecodeRoom(Len(armored)))
     IN  \/ out.ret < 0 /\ stage' = "malformed" /\ UNCHANGED list
         \/ out.ret = 0 /\ stage' = "decoded" /\ list' = list \o out.text
  /\ UNCHANGED <<plain, armored, damage>>

Next == EncodeBase64 \/ EncodeLines \/ Change \/ DecodeBase64

Spec == Init /\ [][Next]_vars

---------------------------------------------------------------------------

Digit(c) == c \notin {Pad, Newline} /\ DecodeBits(c) >= 0
GroupsBefore(i) == Cardinality({j \in 1..(i - 1) : armored[j] # Newline}) \div 4
Decoded == SubSeq(list, Len(Before) + 1, Len(list))

(***************************************************************************)
(* encode_base64() and decode_base64(): the buffers they size are always   *)
(* large enough, what was armored comes back whole in whatever lines it    *)
(* was cut, and a text is only refused, leaving the list as it was, if it  *)
(* was changed.  A change reaches nothing in front of its own group of     *)
(* four; if a digit became another, nothing behind the group either.       *)
(***************************************************************************)
Recovered ==
  /\ stage # "overflow"
  /\ stage = "malformed" => damage # <<>> /\ list = Before
  /\ stage = "decoded" => SubSeq(list, 1, Len(Before)) = Before
  /\ stage = "decoded" /\ damage = <<>> => Decoded = plain
  /\ stage = "decoded" /\ damage # <<>> =>
       LET groups == 3 * GroupsBefore(damage[1])
           intact == IF groups < Len(plain) THEN groups ELSE Len(plain)
       IN  /\ SubSeq(Decoded, 1, intact) = SubSeq(plain, 1, intact)
           /\ Digit(damage[2]) /\ Digit(armored[damage[1]]) =>
                /\ Len(Decoded) = Len(plain)
                /\ SubSeq(Decoded, intact + 4, Len(plain)) = SubSeq(plain, intact + 4, Len(plain))
=============================================================================
