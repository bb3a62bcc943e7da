------------------------------- MODULE MCWalks -------------------------------
(***************************************************************************)
(* Small instances of the modules about one walk over bytes or numbers:    *)
(* write_fd() and contents_equal() (extended, as theorems are about their   *)
(* definitions), the list iterators, the checksum's loops, armor and       *)
(* utime_t.                                                                *)
(* The components do not interact: a behaviour is one of one of them, and  *)
(* the others wait in one of their initial states.                         *)
(***************************************************************************)
EXTENDS MCWriteFd, ContentsEqual

VARIABLES part,                                       \* the component that runs
          walked, place, walkCall,                    \* Iterator
          args, li, crc,                              \* CrcSlices
          plain, armored, damage, decoded, stage,     \* Armor
          t, timeCall                                 \* UTime

(* Chains of up to three buffers of up to 2 bytes out of {a, b}, against    *)
(* two of them, three of up to one byte, or one of up to 4.                *)
Strings(n) == [1..n -> Chars]
Pieces == UNION {Strings(n) : n \in 0..2}
Cut(bs) == [text |-> FlattenSeq(bs), bufs |-> Chop([i \in DOMAIN bs |-> Len(bs[i])])]
TheseChains == {Cut(bs) : bs \in UNION {[1..n -> Pieces] : n \in 0..3}}
ThoseChains == {Cut(bs) : bs \in UNION {[1..n -> Pieces] : n \in 0..2}
                                 \cup [1..3 -> Strings(0) \cup Strings(1)]
                                 \cup {<<b>> : b \in Strings(3) \cup Strings(4)}}

(* Lists with empty buffers in front, behind and in between. *)
Walked == {<<>>, << <<>> >>, << <<0, 1>> >>, << <<1>>, <<>>, <<0>> >>, << <<0, 1>>, <<0>> >>,
           << <<>>, <<1>> >>, << <<1>>, <<>> >>}
Compared == {<<>>, << <<0>>, <<>> >>, << <<1>>, <<0>> >>, << <<>>, <<0, 0>> >>, << <<0>>, <<>>, <<1, 0>> >>}

IT == INSTANCE Iterator WITH Bytes <- {0, 1}, Chains <- Walked, Others <- Compared, MaxBytes <- 4,
                             MaxOff <- 3, list <- walked, it <- place, call <- walkCall

(* Registers of 8 bits, bytes of 2; up to 18 bytes, one of them not zero    *)
(* (the register is linear in the bytes).                                  *)
OneByte(n, k, b) == [i \in 1..n |-> IF i = k THEN b ELSE {}]
SomeBuffers == {OneByte(n, k, b) : n \in 0..18, k \in 0..18, b \in {{0}, {0, 1}}}

CS == INSTANCE CrcSlices WITH Width <- 8, Poly <- {1, 3, 6, 7}, ByteBits <- 2, Log <- 1,
                              Buffers <- SomeBuffers, Seeds <- {{}, {0, 3, 7}}, MaxOffset <- 3

(* Every text of up to two bytes of three, and longer ones of each length   *)
(* modulo three; digits of either half of the alphabet, "-" and "_", the   *)
(* pad, a newline and a character that is none of them.                    *)
Plains == UNION {[1..n -> {0, 90, 255}] : n \in 0..2}
            \cup {<<0, 255, 16>>, <<77, 97, 110, 255>>, <<251, 240, 3, 64, 129>>, <<1, 2, 3, 4, 250, 6>>,
                  <<250, 16, 3, 4, 5, 6, 7>>}

AR == INSTANCE Armor WITH Texts <- Plains, Before <- <<7>>, LineWidths <- {0, 4, 6, 8},
                          Garbage <- {65, 47, 45, 95, 61, 10, 33}, list <- decoded

UT == INSTANCE UTime WITH Second <- 4, Micro <- 2, SecMod <- 4, NsecMod <- 17, call <- timeCall

ceVars == equalVars
itVars == <<walked, place, walkCall>>
csVars == <<args, li, crc>>
arVars == <<plain, armored, damage, decoded, stage>>
utVars == <<t, timeCall>>
walks == <<part, vars, ceVars, itVars, csVars, arVars, utVars>>

(* What was called last is not part of the state. *)
View == <<part, vars, ceVars, walked, place, csVars, arVars, t>>

WalksInit ==
  /\ part \in {"write_fd", "contents_equal", "iterator", "crc32c", "armor", "utime"}
  /\ CS!Init /\ (part # "crc32c" => args = [data |-> <<>>, null |-> FALSE, offset |-> 0, seed |-> {}])
  /\ UT!Init
  /\ AR!Init /\ (part # "armor" => plain = <<>>)
  /\ IT!Init /\ (part # "iterator" => walked = <<>>)
  /\ Init /\ (part # "write_fd" => chain = <<>> /\ mode = "stream")
  /\ (part # "contents_equal" => this = Cut(<<>>) /\ other = Cut(<<>>)) /\ EqualInit

WriteFdStep == part = "write_fd" /\ Next /\ UNCHANGED <<part, ceVars, itVars, csVars, arVars, utVars>>
ContentsStep == part = "contents_equal" /\ EqualNext
                /\ UNCHANGED <<part, vars, itVars, csVars, arVars, utVars>>
IteratorStep == part = "iterator" /\ IT!Next /\ UNCHANGED <<part, vars, ceVars, csVars, arVars, utVars>>
CrcStep == part = "crc32c" /\ CS!Next /\ UNCHANGED <<part, vars, ceVars, itVars, arVars, utVars>>
ArmorStep == part = "armor" /\ AR!Next /\ UNCHANGED <<part, vars, ceVars, itVars, csVars, utVars>>
UTimeStep == part = "utime" /\ UT!Next /\ UNCHANGED <<part, vars, ceVars, itVars, csVars, arVars>>

WalksNext == WriteFdStep \/ ContentsStep \/ IteratorStep \/ CrcStep \/ ArmorStep \/ UTimeStep

(* The fairness of WriteFd and of ContentsEqual, no more. *)
WriteFdRun == part = "write_fd" /\ Run /\ UNCHANGED <<part, ceVars, itVars, csVars, arVars, utVars>>
WalksSpec == /\ WalksInit /\ [][WalksNext]_walks
             /\ WF_walks(ContentsStep)
             /\ WF_walks(WriteFdRun)

WriteReturns == part = "write_fd" => ReturnsOrRetries
ReadsInOrder == IT!ReadsInOrder
ComparesText == IT!ComparesText
SlicesAgree == CS!SlicesAgree
Recovered == AR!Recovered
Arithmetic == UT!Arithmetic
=============================================================================
