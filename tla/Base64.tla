------------------------------- MODULE Base64 -------------------------------
(* base64.c: b64_ntop writes the bytes of a key or signature as characters *)
(* of four to three bytes, b64_pton reads them back one character at a     *)
(* time. A character of the alphabet is its place there, 0 to 63.          *)
EXTENDS Integers, Sequences, FiniteSets, Functions

CONSTANTS
  Pad64,     \* '='
  Space,     \* what isspace() holds of
  Other,     \* any other character that is not of the alphabet
  Nul,       \* the end of a string
  Sources,   \* what can be in a file
  TargSizes  \* sizes of targets

Chars == 0..63
Bytes == 0..255
Strings == Seq(Chars \cup {Pad64, Space, Other})

ASSUME CharactersAreApart ==
  /\ {Pad64, Space, Other, Nul} \cap Chars = {}
  /\ Cardinality({Pad64, Space, Other, Nul}) = 4

ASSUME InputsAssumption == Sources \subseteq Strings /\ TargSizes \subseteq Nat

-----------------------------------------------------------------------------
(* The four characters of a group, and those of a last group that is short.*)
Group(a, b, c) ==
  <<a \div 4, (a % 4) * 16 + b \div 16, (b % 16) * 4 + c \div 64, c % 64>>

LastGroup(input) ==
  CASE Len(input) = 0 -> << >>
    [] Len(input) = 1 -> [Group(input[1], 0, 0) EXCEPT ![3] = Pad64, ![4] = Pad64]
    [] Len(input) = 2 -> [Group(input[1], input[2], 0) EXCEPT ![4] = Pad64]

Encoded(bytes) ==
  LET n == Len(bytes) \div 3
      GroupOf(k) == Group(bytes[3 * k + 1], bytes[3 * k + 2], bytes[3 * k + 3])
  IN [k \in 1..(4 * n) |-> GroupOf((k - 1) \div 4)[((k - 1) % 4) + 1]]
       \o LastGroup(SubSeq(bytes, 3 * n + 1, Len(bytes)))

(* -1 unless the characters, and a byte 0 after them, fit in the target.   *)
Error == << >>
b64_ntop(bytes, size) == IF Len(Encoded(bytes)) >= size THEN Error ELSE Encoded(bytes)

-----------------------------------------------------------------------------
(* b64_pton. A target is as large as the caller says, and what was not     *)
(* written is what was there.                                              *)
VARIABLES src, at, targsize, target, tarindex, state, decoding

bvars == <<src, at, targsize, target, tarindex, state, decoding>>

Garbage == 255
ch == IF at <= Len(src) THEN src[at] ELSE Nul

DecodeInit ==
  /\ src \in Sources /\ targsize \in TargSizes
  /\ target = [k \in 0..(targsize - 1) |-> Garbage]
  /\ at = 1 /\ tarindex = 0 /\ state = 0
  /\ decoding = "chars"

Fail == decoding' = "error" /\ UNCHANGED <<src, at, targsize, target, tarindex, state>>

(* Whitespace is skipped anywhere.                                         *)
SkipSpace ==
  /\ decoding \in {"chars", "pad", "end"} /\ ch = Space
  /\ at' = at + 1
  /\ UNCHANGED <<src, targsize, target, tarindex, state, decoding>>

NonBase64 ==
  /\ decoding = "chars" /\ ch = Other
  /\ Fail

(* A character begins a byte in state 0, ends one and begins the next in   *)
(* states 1 and 2, and ends one in state 3. Bits of a next byte that has   *)
(* no room in the target must be 0.                                        *)
Begins(c) ==
  CASE state = 1 -> (c % 16) * 16
    [] state = 2 -> (c % 4) * 64
    [] state = 3 -> 0
Ends(c) ==
  CASE state = 1 -> c \div 16
    [] state = 2 -> c \div 4
    [] state = 3 -> c

FirstChar ==
  /\ decoding = "chars" /\ ch \in Chars /\ state = 0
  /\ IF tarindex >= targsize
       THEN Fail
       ELSE /\ target' = [target EXCEPT ![tarindex] = ch * 4]
            /\ state' = 1 /\ at' = at + 1
            /\ UNCHANGED <<src, targsize, tarindex, decoding>>

(* Mutant of NextChar: the bits that have no room are dropped.             *)
NextCharDrops ==
  /\ decoding = "chars" /\ ch \in Chars /\ state # 0
  /\ IF tarindex >= targsize
       THEN Fail
       ELSE /\ target' = [k \in DOMAIN target |->
                 CASE k = tarindex -> target[k] + Ends(ch)
                   [] k = tarindex + 1 /\ state # 3 -> Begins(ch)
                   [] OTHER -> target[k]]
            /\ tarindex' = tarindex + 1 /\ state' = (state + 1) % 4 /\ at' = at + 1
            /\ UNCHANGED <<src, targsize, decoding>>

NextChar ==
  /\ decoding = "chars" /\ ch \in Chars /\ state # 0
  /\ IF tarindex >= targsize \/ (tarindex + 1 = targsize /\ Begins(ch) # 0)
       THEN Fail
       ELSE /\ target' = [k \in DOMAIN target |->
                 CASE k = tarindex -> target[k] + Ends(ch)
                   [] k = tarindex + 1 /\ state # 3 -> Begins(ch)
                   [] OTHER -> target[k]]
            /\ tarindex' = tarindex + 1 /\ state' = (state + 1) % 4 /\ at' = at + 1
            /\ UNCHANGED <<src, targsize, decoding>>

(* The first '=': with one character of a byte missing another must follow.*)
PadChar ==
  /\ decoding = "chars" /\ ch = Pad64
  /\ IF state \in {0, 1}
       THEN Fail
       ELSE /\ decoding' = (IF state = 2 THEN "pad" ELSE "end") /\ at' = at + 1
            /\ UNCHANGED <<src, targsize, target, tarindex, state>>

SecondPad ==
  /\ decoding = "pad" /\ ch # Space
  /\ IF ch # Pad64
       THEN Fail
       ELSE /\ decoding' = "end" /\ at' = at + 1
            /\ UNCHANGED <<src, targsize, target, tarindex, state>>

(* After the padding there is nothing, and the bits of the last character  *)
(* that are of no byte are 0.                                              *)
PadEnd ==
  /\ decoding = "end" /\ ch # Space
  /\ IF ch # Nul \/ (tarindex < targsize /\ target[tarindex] # 0)
       THEN Fail
       ELSE decoding' = "done" /\ UNCHANGED <<src, at, targsize, target, tarindex, state>>

CharsEnd ==
  /\ decoding = "chars" /\ ch = Nul
  /\ IF state # 0 THEN Fail
       ELSE decoding' = "done" /\ UNCHANGED <<src, at, targsize, target, tarindex, state>>

DecodeStep ==
  \/ SkipSpace \/ NonBase64 \/ FirstChar \/ NextChar
  \/ PadChar \/ SecondPad \/ PadEnd \/ CharsEnd

DecodeSpec == DecodeInit /\ [][DecodeStep]_bvars

-----------------------------------------------------------------------------
(* What is left of the first k characters of a string without the spaces.  *)
Stripping(s) ==
  LET left[k \in 0..Len(s)] ==
        IF k = 0 THEN << >>
        ELSE IF s[k] = Space THEN left[k - 1] ELSE Append(left[k - 1], s[k])
  IN left

Stripped == Stripping(src)[Len(src)]
Result == [k \in 1..tarindex |-> target[k - 1]]

(* What b64_ntop can write: groups, the last of them perhaps short.        *)
LastGroups == {LastGroup(x) : x \in {<<b>> : b \in Bytes} \cup (Bytes \X Bytes)}
IsEncoding(s) ==
  /\ Len(s) % 4 = 0
  /\ \/ Range(s) \subseteq Chars
     \/ /\ Range(SubSeq(s, 1, Len(s) - 4)) \subseteq Chars
        /\ SubSeq(s, Len(s) - 3, Len(s)) \in LastGroups
Size(s) == 3 * (Len(s) \div 4) - Cardinality({k \in 1..Len(s) : s[k] = Pad64})

(* Nothing is accepted but the one encoding of the bytes that are returned,*)
(* with whitespace anywhere, since bits and characters beyond them would be*)
(* a subliminal channel (the comment at base64.c:288); and what b64_ntop   *)
(* wrote is read, if the target has room for all its bytes.                *)
DecodesExactly ==
  /\ decoding = "done" => Encoded(Result) = Stripped
  /\ decoding = "error" => ~ IsEncoding(Stripped) \/ Size(Stripped) > targsize
=============================================================================
