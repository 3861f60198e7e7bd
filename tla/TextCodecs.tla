----------------------------- MODULE TextCodecs ----------------------------
(***************************************************************************)
(* The hexadecimal and the URL encoding of liberate::string.  A text is a  *)
(* sequence of characters, and a character is its number in ASCII.         *)
(***************************************************************************)
EXTENDS Integers, SequencesExt

Characters == 0 .. 255
Decimals   == 48 .. 57
Upper      == 65 .. 90
Lower      == 97 .. 122
Percent    == 37
Question   == 63
Nul        == 0

(* tolower() of a character, and of a text.                                *)
ToLower(c)  == IF c \in Upper THEN c + 32 ELSE c
Lowered(s)  == [i \in DOMAIN s |-> ToLower(s[i])]

-----------------------------------------------------------------------------
(* hexalpha_lower and hexalpha_upper, which has a D in the place of its C. *)
HexDigit(d, uppercase) ==
  IF d < 10 THEN 48 + d
  ELSE IF ~uppercase THEN 87 + d
  ELSE IF d = 12 THEN 68 ELSE 55 + d

HexEncode(s, uppercase) ==
  [i \in 1 .. 2 * Len(s) |->
     LET c == s[(i + 1) \div 2]
     IN  HexDigit(IF i % 2 = 1 THEN c \div 16 ELSE c % 16, uppercase)]

(* decode_half(); -1 for what is not a hexadecimal digit.                  *)
DecodeHalf(c) ==
  IF c \in Decimals THEN c - 48
  ELSE IF ToLower(c) \in 97 .. 102 THEN ToLower(c) - 87 ELSE -1

(* hexdecode() of s, of which it reads pairs: behind is the character that *)
(* follows a text of odd length in memory.                                 *)
HexDecode(s, behind) ==
  LET read == IF Len(s) % 2 = 0 THEN s ELSE Append(s, behind)
  IN  IF \E i \in DOMAIN read : DecodeHalf(read[i]) < 0 THEN <<>>
      ELSE [i \in 1 .. Len(read) \div 2 |->
              16 * DecodeHalf(read[2 * i - 1]) + DecodeHalf(read[2 * i])]

-----------------------------------------------------------------------------
(* The characters urlencode() keeps: alphanumeric ones, and - _ . and /.   *)
Kept == Decimals \union Upper \union Lower \union {45, 46, 47, 95}

(* A fault: the percent sign is kept.                                      *)
UrlEncodedPercent(c) ==
  IF c \in Kept \union {Percent} THEN <<c>> ELSE <<Percent>> \o HexEncode(<<c>>, TRUE)

(* urlencode(), of a character and of a text.                              *)
UrlEncoded(c) ==
  IF c \in Kept THEN <<c>> ELSE <<Percent>> \o HexEncode(<<c>>, TRUE)

UrlEncode(s) == FlattenSeq([i \in DOMAIN s |-> UrlEncoded(s[i])])

(* One turn of the loop of urldecode(): a percent sign and two digits make *)
(* a character; if they are none, all three make a question mark.  A NUL   *)
(* follows the text.                                                       *)
UrlDecoded(hex) ==
  IF HexDecode(hex, Nul) = <<>> THEN <<Question>> ELSE HexDecode(hex, Nul)

DecodeTurn(s, loop) ==
  LET i     == loop.next
      At(k) == IF k <= Len(s) THEN s[k] ELSE Nul
  IN  IF i > Len(s) THEN loop
      ELSE IF s[i] # Percent THEN [next |-> i + 1, ret |-> Append(loop.ret, s[i])]
      ELSE [next |-> i + 3, ret |-> loop.ret \o UrlDecoded(<<At(i + 1), At(i + 2)>>)]

DecodeTurns(s) ==
  LET Turns[n \in 0 .. Len(s)] ==
        IF n = 0 THEN [next |-> 1, ret |-> <<>>] ELSE DecodeTurn(s, Turns[n - 1])
  IN  Turns

(* urldecode(), which is through after as many turns as there are          *)
(* characters.                                                             *)
UrlDecode(s) == DecodeTurns(s)[Len(s)].ret

-----------------------------------------------------------------------------
(* Where needle is in haystack, from a position on: find().                *)
Matches(haystack, needle, start) ==
  {i \in start .. Len(haystack) - Len(needle) + 1 :
     SubSeq(haystack, i, i + Len(needle) - 1) = needle}

(* A fault: the search goes on within the needle that was replaced.        *)
ReplaceOverlapping(haystack, needle, substitute, loop) ==
  LET found == Matches(haystack, needle, loop.next)
  IN  IF found = {} THEN loop
      ELSE [next |-> Min(found) + 1,
            ret  |-> loop.ret \o SubSeq(haystack, loop.next, Min(found) - 1) \o substitute]

(* One turn of the loop of replace(), unless it is the last one.           *)
ReplaceTurn(haystack, needle, substitute, loop) ==
  LET found == Matches(haystack, needle, loop.next)
  IN  IF found = {} THEN loop
      ELSE [next |-> Min(found) + Len(needle),
            ret  |-> loop.ret \o SubSeq(haystack, loop.next, Min(found) - 1) \o substitute]

ReplaceTurns(haystack, needle, substitute) ==
  LET Turns[n \in 0 .. Len(haystack) + 1] ==
        IF n = 0 THEN [next |-> 1, ret |-> <<>>]
        ELSE ReplaceTurn(haystack, needle, substitute, Turns[n - 1])
  IN  Turns

(* replace() of a needle that is not empty, of which the haystack has no   *)
(* more than it has characters; with an empty one it would not return.     *)
(* What is behind the last one is taken as it is.                          *)
Replace(haystack, needle, substitute, first_only) ==
  LET last == ReplaceTurns(haystack, needle, substitute)
                [IF first_only THEN 1 ELSE Len(haystack) + 1]
  IN  last.ret \o SubSeq(haystack, last.next, Len(haystack))

(* ifind(): the offset of the needle in whatever case, or -1.  Where an    *)
(* empty needle is in an empty text is the end of it, which is taken for   *)
(* not found.                                                              *)
IFind(haystack, needle) ==
  LET found == Matches(Lowered(haystack), Lowered(needle), 1)
  IN  IF found = {} \/ haystack = <<>> THEN -1 ELSE Min(found) - 1
=============================================================================
