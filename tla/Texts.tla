------------------------------- MODULE Texts -------------------------------
(***************************************************************************)
(* Texts that clients put together, encode and decode again.               *)
(***************************************************************************)
EXTENDS TextCodecs

CONSTANTS
  Alphabet,  (* The characters a client uses,                               *)
  MaxLength, (* the length up to which it appends them,                     *)
  MaxNeedle  (* and that of what it looks for.                              *)

ASSUME TextAssumption ==
  Alphabet \subseteq Characters /\ MaxLength \in Nat /\ MaxNeedle \in Nat

VARIABLE text

TextInit == text = <<>>

TypeCharacter(c) == Len(text) < MaxLength /\ text' = Append(text, c)
EncodeText == Len(text) <= MaxLength /\ text' = UrlEncode(text)
DecodeText == text' = UrlDecode(text)

Substitute(needle, substitute, first_only) ==
  /\ Len(text) <= MaxLength
  /\ text' = Replace(text, needle, substitute, first_only)

TextNext ==
  \/ \E c \in Alphabet : TypeCharacter(c)
  \/ EncodeText
  \/ DecodeText
  \/ \E n, c \in Alphabet, first_only \in BOOLEAN :
       Substitute(<<n>>, <<c>>, first_only)

TextSpec == TextInit /\ [][TextNext]_text
-----------------------------------------------------------------------------
(* Properties.                                                             *)

(* What hexencode() encodes is decoded to what it was, also if its digits  *)
(* were made upper case on the way, and hexdecode() accepts nothing else:  *)
(* what it decodes from a text is encoded to the same digits again.  What  *)
(* urlencode() encodes is decoded to what it was, however often it has     *)
(* been encoded before, if it has only characters that the upper case      *)
(* digits can express; and what urldecode() makes are characters.          *)
DecodesWhatWasEncoded ==
  LET hex   == HexEncode(text, FALSE)
      upper == [i \in DOMAIN hex |->
                  IF hex[i] \in Lower THEN hex[i] - 32 ELSE hex[i]]
      bytes == HexDecode(text, Nul)
  IN  /\ HexDecode(hex, Nul) = text /\ HexDecode(upper, Nul) = text
      /\ bytes # <<>> => HexEncode(bytes, FALSE) = Lowered(text)
      /\ UrlDecode(text) \in Seq(Characters)
      /\ (\A i \in DOMAIN text :
            text[i] \in Kept \/ 12 \notin {text[i] \div 16, text[i] % 16})
           => UrlDecode(UrlEncode(text)) = text

Needles == BoundedSeq(Alphabet, MaxNeedle) \ {<<>>}

(* replace() of any needle by a character that the text has not is undone  *)
(* by replacing that character, and ifind() finds a needle just where      *)
(* replace() would replace it first, were both in lower case.  In an empty *)
(* text there is nothing to find.                                          *)
SearchesAgree ==
  text # <<>> => \A needle \in Needles :
    LET low  == Lowered(text)
        rest == Replace(low, Lowered(needle), <<>>, TRUE)
        pos  == IFind(text, needle)
    IN  /\ \A c \in Alphabet \ ToSet(text) :
             Replace(Replace(text, needle, <<c>>, FALSE), <<c>>, needle, FALSE) = text
        /\ IF rest = low THEN pos = -1
           ELSE /\ pos \in 0 .. Len(rest)
                /\ SubSeq(rest, 1, pos) \o Lowered(needle)
                     \o SubSeq(rest, pos + 1, Len(rest)) = low
=============================================================================
