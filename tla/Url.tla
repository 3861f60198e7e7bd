-------------------------------- MODULE Url --------------------------------
(***************************************************************************)
(* url::parse() and url::str().  A text is a sequence of letters; a letter *)
(* stands for a character or a word of one case, which may be written with *)
(* percent signs.  Positions start at 1.                                   *)
(***************************************************************************)
EXTENDS Integers, SequencesExt

CONSTANTS
  UrlChars,   (* The characters and words there are,                        *)
  UrlKept,    (* those that urlencode() leaves as they are,                 *)
  EncodedAs,  (* a function that gives the others what they are printed as, *)
  Capitals,   (* the characters in upper case,                              *)
  LowerOf,    (* and a function that gives these their lower case.          *)
  Yes, One,   (* A word that means 1 in a query, and 1.                     *)
  UrlStarts,  (* What texts may start with,                                 *)
  UrlLetters, (* the letters a client appends,                              *)
  MaxUrl      (* and the length up to which it does.                        *)

UrlDelimiters == {":", "/", "?", "#", "&", "="}

(* What urlencode() encodes.  hexencode() prints a digit C as D, so that   *)
(* it prints a "," as "-" and a "<" as "=", and most others as themselves. *)
Encodable == UrlChars \ UrlKept

(* What is written with percent signs: clients encode the same characters, *)
(* and nothing without need, and they write no "%" for itself.             *)
Escapable == Encodable \union {EncodedAs[c] : c \in Encodable}
Letter ==
  [char : UrlChars, percent : {FALSE}] \union [char : Escapable, percent : {TRUE}]

ASSUME UrlAssumption ==
  /\ UrlDelimiters \subseteq UrlChars
  /\ UrlKept \subseteq UrlChars
  /\ UrlKept \intersect (UrlDelimiters \union {"%"}) = {"/"}
  /\ Capitals \union {Yes, One} \subseteq UrlKept \ {"/"}
  /\ LowerOf \in [Capitals -> UrlKept \ (Capitals \union {"/"})]
  /\ Yes \notin Capitals /\ One \notin Capitals /\ Yes # One
  /\ EncodedAs \in [Encodable -> UrlChars \ (Capitals \union {Yes, One, "/"})]
  /\ \A c \in UrlDelimiters \ {"/"} : EncodedAs[c] = c
  /\ UrlLetters \subseteq Letter /\ UrlStarts \subseteq Seq(Letter)
  /\ [char |-> "%", percent |-> FALSE] \notin
       UrlLetters \union UNION {Range(s) : s \in UrlStarts}
  /\ MaxUrl \in Nat

VARIABLES
  url_text, (* What the client has got together or printed.                 *)
  url       (* What it was parsed to.                                       *)

url_vars == <<url_text, url>>

Plain(c)   == [char |-> c, percent |-> FALSE]
Encoded(c) == [char |-> c, percent |-> TRUE]

-----------------------------------------------------------------------------
(* to_lower() changes no more than the digits of a percent encoding.       *)
InLower(s) ==
  [i \in DOMAIN s |->
     IF s[i].char \in Capitals /\ ~s[i].percent
     THEN Plain(LowerOf[s[i].char]) ELSE s[i]]

(* urlencode() and urldecode().                                            *)
Escaped(s) ==
  [i \in DOMAIN s |->
     IF s[i].char \in UrlKept THEN s[i] ELSE Encoded(EncodedAs[s[i].char])]

Unescaped(s) == [i \in DOMAIN s |-> Plain(s[i].char)]

(* find_first_of(): no position if there is none.                          *)
NPos == 0
Occurrences(s, c) == {i \in DOMAIN s : s[i] = Plain(c)}

FindFirst(s, c, start) ==
  LET found == {i \in Occurrences(s, c) : i >= start}
  IN  IF found = {} THEN NPos ELSE Min(found)

FirstOr(s, c, start, default) ==
  IF FindFirst(s, c, start) # NPos THEN FindFirst(s, c, start) ELSE default

(* substr() from start to before end.  The count of an end that lies       *)
(* before the start wraps around, and takes the rest of the text.          *)
SubStr(s, start, end) ==
  SubSeq(s, start, IF end < start THEN Len(s) ELSE end - 1)

(* normalize_value()                                                       *)
NormalizeValue(value) ==
  IF InLower(value) = <<Plain(Yes)>> THEN <<Plain(One)>> ELSE InLower(value)

(* split_query().  Parameters start at the front and behind each "&"; one  *)
(* ends before the next "&", and its key before the next "=".              *)
ParameterStarts(query) == {1} \union {i + 1 : i \in Occurrences(query, "&")}

ParameterEnd(query, start) == FirstOr(query, "&", start, Len(query) + 1)
KeyEnd(query, start)       == FirstOr(query, "=", start, Len(query) + 1)

HasValue(query, start) == KeyEnd(query, start) < ParameterEnd(query, start)

Key(query, start) ==
  Unescaped(InLower(SubStr(query, start,
    IF HasValue(query, start) THEN KeyEnd(query, start)
    ELSE ParameterEnd(query, start))))

Value(query, start) ==
  IF HasValue(query, start)
  THEN Unescaped(NormalizeValue(SubStr(query, KeyEnd(query, start) + 1,
                                       ParameterEnd(query, start))))
  ELSE <<Plain(One)>>

(* Of parameters with the same key the last one counts.                    *)
SplitQuery(query) ==
  LET With(key) == {start \in ParameterStarts(query) : Key(query, start) = key}
  IN  [key \in {Key(query, start) : start \in ParameterStarts(query)} |->
         Value(query, Max(With(key)))]

-----------------------------------------------------------------------------
None    == <<>>
Invalid == [exception |-> "invalid_argument"]

(* Where the authority ends, and where the path does.                      *)
AuthorityEnd(s, start) ==
  FirstOr(s, "/", start,
    FirstOr(s, "?", start, FirstOr(s, "#", start, Len(s) + 1)))

(* A fault: the path ends with the fragment at the latest, and its query   *)
(* is part of it.                                                          *)
PathEndAtHash(s, start) ==
  FirstOr(s, "#", start, FirstOr(s, "?", start, Len(s) + 1))

PathEnd(s, start) ==
  FirstOr(s, "?", start, FirstOr(s, "#", start, Len(s) + 1))

(* parse(); what raises an exception gives Invalid.                        *)
ParseOf(s) ==
  LET colon    == FindFirst(s, ":", 1)
      start    == colon + 3
      path     == AuthorityEnd(s, start)
      question == FindFirst(s, "?", start)
      hash     == FindFirst(s, "#", start)
      end      == Len(s) + 1
  IN  IF \/ colon = NPos
         \/ colon + 2 > Len(s)
         \/ SubSeq(s, colon + 1, colon + 2) # <<Plain("/"), Plain("/")>>
      THEN Invalid
      ELSE [scheme    |-> InLower(SubStr(s, 1, colon)),
            authority |-> Unescaped(SubStr(s, start, path)),
            path      |-> Unescaped(SubStr(s, path, PathEnd(s, start))),
            query     |->
              IF question = NPos THEN None
              ELSE SplitQuery(SubStr(s, question + 1, FirstOr(s, "#", start, end))),
            fragment  |-> IF hash = NPos THEN None ELSE SubStr(s, hash + 1, end)]

(* The parameters in some order; that of the map is the one of its keys.   *)
KeyNumber(query, i) == SetToSeq(DOMAIN query)[i]

(* A fault: the value is printed as it is.                                 *)
StrOfParameterRaw(query, i) ==
  <<Plain(IF i = 1 THEN "?" ELSE "&")>> \o Escaped(KeyNumber(query, i))
    \o <<Plain("=")>> \o query[KeyNumber(query, i)]

StrOfParameter(query, i) ==
  <<Plain(IF i = 1 THEN "?" ELSE "&")>> \o Escaped(KeyNumber(query, i))
    \o <<Plain("=")>> \o Escaped(query[KeyNumber(query, i)])

StrOfQuery(query) ==
  FlattenSeq([i \in DOMAIN SetToSeq(DOMAIN query) |-> StrOfParameter(query, i)])

(* str()                                                                   *)
Str(u) ==
  u.scheme \o <<Plain(":"), Plain("/"), Plain("/")>>
    \o Escaped(u.authority) \o Escaped(u.path) \o StrOfQuery(u.query)
    \o (IF u.fragment = None THEN None ELSE <<Plain("#")>> \o u.fragment)

-----------------------------------------------------------------------------
UrlInit == url_text \in UrlStarts /\ url = Invalid

WriteLetter(letter) ==
  /\ Len(url_text) < MaxUrl
  /\ url_text' = Append(url_text, letter)
  /\ UNCHANGED url

ParseUrl == url' = ParseOf(url_text) /\ UNCHANGED url_text

PrintUrl == url # Invalid /\ url_text' = Str(url) /\ UNCHANGED url

UrlNext == (\E l \in UrlLetters : WriteLetter(l)) \/ ParseUrl \/ PrintUrl

UrlSpec == UrlInit /\ [][UrlNext]_url_vars

-----------------------------------------------------------------------------
(* Properties.                                                             *)

(* A url is printed as a text that is parsed to the same url again, even   *)
(* if the text it came from had its delimiters in a strange order; unless  *)
(* one of its parts has a character that urlencode() prints as another.    *)
ComesBack(s) ==
  \A i \in DOMAIN s : s[i].char \in Encodable => EncodedAs[s[i].char] = s[i].char

AllComesBack(u) ==
  /\ ComesBack(u.authority) /\ ComesBack(u.path)
  /\ \A key \in DOMAIN u.query : ComesBack(key) /\ ComesBack(u.query[key])

PrintsItself == url # Invalid /\ AllComesBack(url) => ParseOf(Str(url)) = url

(* What a query is: parameters, each the text between one "&" and the      *)
(* next, and in each a key, the text up to its first "=", and a value,     *)
(* what follows, or 1 if there is no "=".                                  *)
Lacks(s, chars) == \A c \in chars : Occurrences(s, c) = {}

Parameters(q) ==
  {x \in (1 .. Len(q) + 1) \X (0 .. Len(q)) :
     /\ x[1] = 1 \/ q[x[1] - 1] = Plain("&")
     /\ x[2] = Len(q) \/ q[x[2] + 1] = Plain("&")
     /\ x[1] <= x[2] + 1 /\ Lacks(SubSeq(q, x[1], x[2]), {"&"})}

KeyLength(p) ==
  CHOOSE n \in 0 .. Len(p) :
    Lacks(SubSeq(p, 1, n), {"="}) /\ (n = Len(p) \/ p[n + 1] = Plain("="))

KeyOf(p) == Unescaped(InLower(SubSeq(p, 1, KeyLength(p))))

ValueOf(p) ==
  IF KeyLength(p) = Len(p) THEN <<Plain(One)>>
  ELSE Unescaped(NormalizeValue(SubSeq(p, KeyLength(p) + 2, Len(p))))

(* A query has the keys of its parameters, and for each key the value of   *)
(* the last parameter that has it.                                         *)
ParametersAre(query, q) ==
  LET KeyAt(x) == KeyOf(SubSeq(q, x[1], x[2]))
  IN  /\ DOMAIN query = {KeyAt(x) : x \in Parameters(q)}
      /\ \A x \in Parameters(q) :
           (\A y \in Parameters(q) : y[1] > x[1] => KeyAt(y) # KeyAt(x))
             => query[KeyAt(x)] = ValueOf(SubSeq(q, x[1], x[2]))

(* The delimiters of a text come in order: first a slash, then a question  *)
(* mark and then a hash.                                                   *)
InOrder(s, start) ==
  LET slash    == FirstOr(s, "/", start, start)
      question == FindFirst(s, "?", start)
      hash     == FirstOr(s, "#", start, Len(s) + 1)
  IN  /\ slash <= FirstOr(s, "?", start, Len(s) + 1) /\ slash <= hash
      /\ question <= hash

Parsed == url # Invalid /\ url = ParseOf(url_text)

(* If they do, the text is nothing but the parts of the url, decoded, and  *)
(* the delimiters between them: scheme, "://", authority, a path that      *)
(* starts with a slash, "?" and the parameters, "#" and the fragment, each *)
(* without the delimiters that would end it.                               *)
SplitsInOrder ==
  LET Text(i, j) == SubSeq(url_text, i, j - 1)
      a   == Len(url.scheme) + 4
      p   == a + Len(url.authority)
      r   == p + Len(url.path)
      end == Len(url_text) + 1
  IN  Parsed /\ InOrder(url_text, a) =>
        /\ r <= end
        /\ url.scheme = InLower(Text(1, a - 3)) /\ Lacks(Text(1, a - 3), {":"})
        /\ Text(a - 3, a) = <<Plain(":"), Plain("/"), Plain("/")>>
        /\ url.authority = Unescaped(Text(a, p))
        /\ Lacks(Text(a, p), {"/", "?", "#"})
        /\ url.path = Unescaped(Text(p, r)) /\ Lacks(Text(p, r), {"?", "#"})
        /\ p < r => url_text[p] = Plain("/")
        /\ \E h \in r .. end :
             /\ Lacks(Text(r, h), {"#"})
             /\ IF r = h THEN url.query = None
                ELSE /\ url_text[r] = Plain("?")
                     /\ ParametersAre(url.query, Text(r + 1, h))
             /\ IF h = end THEN url.fragment = None
                ELSE url_text[h] = Plain("#") /\ url.fragment = Text(h + 1, end)
=============================================================================
