------------------------------- MODULE Paths --------------------------------
(***************************************************************************)
(* liberate::fs: paths of POSIX and of Windows, converted to each other.   *)
(* A text is a sequence of characters, which are strings of length one.    *)
(***************************************************************************)
EXTENDS Integers, SequencesExt

CONSTANTS
  UpperOf,  (* toupper(), on the lower-case letters there are.              *)
  Chars,    (* The characters of names.                                     *)
  MaxChars, (* The longest name.                                            *)
  MaxNames  (* The most names in a path.                                    *)

Lower      == DOMAIN UpperOf
Upper      == {UpperOf[c] : c \in Lower}
ToUpper(c) == IF c \in Lower THEN UpperOf[c] ELSE c
ToLower(c) == IF c \in Upper THEN CHOOSE l \in Lower : UpperOf[l] = c ELSE c

Slash     == "/"
Backslash == "\\"

-----------------------------------------------------------------------------
(* A fault: what follows the last delimiter is a token though it be empty. *)
TokenizeToEnd(input, delim) ==
  LET n == Len(input)
      Scan[start \in 1 .. n + 1] ==
        LET at == {p \in start .. n : input[p] = delim}
        IN  IF at = {} THEN <<SubSeq(input, start, n)>>
            ELSE <<SubSeq(input, start, Min(at) - 1)>> \o Scan[Min(at) + 1]
  IN  Scan[1]

(* tokenize().  A backslash quotes the delimiter behind it: a quoted slash *)
(* takes the text before it with it, and of two backslashes neither ends a *)
(* token, unless they end the text.  What follows the last delimiter is a  *)
(* token only if there is something.  For a text of less than two          *)
(* characters size() - 2 is huge, but no backslash follows.                *)
Tokenize(input, delim) ==
  LET n         == Len(input)
      Quoted(p) == delim = Backslash /\ p < n - 1 /\ input[p + 1] = Backslash
      Kept(p)   == delim = Backslash \/ (p > 1 /\ input[p - 1] # Backslash)
      Scan[start \in 1 .. n + 1, sub \in 1 .. n + 1] ==
        LET at == {p \in start .. n : input[p] = delim}
            p  == Min(at)
        IN  IF start > n THEN <<>>
            ELSE IF at = {} THEN <<SubSeq(input, sub, n)>>
            ELSE IF Quoted(p) THEN Scan[p + 2, sub]
            ELSE (IF Kept(p) THEN <<SubSeq(input, sub, p - 1)>> ELSE <<>>)
                   \o Scan[p + 1, p + 1]
  IN  IF n = 0 THEN <<<<>>>> ELSE Scan[1, 1]

(* join()                                                                  *)
Join(tokens, delim) ==
  IF tokens = <<>> THEN <<>>
  ELSE FoldLeft(LAMBDA s, t : s \o <<delim>> \o t, Head(tokens), Tail(tokens))

(* replace() of a backslash by two of them.                                *)
Quote(token) ==
  FlattenSeq([i \in DOMAIN token |->
                IF token[i] = Backslash THEN <<Backslash, Backslash>>
                ELSE <<token[i]>>])

(* The exception that to_posix_path() raises.                              *)
InvalidArgument == <<"invalid_argument">>

(* to_posix_path(): a first token that is a drive becomes a directory.     *)
ToPosixPath(other) ==
  LET tokens == Tokenize(other, Backslash)
      drive  == Head(tokens)
      lower  == ToLower(drive[1])
  IN  IF tokens = <<>> \/ Len(drive) # 2 \/ drive[2] # ":" THEN Join(tokens, Slash)
      ELSE IF lower \notin Lower THEN InvalidArgument
      ELSE Join(<<<<Slash, lower>>>> \o Tail(tokens), Slash)

(* to_win32_path(): a directory of one letter at the root becomes a drive. *)
ToWin32Path(other) ==
  LET tokens  == Tokenize(other, Slash)
      leading == other # <<>> /\ Head(other) = Slash
      drive   == leading /\ tokens # <<>> /\ Len(Head(tokens)) = 1
                   /\ ToUpper(Head(tokens)[1]) \in Upper
      named   == IF drive THEN <<<<ToUpper(Head(tokens)[1]), ":">>>> \o Tail(tokens)
                 ELSE tokens
      joined  == Join([i \in DOMAIN named |-> Quote(named[i])], Backslash)
  IN  IF leading /\ ~drive THEN <<Backslash>> \o joined ELSE joined

-----------------------------------------------------------------------------
(* A client's path: relative, from the root, or from the root of a drive,  *)
(* and the names of which it consists.                                     *)
VARIABLES root, names

(* A name does not contain a slash, and its last character quotes none.    *)
Names ==
  {s \in UNION {[1 .. k -> Chars] : k \in 1 .. MaxChars} : Last(s) # Backslash}

Init == root \in {"none", "root"} \union Lower /\ names = <<>>

Enter(name) ==
  /\ Len(names) < MaxNames
  /\ names' = Append(names, name)
  /\ UNCHANGED root

Next == \E name \in Names : Enter(name)

Spec == Init /\ [][Next]_<<root, names>>

-----------------------------------------------------------------------------
(* The path in both forms.                                                 *)
Posix ==
  Join((CASE root = "none" -> <<>>
          [] root = "root" -> <<<<>>>>
          [] OTHER         -> <<<<>>, <<root>>>>) \o names, Slash)

Win32 ==
  Join((CASE root = "none" -> <<>>
          [] root = "root" -> <<<<>>>>
          [] OTHER         -> <<<<UpperOf[root], ":">>>>)
         \o [i \in DOMAIN names |-> Quote(names[i])], Backslash)

(* What one of the two forms cannot tell apart from a drive: a directory   *)
(* of one letter at the root, and a relative name of two characters that   *)
(* ends with a colon; and an empty path.                                   *)
Ambiguous ==
  /\ root \notin Lower
  /\ \/ names = <<>>
     \/ root = "root" /\ Len(names[1]) = 1 /\ ToUpper(names[1][1]) \in Upper
     \/ root = "none" /\ Len(names[1]) = 2 /\ names[1][2] = ":"

(* Both functions convert a path to its other form, whether it ends with a *)
(* delimiter or not: to_win32_path() quotes the backslashes of its names,  *)
(* to_posix_path() takes names that have none.                             *)
ConvertsPaths ==
  ~Ambiguous =>
    /\ \A end \in {<<>>, <<Slash>>} : ToWin32Path(Posix \o end) = Win32
    /\ (\A i \in DOMAIN names : Backslash \notin Range(names[i])) =>
         \A end \in {<<>>, <<Backslash>>} : ToPosixPath(Win32 \o end) = Posix
=============================================================================
