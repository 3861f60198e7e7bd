----------------------------- MODULE ErrorText ------------------------------
(***************************************************************************)
(* error_message() called by several threads: strerror_r() is given one    *)
(* static buffer.  Modelled is the one of the GNU library, for which the   *)
(* code is compiled with g++: it returns a constant text for the codes it  *)
(* knows, and writes a text to the buffer for others.                      *)
(***************************************************************************)
CONSTANTS
  Threads,
  Codes,    (* The error codes, which stand for their texts.                *)
  Known,    (* Those that the C library knows.                              *)
  Torn,     (* A text that threads write to, or have written to, at once.   *)
  NoText    (* No text yet.                                                 *)

ASSUME ErrorTextAssumption ==
  Known \subseteq Codes /\ NoText \notin Codes /\ Torn \notin Codes /\ Torn # NoText

Messages == Codes \union {Torn, NoText}

VARIABLES
  buf,      (* The static buffer: the code whose text it holds.             *)
  mixed,    (* Threads in strerror_r() that were there with another one.    *)
  at,       (* Where each thread is in error_message(),                     *)
  code,     (*   the code it asks for,                                      *)
  e,        (*   the pointer strerror_r() returned: "buf" or "constant",    *)
  message   (* and what it got last.                                        *)

error_vars == <<buf, mixed, at, code, e, message>>

ErrorTypeOK ==
  /\ buf     \in Messages
  /\ mixed   \subseteq Threads
  /\ at      \in [Threads -> {"idle", "format", "write", "copy"}]
  /\ code    \in [Threads -> Codes \union {NoText}]
  /\ e       \in [Threads -> {"buf", "constant"}]
  /\ message \in [Threads -> Messages]

ErrorInit ==
  /\ buf     = NoText
  /\ mixed   = {}
  /\ at      = [t \in Threads |-> "idle"]
  /\ code    = [t \in Threads |-> NoText]
  /\ e       = [t \in Threads |-> "buf"]
  /\ message = [t \in Threads |-> NoText]

(* A call with a code, which error_code() got from the thread's own errno. *)
Call(t, c) ==
  /\ at[t] = "idle"
  /\ at'      = [at EXCEPT ![t] = "format"]
  /\ code'    = [code EXCEPT ![t] = c]
  /\ message' = [message EXCEPT ![t] = NoText]
  /\ UNCHANGED <<buf, mixed, e>>

Writers == {u \in Threads : at[u] = "write"}

(* strerror_r() begins to write, possibly while others do.                 *)
BeginWrite(t) ==
  /\ e'     = [e EXCEPT ![t] = "buf"]
  /\ buf'   = Torn
  /\ mixed' = IF Writers = {} THEN mixed ELSE mixed \union Writers \union {t}
  /\ at'    = [at EXCEPT ![t] = "write"]

(* A fault: the XSI variant, which writes every text to the buffer.        *)
FormatAll(t) == at[t] = "format" /\ BeginWrite(t) /\ UNCHANGED <<code, message>>

(* strerror_r() returns a constant, or writes to the buffer.               *)
Format(t) ==
  /\ at[t] = "format"
  /\ IF code[t] \in Known
     THEN /\ e'  = [e EXCEPT ![t] = "constant"]
          /\ at' = [at EXCEPT ![t] = "copy"]
          /\ UNCHANGED <<buf, mixed>>
     ELSE BeginWrite(t)
  /\ UNCHANGED <<code, message>>

(* It has written the text; if another thread was writing as well, the     *)
(* buffer may hold parts of both.                                          *)
Written(t) ==
  /\ at[t] = "write"
  /\ buf' = code[t] \/ (t \in mixed /\ buf' = Torn)
  /\ mixed' = mixed \ {t}
  /\ at' = [at EXCEPT ![t] = "copy"]
  /\ UNCHANGED <<code, e, message>>

(* The text is copied to a std::string.                                    *)
Copy(t) ==
  /\ at[t] = "copy"
  /\ message' = [message EXCEPT ![t] = IF e[t] = "constant" THEN code[t] ELSE buf]
  /\ at'      = [at EXCEPT ![t] = "idle"]
  /\ UNCHANGED <<buf, mixed, code, e>>

ErrorNext ==
  \E t \in Threads :
    \/ \E c \in Codes : Call(t, c)
    \/ Format(t) \/ Written(t) \/ Copy(t)

ErrorSpec == ErrorInit /\ [][ErrorNext]_error_vars
-----------------------------------------------------------------------------
(* error_message() of a code the C library knows returns its message,      *)
(* whatever other threads ask for in the meantime; that of another code    *)
(* may be mixed with, or replaced by, that of yet another one, but it is   *)
(* no message of a known code, nor what the buffer held before its first   *)
(* use.                                                                    *)
ReportsOwnError ==
  \A t \in Threads :
    at[t] = "idle" /\ code[t] # NoText =>
      IF code[t] \in Known THEN message[t] = code[t]
      ELSE message[t] \in (Codes \ Known) \union {Torn}
=============================================================================
