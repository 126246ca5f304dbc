------------------------------ MODULE Strerror ------------------------------
(***************************************************************************)
(* compat_strerror and system_error::what (system_error.hpp): the message  *)
(* of an error code, with a buffer that is doubled until strerror_r is     *)
(* content.  strerror_r comes in three forms: GNU returns a string; XSI    *)
(* returns an error number; older ones return -1 and set errno.            *)
(***************************************************************************)
EXTENDS Integers

CONSTANTS
  Lengths,    \* lengths of messages, final zero included; 0: unknown code
  Errors      \* values of errno when what() is called

EINVAL == 22
ERANGE == 34
ENOMEM == 12

VARIABLES
  api,        \* the form of strerror_r: "gnu", "xsi" or "legacy"
  length,     \* the length of the message of the code
  errno,
  saved,      \* what the errno_saver remembers
  entry,      \* history: errno when what() was called
  size,       \* the size asked for
  buffer,     \* the bytes allocated, 0 if there is no buffer
  what,       \* the cached message: "", "text", "truncated" or "number"
  at          \* "idle", "grow", "format", "free", "leave", "said" or "thrown"

vars == <<api, length, errno, saved, entry, size, buffer, what, at>>

Init ==
  /\ api \in {"gnu", "xsi", "legacy"}
  /\ length \in Lengths
  /\ errno \in Errors
  /\ saved = 0 /\ entry = errno
  /\ size = 0 /\ buffer = 0 /\ what = "" /\ at = "idle"

\* what() with no message yet; with one it only returns it.
Enter ==
  /\ at = "idle"
  /\ entry' = errno
  /\ IF what = ""
     THEN saved' = errno /\ errno' = 0 /\ size' = 16 /\ at' = "grow"
     ELSE at' = "said" /\ UNCHANGED <<saved, errno, size>>
  /\ UNCHANGED <<api, length, buffer, what>>

\* Faulty variant of Grow: the size stays what it was.
GrowNot ==
  /\ at = "grow"
  /\ size' = 32
  /\ \/ buffer' = size' /\ at' = "format" /\ errno' = errno
     \/ at' = "free" /\ errno' = ENOMEM /\ buffer' = buffer
  /\ UNCHANGED <<api, length, saved, entry, what>>

\* realloc fails and leaves the old buffer, or moves it.
Grow ==
  /\ at = "grow"
  /\ size' = 2 * size
  /\ \/ buffer' = size' /\ at' = "format" /\ errno' = errno
     \/ at' = "free" /\ errno' = ENOMEM /\ buffer' = buffer
  /\ UNCHANGED <<api, length, saved, entry, what>>

Fits == length # 0 /\ length <= size

\* strerror_r and the assignment of what it returned.
Format ==
  /\ at = "format"
  /\ api = "gnu" \/ Fits
  /\ what' = IF length <= size THEN "text" ELSE "truncated"
  /\ at' = "free"
  /\ UNCHANGED <<api, length, errno, saved, entry, size, buffer>>

\* The assignment throws bad_alloc: nothing frees the buffer.
FormatThrows ==
  /\ at = "format"
  /\ api = "gnu" \/ Fits
  /\ errno' = saved
  /\ at' = "thrown"
  /\ UNCHANGED <<api, length, saved, entry, size, buffer, what>>

\* No string: another round for ERANGE, and the end for anything else.
FormatFails ==
  /\ at = "format"
  /\ api # "gnu" /\ ~Fits
  /\ errno' = IF length = 0 THEN EINVAL ELSE ERANGE
  /\ at' = IF errno' = ERANGE THEN "grow" ELSE "free"
  /\ UNCHANGED <<api, length, saved, entry, size, buffer, what>>

\* free(buffer) and, without a message, "error number".
Free ==
  /\ at = "free"
  /\ buffer' = 0
  /\ what' = IF what = "" THEN "number" ELSE what
  /\ at' = "leave"
  /\ UNCHANGED <<api, length, errno, saved, entry, size>>

\* Faulty variant of Leave: errno_saver restores nothing.
LeaveChanged ==
  /\ at = "leave"
  /\ at' = "said"
  /\ UNCHANGED <<api, length, errno, saved, entry, size, buffer, what>>

\* ~errno_saver
Leave ==
  /\ at = "leave"
  /\ errno' = saved
  /\ at' = "said"
  /\ UNCHANGED <<api, length, saved, entry, size, buffer, what>>

\* The caller asks again later, with another errno.
Again ==
  /\ at \in {"said", "thrown"}
  /\ errno' \in Errors
  /\ size' = 0 /\ buffer' = 0 /\ saved' = 0 /\ entry' = errno'
  /\ at' = "idle"
  /\ UNCHANGED <<api, length, what>>

Step == Enter \/ Grow \/ Format \/ FormatThrows \/ FormatFails \/ Free \/ Leave

Next == Step \/ Again

Fairness == WF_vars(Step)

Spec == Init /\ [][Next]_vars /\ Fairness
-----------------------------------------------------------------------------
(***************************************************************************)
(* For any code, any form of strerror_r and any failure of realloc, what() *)
(* says something and keeps no buffer; only a message for which there is   *)
(* no memory leaves its buffer behind.  On every path errno is what it was *)
(* when what() was called, although the search sets it to 0, ERANGE,       *)
(* EINVAL or ENOMEM.                                                       *)
(***************************************************************************)
Described ==
  /\ at \in {"said", "thrown"} => errno = entry
  /\ at = "said" => what # "" /\ buffer = 0

(***************************************************************************)
(* The doubling comes to an end for every form of strerror_r.              *)
(***************************************************************************)
MessageFound == at = "grow" ~> at \in {"said", "thrown"}
=============================================================================
