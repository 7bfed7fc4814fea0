---------------------------- MODULE SystemCalls ----------------------------
(***************************************************************************)
(* The wrappers of syscall.c: what the kernel leaves in rax is split into  *)
(* a result and an error number, and the number is looked up in the table  *)
(* of errno.h.                                                             *)
(***************************************************************************)
EXTENDS Integers

CONSTANTS
  Values  \* results of calls that succeed

ASSUME CallsAssumption == Values \subseteq Nat

VARIABLES
  rax,    \* what the kernel returned, as a signed number
  wrapper,\* "value": returns the result and stores the error; "ignored": the same
          \* with nil for err; "status": returns the error
  result, \* r.r1, once decoded
  errno,  \* r.errno
  error   \* code of the error the caller is told, 0 for nil

callVars == <<rax, wrapper, result, errno, error>>

max_err_idx == 133
EAGAIN == 11
EDEADLK == 35
pending == -2  \* not known yet

-----------------------------------------------------------------------------

\* syscall_errors[idx].code: the table is in order but for two aliases.
syscall_errors(idx) ==
  CASE idx = 41 -> EAGAIN
    [] idx = 58 -> EDEADLK
    [] OTHER -> idx

set_error_TableOneShort(code) ==
  IF code > max_err_idx - 1 THEN syscall_errors(max_err_idx - 1) ELSE syscall_errors(code)
\* 0 is nil; a number behind the table is the table's last but one entry.
set_error(code) ==
  IF code > max_err_idx THEN syscall_errors(max_err_idx) ELSE syscall_errors(code)

\* cmpq $-4095; jbe: the comparison is unsigned, and -4095 itself is no error.
IsError(r) == -4095 < r /\ r < 0

decode ==
  /\ result = pending
  /\ IF IsError(rax) THEN result' = -1 /\ errno' = - rax
     ELSE result' = rax /\ errno' = 0
  /\ UNCHANGED <<rax, wrapper, error>>

tell ==
  /\ result # pending /\ error = pending
  /\ error' = IF wrapper = "ignored" THEN 0 ELSE set_error(errno)
  /\ UNCHANGED <<rax, wrapper, result, errno>>

-----------------------------------------------------------------------------

CallInit ==
  /\ rax \in Values \cup {- code : code \in 1 .. 4095}
  /\ wrapper \in {"value", "ignored", "status"}
  /\ result = pending /\ errno = 0 /\ error = pending

CallNext == decode \/ tell

CallSpec == CallInit /\ [][CallNext]_callVars

-----------------------------------------------------------------------------

\* A call that failed is never taken for one that succeeded, nor the other way
\* round, and each error Linux has is told by its own number, so that the tests
\* for EAGAIN and EINTR are true for these errors only.
ErrorsTold ==
  error # pending /\ rax # -4095 =>
    /\ rax < 0 => result = -1
    /\ rax >= 0 => result = rax /\ error = 0
    /\ rax \in -max_err_idx .. -1 /\ wrapper # "ignored" =>
         \/ error = - rax
         \/ rax \in {-41, -58}  \* numbers Linux does not use
=============================================================================
