------------------------------- MODULE Format -------------------------------
(***************************************************************************)
(* fmt_fprintf of fmt.c: a format is gone through once, its conversions    *)
(* take the arguments in turn, and what they print is put into an array of *)
(* max_buf bytes.  Formats and arguments are given by kind and length.     *)
(***************************************************************************)
EXTENDS Integers, Sequences, FiniteSets

CONSTANTS
  max_buf,  \* sizeof(buf)
  Prints    \* the calls: a format and what is passed behind it

\* Text or a conversion, by its length; an argument, by what it prints as.
FormatPart == [conv : STRING, len : Nat]
Argument == [type : STRING, len : Nat]

ASSUME FormatAssumption ==
  /\ max_buf \in Nat \ {0}
  /\ Prints \subseteq Seq(FormatPart) \X Seq(Argument)

VARIABLES
  fmt, args,  \* what is left of both
  j,          \* bytes put into buf
  stored,     \* bytes of buf up to the last one stored, a NUL included
  misread     \* va_arg took an argument of another type

formatVars == <<fmt, args, j, stored, misread>>

\* Text of k bytes; a conversion; an argument that prints as k bytes.
Verbatim(k) == [conv |-> "text", len |-> k]
Conv(letter) == [conv |-> letter, len |-> 0]
Arg(type, k) == [type |-> type, len |-> k]

\* The type each conversion takes from the list of arguments.
TypeOf == [c |-> "int", s |-> "string", d |-> "int", p |-> "pointer"]

-----------------------------------------------------------------------------

Shorter(a, b) == IF a < b THEN a ELSE b
Room == max_buf - j

c_strncpy_RoomForNulForgotten(k) == Shorter(k, Room)
\* The characters c_strncpy copies; a NUL follows them.
c_strncpy(k) == Shorter(k, Room - 1)

Put(k, nul) ==
  /\ j' = j + k
  /\ stored' = IF j + k + nul > stored THEN j + k + nul ELSE stored

\* The loop's body for as many characters of text as follow each other.
print_text ==
  /\ fmt # <<>> /\ j < max_buf
  /\ Head(fmt).conv \in {"text", "%"}
  /\ Put(Shorter(IF Head(fmt).conv = "%" THEN 1 ELSE Head(fmt).len, Room), 0)
  /\ fmt' = Tail(fmt)
  /\ UNCHANGED <<args, misread>>

\* The bytes conversion letter stores of an argument of length k.
Bytes(letter, k) ==
  CASE letter = "c"         -> 1
    [] letter = "s"         -> c_strncpy(k)
    [] letter \in {"d", "p"} -> Shorter(k, Room)

Converted_IntNotTaken(letter) == letter \in DOMAIN TypeOf \ {"d"}
Converted(letter) == letter \in DOMAIN TypeOf

print_argument ==
  /\ fmt # <<>> /\ j < max_buf
  /\ LET letter == Head(fmt).conv
     IN  /\ Converted(letter)
         /\ misread' = (misread \/ args = <<>> \/ Head(args).type # TypeOf[letter])
         /\ Put(IF misread' THEN 0 ELSE Bytes(letter, Head(args).len),
                IF letter = "s" THEN 1 ELSE 0)
  /\ args' = IF args = <<>> THEN args ELSE Tail(args)
  /\ fmt' = Tail(fmt)

\* A letter no case of the switch is for is skipped with its %.
print_nothing ==
  /\ fmt # <<>> /\ j < max_buf
  /\ ~ Converted(Head(fmt).conv) /\ Head(fmt).conv \notin {"text", "%"}
  /\ fmt' = Tail(fmt)
  /\ UNCHANGED <<args, j, stored, misread>>

-----------------------------------------------------------------------------

fmt_fprintf(format, passed) ==
  /\ fmt = format /\ args = passed
  /\ j = 0 /\ stored = 0
  /\ misread = FALSE

FormatInit == \E call \in Prints : fmt_fprintf(call[1], call[2])

FormatNext == print_text \/ print_argument \/ print_nothing

FormatSpec == FormatInit /\ [][FormatNext]_formatVars

-----------------------------------------------------------------------------
(***************************************************************************)
(* Properties.                                                             *)
(***************************************************************************)

\* However long the arguments are, nothing is stored behind buf, the NUL c_strncpy
\* adds included, and no more is written out than buf holds.
FormatBounded == j <= max_buf /\ stored <= max_buf

\* Every conversion finds the argument that was passed for it: assert_fail prints
\* file, line and expression (assert.c:7).
ArgumentsFit == ~ misread

\* The conversions among the first k parts of the format f.
ConversionsIn(f, k) == {i \in 1 .. k : f[i].conv \in DOMAIN TypeOf}

\* Each conversion of f has its argument in a: the call is as its format wants it.
PassedFor(f, a) ==
  \A k \in 1 .. Len(f) :
    LET place == Cardinality(ConversionsIn(f, k))
    IN  f[k].conv \in DOMAIN TypeOf => place <= Len(a) /\ a[place].type = TypeOf[f[k].conv]
=============================================================================
