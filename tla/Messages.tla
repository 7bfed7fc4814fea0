------------------------------ MODULE Messages ------------------------------
(***************************************************************************)
(* How chat_server.c puts its messages together: an array on the stack of  *)
(* a size fixed by hand, filled piece by piece through slices of what is   *)
(* left of it (builtin.c).  A piece is its length.  The lengths of slices  *)
(* are unsigned and wrap.                                                  *)
(***************************************************************************)
EXTENDS Integers, Sequences

CONSTANTS
  Lines,     \* lengths of lines, with the line feed
  Stamps,    \* lengths of the time tm_in_slice2 writes
  Unsigned   \* bound: values of an uint64

max_line_len == 512
max_name_len == 32

ASSUME MessagesAssumption ==
  /\ Lines \subseteq 1 .. max_line_len
  /\ Stamps \subseteq Nat
  /\ Unsigned \in Nat /\ Unsigned > 4 * max_line_len

VARIABLES
  size,     \* sizeof(msg)
  pieces,   \* the pieces not written yet
  n,        \* bytes written, i or n of the code
  reach,    \* bytes of msg up to the last one written
  cut       \* bytes of pieces left out because their slice was too short

messageVars == <<size, pieces, n, reach, cut>>

\* A piece that is copied into a slice, and one that is stored without looking at
\* the slice's size.
Text(len) == [len |-> len, bounded |-> TRUE]
Stamp(len) == [len |-> len, bounded |-> FALSE]

welcome_msg == 38  \* "Welcome to the chat, you are known as "
entered_msg == 22  \* " has entered the chat\n"
left_msg    == 19  \* " has left the chat\n"

\* name_used of a client whose name is complete, and what c_strlen makes of the
\* name: less if the peer sent a NUL.
NameLength == 0 .. max_name_len - 1

-----------------------------------------------------------------------------

\* slice_left
LeftOf(s, lbytes) ==
  [len |-> (s.len - lbytes) % Unsigned, cap |-> (s.cap - lbytes) % Unsigned]
unsafe_slice(len) == [len |-> len, cap |-> len]

\* What string_in_slice copies.
string_in_slice(s, len) == IF s.len > len THEN len ELSE s.len

\* The next piece goes behind the n bytes written so far.
write_piece ==
  /\ pieces # <<>>
  /\ LET p == Head(pieces)
         written == IF p.bounded
                    THEN string_in_slice(LeftOf(unsafe_slice(size), n), p.len)
                    ELSE p.len
     IN  /\ n' = n + written
         /\ reach' = IF written = 0 \/ n + written <= reach THEN reach ELSE n + written
         /\ cut' = cut + p.len - written
  /\ pieces' = Tail(pieces)
  /\ UNCHANGED size

-----------------------------------------------------------------------------

Message(sizeof_msg, list) ==
  /\ size = sizeof_msg
  /\ pieces = list
  /\ n = 0 /\ reach = 0 /\ cut = 0

\* sizeof(welcome_msg) counts its NUL; the array serves both messages.
NameMessageSize == welcome_msg + 1 + max_name_len
NameMessages(name) ==
  \/ Message(NameMessageSize, <<Text(welcome_msg), Text(name), Text(1)>>)
  \/ Message(NameMessageSize, <<Text(name), Text(entered_msg)>>)

LeftMessage(name) ==
  Message(max_line_len + left_msg + 1, <<Text(name), Text(left_msg)>>)

LineMessageSize_NoRoomForName == max_line_len + 17
LineMessageSize == max_line_len + max_name_len + 17
\* The stamp is left out when the clock cannot be read.
LineMessage(name, line) ==
  \/ Message(LineMessageSize, <<Text(name), Text(2), Text(line)>>)
  \/ \E stamp \in Stamps :
       Message(LineMessageSize,
               <<Text(name), Text(2), Stamp(stamp), Text(3), Text(line)>>)

MessageInit ==
  \E name \in NameLength :
    \/ NameMessages(name)
    \/ LeftMessage(name)
    \/ \E line \in Lines : LineMessage(name, line)

MessageNext == write_piece

MessageSpec == MessageInit /\ [][MessageNext]_messageVars

-----------------------------------------------------------------------------

\* However long the name, the line and the stamp are, every message is sent whole
\* and is written inside of its array: the sizes count every piece.
MessagesWhole == reach <= size /\ cut = 0 /\ n <= size
=============================================================================
