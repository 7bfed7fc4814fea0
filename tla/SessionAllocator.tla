-------------------------- MODULE SessionAllocator --------------------------
(***************************************************************************)
(* What session_new and session_close promise the server, whatever the     *)
(* pools behind them look like: a chunk is handed out only while nobody    *)
(* holds it, closing a session gives back that session's chunk and no      *)
(* other, and no session changes hands in any other way.                   *)
(***************************************************************************)
CONSTANT Chunk
VARIABLE live     \* the chunks some session holds

Init == live = {}

session_new(c) ==
  /\ c \notin live
  /\ live' = live \cup {c}

session_close(c) ==
  /\ c \in live
  /\ live' = live \ {c}

Next == \E c \in Chunk : session_new(c) \/ session_close(c)

Spec == Init /\ [][Next]_live
=============================================================================
