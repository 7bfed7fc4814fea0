---------------------------- MODULE MCChatServer ----------------------------
(***************************************************************************)
(* Small instances of ChatServer.                                          *)
(***************************************************************************)
EXTENDS ChatServer, TLC

\* Neither addresses nor connections are told apart by anything but identity.
Symmetric == Permutations(Regions) \cup Permutations(Conn)
=============================================================================
