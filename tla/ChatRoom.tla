------------------------------ MODULE ChatRoom ------------------------------
(***************************************************************************)
(* The chat as its users see it.  People come in, give a name once, talk   *)
(* and go.  Everybody inside, named or not, is told of all others who      *)
(* enter the chat or leave it and hears what they say, nobody is told of   *)
(* anything else, and it is known who has missed something.  The room may  *)
(* close down with any event.                                              *)
(***************************************************************************)
EXTENDS Sequences

CONSTANTS Conn, Lines

VARIABLES
  up,       \* the room is open
  inside,   \* who has a session
  members,  \* who of them has entered the chat
  told,     \* told[s]: who is a member, as far as s was told since s came
  said,     \* said[s]: what s said to the others
  heard,    \* heard[t][s]: what t heard of it
  missed,   \* who has missed some message, as a whole or in part
  gone      \* who has been inside and left

vars == <<up, inside, members, told, said, heard, missed, gone>>

Init ==
  /\ up = TRUE
  /\ inside = {} /\ members = {} /\ gone = {} /\ missed = {}
  /\ told = [s \in Conn |-> {}]
  /\ said = [s \in Conn |-> <<>>]
  /\ heard = [t \in Conn |-> [s \in Conn |-> <<>>]]

\* Of those who are spoken to some may miss it.
MayMiss(spokenTo) == \E some \in SUBSET spokenTo : missed' = missed \cup some

\* What is said of s reaches everybody inside but s and those who miss it.
Reached(s, lost) == inside \ (lost \cup {s})
Tell(s, f(_)) ==
  \E lost \in SUBSET (inside \cap missed') :
    told' = [t \in Conn |-> IF t \in Reached(s, lost) THEN f(told[t])
                           ELSE IF t = s /\ s \notin inside' THEN {} ELSE told[t]]

\* So does what s says.
Speak(s, line) ==
  /\ said' = [said EXCEPT ![s] = @ \o line]
  /\ \E lost \in SUBSET (inside \cap missed') :
       heard' = [t \in Conn |-> IF t \in Reached(s, lost)
                               THEN [heard[t] EXCEPT ![s] = @ \o line] ELSE heard[t]]

Come(s) ==
  /\ s \notin inside \cup gone
  /\ inside' = inside \cup {s}
  /\ MayMiss({s})
  /\ UNCHANGED <<members, told, said, heard, gone>>

Enter(s) ==
  /\ s \in inside \ members
  /\ members' = members \cup {s}
  /\ MayMiss(inside)
  /\ UNCHANGED <<inside, said, heard, gone>>
  /\ Tell(s, LAMBDA known : known \cup {s})

Say(s, line) ==
  /\ s \in members
  /\ MayMiss(inside \ {s})
  /\ Speak(s, line)
  /\ UNCHANGED <<inside, members, told, gone>>

\* Last words included.
Leave(s) ==
  /\ s \in inside
  /\ inside' = inside \ {s}
  /\ members' = members \ {s}
  /\ gone' = gone \cup {s}
  /\ MayMiss(IF s \in members THEN inside ELSE {s})
  /\ \/ UNCHANGED <<said, heard>>
     \/ s \in members /\ \E line \in Lines : Speak(s, line)
  /\ Tell(s, LAMBDA known : IF s \in members THEN known \ {s} ELSE known)

TurnAway(s) ==
  /\ s \notin inside \cup gone
  /\ gone' = gone \cup {s}
  /\ MayMiss({s})
  /\ UNCHANGED <<inside, members, told, said, heard>>

Quiet == UNCHANGED <<inside, members, told, said, heard, missed, gone>>

Next ==
  /\ up /\ up' \in BOOLEAN
  /\ \/ Quiet
     \/ \E s \in Conn :
          \/ Come(s) \/ Enter(s) \/ Leave(s) \/ TurnAway(s)
          \/ \E line \in Lines : Say(s, line)

Spec == Init /\ [][Next]_vars
=============================================================================
