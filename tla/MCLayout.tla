------------------------------ MODULE MCLayout ------------------------------
(***************************************************************************)
(* Small instances of what is laid out by hand: clients in the arenas of   *)
(* their pools, messages, formatted output and the errors of system calls, *)
(* one of them at a time.                                                  *)
(***************************************************************************)
EXTENDS Messages, Format, SystemCalls, ClientMemory

VARIABLE inUse

\* Lengths around the end of buf.
StringLengths == {0, 1, 20, max_buf - 1, max_buf, max_buf + 1}
\* The formats of the server and of the library but for assert_fail's: text with one
\* string; "%s\n%d" of pool_test.c; "[%d]: %p\n"; and two with every conversion and
\* with one fmt.c does not know.
OwnFormats ==
  {<<<<Verbatim(20), Conv("s"), Verbatim(1)>>, <<Arg("string", k)>>>> : k \in StringLengths}
  \cup
  {<<<<Verbatim(6), Conv("s"), Verbatim(6), Conv("d"), Verbatim(8), Conv("s"), Verbatim(1)>>,
     <<Arg("string", k), Arg("int", 11), Arg("string", m)>>>> :
     k \in StringLengths, m \in StringLengths}
  \cup
  {<<<<Verbatim(k), Conv("d"), Verbatim(3), Conv("p"), Verbatim(1)>>,
     <<Arg("int", 11), Arg("pointer", 18)>>>> : k \in {24, max_buf - 20, max_buf - 1, max_buf}}
  \cup
  {<<<<Conv("%"), Conv("p"), Conv("c"), Conv("s"), Conv("d"), Conv("c")>>,
     <<Arg("pointer", 18), Arg("int", 1), Arg("string", k), Arg("int", 5), Arg("int", 1)>>>> :
     k \in StringLengths}
  \cup
  {<<<<Conv("s"), Conv("l"), Verbatim(1)>>, <<Arg("string", k), Arg("long", 2)>>>> :
     k \in StringLengths}

\* "%s:%ld: assertion '%s' is failed\n", file, line, expr (assert.c:7).
AssertFormat ==
  {<<<<Conv("s"), Verbatim(1), Conv("l"), Verbatim(14), Conv("s"), Verbatim(12)>>,
     <<Arg("string", 6), Arg("long", 2), Arg("string", 15)>>>>}

ASSUME PrintsAssumption ==
  /\ \A call \in OwnFormats : PassedFor(call[1], call[2])
  /\ \A call \in AssertFormat : ~ PassedFor(call[1], call[2])

LayoutInit ==
  /\ inUse \in {"message", "format", "call", "clients"}
  /\ IF inUse = "message" THEN MessageInit ELSE Message(0, <<>>)
  /\ IF inUse = "format" THEN FormatInit ELSE fmt_fprintf(<<>>, <<>>)
  /\ CallInit /\ (inUse # "call" => rax = 0 /\ wrapper = "status")
  /\ MemoryInit /\ (inUse # "clients" => \A p \in Arenas : first_clp[1] <= p)

LayoutNext ==
  /\ UNCHANGED inUse
  /\ \/ inUse = "message" /\ MessageNext /\ UNCHANGED <<formatVars, callVars, memoryVars>>
     \/ inUse = "format"  /\ FormatNext  /\ UNCHANGED <<messageVars, callVars, memoryVars>>
     \/ inUse = "call"    /\ CallNext    /\ UNCHANGED <<messageVars, formatVars, memoryVars>>
     \/ inUse = "clients" /\ MemoryNext  /\ UNCHANGED <<messageVars, formatVars, callVars>>

LayoutSpec ==
  LayoutInit /\ [][LayoutNext]_<<messageVars, formatVars, callVars, memoryVars, inUse>>
=============================================================================
