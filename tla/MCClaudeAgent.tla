--------------------------- MODULE MCClaudeAgent ---------------------------
(* Small instances of ClaudeAgent for TLC. *)
EXTENDS ClaudeAgent

ReadCall == [tool |-> "read", arg |-> TRUE, long |-> FALSE]
WriteCall == [tool |-> "write", arg |-> TRUE, long |-> FALSE]
LongWrite == [tool |-> "write", arg |-> TRUE, long |-> TRUE]
RunCall == [tool |-> "run", arg |-> TRUE, long |-> FALSE]
BadRun == [tool |-> "run", arg |-> FALSE, long |-> FALSE]
OddCall == [tool |-> "unknown", arg |-> FALSE, long |-> FALSE]

Asks(calls, len) == [calls |-> calls, size |-> len]

ToolLens == {Overflow, 3}

(* With the sizes of claude.c: two outputs that fill toolmsg[] to its last   *)
(* byte for a block, 36251.                                                  *)
RealLens == {32000, 4224}

(* One to three calls, of which MaxTools = 2 are kept. *)
ToolReplies ==
  {Asks(<<LongWrite>>, 3), Asks(<<BadRun, WriteCall>>, 3), Asks(<<WriteCall, ReadCall>>, 3),
   Asks(<<RunCall, WriteCall, OddCall>>, 3)}

FiveReads == {Asks(<<ReadCall, ReadCall, ReadCall, ReadCall, ReadCall>>, 300)}

ShortLines == {<<"y">>, <<"n">>}

(* A y, and a line that is too long for repl() and for confirm().           *)
LongLines == {<<"y">>, <<"n", "n", "y">>}
=============================================================================
