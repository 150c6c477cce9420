--------------------------- MODULE MCClaudeBridge ---------------------------
(* Small instances of ClaudeBridge for TLC. *)
EXTENDS ClaudeBridge

Asks(tool, args) == [tool |-> tool, args |-> args, long |-> FALSE]
Answer(calls, len) == [calls |-> calls, size |-> len]

(* Up to three calls, of which MaxTools = 2 are kept; the last is cut at    *)
(* ContentBuf.                                                              *)
SmallCompletions ==
  {Answer(<<Asks("read", "good"), Asks("read", "good")>>, 3),
   Answer(<<Asks("run", "good"), Asks("run", "garbled")>>, 9),
   Answer(<<Asks("read", "good"), Asks("read", "other"), Asks("read", "good")>>, 3),
   Answer(<<Asks("read", "good")>>, 21)}

SmallReplies == {FromOpenAI(r) : r \in SmallCompletions}

OneCompletion == {Answer(<<Asks("read", "good")>>, 21)}
OneReply == {FromOpenAI(r) : r \in OneCompletion}

SmallLens == {Overflow, 4}
ShortLines == {<<"y">>, <<"n">>}
=============================================================================
