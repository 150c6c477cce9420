---------------------------- MODULE MCMcpServer ----------------------------
(* Small instances of McpServer for TLC. *)
EXTENDS McpServer

Key(k, value) == <<[t |-> "key", v |-> k]>> \o value
Lit(x) == <<[t |-> "lit", v |-> x]>>
Quote == <<[t |-> "quote", v |-> ""]>>
Word(s) == Quote \o Is(s) \o Quote
Words(s, u) == Quote \o Is(s) \o Is(u) \o Quote
Object(members) == <<[t |-> "open", v |-> ""]>> \o members \o <<[t |-> "close", v |-> ""]>>

Call(tool, args) ==
  Key("method", Word("tools/call")) \o
  Key("params", Object(Key("name", Word(tool)) \o Key("arguments", Object(args))))

Reads == Call("read_file", Key("path", Word("S:x")))
WritesText ==
  Call("write_file", Key("text", Words("one", "two")) \o Key("path", Word("S:x")))

(* Calls whose params carry more than params[] takes: what is lost is a     *)
(* part that no tool needs, or the name of the tool.  The command has three *)
(* pieces, and cmd[] takes two.                                             *)
Trace(members) == Key("_meta", Object(members))
Token5 == Key("progressToken", Lit("5"))

Runs ==
  Key("method", Word("tools/call")) \o
  Key("params", Object(
    Key("name", Word("run_command")) \o
    Key("arguments",
        Object(Key("cmd", Quote \o Is("copy") \o Is("RAM:x") \o Is("S:") \o Quote))) \o
    Trace(Token5 \o Key("trace", Lit("6")))))

WritesLate(members) ==
  Key("method", Word("tools/call")) \o
  Key("params", Object(
    Key("arguments", Object(Key("path", Word("S:x")) \o Key("text", Words("one", "two")))) \o
    Trace(members) \o Key("name", Word("write_file"))))

Notification ==
  Object(Key("method", Words("notifications/", "cancelled")))

(* Lines as most clients write them: the id first, or after short params.   *)
(* The one with id 7 is longer than line[].                                 *)
PlainLines ==
  {Object(Key("id", Word("b")) \o WritesText), Object(Runs \o Key("id", Lit("2"))),
   Object(Key("id", Lit("3")) \o WritesLate(Token5)),
   Object(Key("id", Lit("7")) \o WritesLate(Token5 \o Key("trace", Lit("6")))),
   Object(Key("id", Lit("6")) \o Reads),
   Object(Key("id", Lit("4")) \o Key("method", Word("ping"))),
   Object(Key("id", Lit("5")) \o Key("method", Word("roots/list"))),
   Notification}

ASSUME PlainAssumption == \A x \in PlainLines : PlainLine(x)

(* line[], params[] and cmd[] are all too small for some of these lines.    *)
ASSUME CutAssumption ==
  /\ \E x \in PlainLines : Len(x) >= LineBuf
  /\ \E x \in PlainLines :
       Len(x) < LineBuf /\ Len(Member(x, "params")) >= ParamBuf
  /\ \E x \in PlainLines :
       Len(Value(Member(Member(x, "params"), "arguments"), "cmd")) > ValueBuf

SomeOutputs == {[len |-> 9, esc |-> 18]}
=============================================================================
