----------------------------- MODULE McpServer -----------------------------
(***************************************************************************)
(* The MCP server (mcp/mcp.c): read_line(), handle_request(),               *)
(* dispatch_tool_call() and the loop of run_server(), with the scanner they *)
(* share (find_key(), get_json_string(), get_raw_span(), get_raw_token()).  *)
(*                                                                         *)
(* A line is a sequence of JSON tokens; a string is a quote, the pieces of  *)
(* its value and a quote, so that a buffer may cut it anywhere.  Commas and *)
(* colons are left out.  The sizes of buffers are in tokens.                *)
(*                                                                         *)
(* An operator named Slip... is a variant that an editing slip in the code *)
(* could produce; no action uses it.                                        *)
(***************************************************************************)
EXTENDS Integers, Sequences, FiniteSets

CONSTANTS
  Lines,     \* lines the client may write: JSON texts, or <<>> for a blank one
  LineBuf,   \* LINEBUF: sizeof(line)
  ParamBuf,  \* PARAMBUF: sizeof(params)
  ArgBuf,    \* ARGBUF: sizeof(args)
  IdBuf,     \* IDBUF: what get_raw_token() keeps of an id
  ValueBuf,  \* what get_json_string() keeps of path[], cmd[] or text[]
  ToolOut,   \* TOOL_OUT_MAX: sizeof(toolout)
  EscBuf,    \* ESCBUF: bytes that may come out of json_escape()
  Outputs,   \* what files and commands yield: [len, esc] in bytes
  MaxLines   \* bound of the model: lines the client writes

Token == [t : {"key", "open", "close", "quote", "piece", "lit"}, v : STRING]

(* A JSON object, so braces match; or a blank line. *)
Opens(x) == {i \in 1 .. Len(x) : x[i].t = "open"}
Closes(x) == {i \in 1 .. Len(x) : x[i].t = "close"}

ASSUME LinesAssumption ==
  /\ Lines \subseteq Seq(Token) /\ Lines # {}
  /\ \A x \in Lines :
       /\ x = <<>> \/ (x[1].t = "open" /\ x[Len(x)].t = "close")
       /\ Cardinality(Opens(x)) = Cardinality(Closes(x))

ASSUME SizesAssumption ==
  /\ {LineBuf, ParamBuf, ArgBuf} \subseteq Nat \ {0}
  /\ {IdBuf, ValueBuf, ToolOut, EscBuf, MaxLines} \subseteq Nat
  /\ Outputs \subseteq [len : Nat, esc : Nat]

VARIABLES
  wire,     \* lines as the client wrote them
  arrives,  \* tokens of the last line that arrive; the others arrive whole
  eof,      \* the client has closed the pipe
  taken,    \* lines the server has read
  pc,       \* "read", "handle", "reply", "done"
  line,     \* line[]: what read_line() kept
  resp,     \* resp[]: the reply to be written
  replies,  \* replies written, oldest first
  acts      \* what the tools did, oldest first

vars == <<wire, arrives, eof, taken, pc, line, resp, replies, acts>>

client == <<wire, arrives, eof>>

-----------------------------------------------------------------------------
(* The scanner.  A key is looked for in the text, not in the object: the    *)
(* first occurrence counts, however deep it is.                             *)
FirstOf(S) == CHOOSE i \in S : \A j \in S : i <= j

FindKey(x, k) ==
  LET S == {i \in 1 .. Len(x) : x[i] = [t |-> "key", v |-> k]}
  IN  IF S = {} THEN Len(x) + 1 ELSE FirstOf(S) + 1

Cut(x, n) == SubSeq(x, 1, IF Len(x) < n THEN Len(x) ELSE n)

(* From the quote at p, up to the closing quote or the end of the text.     *)
StringAt(x, p) ==
  LET S == {i \in p + 1 .. Len(x) : x[i].t = "quote"}
  IN  SubSeq(x, p + 1, IF S = {} THEN Len(x) ELSE FirstOf(S) - 1)

Begins(x, p, t) == p <= Len(x) /\ x[p].t = t

HasString(x, k) == Begins(x, FindKey(x, k), "quote")

GetString(x, k) ==
  IF HasString(x, k) THEN Cut(StringAt(x, FindKey(x, k)), ValueBuf) ELSE <<>>

(* The closing brace of the object that opens at p.                         *)
Balanced(x, p) ==
  {j \in p .. Len(x) : Cardinality(Opens(x) \cap (p .. j)) =
                       Cardinality(Closes(x) \cap (p .. j))}

SlipSpanAt(x, p) ==
  IF ~Begins(x, p, "open") THEN <<>>
  ELSE SubSeq(x, p, IF Balanced(x, p) = {} THEN Len(x) ELSE FirstOf(Balanced(x, p)))

SpanAt(x, p) ==
  IF Begins(x, p, "open") /\ Balanced(x, p) # {}
  THEN SubSeq(x, p, FirstOf(Balanced(x, p))) ELSE <<>>

GetSpan(x, k) == SpanAt(x, FindKey(x, k))

(* A literal, or a string with its quotes.                                  *)
TokenAt(x, p) ==
  LET S == {i \in p + 1 .. Len(x) : x[i].t = "quote"}
  IN  CASE p > Len(x) -> <<>>
        [] p <= Len(x) /\ x[p].t # "quote" -> <<x[p]>>
        [] OTHER -> SubSeq(x, p, IF S = {} THEN Len(x) ELSE FirstOf(S))

(* One that is too long loses its end, the quote included.                  *)
GetToken(x, k) == Cut(TokenAt(x, FindKey(x, k)), IdBuf)

-----------------------------------------------------------------------------
(* handle_request() and dispatch_tool_call(): what is read out of line[].   *)
(* The required argument of a tool is taken as it is when it was cut.       *)
Is(s) == <<[t |-> "piece", v |-> s]>>

Required(tool) ==
  CASE tool \in {Is("read_file"), Is("write_file")} -> "path"
    [] tool = Is("run_command") -> "cmd"
    [] OTHER -> "none"

Texts == {Cut(x, n) : x \in Lines, n \in 0 .. LineBuf - 1}

Reading ==
  [x \in Texts |->
     LET params == Cut(GetSpan(x, "params"), ParamBuf - 1)
         args == Cut(GetSpan(params, "arguments"), ArgBuf - 1)
         tool == GetString(params, "name")
     IN  [method |-> GetString(x, "method"),
          id |-> GetToken(x, "id"),
          refused |-> Required(tool) = "none" \/ ~HasString(args, Required(tool)),
          act |-> [tool |-> tool, arg |-> GetString(args, Required(tool)),
                   text |-> IF tool = Is("write_file") THEN GetString(args, "text") ELSE <<>>]]]

Method == Reading[line].method
Id == Reading[line].id
Asks == Reading[line].act

Notifies == Len(Method) > 0 /\ Method[1] = Is("notifications/")[1]

Known == {Is("initialize"), Is("ping"), Is("tools/list")}

Failed == [acts |-> FALSE, whole |-> FALSE, err |-> TRUE, says |-> "text", esc |-> 1]

Succeeds(o) == [acts |-> TRUE, whole |-> TRUE, err |-> FALSE, says |-> "text", esc |-> o]

(* Execute() returns 0 and nothing was written: "it may not have run".      *)
NotStarted == [Failed EXCEPT !.err = FALSE, !.says = "doubt"]

(* What is kept of the text a file or a command yields, escaped.            *)
Escaped(o) ==
  IF o.len < ToolOut THEN o.esc ELSE (o.esc * (ToolOut - 1)) \div o.len

Yields == {Succeeds(Escaped(o)) : o \in Outputs}

SlipOutcomes ==
  IF Reading[line].refused THEN {Failed}
  ELSE {Failed} \cup
       CASE Asks.tool = Is("write_file") -> {Succeeds(1), [Failed EXCEPT !.acts = TRUE]}
         [] Asks.tool = Is("run_command") -> Yields \cup {[NotStarted EXCEPT !.says = "text"]}
         [] OTHER -> Yields

(* A file that opens is read up to toolout[]; a write may fall short; a     *)
(* command runs unless the file for its output cannot be made, or Execute() *)
(* does not start it: that is no error to tool_run_command().               *)
Outcomes ==
  IF Reading[line].refused THEN {Failed}
  ELSE {Failed} \cup
       CASE Asks.tool = Is("write_file") -> {Succeeds(1), [Failed EXCEPT !.acts = TRUE]}
         [] Asks.tool = Is("run_command") -> Yields \cup {NotStarted}
         [] OTHER -> Yields

(* build_tool_result(): text that cannot be escaped is replaced. *)
Encodes(o) == o.esc < EscBuf

-----------------------------------------------------------------------------
(* The client, which may have any number of requests under way, and hang up *)
(* in the middle of a line.                                                 *)
Write ==
  /\ ~eof /\ Len(wire) < MaxLines
  /\ \E x \in Lines : wire' = Append(wire, x) /\ arrives' = Len(x)
  /\ UNCHANGED <<eof, taken, pc, line, resp, replies, acts>>

HangUp ==
  /\ ~eof
  /\ eof' = TRUE
  /\ arrives' \in IF taken < Len(wire) THEN 0 .. arrives ELSE {arrives}
  /\ UNCHANGED <<wire, taken, pc, line, resp, replies, acts>>

SlipKeeps(n) == IF n = Len(wire) THEN arrives ELSE Len(wire[n])

(* read_line(): what does not fit is read and dropped.                      *)
Keeps(n) == IF n = Len(wire) /\ arrives < LineBuf THEN arrives ELSE LineBuf - 1

ReadLine ==
  /\ pc = "read" /\ taken < Len(wire)
  /\ taken' = taken + 1
  /\ line' = Cut(wire[taken'], Keeps(taken'))
  /\ pc' = IF line' = <<>> THEN "read" ELSE "handle"
  /\ UNCHANGED <<client, resp, replies, acts>>

SlipEndOfInput ==
  /\ pc = "read" /\ eof
  /\ pc' = "done"
  /\ UNCHANGED <<client, taken, line, resp, replies, acts>>

EndOfInput ==
  /\ pc = "read" /\ taken = Len(wire) /\ eof
  /\ pc' = "done"
  /\ UNCHANGED <<client, taken, line, resp, replies, acts>>

Answers(kind, err) ==
  /\ pc' = "reply"
  /\ resp' = [id |-> Id, kind |-> kind, err |-> err]

Ignore ==
  /\ pc = "handle"
  /\ Notifies \/ (Method \notin Known \cup {Is("tools/call")} /\ Id = <<>>)
  /\ pc' = "read"
  /\ UNCHANGED <<client, taken, line, resp, replies, acts>>

Inform ==
  /\ pc = "handle" /\ ~Notifies /\ Method \in Known
  /\ Answers("result", FALSE)
  /\ UNCHANGED <<client, taken, line, replies, acts>>

CallTool ==
  /\ pc = "handle" /\ ~Notifies /\ Method = Is("tools/call")
  /\ \E o \in Outcomes :
       /\ Answers(IF Encodes(o) THEN o.says ELSE "too large", o.err)
       /\ acts' = IF ~o.acts THEN acts
                  ELSE Append(acts, [line |-> taken, act |-> Asks, whole |-> o.whole])
  /\ UNCHANGED <<client, taken, line, replies>>

NotFound ==
  /\ pc = "handle" /\ ~Notifies
  /\ Method \notin Known \cup {Is("tools/call")} /\ Id # <<>>
  /\ Answers("error", TRUE)
  /\ UNCHANGED <<client, taken, line, replies, acts>>

(* The reply, a newline and fflush(). *)
Reply ==
  /\ pc = "reply"
  /\ replies' = Append(replies, [line |-> taken, id |-> resp.id,
                                 kind |-> resp.kind, err |-> resp.err])
  /\ pc' = "read"
  /\ UNCHANGED <<client, taken, line, resp, acts>>

Init ==
  /\ wire = <<>> /\ arrives = 0 /\ eof = FALSE
  /\ taken = 0 /\ pc = "read" /\ line = <<>>
  /\ resp = [id |-> <<>>, kind |-> "none", err |-> FALSE]
  /\ replies = <<>> /\ acts = <<>>

Client == Write \/ HangUp

Server == ReadLine \/ EndOfInput \/ Ignore \/ Inform \/ CallTool \/ NotFound \/ Reply

Next == Client \/ Server \/ (pc = "done" /\ UNCHANGED vars)

Spec == Init /\ [][Next]_vars

(* The server is a process that only waits for its input; a command that    *)
(* Execute() starts is taken to end.                                        *)
FairSpec == Spec /\ WF_vars(Server)

-----------------------------------------------------------------------------
(* What a line asks, read as JSON: a member is found at its depth, wherever *)
(* it stands in the text.                                                   *)
Depth(x, i) ==
  Cardinality(Opens(x) \cap (1 .. i - 1)) - Cardinality(Closes(x) \cap (1 .. i - 1))

TopKey(x, k) ==
  LET S == {i \in 1 .. Len(x) : x[i] = [t |-> "key", v |-> k] /\ Depth(x, i) = 1}
  IN  IF S = {} THEN Len(x) + 1 ELSE FirstOf(S) + 1

Member(x, k) == SpanAt(x, TopKey(x, k))

Value(x, k) ==
  IF Begins(x, TopKey(x, k), "quote") THEN StringAt(x, TopKey(x, k)) ELSE <<>>

(* The values are those that the tools take: of a longer one, what fits     *)
(* path[], cmd[] or text[].                                                 *)
Taken(x, k) == Cut(Value(x, k), ValueBuf)

Meaning ==
  [x \in Lines |->
     LET params == Member(x, "params")
         args == Member(params, "arguments")
         tool == Value(params, "name")
     IN  [id |-> TokenAt(x, TopKey(x, "id")),
          act |-> [tool |-> tool,
                   arg |-> Taken(args, IF tool = Is("run_command") THEN "cmd" ELSE "path"),
                   text |-> IF tool = Is("write_file") THEN Taken(args, "text") ELSE <<>>]]]

(* A member named k that the scanner finds where it stands: no member of an *)
(* object inside has that name and stands before it.                        *)
FoundAtTop(x, k) ==
  \A i \in 1 .. Len(x) : x[i] = [t |-> "key", v |-> k] =>
    \E j \in 1 .. i : x[j] = [t |-> "key", v |-> k] /\ Depth(x, j) = 1

(* A line as a client would write it for this server: the members it looks  *)
(* for are found at their places, the arguments as a whole and the id fit   *)
(* args[] and id[], the id stands before line[] is full, a tool has a name  *)
(* of one piece, and exactly the lines that want a reply carry an id.  The  *)
(* line, its params and the values of its arguments may be too long.        *)
PlainLine(x) ==
  LET params == Member(x, "params")
      args == Member(params, "arguments")
      id == TokenAt(x, TopKey(x, "id"))
      method == GetString(Cut(x, LineBuf - 1), "method")
  IN  /\ \A k \in {"params", "id"} : FoundAtTop(x, k)
      /\ \A k \in {"arguments", "name"} : FoundAtTop(params, k)
      /\ \A k \in {"path", "cmd", "text"} : FoundAtTop(args, k)
      /\ Len(args) < ArgBuf /\ Len(Value(params, "name")) <= 1
      /\ Len(id) <= IdBuf
      /\ id # <<>> => TopKey(x, "id") + Len(id) <= LineBuf
      /\ Len(method) > 0 /\ method[1] = Is("notifications/")[1] => id = <<>>
      /\ method \in Known \cup {Is("tools/call")} => id # <<>>

(* Did the whole line arrive? *)
Arrived(n) == n < Len(wire) \/ arrives = Len(wire[n])

-----------------------------------------------------------------------------
Answer ==
  [id : {Reading[x].id : x \in Texts} \cup {<<>>}, err : BOOLEAN,
   kind : {"none", "result", "text", "doubt", "too large", "error"}]

Sent ==
  [line : Nat, id : {Reading[x].id : x \in Texts} \cup {<<>>}, err : BOOLEAN,
   kind : {"none", "result", "text", "doubt", "too large", "error"}]

Act ==
  [line : Nat, act : {Reading[x].act : x \in Texts}, whole : BOOLEAN]

(* Type invariant: what is in the buffers was read out of a line; arrives   *)
(* counts tokens of the last one.                                           *)
TypeOK ==
  /\ wire \in Seq(Lines) /\ eof \in BOOLEAN
  /\ arrives \in Nat /\ (Len(wire) > 0 => arrives <= Len(wire[Len(wire)]))
  /\ taken \in 0 .. Len(wire)
  /\ pc \in {"read", "handle", "reply", "done"}
  /\ line \in Texts
  /\ resp \in Answer
  /\ replies \in Seq(Sent)
  /\ acts \in Seq(Act)

(* run_server() answers and dispatches line by line: no line is answered    *)
(* twice or acted upon twice, replies and effects are in the order of the   *)
(* lines, and an answered line is one whose tool is done.                   *)
OncePerLine ==
  /\ \A i, j \in 1 .. Len(replies) : i < j => replies[i].line < replies[j].line
  /\ \A i, j \in 1 .. Len(acts) : i < j => acts[i].line < acts[j].line
  /\ \A i \in 1 .. Len(replies) :
       replies[i].line <= (IF pc \in {"handle", "reply"} THEN taken - 1 ELSE taken)
  /\ \A i \in 1 .. Len(acts) :
       acts[i].line <= (IF pc = "handle" THEN taken - 1 ELSE taken)

(* tool_write_file(), tool_run_command(), dispatch_tool_call(): a tool that *)
(* did all of its work is reported with isError false, one that fell short  *)
(* with isError true, and no effect goes unreported once the server reads   *)
(* on.  A text with isError false stands for work that was all done, unless *)
(* it is the one that says the command may not have run: then nothing ran,  *)
(* though isError is false.                                                 *)
ReportsMatchActs ==
  /\ \A i \in 1 .. Len(acts) :
       acts[i].line < taken \/ pc = "read" =>
         \E j \in 1 .. Len(replies) :
           replies[j].line = acts[i].line /\ replies[j].err = ~acts[i].whole
  /\ \A j \in 1 .. Len(replies) :
       replies[j].kind = "text" /\ ~replies[j].err =>
         \E i \in 1 .. Len(acts) : acts[i].line = replies[j].line /\ acts[i].whole
  /\ \A j \in 1 .. Len(replies) :
       replies[j].kind = "doubt" =>
         ~replies[j].err /\ \A i \in 1 .. Len(acts) : acts[i].line # replies[j].line

(* The contract of mcp/README.md, for the server's readings of the lines:   *)
(* of a line that is cut by the end of the input, by line[] or by params[]  *)
(* a tool does what the whole line asks or nothing, and a value too long    *)
(* for path[], cmd[] or text[] is cut there and nowhere else.  That the     *)
(* tool acts on the value so cut is what the code does, and part of what is *)
(* asked here (Taken); arguments that do not fit args[] are left out.       *)
Rpc ==
  INSTANCE RpcContract WITH
    Requests <- {Meaning[x] : x \in Lines},
    NoId <- <<>>,
    asked <- [n \in 1 .. Len(wire) |-> Meaning[wire[n]]],
    handled <- IF pc \in {"handle", "reply"} THEN taken - 1 ELSE taken,
    acted <- pc = "reply" /\ acts # <<>> /\ acts[Len(acts)].line = taken,
    acts <- [i \in 1 .. Len(acts) |-> [line |-> acts[i].line, act |-> acts[i].act]],
    replies <- [i \in 1 .. Len(replies) |->
                  IF Arrived(replies[i].line) THEN replies[i].id ELSE <<>>],
    broken <- Len(wire) > 0 /\ ~Arrived(Len(wire))

ImplementsRpc == Rpc!Spec

Numbered == {n \in 1 .. Len(wire) : Meaning[wire[n]].id # <<>>}
Answered == {replies[i].line : i \in 1 .. Len(replies)}
Lost == {n \in 1 .. Len(wire) : ~Arrived(n)}

(* run_server() goes on until the end of the input: a line that arrives     *)
(* with an id gets its reply, also when the client has already hung up.     *)
AllAnswered == \A n \in 1 .. MaxLines : n \in Numbered ~> n \in Answered \cup Lost

=============================================================================
