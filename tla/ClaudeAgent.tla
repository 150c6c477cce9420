---------------------------- MODULE ClaudeAgent ----------------------------
(***************************************************************************)
(* The Claude client for the Amiga (claude/client/claude.c): the message   *)
(* history, the tool-use loop of run_conversation(), the confirmation gate *)
(* of execute_tool() and the REPL around them.                             *)
(*                                                                         *)
(* The client is one sequential program.  What is nondeterministic is its  *)
(* environment: the API's reply, the outcome of a file operation or of a   *)
(* command, the lines the user types, and malloc().                        *)
(*                                                                         *)
(* Sizes are small numbers in one unit, with the code's own comparisons.   *)
(*                                                                         *)
(* An operator named Slip... is a variant that an editing slip in the code *)
(* could produce; no action uses it.  Each property is tested by putting   *)
(* one of them in the place of the definition that follows it.             *)
(***************************************************************************)
EXTENDS Integers, Sequences, FiniteSetsExt

CONSTANTS
  MaxMsgs,      \* MAX_MSGS: entries of g_hist
  MaxIters,     \* MAX_ITERS: requests per prompt
  MaxTools,     \* MAX_TOOLS: entries of calls[]
  JoinBuf,      \* JOINBUF: sizeof(joined)
  ContentBuf,   \* CONTENTBUF - 1: what content_arr[] holds
  ToolMsgBuf,   \* sizeof(toolmsg)
  ToolMsgHead,  \* length of the opening of the results turn
  ShortLen,     \* length of a block that carries an error or a confirmation
  BlockLens,    \* lengths of a block that carries file or command output
  PromptLens,   \* lengths of a prompt's message object
  Lines,        \* lines the user may type, in pieces of 15 bytes
  LineBuf,      \* pieces that fgets() of repl() takes: 4095 bytes
  Replies,      \* replies that ask for tools
  AutoYes,      \* g_yes: --yes was given
  OutOfMemory,  \* may malloc() in hist_add() fail?
  MaxPrompts,   \* bound of the model: prompts typed in one session
  MaxAhead      \* bound of the model: lines that wait on stdin

(* build_tool_result() answers -1 when the escaped text does not fit. *)
Overflow == -1

Call == [tool : {"read", "write", "run", "unknown"},
         arg  : BOOLEAN,   \* is "path" / "cmd" there once "input" was copied?
         long : BOOLEAN]   \* longer than INPUTBUF or cmd[512]: it was cut

(* A reply with stop_reason "tool_use": the tool_use blocks that are whole  *)
(* in content_arr[], at least one, and the length of its content.           *)
Reply == [calls : Seq(Call), size : Nat]

(* What a result says: is_error false, is_error true, or is_error false and *)
(* a text that says the command may not have run.                           *)
Says == {"done", "error", "doubt"}

Token == [tok : {"comma", "block"}, call : Nat, says : Says \cup {"none"}]
Comma == [tok |-> "comma", call |-> 0, says |-> "none"]
Block(i, says) == [tok |-> "block", call |-> i, says |-> says]

(* One entry of g_hist: prompt and iter say when it was made.  "asst" is an *)
(* echoed assistant turn with its tool_use blocks, "results" the user turn  *)
(* of tool_result blocks that answers it; cut: content_arr[] was too small. *)
Message == [kind : {"prompt", "asst", "results"}, prompt : Nat, iter : Nat,
            calls : Seq(Call), toks : Seq(Token), cut : BOOLEAN, size : Nat]

(* What confirm() read before a call was settled, and from where: a line    *)
(* typed at the question, or what stood on stdin before it was asked.       *)
Approval == [read : {"y", "n", "none"}, from : {"auto", "line", "rest"}]
Unasked == [read |-> "none", from |-> "auto"]

Effect == [prompt : Nat, iter : Nat, call : Nat, tool : {"write", "run"},
           how : {"whole", "cut", "partial"}, asked : Approval]

Outcome == [how : {"none", "whole", "cut", "partial"}, says : Says,
            len : Nat \cup {Overflow}]

Line == Seq({"y", "n"}) \ {<<>>}

ASSUME SizesAssumption ==
  /\ MaxMsgs \in Nat /\ MaxMsgs >= 4
  /\ MaxIters \in Nat \ {0}
  /\ MaxTools \in Nat \ {0}
  /\ {JoinBuf, ContentBuf, ToolMsgBuf, ToolMsgHead, ShortLen, MaxPrompts} \subseteq Nat
  /\ BlockLens \subseteq Nat \cup {Overflow}
  /\ PromptLens \subseteq Nat
  /\ Lines \subseteq Line /\ LineBuf \in Nat \ {0} /\ MaxAhead \in Nat
  /\ AutoYes \in BOOLEAN /\ OutOfMemory \in BOOLEAN

ASSUME RepliesAssumption ==
  /\ Replies \subseteq Reply
  /\ \A r \in Replies : Len(r.calls) > 0

(* MAX_MSGS is 48 and MAX_ITERS is 8.                                       *)
ASSUME RoomAssumption == MaxMsgs >= 2 * MaxIters + 2

(* JOINBUF is 90000, sizeof(toolmsg) 36256, an escaped prompt under 8320: a *)
(* turn of the user fits joined[] when it is alone in it.                   *)
ASSUME JoinAssumption ==
  /\ ToolMsgBuf + 2 < JoinBuf /\ ToolMsgHead + 4 < JoinBuf
  /\ \A len \in PromptLens : len + 2 < JoinBuf

VARIABLES
  pc,       \* "repl", "join", "wait", "tools", "confirm" or "done"
  hist,     \* g_hist[0 .. g_nhist - 1]
  iter,     \* iter of run_conversation()
  request,  \* the messages of the request in flight
  reply,    \* the reply whose tools are being run
  next,     \* i + 1 of the loop over calls[]
  toolmsg,  \* toolmsg[] so far: its tokens and mo
  stdin,    \* what was typed and is not read yet: lines, the first in part
  tidy,     \* history variable: each line so far was typed when it was read,
            \* and fit the buffer of that read
  log,      \* history variable: effects on the Amiga, in order
  prompts   \* history variable: prompts put on the history so far

vars == <<pc, hist, iter, request, reply, next, toolmsg, stdin, tidy, log, prompts>>

NoReply == [calls |-> <<>>, size |-> 0]
NewToolMsg == [toks |-> <<>>, used |-> ToolMsgHead]

PromptMsg(n, len) == [kind |-> "prompt", prompt |-> n, iter |-> 0,
                      calls |-> <<>>, toks |-> <<>>, cut |-> FALSE,
                      size |-> len]
AsstMsg(r) == [kind |-> "asst", prompt |-> prompts, iter |-> iter,
               calls |-> r.calls, toks |-> <<>>,
               cut |-> r.size > ContentBuf,
               size |-> IF r.size > ContentBuf THEN ContentBuf ELSE r.size]
ResultsMsg == [kind |-> "results", prompt |-> prompts, iter |-> iter,
               calls |-> <<>>, toks |-> toolmsg.toks, cut |-> FALSE,
               size |-> toolmsg.used + 2]

-----------------------------------------------------------------------------
SlipEvictedHalf(h) ==
  IF Len(h) >= MaxMsgs THEN SubSeq(h, Len(h) \div 2 + 1, Len(h)) ELSE h

(* hist_add() first makes room by dropping the two oldest entries, then     *)
(* copies the message; a failed malloc() loses it without a word.           *)
Evicted(h) == IF Len(h) >= MaxMsgs THEN SubSeq(h, 3, Len(h)) ELSE h

HistAdd(m) ==
  \/ hist' = Append(Evicted(hist), m)
  \/ OutOfMemory /\ hist' = Evicted(hist)

(* hist_join(): the first entry from which the rest fits, or the newest ... *)
Weight(h, a, b) == MapThenSumSet(LAMBDA i : h[i].size + 1, a .. b)

SlipJoinStartNoCommas(h) ==
  Min({s \in 1 .. Len(h) :
         Weight(h, s, Len(h)) - (Len(h) - s + 1) < JoinBuf - 1 \/ s = Len(h)})

JoinStart(h) ==
  Min({s \in 1 .. Len(h) : Weight(h, s, Len(h)) < JoinBuf - 1 \/ s = Len(h)})

(* ... then the copy loop, which stops at the first entry it has no room    *)
(* for.                                                                     *)
RoomFor(h, s, i) ==
  (IF i = s THEN h[i].size + 2 ELSE Weight(h, s, i)) < JoinBuf

HistJoin(h) ==
  IF h = <<>> THEN <<>>
  ELSE LET s == JoinStart(h)
           e == Max({s - 1} \cup
                    {k \in s .. Len(h) : \A i \in s .. k : RoomFor(h, s, i)})
       IN  SubSeq(h, s, e)

-----------------------------------------------------------------------------
(* fgets() takes n pieces, or less if the line ends before; what is left of *)
(* the line stays on stdin.                                                 *)
Unread(lines, n) ==
  LET rest == SubSeq(Head(lines), n + 1, Len(Head(lines)))
  IN  (IF rest = <<>> THEN <<>> ELSE <<rest>>) \o Tail(lines)

(* A line is typed when a read of n pieces waits for it.                    *)
Typed(line, n) ==
  /\ stdin = <<>>
  /\ stdin' = Unread(<<line>>, n)
  /\ tidy' = (tidy /\ Len(line) <= n)

(* Lines typed while nothing waits for them. *)
TypeAhead ==
  /\ pc # "done" /\ Len(stdin) < MaxAhead
  /\ \E line \in Lines : stdin' = Append(stdin, line)
  /\ tidy' = FALSE
  /\ UNCHANGED <<pc, hist, iter, request, reply, next, toolmsg, log, prompts>>

(* repl(): a line that is not empty and is not /quit.  A line that is empty *)
(* or too long to escape changes nothing.                                   *)
StartPrompt(len) ==
  /\ prompts < MaxPrompts
  /\ prompts' = prompts + 1
  /\ HistAdd(PromptMsg(prompts', len))
  /\ iter' = 0
  /\ pc' = "join"
  /\ UNCHANGED <<request, reply, next, toolmsg, log>>

TypePrompt ==
  /\ pc = "repl"
  /\ \E line \in Lines : Typed(line, LineBuf)
  /\ \E len \in PromptLens : StartPrompt(len)

(* fgets() of repl() reads what stands on stdin, if that is only the rest   *)
(* of a line as much as any other: a prompt, unless it is empty.            *)
ReadLeftover ==
  /\ pc = "repl" /\ stdin # <<>>
  /\ stdin' = Unread(stdin, LineBuf)
  /\ \/ \E len \in PromptLens : StartPrompt(len)
     \/ UNCHANGED <<pc, hist, iter, request, reply, next, toolmsg, log, prompts>>
  /\ UNCHANGED tidy

Quit ==
  /\ pc = "repl"
  /\ pc' = "done"
  /\ UNCHANGED <<hist, iter, request, reply, next, toolmsg, stdin, tidy, log, prompts>>

-----------------------------------------------------------------------------
SlipSendRequest ==
  /\ pc = "join" /\ iter <= MaxIters
  /\ request' = HistJoin(hist)
  /\ pc' = "wait"
  /\ UNCHANGED <<hist, iter, reply, next, toolmsg, stdin, tidy, log, prompts>>

(* The top of the loop of run_conversation(): join, build, send.            *)
SendRequest ==
  /\ pc = "join" /\ iter < MaxIters
  /\ request' = HistJoin(hist)
  /\ pc' = "wait"
  /\ UNCHANGED <<hist, iter, reply, next, toolmsg, stdin, tidy, log, prompts>>

IterationCap ==
  /\ pc = "join" /\ iter = MaxIters
  /\ pc' = "repl"
  /\ UNCHANGED <<hist, iter, request, reply, next, toolmsg, stdin, tidy, log, prompts>>

SlipReplyRetries ==
  /\ pc = "wait"
  /\ pc' = "join"
  /\ request' = <<>>
  /\ UNCHANGED <<hist, iter, reply, next, toolmsg, stdin, tidy, log, prompts>>

(* Every way out of the exchange without tools: the transport failed, there *)
(* was no body, an HTTP error, no content array, or a final answer.  None   *)
(* of them touches the history: a final answer is printed, not recorded.    *)
ReplyEnds ==
  /\ pc = "wait"
  /\ pc' = "repl"
  /\ request' = <<>>
  /\ UNCHANGED <<hist, iter, reply, next, toolmsg, stdin, tidy, log, prompts>>

(* stop_reason "tool_use": the assistant turn is echoed to the history with *)
(* every block; calls[] keeps the first MaxTools of them.                   *)
ReplyAsksTools(r) ==
  /\ pc = "wait"
  /\ HistAdd(AsstMsg(r))
  /\ reply' = r
  /\ next' = 1
  /\ toolmsg' = NewToolMsg
  /\ request' = <<>>
  /\ pc' = "tools"
  /\ UNCHANGED <<iter, stdin, tidy, log, prompts>>

-----------------------------------------------------------------------------
SlipKept(r) == Len(r.calls)

(* ncalls after collect_text_and_tools(). *)
Kept(r) == IF Len(r.calls) <= MaxTools THEN Len(r.calls) ELSE MaxTools

Current == reply.calls[next]

Gated(c) == c.tool \in {"write", "run"} /\ c.arg

Refused == [how |-> "none", says |-> "error", len |-> ShortLen]

(* tool_read_file(): cannot be opened or read, or its text.                 *)
ReadOutcomes ==
  {Refused} \cup {[how |-> "none", says |-> "done", len |-> l] : l \in BlockLens}

SlipWriteOutcomes(c) ==
  {Refused, [how |-> "partial", says |-> "done", len |-> ShortLen]}

(* tool_write_file(): cannot be opened, a short write, or all of the text   *)
(* that was left of the argument.                                           *)
WriteOutcomes(c) ==
  {Refused,
   [how |-> "partial", says |-> "error", len |-> ShortLen],
   [how |-> IF c.long THEN "cut" ELSE "whole", says |-> "done", len |-> ShortLen]}

(* tool_run_command(): no output file; Execute() does not start the command *)
(* and answers 0, which is no error here; or it ran, whatever it answered.  *)
RunOutcomes(c) ==
  {Refused, [how |-> "none", says |-> "doubt", len |-> ShortLen]} \cup
  {[how |-> IF c.long THEN "cut" ELSE "whole", says |-> "done", len |-> l] :
     l \in BlockLens}

(* The effect an outcome has on the Amiga. *)
Logged(c, o, how) ==
  IF o.how = "none" THEN log
  ELSE Append(log, [prompt |-> prompts, iter |-> iter, call |-> next,
                    tool |-> c.tool, how |-> o.how, asked |-> how])

(* run_conversation() after execute_tool(): a result that overflowed is     *)
(* skipped, one that does not fit leaves its comma behind.                  *)
WithComma(tm, i) ==
  IF i > 1 /\ tm.used < ToolMsgBuf - 2
  THEN [toks |-> Append(tm.toks, Comma), used |-> tm.used + 1]
  ELSE tm

WithBlock(tm, i, o) ==
  IF tm.used + o.len < ToolMsgBuf - 4
  THEN [toks |-> Append(tm.toks, Block(i, o.says)), used |-> tm.used + o.len]
  ELSE tm

AddResult(tm, i, o) ==
  IF o.len = Overflow THEN tm ELSE WithBlock(WithComma(tm, i), i, o)

SlipFinish(o, how) ==
  /\ log' = Logged(Current, o, how)
  /\ toolmsg' = AddResult(toolmsg, next, o)
  /\ next' = IF o.len = Overflow THEN next ELSE next + 1
  /\ pc' = "tools"
  /\ UNCHANGED <<hist, iter, request, reply, prompts>>

Finish(o, how) ==
  /\ log' = Logged(Current, o, how)
  /\ toolmsg' = AddResult(toolmsg, next, o)
  /\ next' = next + 1
  /\ pc' = "tools"
  /\ UNCHANGED <<hist, iter, request, reply, prompts>>

Outcomes(c) ==
  CASE c.tool = "read"  /\ c.arg -> ReadOutcomes
    [] c.tool = "write" /\ c.arg -> WriteOutcomes(c)
    [] c.tool = "run"   /\ c.arg -> RunOutcomes(c)
    [] OTHER -> {Refused}   \* a missing argument, an unknown name

(* What needs no approval, or has it from --yes, runs at once.              *)
RunTool ==
  /\ pc = "tools" /\ next <= Kept(reply)
  /\ Gated(Current) => AutoYes
  /\ \E o \in Outcomes(Current) : Finish(o, Unasked)
  /\ UNCHANGED <<stdin, tidy>>

(* confirm() prints the question ... *)
Ask ==
  /\ pc = "tools" /\ next <= Kept(reply) /\ Gated(Current) /\ ~AutoYes
  /\ pc' = "confirm"
  /\ UNCHANGED <<hist, iter, request, reply, next, toolmsg, stdin, tidy, log, prompts>>

SlipDecide(piece, from) ==
  \/ piece # "n" /\ \E o \in Outcomes(Current) : Finish(o, [read |-> piece, from |-> from])
  \/ piece = "n" /\ Finish(Refused, [read |-> piece, from |-> from])

(* ... and reads 15 bytes: of a new line, or of what stands on stdin.       *)
Decide(piece, from) ==
  \/ piece = "y" /\ \E o \in Outcomes(Current) : Finish(o, [read |-> piece, from |-> from])
  \/ piece # "y" /\ Finish(Refused, [read |-> piece, from |-> from])

AnswerTyped ==
  /\ pc = "confirm"
  /\ \E line \in Lines : Typed(line, 1) /\ Decide(Head(line), "line")

AnswerLeftover ==
  /\ pc = "confirm" /\ stdin # <<>>
  /\ stdin' = Unread(stdin, 1)
  /\ Decide(Head(Head(stdin)), "rest")
  /\ UNCHANGED tidy

(* End of file on stdin: confirm() answers no. *)
AnswerEof ==
  /\ pc = "confirm" /\ stdin = <<>>
  /\ Decide("none", "line")
  /\ UNCHANGED <<stdin, tidy>>

SlipFinishTurnSameIter ==
  /\ pc = "tools" /\ next > Kept(reply)
  /\ HistAdd(ResultsMsg)
  /\ pc' = "join"
  /\ reply' = NoReply
  /\ next' = 1
  /\ toolmsg' = NewToolMsg
  /\ UNCHANGED <<iter, request, stdin, tidy, log, prompts>>

SlipFinishTurnIfAny ==
  /\ pc = "tools" /\ next > Kept(reply)
  /\ IF toolmsg.toks = <<>> THEN hist' = hist ELSE HistAdd(ResultsMsg)
  /\ iter' = iter + 1
  /\ pc' = "join"
  /\ reply' = NoReply
  /\ next' = 1
  /\ toolmsg' = NewToolMsg
  /\ UNCHANGED <<request, stdin, tidy, log, prompts>>

(* The results turn is closed and recorded, and the loop goes round.        *)
FinishTurn ==
  /\ pc = "tools" /\ next > Kept(reply)
  /\ HistAdd(ResultsMsg)
  /\ iter' = iter + 1
  /\ pc' = "join"
  /\ reply' = NoReply
  /\ next' = 1
  /\ toolmsg' = NewToolMsg
  /\ UNCHANGED <<request, stdin, tidy, log, prompts>>

-----------------------------------------------------------------------------
Init ==
  /\ pc = "repl"
  /\ hist = <<>>
  /\ iter = 0
  /\ request = <<>>
  /\ reply = NoReply
  /\ next = 1
  /\ toolmsg = NewToolMsg
  /\ stdin = <<>>
  /\ tidy = TRUE
  /\ log = <<>>
  /\ prompts = 0

(* Steps of the program itself. *)
Program ==
  SendRequest \/ IterationCap \/ RunTool \/ Ask \/ FinishTurn

(* The peer answers, or its connection ends. *)
Peer == ReplyEnds \/ \E r \in Replies : ReplyAsksTools(r)

(* The user answers a y/N question. *)
User == AnswerTyped \/ AnswerLeftover \/ AnswerEof

(* The user may also stop typing prompts at any time. *)
Session == TypePrompt \/ TypeAhead \/ ReadLeftover \/ Quit

Finished == pc = "done" /\ UNCHANGED vars

Next == Program \/ Peer \/ User \/ Session \/ Finished

Spec == Init /\ [][Next]_vars

FairSpec == Spec /\ WF_vars(Program) /\ WF_vars(Peer) /\ WF_vars(User)

-----------------------------------------------------------------------------
(* Every variable holds a value of its kind; a call is pending exactly      *)
(* while its tools run.  (Types of the globals and locals of claude.c.)     *)
TypeOK ==
  /\ pc \in {"repl", "join", "wait", "tools", "confirm", "done"}
  /\ hist \in Seq(Message)
  /\ iter \in 0 .. MaxIters
  /\ request \in Seq(Message)
  /\ reply \in Replies \cup {NoReply}
  /\ next \in Nat \ {0}
  /\ toolmsg \in [toks : Seq(Token), used : Nat]
  /\ stdin \in Seq(Line) /\ tidy \in BOOLEAN /\ (tidy => stdin = <<>>)
  /\ log \in Seq(Effect)
  /\ prompts \in Nat
  /\ pc = "tools" => next <= Kept(reply) + 1
  /\ pc = "confirm" => next <= Kept(reply) /\ Gated(Current) /\ ~AutoYes
  /\ pc \in {"tools", "confirm"} => reply \in Replies /\ iter < MaxIters
  /\ pc = "wait" => iter < MaxIters

(* hist_add() never lets the history outgrow the array g_hist[MAX_MSGS].    *)
HistBounded == Len(hist) <= MaxMsgs

Rank(m) == CASE m.kind = "prompt" -> 0 [] m.kind = "asst" -> 1 [] OTHER -> 2

Before(a, b) ==
  \/ a.prompt < b.prompt
  \/ a.prompt = b.prompt /\ a.iter < b.iter
  \/ a.prompt = b.prompt /\ a.iter = b.iter /\ Rank(a) < Rank(b)

(* Whatever hist_add() evicts or loses, the history stays in the order in   *)
(* which its turns were made, and holds no turn twice.                      *)
HistInOrder == \A i, j \in 1 .. Len(hist) : i < j => Before(hist[i], hist[j])

Answers(r, a) ==
  r.kind = "results" /\ a.kind = "asst" /\ r.prompt = a.prompt /\ r.iter = a.iter

(* Unless malloc() fails, an echoed assistant turn is directly followed by  *)
(* the results of its own tools (but while they run, when it is newest),    *)
(* and only the oldest entry can be a results turn without its question:    *)
(* eviction never splits a pair anywhere else.                              *)
TurnsPaired ==
  ~OutOfMemory =>
    /\ \A k \in 1 .. Len(hist) : hist[k].kind = "asst" =>
         \/ k = Len(hist) /\ pc \in {"tools", "confirm"}
         \/ k < Len(hist) /\ Answers(hist[k + 1], hist[k])
    /\ \A k \in 2 .. Len(hist) :
         hist[k].kind = "results" => Answers(hist[k], hist[k - 1])

InConversation == pc \in {"join", "wait", "tools", "confirm"}

(* Unless malloc() fails, the prompt being answered is still on the history *)
(* however many tool turns its conversation has added: MAX_MSGS leaves room *)
(* for MAX_ITERS of them.                                                   *)
PromptKept ==
  ~OutOfMemory /\ InConversation =>
    \E k \in 1 .. Len(hist) :
      hist[k].kind = "prompt" /\ hist[k].prompt = prompts

(* Unless malloc() fails, the request in flight is a tail of the history:   *)
(* hist_join() drops from the old end only, and its copy loop never stops   *)
(* before the newest turn, which is the user's.                             *)
RequestCurrent ==
  ~OutOfMemory /\ pc = "wait" =>
    /\ \E s \in 1 .. Len(hist) : request = SubSeq(hist, s, Len(hist))
    /\ request[Len(request)].kind \in {"prompt", "results"}
    /\ request[Len(request)].prompt = prompts

(* execute_tool(), confirm(): without --yes a file is written or a command  *)
(* run only when the read made at its own question began with y: no other   *)
(* answer, no end of file and no other call's y will do.  The y is one that *)
(* was typed at that question if every line was typed when it was asked for *)
(* and fit the buffer of that read.  It need not be otherwise: confirm()    *)
(* then takes what stands on stdin for the answer.                          *)
GateHeld ==
  \A k \in 1 .. Len(log) :
    IF AutoYes THEN log[k].asked = Unasked
    ELSE /\ log[k].asked.read = "y"
         /\ tidy => log[k].asked.from = "line"

(* Each call the model made takes effect at most once, in the order of the  *)
(* reply, also when a result is skipped by the continue of the loop.        *)
EffectsInOrder ==
  \A i, j \in 1 .. Len(log) : i < j =>
    \/ log[i].prompt < log[j].prompt
    \/ log[i].prompt = log[j].prompt /\ log[i].iter < log[j].iter
    \/ /\ log[i].prompt = log[j].prompt /\ log[i].iter = log[j].iter
       /\ log[i].call < log[j].call

Happened(a, i) ==
  \E k \in 1 .. Len(log) :
    /\ log[k].prompt = a.prompt /\ log[k].iter = a.iter /\ log[k].call = i
    /\ log[k].how # "partial"

(* A recorded tool_result says of a gated call what became of it: that it   *)
(* is done exactly when the file was written to the end or the command was  *)
(* run.  A command that was not started is reported without is_error too,   *)
(* but with the text that says it may not have run.                         *)
ReportsMatchEffects ==
  \A k \in 2 .. Len(hist) : Answers(hist[k], hist[k - 1]) =>
    \A j \in 1 .. Len(hist[k].toks) :
      LET t == hist[k].toks[j]
          a == hist[k - 1]
      IN  t.tok = "block" /\ Gated(a.calls[t.call]) => (t.says = "done" <=> Happened(a, t.call))

(* A conversation ends whatever the model asks for: control comes back to   *)
(* the user after at most MAX_ITERS requests, as long as the peer answers   *)
(* or closes and the user answers the questions.                            *)
PromptReturns == InConversation ~> pc \in {"repl", "done"}

-----------------------------------------------------------------------------
(* The client as its user sees it: the calls that are left are those that   *)
(* calls[] kept, so what it dropped is never run.                           *)
Turn == INSTANCE ClaudeTurn WITH
  phase <- CASE pc = "repl" -> "idle"
             [] pc = "join" -> "ready"
             [] pc = "wait" -> "waiting"
             [] pc = "done" -> "stopped"
             [] OTHER       -> "acting",
  asks <- CASE pc = "join" -> iter
            [] pc \in {"wait", "tools", "confirm"} -> iter + 1
            [] OTHER -> 0,
  todo <- IF pc \in {"tools", "confirm"} THEN Kept(reply) + 1 - next ELSE 0,
  effects <- Len(log)

(* The client implements ClaudeTurn, its promise that control comes back    *)
(* included: requests, calls and effects of run_conversation() are bounded  *)
(* and happen only where the contract allows them.                          *)
ImplementsTurn == Turn!Spec

-----------------------------------------------------------------------------
(* What the repository says of this code and the code does not do.          *)

(* claude.c, at the buffer sizes: the construction is safe: the closing     *)
(* brackets and the terminator of the results turn fit toolmsg[].           *)
ToolMsgFits == toolmsg.used + 3 <= ToolMsgBuf

=============================================================================
