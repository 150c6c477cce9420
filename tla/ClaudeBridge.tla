---------------------------- MODULE ClaudeBridge ----------------------------
(***************************************************************************)
(* The Claude client and what is between it and the model: the API itself,  *)
(* or the bridge claude/proxy/claude_amiga_proxy.py, which forwards to one  *)
(* of two services and translates for the second, in both directions.       *)
(*                                                                         *)
(* This module composes ClaudeAgent with a peer: the exchange of one        *)
(* request, which is one step there, is the steps of do_POST() here.        *)
(***************************************************************************)
EXTENDS ClaudeAgent, SequencesExt

CONSTANT Completions   \* replies of a service that ask for tools

(* A call as a service makes it.  args: the arguments are the text of an    *)
(* object with what the tool needs, of something else, or of nothing that   *)
(* json.loads() reads.                                                      *)
Asked == [tool : {"read", "write", "run", "unknown"},
          args : {"good", "other", "garbled"}, long : BOOLEAN]

Completion == [calls : Seq(Asked), size : Nat]

VARIABLES
  via,    \* "direct": AmiSSL; or the bridge and the service it has a key for
  stage,  \* "idle", or "upstream" once the request has been forwarded
  sent,   \* the messages forwarded
  said    \* the service's last reply that asks for tools

bridgeVars == <<via, stage, sent, said>>

Nothing == [calls |-> <<>>, size |-> 0]

-----------------------------------------------------------------------------
(* A message on the wire is JSON unless it was cut, or lacks a result       *)
(* before or between its commas.                                            *)
Readable(m) ==
  /\ ~m.cut
  /\ \A k \in 1 .. Len(m.toks) : m.toks[k].tok = IF k % 2 = 1 THEN "block" ELSE "comma"
  /\ m.toks # <<>> => Last(m.toks).tok = "block"

CallId(m, i) == <<m.prompt, m.iter, i>>

Plain(role) == [role |-> role, calls |-> {}, answers |-> <<>>]

SlipTranslated(m) ==
  CASE m.kind = "prompt" -> <<Plain("user")>>
    [] m.kind = "asst" ->
         <<[Plain("assistant") EXCEPT !.calls = {CallId(m, i) : i \in 1 .. Len(m.calls)}]>>
    [] OTHER ->
         IF m.toks = <<>> THEN <<Plain("user")>>
         ELSE <<[Plain("tool") EXCEPT !.answers = CallId(m, m.toks[1].call)]>>

(* _anthropic_to_openai(): a turn of tool_use blocks is one message with    *)
(* tool_calls, a turn of tool_result blocks a message for each of them; a   *)
(* turn without any block is a message of its role.                         *)
ToolResults(m) ==
  FlattenSeq([k \in 1 .. Len(m.toks) |->
    IF m.toks[k].tok = "block"
    THEN <<[Plain("tool") EXCEPT !.answers = CallId(m, m.toks[k].call)]>>
    ELSE <<>>])

Translated(m) ==
  CASE m.kind = "prompt" -> <<Plain("user")>>
    [] m.kind = "asst" ->
         <<[Plain("assistant") EXCEPT !.calls = {CallId(m, i) : i \in 1 .. Len(m.calls)}]>>
    [] OTHER -> IF ToolResults(m) = <<>> THEN <<Plain("user")>> ELSE ToolResults(m)

ToOpenAI(ms) == FlattenSeq([i \in 1 .. Len(ms) |-> Translated(ms[i])])

SlipFromOpenAI(r) ==
  [calls |-> [i \in 1 .. Len(r.calls) |->
     [tool |-> r.calls[i].tool, long |-> r.calls[i].long,
      arg |-> r.calls[IF r.calls[i].args = "garbled" /\ i > 1 THEN i - 1 ELSE i].args = "good"]],
   size |-> r.size]

(* _openai_to_anthropic(): arguments that cannot be read become {}.         *)
FromOpenAI(r) ==
  [calls |-> [i \in 1 .. Len(r.calls) |->
     [tool |-> r.calls[i].tool, long |-> r.calls[i].long, arg |-> r.calls[i].args = "good"]],
   size |-> r.size]

(* A reply of the Anthropic API: "input" is an object, whatever is in it.   *)
Native(r) == \A i \in 1 .. Len(r.calls) : r.calls[i].args # "garbled"

ASSUME CompletionsAssumption ==
  /\ Completions \subseteq Completion
  /\ \A r \in Completions : FromOpenAI(r) \in Replies

-----------------------------------------------------------------------------
(* do_POST() answers at once: not in the allowlist, rate limited, no body,  *)
(* not JSON, no key; or there is no connection to begin with.               *)
TurnsAway ==
  /\ stage = "idle" /\ ReplyEnds
  /\ UNCHANGED bridgeVars

(* What is not JSON goes no further than do_POST(), or is refused by the    *)
(* API.                                                                     *)
Forwards ==
  /\ pc = "wait" /\ stage = "idle"
  /\ \A i \in 1 .. Len(request) : Readable(request[i])
  /\ stage' = "upstream"
  /\ sent' = IF via = "openrouter" THEN ToOpenAI(request) ELSE request
  /\ UNCHANGED vars /\ UNCHANGED <<via, said>>

(* An answer without calls; an error of the service, passed on with its     *)
(* status; no service (502); what call_openrouter() cannot read, which ends *)
(* the connection.                                                          *)
UpstreamEnds ==
  /\ stage = "upstream" /\ ReplyEnds
  /\ stage' = "idle" /\ sent' = <<>>
  /\ UNCHANGED <<via, said>>

UpstreamAsks(r) ==
  /\ stage = "upstream"
  /\ via # "openrouter" => Native(r)
  /\ ReplyAsksTools(FromOpenAI(r))
  /\ said' = r
  /\ stage' = "idle" /\ sent' = <<>>
  /\ UNCHANGED via

-----------------------------------------------------------------------------
BridgeInit ==
  /\ Init
  /\ via \in {"direct", "anthropic", "openrouter"}
  /\ stage = "idle" /\ sent = <<>> /\ said = Nothing

Client == (Program \/ User \/ Session \/ Finished) /\ UNCHANGED bridgeVars

Exchange == TurnsAway \/ Forwards \/ UpstreamEnds \/ \E r \in Completions : UpstreamAsks(r)

BridgeNext == Client \/ Exchange

bridge == <<vars, bridgeVars>>

BridgeSpec == BridgeInit /\ [][BridgeNext]_bridge

(* urlopen() has a timeout of 120 seconds, and each connection a thread.    *)
FairBridgeSpec ==
  BridgeSpec /\ WF_vars(Program) /\ WF_bridge(Exchange) /\ WF_vars(User)

-----------------------------------------------------------------------------
(* The types of the exchange: a request is forwarded only while the client  *)
(* waits for its answer, and has messages unless malloc() lost them.        *)
BridgeTypeOK ==
  /\ TypeOK
  /\ via \in {"direct", "anthropic", "openrouter"}
  /\ stage \in {"idle", "upstream"}
  /\ stage = "upstream" => pc = "wait" /\ (OutOfMemory \/ sent # <<>>)
  /\ stage = "idle" => sent = <<>>
  /\ said \in Completions \cup {Nothing}

CallsOf(m) == IF m.kind = "asst" THEN {CallId(m, i) : i \in 1 .. Len(m.calls)} ELSE {}

AnswersOf(m) ==
  {CallId(m, m.toks[k].call) : k \in {j \in 1 .. Len(m.toks) : m.toks[j].tok = "block"}}

(* The rule of the Messages API: a turn that makes calls is followed by the *)
(* turn that answers these calls and no others.                             *)
PairedAnthropic(ms) ==
  /\ AnswersOf(ms[1]) = {}
  /\ CallsOf(Last(ms)) = {}
  /\ \A i \in 1 .. Len(ms) - 1 : AnswersOf(ms[i + 1]) = CallsOf(ms[i])

(* The rule of chat/completions: the tool messages that follow a message    *)
(* directly answer each of its tool_calls once, and nothing else.           *)
PairedOpenAI(out) ==
  LET Tools(i) == {j \in i + 1 .. Len(out) : \A k \in i + 1 .. j : out[k].role = "tool"}
  IN  /\ out[1].role # "tool"
      /\ \A i \in 1 .. Len(out) : out[i].role # "tool" =>
           /\ {out[j].answers : j \in Tools(i)} = out[i].calls
           /\ Cardinality(Tools(i)) = Cardinality(out[i].calls)

(* Through the translation a request keeps its calls and answers in their   *)
(* order, and obeys the rule of the one service exactly when it obeys that  *)
(* of the other: where hist_join() cut the history, results that did not    *)
(* fit toolmsg[] and calls beyond MAX_TOOLS included.  (A request is empty  *)
(* only when malloc() failed.)                                              *)
TranslationKeepsPairing ==
  via = "openrouter" /\ stage = "upstream" /\ request # <<>> =>
    /\ PairedOpenAI(sent) <=> PairedAnthropic(request)
    /\ UNION {sent[i].calls : i \in 1 .. Len(sent)} =
         UNION {CallsOf(request[i]) : i \in 1 .. Len(request)}

(* What happens on the Amiga is what the service asked for: every effect of *)
(* the reply being worked on belongs to a call of that reply, of that tool, *)
(* with arguments that could be read.                                       *)
EffectsAsked ==
  \A k \in 1 .. Len(log) :
    log[k].prompt = prompts /\ log[k].iter = iter =>
      /\ log[k].call \in 1 .. Len(said.calls)
      /\ said.calls[log[k].call].tool = log[k].tool
      /\ said.calls[log[k].call].args = "good"

-----------------------------------------------------------------------------
(* What the repository says of this code and the code does not do.          *)

(* claude.c, at g_hist: "each entry is one complete JSON message object".   *)
EntriesComplete == \A i \in 1 .. Len(hist) : Readable(hist[i])
=============================================================================
