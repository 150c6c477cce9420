------------------------- MODULE ClaudeBridgeProofs -------------------------
(***************************************************************************)
(* The composition of the client with the bridge, for every history, reply  *)
(* and buffer: the client behaves as ClaudeAgent says (so what is proved    *)
(* there holds here), and has no effect the service did not ask for.        *)
(*                                                                         *)
(* EffectsAsked is inductive once the calls being run are known to be those *)
(* of the service's last reply (Linked), and what is on the log to be older *)
(* than a new reply (LogPast of ClaudeAgentProofs).                         *)
(*                                                                         *)
(* TranslationKeepsPairing is a fact about ToOpenAI (PairingKept) of every  *)
(* request whose turns are well made and apart in time; that the requests   *)
(* of the client are such follows from its own invariants.                  *)
(***************************************************************************)
EXTENDS ClaudeBridge, ClaudeAgentProofs

LEMMA InitKept == BridgeInit => Init
BY DEF BridgeInit

LEMMA StepKept == [BridgeNext]_bridge => [Next]_vars
<1> SUFFICES ASSUME [BridgeNext]_bridge PROVE [Next]_vars
  OBVIOUS
<1>1. CASE Client
  BY <1>1 DEF Client, Next
<1>2. CASE TurnsAway \/ UpstreamEnds
  BY <1>2 DEF TurnsAway, UpstreamEnds, Next, Peer
<1>3. CASE Forwards
  BY <1>3 DEF Forwards
<1>4. ASSUME NEW r \in Completions, UpstreamAsks(r) PROVE Next
  BY <1>4, CompletionsAssumption DEF UpstreamAsks, Next, Peer
<1>5. CASE UNCHANGED bridge
  BY <1>5 DEF bridge
<1> QED BY <1>1, <1>2, <1>3, <1>4, <1>5 DEF BridgeNext, Exchange

(* Whatever is between it and the model, the client is that of ClaudeAgent: *)
(* an exchange over the bridge is one of its exchanges, step by step.       *)
THEOREM BridgeKeepsClient == BridgeSpec => Spec
<1> QED BY InitKept, StepKept, PTL DEF BridgeSpec, Spec

Linked == pc \in {"tools", "confirm"} => said \in Completions /\ reply = FromOpenAI(said)

IInv == Linked /\ EffectsAsked

LEMMA NextIInv == TypeOK /\ LogPast /\ IInv /\ [BridgeNext]_bridge => IInv'
<1> SUFFICES ASSUME TypeOK, LogPast, IInv, [BridgeNext]_bridge PROVE IInv'
  OBVIOUS
<1> USE DEF IInv
<1>1. /\ log \in Seq(Effect) /\ prompts \in Nat /\ iter \in Nat /\ next \in Nat \ {0}
      /\ \A k \in 1 .. Len(log) : log[k].prompt \in Nat /\ log[k].iter \in Nat
  <2>1. log \in Seq(Effect) /\ prompts \in Nat /\ iter \in Nat /\ next \in Nat \ {0}
    BY SizesAssumption DEF TypeOK
  <2>2. \A e \in Effect : e.prompt \in Nat /\ e.iter \in Nat
    BY DEF Effect
  <2> QED BY <2>1, <2>2
<1>2. [Next]_vars
  BY StepKept
<1>3. ASSUME NEW r \in Completions, UpstreamAsks(r) PROVE IInv'
  <2>1. /\ pc = "wait" /\ reply' = FromOpenAI(r) /\ said' = r
        /\ UNCHANGED <<iter, log, prompts>>
    BY <1>3 DEF UpstreamAsks, ReplyAsksTools
  <2>2. \A k \in 1 .. Len(log) : ~(log[k].prompt = prompts /\ log[k].iter = iter)
    BY <1>1, <2>1 DEF LogPast
  <2>3. Linked'
    BY <2>1 DEF Linked
  <2>4. EffectsAsked'
    BY <2>1, <2>2 DEF EffectsAsked
  <2> QED BY <2>3, <2>4
<1>4. CASE said' = said /\ ~\E r \in Replies : ReplyAsksTools(r)
  <2>1. Linked'
    <3>1. CASE pc' \in {"tools", "confirm"}
      <4>1. pc \in {"tools", "confirm"} /\ reply' = reply
        BY <1>2, <1>4, <3>1
           DEF Next, Program, Peer, User, Session, Finished, vars, TypePrompt, ReadLeftover, TypeAhead,
               StartPrompt, Quit, SendRequest, IterationCap, RunTool, Ask, FinishTurn,
               ReplyEnds, AnswerTyped, AnswerLeftover, AnswerEof, Decide, Finish
      <4> QED BY <1>4, <4>1 DEF Linked
    <3>2. CASE pc' \notin {"tools", "confirm"}
      BY <3>2 DEF Linked
    <3> QED BY <3>1, <3>2
  <2>2. EffectsAsked'
    <3>1. CASE log' = log
      <4>1. \/ prompts' = prompts + 1
            \/ prompts' = prompts /\ iter' = iter
            \/ prompts' = prompts /\ iter' = iter + 1 /\ pc = "tools"
        BY <1>2
           DEF Next, Program, Peer, User, Session, Finished, vars, TypePrompt, ReadLeftover, TypeAhead,
               StartPrompt, Quit, SendRequest, IterationCap, RunTool, Ask, FinishTurn,
               ReplyEnds, ReplyAsksTools, AnswerTyped, AnswerLeftover, AnswerEof, Decide,
               Finish
      <4>2. CASE prompts' = prompts + 1
        <5>1. \A k \in 1 .. Len(log) : log[k].prompt # prompts'
          BY <1>1, <4>2 DEF LogPast
        <5> QED BY <3>1, <5>1 DEF EffectsAsked
      <4>3. CASE prompts' = prompts /\ iter' = iter
        BY <1>4, <3>1, <4>3 DEF EffectsAsked
      <4>4. CASE prompts' = prompts /\ iter' = iter + 1 /\ pc = "tools"
        <5>1. \A k \in 1 .. Len(log) : ~(log[k].prompt = prompts' /\ log[k].iter = iter')
          BY <1>1, <4>4 DEF LogPast
        <5> QED BY <3>1, <5>1 DEF EffectsAsked
      <4> QED BY <4>1, <4>2, <4>3, <4>4
    <3>2. ASSUME NEW e \in Effect, log' = Append(log, e), e.call = next,
                 e.tool = Current.tool, Gated(Current), next <= Kept(reply),
                 pc \in {"tools", "confirm"}, iter' = iter, prompts' = prompts
          PROVE  EffectsAsked'
      <4>1. said \in Completions /\ reply = FromOpenAI(said) /\ reply \in Replies
        BY <3>2, CompletionsAssumption DEF Linked
      <4>2. next \in 1 .. Len(reply.calls)
        BY <1>1, <3>2, <4>1, KeptFacts
      <4>3. said.calls \in Seq(Asked)
        BY <4>1, CompletionsAssumption DEF Completion
      <4>4. /\ reply.calls = [i \in 1 .. Len(said.calls) |->
                 [tool |-> said.calls[i].tool, long |-> said.calls[i].long,
                  arg |-> said.calls[i].args = "good"]]
            /\ Len(said.calls) \in Nat
        BY <4>1, <4>3 DEF FromOpenAI
      <4>5. next \in 1 .. Len(said.calls)
        BY <4>2, <4>4
      <4>6. Current.tool = said.calls[next].tool /\ Current.arg = (said.calls[next].args = "good")
        BY <4>4, <4>5 DEF Current
      <4>7. said.calls[next].args = "good"
        BY <3>2, <4>6 DEF Gated
      <4>8. /\ Len(log') = Len(log) + 1 /\ log'[Len(log) + 1] = e
            /\ \A k \in 1 .. Len(log) : log'[k] = log[k]
            /\ Len(log) \in Nat
        BY <1>1, <3>2
      <4>9. \A k \in 1 .. Len(log') : k \in 1 .. Len(log) \/ k = Len(log) + 1
        BY <4>8
      <4> QED BY <1>4, <3>2, <4>5, <4>6, <4>7, <4>8, <4>9 DEF EffectsAsked
    <3> QED BY <1>2, <3>1, <3>2, LogSteps
  <2> QED BY <2>1, <2>2
<1>5. CASE UNCHANGED bridge
  <2>1. UNCHANGED <<pc, reply, said, log, prompts, iter>>
    BY <1>5 DEF bridge, vars, bridgeVars
  <2> QED BY <2>1 DEF Linked, EffectsAsked
<1>6. CASE BridgeNext
  <2>1. CASE \E r \in Completions : UpstreamAsks(r)
    BY <1>3, <2>1
  <2>2. CASE Client \/ TurnsAway \/ Forwards \/ UpstreamEnds
    <3>1. said' = said
      BY <2>2 DEF Client, TurnsAway, Forwards, UpstreamEnds, bridgeVars
    <3>2. pc = "wait" => pc' # "tools"
      BY <2>2 DEF Client, TurnsAway, Forwards, UpstreamEnds, vars, ReplyEnds, Program, User,
                  Session, Finished, TypePrompt, ReadLeftover, TypeAhead, StartPrompt, Quit,
                  SendRequest, IterationCap, RunTool, Ask, FinishTurn, AnswerTyped,
                  AnswerLeftover, AnswerEof
    <3>3. ~\E r \in Replies : ReplyAsksTools(r)
      BY <3>2 DEF ReplyAsksTools
    <3> QED BY <1>4, <3>1, <3>3
  <2> QED BY <1>6, <2>1, <2>2 DEF BridgeNext, Exchange
<1> QED BY <1>5, <1>6

(* Nothing happens on the Amiga that the service did not ask for: each      *)
(* effect of a reply is of one of its calls, with the tool it names and     *)
(* arguments that could be read (_openai_to_anthropic(), execute_tool()).   *)
THEOREM EffectsAreAsked == BridgeSpec => []EffectsAsked
<1>1. BridgeInit => IInv
  BY DEF BridgeInit, Init, IInv, Linked, EffectsAsked
<1>2. BridgeSpec => [](TypeOK /\ LogPast)
  BY BridgeKeepsClient, TypeCorrect, EffectsPast, PTL
<1>3. IInv => EffectsAsked
  BY DEF IInv
<1> QED BY <1>1, <1>2, <1>3, NextIInv, PTL DEF BridgeSpec

(* Over the bridge too, eviction never separates an assistant turn from its *)
(* results but at the old end of the history (hist_add()).                  *)
THEOREM BridgeKeepsPairs == BridgeSpec => []TurnsPaired
<1> QED BY BridgeKeepsClient, TurnsStayPaired, PTL

-----------------------------------------------------------------------------
(* FlattenSeq(), of which the translation is made.                          *)

(* The prefixes FlattenSeq() builds: G[i] is the first i sequences joined.  *)
IsJoined(G, seqs) ==
  G = [i \in 1 .. Len(seqs) |-> IF i = 1 THEN seqs[i] ELSE G[i - 1] \o seqs[i]]

LEMMA FlattenPrefixes ==
  ASSUME NEW M, NEW seqs \in Seq(Seq(M)), seqs # <<>>
  PROVE  \E G \in [1 .. Len(seqs) -> Seq(M)] :
           IsJoined(G, seqs) /\ FlattenSeq(seqs) = G[Len(seqs)]
<1> DEFINE n == Len(seqs)
           Eq(g, m) == /\ g \in [1 .. m -> Seq(M)]
                       /\ \A i \in 1 .. m :
                            g[i] = IF i = 1 THEN seqs[i] ELSE g[i - 1] \o seqs[i]
           I == {m \in Nat : m <= n => \E g : Eq(g, m)}
<1>0. n \in Nat \ {0} /\ \A i \in 1 .. n : seqs[i] \in Seq(M)
  OBVIOUS
<1>1. 0 \in I
  <2>1. Eq([i \in 1 .. 0 |-> <<>>], 0)
    OBVIOUS
  <2> HIDE DEF Eq
  <2> QED BY <2>1
<1>2. ASSUME NEW m \in Nat, m \in I PROVE m + 1 \in I
  <2> SUFFICES ASSUME m + 1 <= n PROVE \E g : Eq(g, m + 1)
    OBVIOUS
  <2>0. m <= n
    BY <1>0
  <2>1. PICK g : Eq(g, m)
    <3> HIDE DEF Eq
    <3> QED BY <1>2, <2>0
  <2> DEFINE last == IF m = 0 THEN seqs[1] ELSE g[m] \o seqs[m + 1]
             f == [i \in 1 .. m + 1 |-> IF i = m + 1 THEN last ELSE g[i]]
  <2>2. last \in Seq(M)
    <3>1. CASE m = 0
      BY <1>0, <3>1
    <3>2. CASE m # 0
      <4>1. g[m] \in Seq(M) /\ seqs[m + 1] \in Seq(M)
        BY <1>0, <2>1, <3>2
      <4> QED BY <3>2, <4>1, ConcatProperties
    <3> QED BY <3>1, <3>2
  <2>3. \A i \in 1 .. m : g[i] \in Seq(M)
    BY <2>1
  <2>4. f \in [1 .. m + 1 -> Seq(M)]
    <3> HIDE DEF last
    <3> QED BY <2>2, <2>3
  <2>5. ASSUME NEW i \in 1 .. m + 1
        PROVE  f[i] = IF i = 1 THEN seqs[i] ELSE f[i - 1] \o seqs[i]
    <3>1. CASE i = m + 1
      <4>1. CASE m = 0
        BY <3>1, <4>1
      <4>2. CASE m # 0
        <5>1. i # 1 /\ i - 1 = m /\ m \in 1 .. m + 1 /\ m # m + 1
          BY <3>1, <4>2
        <5>2. f[m + 1] = last /\ f[m] = g[m]
          BY <5>1
        <5>3. last = g[m] \o seqs[m + 1]
          BY <4>2
        <5> HIDE DEF f, last
        <5> QED BY <3>1, <5>1, <5>2, <5>3
      <4> QED BY <4>1, <4>2
    <3>2. CASE i # m + 1
      <4>1. i \in 1 .. m /\ f[i] = g[i] /\ (i # 1 => f[i - 1] = g[i - 1])
        BY <3>2
      <4> HIDE DEF f
      <4> QED BY <2>1, <4>1
    <3> QED BY <3>1, <3>2
  <2>6. Eq(f, m + 1)
    <3> HIDE DEF f
    <3> QED BY <2>4, <2>5
  <2> HIDE DEF Eq, f
  <2> QED BY <2>6
<1>3. n \in I
  <2> HIDE DEF I
  <2> QED BY <1>0, <1>1, <1>2, SetInduction
<1>4. PICK g : Eq(g, n)
  <2> HIDE DEF Eq
  <2> QED BY <1>3
<1>5. IsJoined(g, seqs)
  BY <1>4 DEF IsJoined
<1> DEFINE G == CHOOSE f : IsJoined(f, seqs)
<1>6. IsJoined(G, seqs)
  BY <1>5
<1>7. FlattenSeq(seqs) = G[n]
  BY <1>0 DEF FlattenSeq, IsJoined
<1> HIDE DEF G
<1> DEFINE J == {m \in Nat : m + 1 <= n => G[m + 1] \in Seq(M)}
<1>8. 0 \in J
  BY <1>0, <1>6 DEF IsJoined
<1>9. ASSUME NEW m \in Nat, m \in J PROVE m + 1 \in J
  <2> SUFFICES ASSUME (m + 1) + 1 <= n PROVE G[(m + 1) + 1] \in Seq(M)
    OBVIOUS
  <2>1. G[m + 1] \in Seq(M) /\ seqs[(m + 1) + 1] \in Seq(M)
    BY <1>0, <1>9
  <2>2. G[(m + 1) + 1] = G[m + 1] \o seqs[(m + 1) + 1]
    <3>1. /\ (m + 1) + 1 \in 1 .. n /\ (m + 1) + 1 # 1 /\ ((m + 1) + 1) - 1 = m + 1
      BY <1>0
    <3> QED BY <1>6, <3>1 DEF IsJoined
  <2> QED BY <2>1, <2>2, ConcatProperties
<1>10. \A m \in Nat : m \in J
  <2> HIDE DEF J
  <2> QED BY <1>8, <1>9, SetInduction
<1>11. \A i \in 1 .. n : G[i] \in Seq(M)
  <2> SUFFICES ASSUME NEW i \in 1 .. n PROVE G[i] \in Seq(M)
    OBVIOUS
  <2>1. i - 1 \in Nat /\ (i - 1) + 1 = i
    BY <1>0
  <2>2. i - 1 \in J
    BY <1>10, <2>1
  <2> QED BY <1>0, <2>1, <2>2
<1>12. G \in [1 .. n -> Seq(M)]
  BY <1>6, <1>11 DEF IsJoined
<1> QED BY <1>6, <1>7, <1>12

(* Where the elements of a flattened sequence come from: the i-th sequence  *)
(* starts behind position off[i - 1].                                       *)
Offsets(off, out, seqs) ==
  /\ off \in [0 .. Len(seqs) -> Nat]
  /\ off[0] = 0
  /\ \A i \in 1 .. Len(seqs) : off[i] = off[i - 1] + Len(seqs[i])
  /\ Len(out) = off[Len(seqs)]
  /\ \A i \in 1 .. Len(seqs) : \A k \in 1 .. Len(seqs[i]) :
       off[i - 1] + k \in 1 .. Len(out) /\ out[off[i - 1] + k] = seqs[i][k]
  /\ \A p \in 1 .. Len(out) :
       \E i \in 1 .. Len(seqs) : \E k \in 1 .. Len(seqs[i]) : p = off[i - 1] + k

LEMMA FlattenFacts ==
  ASSUME NEW M, NEW seqs \in Seq(Seq(M)), seqs # <<>>
  PROVE  /\ FlattenSeq(seqs) \in Seq(M)
         /\ \E off : Offsets(off, FlattenSeq(seqs), seqs)
<1> DEFINE n == Len(seqs)
<1>0. n \in Nat \ {0} /\ \A i \in 1 .. n : seqs[i] \in Seq(M) /\ Len(seqs[i]) \in Nat
  OBVIOUS
<1>1. PICK G \in [1 .. n -> Seq(M)] : IsJoined(G, seqs) /\ FlattenSeq(seqs) = G[n]
  BY FlattenPrefixes
<1>2. /\ \A i \in 1 .. n : G[i] \in Seq(M) /\ Len(G[i]) \in Nat
      /\ G[1] = seqs[1]
      /\ \A i \in 2 .. n : G[i] = G[i - 1] \o seqs[i]
  <2>1. \A i \in 1 .. n : G[i] \in Seq(M)
    BY <1>1
  <2>2. \A i \in 1 .. n : G[i] = IF i = 1 THEN seqs[i] ELSE G[i - 1] \o seqs[i]
    BY <1>1 DEF IsJoined
  <2>3. 1 \in 1 .. n /\ \A i \in 2 .. n : i \in 1 .. n /\ i # 1
    BY <1>0
  <2>4. G[1] = seqs[1]
    BY <2>2, <2>3
  <2>5. \A i \in 2 .. n : G[i] = G[i - 1] \o seqs[i]
    BY <2>2, <2>3
  <2>6. \A i \in 1 .. n : G[i] \in Seq(M) /\ Len(G[i]) \in Nat
    BY <2>1
  <2> QED BY <2>4, <2>5, <2>6
<1> DEFINE off == [i \in 0 .. n |-> IF i = 0 THEN 0 ELSE Len(G[i])]
<1>3. off \in [0 .. n -> Nat] /\ off[0] = 0 /\ \A i \in 1 .. n : off[i] = Len(G[i])
  BY <1>0, <1>2
<1> HIDE DEF off
<1>4. \A i \in 2 .. n : /\ Len(G[i]) = Len(G[i - 1]) + Len(seqs[i])
                        /\ \A k \in 1 .. Len(G[i - 1]) : G[i][k] = G[i - 1][k]
                        /\ \A k \in 1 .. Len(seqs[i]) : G[i][Len(G[i - 1]) + k] = seqs[i][k]
  <2> SUFFICES ASSUME NEW i \in 2 .. n
               PROVE  /\ Len(G[i]) = Len(G[i - 1]) + Len(seqs[i])
                      /\ \A k \in 1 .. Len(G[i - 1]) : G[i][k] = G[i - 1][k]
                      /\ \A k \in 1 .. Len(seqs[i]) :
                           G[i][Len(G[i - 1]) + k] = seqs[i][k]
    OBVIOUS
  <2>0. i \in 1 .. n /\ i - 1 \in 1 .. n
    BY <1>0
  <2>1. /\ G[i - 1] \in Seq(M) /\ seqs[i] \in Seq(M) /\ G[i] = G[i - 1] \o seqs[i]
    BY <1>0, <1>2, <2>0
  <2> DEFINE a == G[i - 1]
             b == seqs[i]
  <2>2. a \in Seq(M) /\ b \in Seq(M) /\ G[i] = a \o b
    BY <2>1
  <2> HIDE DEF a, b
  <2>3. /\ Len(a \o b) = Len(a) + Len(b)
        /\ \A k \in 1 .. Len(a) : (a \o b)[k] = a[k]
        /\ \A k \in 1 .. Len(b) : (a \o b)[Len(a) + k] = b[k]
    BY <2>2, ConcatProperties
  <2> QED BY <2>2, <2>3 DEF a, b
<1>5. \A i \in 1 .. n : off[i] = off[i - 1] + Len(seqs[i])
  <2> SUFFICES ASSUME NEW i \in 1 .. n PROVE off[i] = off[i - 1] + Len(seqs[i])
    OBVIOUS
  <2>1. CASE i = 1
    <3>1. off[i] = Len(seqs[i]) /\ i - 1 = 0
      BY <1>0, <1>2, <1>3, <2>1
    <3> QED BY <1>0, <1>3, <3>1
  <2>2. CASE i # 1
    <3>1. i \in 2 .. n /\ i - 1 \in 1 .. n
      BY <2>2, <1>0
    <3> QED BY <1>3, <1>4, <3>1
  <2> QED BY <2>1, <2>2
<1> DEFINE Right(m) ==
             /\ \A i \in 1 .. m : \A k \in 1 .. Len(seqs[i]) :
                  off[i - 1] + k \in 1 .. Len(G[m]) /\ G[m][off[i - 1] + k] = seqs[i][k]
             /\ \A p \in 1 .. Len(G[m]) :
                  \E i \in 1 .. m : \E k \in 1 .. Len(seqs[i]) : p = off[i - 1] + k
           J == {m \in Nat : m + 1 <= n => Right(m + 1)}
<1>6. 0 \in J
  <2>1. Right(1)
    BY <1>0, <1>2, <1>3
  <2> HIDE DEF Right
  <2> QED BY <2>1
<1>7. ASSUME NEW j \in 1 .. n - 1, Right(j) PROVE Right(j + 1)
  <2>1. j \in Nat /\ j \in 1 .. n /\ j + 1 \in 2 .. n /\ j + 1 \in 1 .. n /\ (j + 1) - 1 = j
    BY <1>0
  <2> DEFINE a == Len(G[j])
             b == Len(seqs[j + 1])
  <2>2. a \in Nat /\ b \in Nat /\ off[j] = a
    BY <1>0, <1>2, <1>3, <2>1
  <2>3. /\ Len(G[j + 1]) = a + b
        /\ \A k \in 1 .. a : G[j + 1][k] = G[j][k]
        /\ \A k \in 1 .. b : G[j + 1][a + k] = seqs[j + 1][k]
    <3>1. /\ Len(G[j + 1]) = Len(G[(j + 1) - 1]) + Len(seqs[j + 1])
          /\ \A k \in 1 .. Len(G[(j + 1) - 1]) : G[j + 1][k] = G[(j + 1) - 1][k]
          /\ \A k \in 1 .. Len(seqs[j + 1]) :
               G[j + 1][Len(G[(j + 1) - 1]) + k] = seqs[j + 1][k]
      BY <1>4, <2>1
    <3> QED BY <2>1, <3>1
  <2> HIDE DEF a, b
  <2>4. ASSUME NEW i \in 1 .. j + 1, NEW k \in 1 .. Len(seqs[i])
        PROVE  off[i - 1] + k \in 1 .. Len(G[j + 1]) /\ G[j + 1][off[i - 1] + k] = seqs[i][k]
    <3>1. CASE i = j + 1
      <4>1. off[i - 1] = a /\ k \in 1 .. b
        BY <2>1, <2>2, <3>1 DEF b
      <4>2. a + k \in 1 .. a + b
        BY <2>2, <4>1
      <4> QED BY <2>3, <3>1, <4>1, <4>2
    <3>2. CASE i # j + 1
      <4>1. i \in 1 .. j
        BY <2>1, <3>2
      <4>2. off[i - 1] + k \in 1 .. a /\ G[j][off[i - 1] + k] = seqs[i][k]
        BY <1>7, <4>1 DEF a
      <4>3. off[i - 1] + k \in 1 .. a + b
        BY <2>2, <4>2
      <4> QED BY <2>3, <4>2, <4>3
    <3> QED BY <3>1, <3>2
  <2>5. ASSUME NEW p \in 1 .. Len(G[j + 1])
        PROVE  \E i \in 1 .. j + 1 : \E k \in 1 .. Len(seqs[i]) : p = off[i - 1] + k
    <3>0. p \in 1 .. a + b
      BY <2>3
    <3>1. CASE p <= a
      <4>1. p \in 1 .. a
        BY <2>2, <3>0, <3>1
      <4>2. PICK i \in 1 .. j : \E k \in 1 .. Len(seqs[i]) : p = off[i - 1] + k
        BY <1>7, <4>1 DEF a
      <4> QED BY <2>1, <4>2
    <3>2. CASE p > a
      <4>1. p - a \in 1 .. b /\ p = a + (p - a)
        BY <2>2, <3>0, <3>2
      <4>2. off[(j + 1) - 1] = a /\ j + 1 \in 1 .. j + 1
        BY <2>1, <2>2
      <4>3. p - a \in 1 .. Len(seqs[j + 1]) /\ p = off[(j + 1) - 1] + (p - a)
        BY <4>1, <4>2 DEF b
      <4> QED BY <4>2, <4>3
    <3> QED BY <2>2, <3>0, <3>1, <3>2
  <2> QED BY <2>4, <2>5
<1>11. ASSUME NEW m \in Nat, m \in J PROVE m + 1 \in J
  <2> SUFFICES ASSUME (m + 1) + 1 <= n PROVE Right((m + 1) + 1)
    OBVIOUS
  <2>1. m + 1 \in 1 .. n - 1 /\ m + 1 <= n
    BY <1>0
  <2>2. Right(m + 1)
    <3> HIDE DEF Right
    <3> QED BY <1>11, <2>1
  <2> HIDE DEF Right
  <2> QED BY <1>7, <2>1, <2>2
<1>8. Right(n)
  <2>1. n - 1 \in Nat /\ (n - 1) + 1 = n
    BY <1>0
  <2>2. n - 1 \in J
    <3> HIDE DEF J
    <3> QED BY <1>6, <1>11, <2>1, SetInduction
  <2> HIDE DEF Right
  <2> QED BY <2>1, <2>2
<1>9. n \in 1 .. n /\ Len(G[n]) = off[n] /\ G[n] \in Seq(M)
  BY <1>0, <1>2, <1>3
<1>10. Offsets(off, G[n], seqs)
  BY <1>3, <1>5, <1>8, <1>9 DEF Offsets
<1> QED BY <1>1, <1>9, <1>10
-----------------------------------------------------------------------------
(* The translation of one turn.                                             *)
Ids == Nat \X Nat \X Nat

OpenMsg == [role : {"user", "assistant", "tool"}, calls : SUBSET Ids,
            answers : Ids \cup {<<>>}]

BlocksOf(m) == {k \in 1 .. Len(m.toks) : m.toks[k].tok = "block"}

(* The tool messages of a results turn are the answers of its blocks, each  *)
(* once when no two blocks answer one call.                                 *)
LEMMA ToolResultsFacts ==
  ASSUME NEW m \in Message
  PROVE  LET out == ToolResults(m) IN
         /\ out \in Seq(OpenMsg)
         /\ \A p \in 1 .. Len(out) : out[p].role = "tool" /\ out[p].calls = {}
         /\ {out[p].answers : p \in 1 .. Len(out)} = AnswersOf(m)
         /\ OncePerCall(m.toks) =>
              \A p, q \in 1 .. Len(out) : out[p].answers = out[q].answers => p = q
<1> DEFINE n == Len(m.toks)
           Msg(k) == [Plain("tool") EXCEPT !.answers = CallId(m, m.toks[k].call)]
           one == [k \in 1 .. n |-> IF m.toks[k].tok = "block" THEN <<Msg(k)>> ELSE <<>>]
           out == ToolResults(m)
<1>0. /\ n \in Nat /\ m.prompt \in Nat /\ m.iter \in Nat
      /\ \A k \in 1 .. n : m.toks[k].call \in Nat
  <2>1. m.toks \in Seq(Token) /\ m.prompt \in Nat /\ m.iter \in Nat
    BY DEF Message
  <2>2. \A t \in Token : t.call \in Nat
    BY DEF Token
  <2> QED BY <2>1, <2>2
<1>1. \A k \in 1 .. n : /\ Msg(k) \in OpenMsg /\ Msg(k).role = "tool" /\ Msg(k).calls = {}
                        /\ Msg(k).answers = CallId(m, m.toks[k].call)
  BY <1>0 DEF Plain, CallId, OpenMsg, Ids
<1>2. out = FlattenSeq(one)
  BY DEF ToolResults
<1> HIDE DEF out, Msg
<1>3. CASE n = 0
  <2>1. one = <<>> /\ out = <<>>
    BY <1>2, <1>3 DEF FlattenSeq
  <2> QED BY <1>3, <2>1 DEF AnswersOf, out
<1>4. CASE n # 0
  <2>1. one \in Seq(Seq(OpenMsg)) /\ Len(one) = n /\ one # <<>>
    <3>1. \A k \in 1 .. n : one[k] \in Seq(OpenMsg)
      BY <1>1
    <3>2. one \in [1 .. n -> Seq(OpenMsg)]
      BY <3>1
    <3> HIDE DEF one
    <3> QED BY <1>0, <1>4, <3>2, SeqDef
  <2>2. \A k \in 1 .. n : Len(one[k]) = (IF m.toks[k].tok = "block" THEN 1 ELSE 0)
                          /\ (m.toks[k].tok = "block" => one[k][1] = Msg(k))
    OBVIOUS
  <2> HIDE DEF one
  <2>3. out \in Seq(OpenMsg) /\ \E off : Offsets(off, out, one)
    BY <1>2, <2>1, FlattenFacts
  <2>4. PICK off : Offsets(off, out, one)
    BY <2>3
  <2>5. \A p \in 1 .. Len(out) : \E k \in BlocksOf(m) : p = off[k - 1] + 1 /\ out[p] = Msg(k)
    <3> SUFFICES ASSUME NEW p \in 1 .. Len(out)
                 PROVE  \E k \in BlocksOf(m) : p = off[k - 1] + 1 /\ out[p] = Msg(k)
      OBVIOUS
    <3>1. PICK k \in 1 .. n : \E l \in 1 .. Len(one[k]) : p = off[k - 1] + l
      BY <2>1, <2>4 DEF Offsets
    <3>2. m.toks[k].tok = "block" /\ Len(one[k]) = 1 /\ one[k][1] = Msg(k)
      <4>1. CASE m.toks[k].tok = "block"
        BY <2>2, <4>1
      <4>2. CASE m.toks[k].tok # "block"
        <5>1. Len(one[k]) = 0 /\ 1 .. 0 = {}
          BY <2>2, <4>2
        <5> QED BY <3>1, <5>1
      <4> QED BY <4>1, <4>2
    <3>3. p = off[k - 1] + 1
      BY <3>1, <3>2
    <3>4. out[off[k - 1] + 1] = one[k][1]
      <4>1. k \in 1 .. Len(one) /\ 1 \in 1 .. Len(one[k])
        BY <2>1, <3>2
      <4> QED BY <2>4, <4>1 DEF Offsets
    <3> QED BY <3>2, <3>3, <3>4 DEF BlocksOf
  <2>6. \A k \in BlocksOf(m) : off[k - 1] + 1 \in 1 .. Len(out) /\ out[off[k - 1] + 1] = Msg(k)
    <3> SUFFICES ASSUME NEW k \in BlocksOf(m)
                 PROVE  off[k - 1] + 1 \in 1 .. Len(out) /\ out[off[k - 1] + 1] = Msg(k)
      OBVIOUS
    <3>1. k \in 1 .. n /\ m.toks[k].tok = "block"
      BY DEF BlocksOf
    <3>2. Len(one[k]) = 1 /\ one[k][1] = Msg(k)
      BY <2>2, <3>1
    <3>3. k \in 1 .. Len(one) /\ 1 \in 1 .. Len(one[k])
      BY <2>1, <3>1, <3>2
    <3> QED BY <2>4, <3>2, <3>3 DEF Offsets
  <2>7. \A p \in 1 .. Len(out) : out[p].role = "tool" /\ out[p].calls = {}
    BY <1>1, <2>5 DEF BlocksOf
  <2>8. {out[p].answers : p \in 1 .. Len(out)} = AnswersOf(m)
    <3>1. AnswersOf(m) = {CallId(m, m.toks[k].call) : k \in BlocksOf(m)}
      BY DEF AnswersOf, BlocksOf
    <3>2. \A k \in BlocksOf(m) : Msg(k).answers = CallId(m, m.toks[k].call)
      BY <1>1 DEF BlocksOf
    <3> QED BY <2>5, <2>6, <3>1, <3>2
  <2>9. ASSUME OncePerCall(m.toks), NEW p \in 1 .. Len(out), NEW q \in 1 .. Len(out),
               out[p].answers = out[q].answers
        PROVE  p = q
    <3>1. PICK k \in BlocksOf(m) : p = off[k - 1] + 1 /\ out[p] = Msg(k)
      BY <2>5
    <3>2. PICK l \in BlocksOf(m) : q = off[l - 1] + 1 /\ out[q] = Msg(l)
      BY <2>5
    <3>3. CallId(m, m.toks[k].call) = CallId(m, m.toks[l].call)
      BY <1>1, <2>9, <3>1, <3>2 DEF BlocksOf
    <3>4. m.toks[k].call = m.toks[l].call
      BY <3>3 DEF CallId
    <3>5. k = l
      BY <2>9, <3>4 DEF OncePerCall, BlocksOf
    <3> QED BY <3>1, <3>2, <3>5
  <2> QED BY <2>3, <2>7, <2>8, <2>9 DEF out
<1> QED BY <1>3, <1>4

(* A turn without answers becomes one message, which is no tool message and *)
(* makes its calls; a turn with answers becomes the tool messages for them. *)
LEMMA TranslatedFacts ==
  ASSUME NEW m \in Message, WellMade(m)
  PROVE  LET out == Translated(m) IN
         /\ out \in Seq(OpenMsg) /\ Len(out) >= 1
         /\ AnswersOf(m) = {} =>
              /\ Len(out) = 1 /\ out[1].role # "tool"
              /\ out[1].calls = CallsOf(m)
         /\ AnswersOf(m) # {} =>
              /\ CallsOf(m) = {}
              /\ \A p \in 1 .. Len(out) : out[p].role = "tool" /\ out[p].calls = {}
              /\ {out[p].answers : p \in 1 .. Len(out)} = AnswersOf(m)
              /\ \A p, q \in 1 .. Len(out) : out[p].answers = out[q].answers => p = q
<1> DEFINE out == Translated(m)
           tr == ToolResults(m)
<1>0. m.kind \in {"prompt", "asst", "results"} /\ m.prompt \in Nat /\ m.iter \in Nat
      /\ m.calls \in Seq(Call)
  BY DEF Message
<1>u. Plain("user") \in OpenMsg /\ Plain("user").role = "user" /\ Plain("user").calls = {}
  BY DEF Plain, OpenMsg
<1>1. CASE m.kind = "prompt"
  <2>1. AnswersOf(m) = {} /\ CallsOf(m) = {} /\ out = <<Plain("user")>>
    BY <1>1 DEF AnswersOf, CallsOf, WellMade, Translated
  <2> HIDE DEF out
  <2>2. out \in Seq(OpenMsg) /\ Len(out) = 1 /\ out[1] = Plain("user")
    BY <1>u, <2>1
  <2> QED BY <1>u, <2>1, <2>2 DEF out
<1>2. CASE m.kind = "asst"
  <2> DEFINE a == [Plain("assistant") EXCEPT !.calls = {CallId(m, i) : i \in 1 .. Len(m.calls)}]
  <2>0. AnswersOf(m) = {}
    BY <1>2 DEF AnswersOf, WellMade
  <2>1. AnswersOf(m) = {} /\ out = <<a>>
    BY <1>2, <2>0 DEF Translated
  <2>2. a.role = "assistant" /\ a.calls = CallsOf(m)
    BY <1>2 DEF Plain, CallsOf
  <2>3. a \in OpenMsg
    <3>1. Len(m.calls) \in Nat
      BY <1>0
    <3>2. {CallId(m, i) : i \in 1 .. Len(m.calls)} \subseteq Ids
      BY <1>0, <3>1 DEF CallId, Ids
    <3> QED BY <3>2 DEF Plain, OpenMsg
  <2> HIDE DEF out, a
  <2>4. out \in Seq(OpenMsg) /\ Len(out) = 1 /\ out[1] = a
    BY <2>1, <2>3
  <2> QED BY <2>1, <2>2, <2>4 DEF out
<1>3. CASE m.kind = "results"
  <2>1. /\ tr \in Seq(OpenMsg)
        /\ \A p \in 1 .. Len(tr) : tr[p].role = "tool" /\ tr[p].calls = {}
        /\ {tr[p].answers : p \in 1 .. Len(tr)} = AnswersOf(m)
        /\ \A p, q \in 1 .. Len(tr) : tr[p].answers = tr[q].answers => p = q
    BY ToolResultsFacts DEF WellMade
  <2>2. CallsOf(m) = {} /\ out = IF tr = <<>> THEN <<Plain("user")>> ELSE tr
    BY <1>3 DEF CallsOf, Translated
  <2> HIDE DEF out, tr
  <2>3. CASE tr = <<>>
    <3>1. AnswersOf(m) = {}
      BY <2>1, <2>3
    <3>2. out \in Seq(OpenMsg) /\ Len(out) = 1 /\ out[1] = Plain("user")
      BY <1>u, <2>2, <2>3
    <3> QED BY <1>u, <2>2, <3>1, <3>2 DEF out
  <2>4. CASE tr # <<>>
    <3>1. out = tr /\ Len(tr) \in Nat /\ Len(tr) >= 1
      BY <2>1, <2>2, <2>4
    <3>2. AnswersOf(m) # {}
      <4>1. 1 \in 1 .. Len(tr)
        BY <3>1
      <4>2. tr[1].answers \in {tr[p].answers : p \in 1 .. Len(tr)}
        BY <4>1
      <4> QED BY <2>1, <4>2
    <3> QED BY <2>1, <2>2, <3>1, <3>2 DEF out
  <2> QED BY <2>3, <2>4
<1> QED BY <1>0, <1>1, <1>2, <1>3

(* A translated request, message by message: the i-th turn is what stands   *)
(* behind position off[i - 1] up to off[i].                                 *)
Part(off, i) == off[i - 1] + 1 .. off[i]

LaidOut(off, out, ms) ==
  /\ off \in [0 .. Len(ms) -> Nat] /\ off[0] = 0 /\ Len(out) = off[Len(ms)]
  /\ \A i \in 1 .. Len(ms) : off[i - 1] < off[i]
  /\ \A p \in 1 .. Len(out) : \E i \in 1 .. Len(ms) : p \in Part(off, i)
  /\ \A i \in 1 .. Len(ms) :
       IF AnswersOf(ms[i]) = {}
       THEN off[i] = off[i - 1] + 1 /\ out[off[i]].role # "tool"
              /\ out[off[i]].calls = CallsOf(ms[i])
       ELSE /\ CallsOf(ms[i]) = {}
            /\ \A p \in Part(off, i) : out[p].role = "tool" /\ out[p].calls = {}
            /\ {out[p].answers : p \in Part(off, i)} = AnswersOf(ms[i])
            /\ \A p, q \in Part(off, i) : out[p].answers = out[q].answers => p = q

(* Every translated request is laid out so.                                 *)
LEMMA TranslationLaidOut ==
  ASSUME NEW ms \in Seq(Message), ms # <<>>, \A i \in 1 .. Len(ms) : WellMade(ms[i])
  PROVE  /\ ToOpenAI(ms) \in Seq(OpenMsg)
         /\ \E off : LaidOut(off, ToOpenAI(ms), ms)
<1> DEFINE n == Len(ms)
           seqs == [i \in 1 .. n |-> Translated(ms[i])]
           out == ToOpenAI(ms)
<1>0. n \in Nat \ {0} /\ \A i \in 1 .. n : ms[i] \in Message /\ WellMade(ms[i])
  OBVIOUS
<1>1. \A i \in 1 .. n :
        /\ Translated(ms[i]) \in Seq(OpenMsg) /\ Len(Translated(ms[i])) \in Nat
        /\ Len(Translated(ms[i])) >= 1
  <2> SUFFICES ASSUME NEW i \in 1 .. n
               PROVE  /\ Translated(ms[i]) \in Seq(OpenMsg)
                      /\ Len(Translated(ms[i])) \in Nat
                      /\ Len(Translated(ms[i])) >= 1
    OBVIOUS
  <2>1. Translated(ms[i]) \in Seq(OpenMsg) /\ Len(Translated(ms[i])) >= 1
    BY <1>0, TranslatedFacts
  <2> QED BY <2>1
<1>2. seqs \in Seq(Seq(OpenMsg)) /\ Len(seqs) = n /\ seqs # <<>>
      /\ \A i \in 1 .. n : seqs[i] = Translated(ms[i])
  <2>1. seqs \in [1 .. n -> Seq(OpenMsg)]
    BY <1>1
  <2>2. \A i \in 1 .. n : seqs[i] = Translated(ms[i])
    OBVIOUS
  <2> HIDE DEF seqs
  <2>3. seqs \in Seq(Seq(OpenMsg)) /\ Len(seqs) = n
    BY <1>0, <2>1, SeqDef
  <2> QED BY <1>0, <2>2, <2>3
<1>3. out = FlattenSeq(seqs)
  BY DEF ToOpenAI
<1> HIDE DEF seqs, out
<1>4. out \in Seq(OpenMsg) /\ \E off : Offsets(off, out, seqs)
  BY <1>2, <1>3, FlattenFacts
<1>5. PICK off : Offsets(off, out, seqs)
  BY <1>4
<1>6. off \in [0 .. n -> Nat] /\ off[0] = 0 /\ Len(out) = off[n]
  BY <1>2, <1>5 DEF Offsets
<1>7. \A i \in 1 .. n : /\ off[i - 1] \in Nat /\ off[i] \in Nat
                        /\ off[i] = off[i - 1] + Len(seqs[i])
                        /\ off[i - 1] < off[i]
  <2> SUFFICES ASSUME NEW i \in 1 .. n
               PROVE  /\ off[i - 1] \in Nat /\ off[i] \in Nat
                      /\ off[i] = off[i - 1] + Len(seqs[i])
                      /\ off[i - 1] < off[i]
    OBVIOUS
  <2>1. i \in 0 .. n /\ i - 1 \in 0 .. n
    BY <1>0
  <2>2. off[i - 1] \in Nat /\ off[i] \in Nat
    BY <1>6, <2>1
  <2>3. off[i] = off[i - 1] + Len(seqs[i])
    BY <1>2, <1>5 DEF Offsets
  <2>4. Len(seqs[i]) \in Nat /\ Len(seqs[i]) >= 1
    BY <1>1, <1>2
  <2> QED BY <2>2, <2>3, <2>4
<1>8. \A i \in 1 .. n : \A p \in Part(off, i) :
        p - off[i - 1] \in 1 .. Len(seqs[i]) /\ out[p] = seqs[i][p - off[i - 1]]
  <2> SUFFICES ASSUME NEW i \in 1 .. n, NEW p \in Part(off, i)
               PROVE  /\ p - off[i - 1] \in 1 .. Len(seqs[i])
                      /\ out[p] = seqs[i][p - off[i - 1]]
    OBVIOUS
  <2>1. off[i - 1] \in Nat /\ off[i] = off[i - 1] + Len(seqs[i]) /\ Len(seqs[i]) \in Nat
    BY <1>1, <1>2, <1>7
  <2>2. p - off[i - 1] \in 1 .. Len(seqs[i]) /\ p = off[i - 1] + (p - off[i - 1])
    BY <2>1 DEF Part
  <2>3. out[off[i - 1] + (p - off[i - 1])] = seqs[i][p - off[i - 1]]
    BY <1>2, <1>5, <2>2 DEF Offsets
  <2> QED BY <2>2, <2>3
<1>9. \A i \in 1 .. n : \A k \in 1 .. Len(seqs[i]) :
        off[i - 1] + k \in Part(off, i) /\ out[off[i - 1] + k] = seqs[i][k]
  <2> SUFFICES ASSUME NEW i \in 1 .. n, NEW k \in 1 .. Len(seqs[i])
               PROVE  off[i - 1] + k \in Part(off, i) /\ out[off[i - 1] + k] = seqs[i][k]
    OBVIOUS
  <2>1. off[i - 1] \in Nat /\ off[i] = off[i - 1] + Len(seqs[i]) /\ Len(seqs[i]) \in Nat
    BY <1>1, <1>2, <1>7
  <2>2. off[i - 1] + k \in Part(off, i)
    BY <2>1 DEF Part
  <2> QED BY <1>2, <1>5, <2>2 DEF Offsets
<1>10. \A p \in 1 .. Len(out) : \E i \in 1 .. n : p \in Part(off, i)
  <2> SUFFICES ASSUME NEW p \in 1 .. Len(out) PROVE \E i \in 1 .. n : p \in Part(off, i)
    OBVIOUS
  <2>1. PICK i \in 1 .. n : \E k \in 1 .. Len(seqs[i]) : p = off[i - 1] + k
    BY <1>2, <1>5 DEF Offsets
  <2> QED BY <1>9, <2>1
<1>11. ASSUME NEW i \in 1 .. n, AnswersOf(ms[i]) = {}
       PROVE  /\ off[i] = off[i - 1] + 1 /\ out[off[i]].role # "tool"
              /\ out[off[i]].calls = CallsOf(ms[i])
  <2>1. /\ Len(seqs[i]) = 1 /\ seqs[i][1].role # "tool"
        /\ seqs[i][1].calls = CallsOf(ms[i])
    <3>1. /\ Len(Translated(ms[i])) = 1 /\ Translated(ms[i])[1].role # "tool"
          /\ Translated(ms[i])[1].calls = CallsOf(ms[i])
      BY <1>0, <1>11, TranslatedFacts
    <3> QED BY <1>2, <3>1
  <2>2. off[i] = off[i - 1] + 1
    BY <1>7, <2>1
  <2>3. out[off[i - 1] + 1] = seqs[i][1]
    BY <1>9, <2>1
  <2> QED BY <2>1, <2>2, <2>3
<1>12. ASSUME NEW i \in 1 .. n, AnswersOf(ms[i]) # {}
       PROVE  /\ CallsOf(ms[i]) = {}
              /\ \A p \in Part(off, i) : out[p].role = "tool" /\ out[p].calls = {}
              /\ {out[p].answers : p \in Part(off, i)} = AnswersOf(ms[i])
              /\ \A p, q \in Part(off, i) : out[p].answers = out[q].answers => p = q
  <2> DEFINE s == seqs[i]
  <2>1. /\ CallsOf(ms[i]) = {}
        /\ \A k \in 1 .. Len(s) : s[k].role = "tool" /\ s[k].calls = {}
        /\ {s[k].answers : k \in 1 .. Len(s)} = AnswersOf(ms[i])
        /\ \A k, l \in 1 .. Len(s) : s[k].answers = s[l].answers => k = l
    <3>1. s = Translated(ms[i])
      BY <1>2
    <3>2. ms[i] \in Message /\ WellMade(ms[i])
      BY <1>0
    <3> DEFINE u == Translated(ms[i])
    <3>3. /\ CallsOf(ms[i]) = {}
          /\ \A k \in 1 .. Len(u) : u[k].role = "tool" /\ u[k].calls = {}
          /\ {u[k].answers : k \in 1 .. Len(u)} = AnswersOf(ms[i])
          /\ \A k, l \in 1 .. Len(u) : u[k].answers = u[l].answers => k = l
      BY <1>12, <3>2, TranslatedFacts
    <3> HIDE DEF s, u
    <3> QED BY <3>1, <3>3 DEF u
  <2>2. \A p \in Part(off, i) : p - off[i - 1] \in 1 .. Len(s) /\ out[p] = s[p - off[i - 1]]
    BY <1>8
  <2>3. \A k \in 1 .. Len(s) : off[i - 1] + k \in Part(off, i) /\ out[off[i - 1] + k] = s[k]
    BY <1>9
  <2> HIDE DEF s
  <2>4. {out[p].answers : p \in Part(off, i)} = AnswersOf(ms[i])
    BY <2>1, <2>2, <2>3
  <2>5. ASSUME NEW p \in Part(off, i), NEW q \in Part(off, i), out[p].answers = out[q].answers
        PROVE  p = q
    <3>1. p - off[i - 1] = q - off[i - 1]
      BY <2>1, <2>2, <2>5
    <3>2. p \in Int /\ q \in Int /\ off[i - 1] \in Nat
      BY <1>7 DEF Part
    <3> QED BY <3>1, <3>2
  <2> QED BY <2>1, <2>2, <2>4, <2>5
<1>13. LaidOut(off, out, ms)
  BY <1>6, <1>7, <1>10, <1>11, <1>12 DEF LaidOut
<1> QED BY <1>4, <1>13 DEF out

(* The tool messages that directly follow the p-th one.                     *)
ToolsAfter(out, p) ==
  {j \in p + 1 .. Len(out) : \A k \in p + 1 .. j : out[k].role = "tool"}

(* No turn ends behind the last message.                                    *)
LEMMA PositionsGrow ==
  ASSUME NEW ms \in Seq(Message), NEW off, NEW out, LaidOut(off, out, ms),
         NEW i \in 0 .. Len(ms)
  PROVE  off[i] \in Nat /\ off[i] <= Len(out)
<1> DEFINE n == Len(ms)
           S == {d \in Nat : d <= n => off[n - d] <= off[n]}
<1>0. n \in Nat /\ \A j \in 0 .. n : off[j] \in Nat
  <2>1. off \in [0 .. n -> Nat]
    BY DEF LaidOut
  <2> QED BY <2>1
<1>1. 0 \in S
  BY <1>0
<1>2. ASSUME NEW d \in Nat, d \in S PROVE d + 1 \in S
  <2> SUFFICES ASSUME d + 1 <= n PROVE off[n - (d + 1)] <= off[n]
    OBVIOUS
  <2>1. n - d \in 1 .. n /\ (n - d) - 1 = n - (d + 1) /\ n - (d + 1) \in 0 .. n
        /\ n \in 0 .. n /\ n - d \in 0 .. n
    BY <1>0
  <2>2. off[n - (d + 1)] < off[n - d]
    <3>1. off[(n - d) - 1] < off[n - d]
      BY <2>1 DEF LaidOut
    <3> QED BY <2>1, <3>1
  <2>3. off[n - d] <= off[n]
    BY <1>0, <1>2
  <2> QED BY <1>0, <2>1, <2>2, <2>3
<1>3. n - i \in S
  <2>1. n - i \in Nat
    BY <1>0
  <2> HIDE DEF S
  <2> QED BY <1>1, <1>2, <2>1, SetInduction
<1> QED
  <2>1. n - i \in Nat /\ n - i <= n /\ n - (n - i) = i
    BY <1>0
  <2> QED BY <1>0, <1>3, <2>1 DEF LaidOut

(* What follows a message that is no tool message: nothing when no turn     *)
(* with answers follows, the messages of that turn otherwise, and only      *)
(* these when the turn after it has no answers.                             *)
LEMMA ToolsFacts ==
  ASSUME NEW ms \in Seq(Message), NEW off, NEW out, LaidOut(off, out, ms),
         NEW i \in 1 .. Len(ms)
  PROVE  LET T == ToolsAfter(out, off[i]) IN
         /\ i = Len(ms) \/ AnswersOf(ms[i + 1]) = {} => T = {}
         /\ i < Len(ms) /\ AnswersOf(ms[i + 1]) # {} =>
              /\ Part(off, i + 1) \subseteq T
              /\ i + 1 = Len(ms) \/ AnswersOf(ms[i + 2]) = {} => T = Part(off, i + 1)
              /\ i + 1 < Len(ms) /\ AnswersOf(ms[i + 2]) # {} => Part(off, i + 2) \subseteq T
<1> DEFINE n == Len(ms)
           T == ToolsAfter(out, off[i])
<1>0. n \in Nat /\ Len(out) = off[n] /\ Len(out) \in Nat
      /\ \A j \in 0 .. n : off[j] \in Nat /\ off[j] <= Len(out)
  <2>1. \A j \in 0 .. n : off[j] \in Nat /\ off[j] <= Len(out)
    BY PositionsGrow
  <2>2. n \in Nat /\ n \in 0 .. n /\ Len(out) = off[n]
    BY DEF LaidOut
  <2> QED BY <2>1, <2>2
<1>1. CASE i = n
  <2>1. off[i] + 1 .. Len(out) = {}
    BY <1>0, <1>1
  <2> QED BY <1>1, <2>1 DEF ToolsAfter
<1>2. CASE i < n
  <2>0. i + 1 \in 1 .. n /\ (i + 1) - 1 = i /\ i \in 0 .. n /\ i + 1 \in 0 .. n
    BY <1>2, <1>0
  <2>a. off[i] \in Nat /\ off[i + 1] \in Nat /\ off[i] < off[i + 1] /\ off[i + 1] <= Len(out)
    <3>1. off[(i + 1) - 1] < off[i + 1]
      BY <2>0 DEF LaidOut
    <3> QED BY <1>0, <2>0, <3>1
  <2>1. CASE AnswersOf(ms[i + 1]) = {}
    <3>1. off[i + 1] = off[i] + 1 /\ out[off[i + 1]].role # "tool"
      <4>1. off[i + 1] = off[(i + 1) - 1] + 1 /\ out[off[i + 1]].role # "tool"
        BY <2>0, <2>1 DEF LaidOut
      <4> QED BY <2>0, <4>1
    <3>2. ASSUME NEW j \in T PROVE FALSE
      <4>1. j \in off[i] + 1 .. Len(out) /\ \A k \in off[i] + 1 .. j : out[k].role = "tool"
        BY <3>2 DEF ToolsAfter
      <4>2. off[i] + 1 \in off[i] + 1 .. j
        BY <2>a, <4>1
      <4> QED BY <3>1, <4>1, <4>2
    <3> QED BY <1>2, <2>1, <3>2
  <2>2. CASE AnswersOf(ms[i + 1]) # {}
    <3>1. Part(off, i + 1) = off[i] + 1 .. off[i + 1]
      BY <2>0 DEF Part
    <3>2. \A p \in off[i] + 1 .. off[i + 1] : out[p].role = "tool"
      BY <2>0, <2>2, <3>1 DEF LaidOut
    <3>3. Part(off, i + 1) \subseteq T
      <4> SUFFICES ASSUME NEW j \in off[i] + 1 .. off[i + 1] PROVE j \in T
        BY <3>1
      <4>1. j \in off[i] + 1 .. Len(out)
        BY <1>0, <2>a
      <4>2. \A k \in off[i] + 1 .. j : k \in off[i] + 1 .. off[i + 1]
        BY <2>a
      <4> QED BY <3>2, <4>1, <4>2 DEF ToolsAfter
    <3>4. ASSUME i + 1 = n \/ AnswersOf(ms[i + 2]) = {} PROVE T = Part(off, i + 1)
      <4> SUFFICES ASSUME NEW j \in T PROVE j \in off[i] + 1 .. off[i + 1]
        BY <3>1, <3>3
      <4>1. j \in off[i] + 1 .. Len(out) /\ \A k \in off[i] + 1 .. j : out[k].role = "tool"
        BY DEF ToolsAfter
      <4>2. CASE i + 1 = n
        BY <1>0, <4>1, <4>2
      <4>3. CASE i + 1 # n
        <5>1. i + 2 \in 1 .. n /\ (i + 2) - 1 = i + 1 /\ AnswersOf(ms[i + 2]) = {}
          BY <1>0, <1>2, <3>4, <4>3
        <5>2. off[i + 2] = off[i + 1] + 1 /\ out[off[i + 2]].role # "tool"
          <6>1. off[i + 2] = off[(i + 2) - 1] + 1 /\ out[off[i + 2]].role # "tool"
            BY <5>1 DEF LaidOut
          <6> QED BY <5>1, <6>1
        <5>3. ~(off[i + 1] + 1 \in off[i] + 1 .. j)
          BY <4>1, <5>2
        <5> QED BY <1>0, <2>a, <4>1, <5>3
      <4> QED BY <4>2, <4>3
    <3>5. ASSUME i + 1 < n, AnswersOf(ms[i + 2]) # {} PROVE Part(off, i + 2) \subseteq T
      <4>1. i + 2 \in 1 .. n /\ (i + 2) - 1 = i + 1 /\ i + 2 \in 0 .. n
        BY <1>0, <3>5
      <4>2. Part(off, i + 2) = off[i + 1] + 1 .. off[i + 2]
        BY <4>1 DEF Part
      <4>3. \A p \in off[i + 1] + 1 .. off[i + 2] : out[p].role = "tool"
        BY <3>5, <4>1, <4>2 DEF LaidOut
      <4>4. off[i + 2] \in Nat /\ off[i + 2] <= Len(out)
        BY <1>0, <4>1
      <4> SUFFICES ASSUME NEW j \in off[i + 1] + 1 .. off[i + 2] PROVE j \in T
        BY <4>2
      <4>5. j \in off[i] + 1 .. Len(out)
        BY <1>0, <2>a, <4>4
      <4>6. \A k \in off[i] + 1 .. j :
              k \in off[i] + 1 .. off[i + 1] \/ k \in off[i + 1] + 1 .. off[i + 2]
        BY <2>a, <4>4
      <4> QED BY <3>2, <4>3, <4>5, <4>6 DEF ToolsAfter
    <3> QED BY <1>0, <1>2, <2>2, <3>3, <3>4, <3>5
  <2> QED BY <2>1, <2>2
<1> QED BY <1>0, <1>1, <1>2

(* The ids of a turn's calls and answers name the turn.                     *)
LEMMA IdsNameTurns ==
  ASSUME NEW a, NEW b, NEW x, x \in AnswersOf(a), x \in CallsOf(b)
  PROVE  a.prompt = b.prompt /\ a.iter = b.iter
BY DEF AnswersOf, CallsOf, CallId

(* Turns next to each other that both have answers are not of one reply.    *)
ApartInTime(ms) ==
  \A i \in 1 .. Len(ms) - 1 :
    AnswersOf(ms[i]) # {} /\ AnswersOf(ms[i + 1]) # {} =>
      ms[i].prompt # ms[i + 1].prompt \/ ms[i].iter # ms[i + 1].iter

(* The translation of a well made request keeps the rule of chat/completions*)
(* exactly when the request obeys that of the Messages API.  One direction  *)
(* rests on results turns having no calls; in the other, tool messages of   *)
(* two turns in a row would answer one assistant message, whose ids name    *)
(* only its own turn.                                                       *)
LEMMA PairingKept ==
  ASSUME NEW ms \in Seq(Message), ms # <<>>, \A i \in 1 .. Len(ms) : WellMade(ms[i]),
         ApartInTime(ms)
  PROVE  /\ ToOpenAI(ms) # <<>>
         /\ PairedOpenAI(ToOpenAI(ms)) <=> PairedAnthropic(ms)
         /\ UNION {ToOpenAI(ms)[i].calls : i \in 1 .. Len(ToOpenAI(ms))} =
              UNION {CallsOf(ms[i]) : i \in 1 .. Len(ms)}
<1> DEFINE n == Len(ms)
           out == ToOpenAI(ms)
           R(i) == AnswersOf(ms[i]) # {}
           T(p) == ToolsAfter(out, p)
<1>0. n \in Nat /\ 1 \in 1 .. n /\ n \in 1 .. n /\ out \in Seq(OpenMsg) /\ Len(out) \in Nat
  BY TranslationLaidOut
<1>1. PICK off : LaidOut(off, out, ms)
  BY TranslationLaidOut
<1>2. PairedOpenAI(out) <=>
        /\ out[1].role # "tool"
        /\ \A p \in 1 .. Len(out) : out[p].role # "tool" =>
             /\ {out[j].answers : j \in T(p)} = out[p].calls
             /\ Cardinality(T(p)) = Cardinality(out[p].calls)
  BY DEF PairedOpenAI, ToolsAfter
<1> HIDE DEF out
<1>3. /\ off[0] = 0 /\ Len(out) = off[n]
      /\ \A p \in 1 .. Len(out) : \E i \in 1 .. n : p \in Part(off, i)
      /\ \A i \in 1 .. n : off[i - 1] < off[i] /\ off[i - 1] \in Nat /\ off[i] \in Nat
                           /\ off[i] \in 1 .. Len(out) /\ off[i] \in Part(off, i)
                           /\ Part(off, i) \subseteq 1 .. Len(out)
  <2>1. /\ off[0] = 0 /\ Len(out) = off[n]
        /\ \A p \in 1 .. Len(out) : \E i \in 1 .. n : p \in Part(off, i)
    BY <1>1 DEF LaidOut
  <2>2. ASSUME NEW i \in 1 .. n
        PROVE  /\ off[i - 1] < off[i] /\ off[i - 1] \in Nat /\ off[i] \in Nat
               /\ off[i] \in 1 .. Len(out) /\ off[i] \in Part(off, i)
               /\ Part(off, i) \subseteq 1 .. Len(out)
    <3>1. i \in 0 .. n /\ i - 1 \in 0 .. n
      BY <1>0
    <3>2. off[i - 1] < off[i]
      BY <1>1 DEF LaidOut
    <3>3. off[i - 1] \in Nat /\ off[i] \in Nat /\ off[i] <= Len(out)
      BY <1>1, <3>1, PositionsGrow
    <3> QED BY <1>0, <3>2, <3>3 DEF Part
  <2> QED BY <2>1, <2>2
<1>4. \A i \in 1 .. n : ~R(i) =>
        /\ Part(off, i) = {off[i]} /\ out[off[i]].role # "tool"
        /\ out[off[i]].calls = CallsOf(ms[i])
  <2> SUFFICES ASSUME NEW i \in 1 .. n, ~R(i)
               PROVE  /\ Part(off, i) = {off[i]} /\ out[off[i]].role # "tool"
                      /\ out[off[i]].calls = CallsOf(ms[i])
    OBVIOUS
  <2>1. /\ off[i] = off[i - 1] + 1 /\ out[off[i]].role # "tool"
        /\ out[off[i]].calls = CallsOf(ms[i])
    BY <1>1 DEF LaidOut
  <2> QED BY <1>3, <2>1 DEF Part
<1>5. \A i \in 1 .. n : R(i) =>
        /\ CallsOf(ms[i]) = {}
        /\ \A p \in Part(off, i) : out[p].role = "tool" /\ out[p].calls = {}
        /\ {out[p].answers : p \in Part(off, i)} = AnswersOf(ms[i])
        /\ \A p, q \in Part(off, i) : out[p].answers = out[q].answers => p = q
  BY <1>1 DEF LaidOut
<1>6. \A i \in 1 .. n : i = n \/ ~R(i + 1) => T(off[i]) = {}
  BY <1>1, ToolsFacts
<1>7. \A i \in 1 .. n - 1 : R(i + 1) => Part(off, i + 1) \subseteq T(off[i])
  <2> SUFFICES ASSUME NEW i \in 1 .. n - 1, R(i + 1)
               PROVE  Part(off, i + 1) \subseteq T(off[i])
    OBVIOUS
  <2>1. i \in 1 .. n /\ i < n
    BY <1>0
  <2> QED BY <1>1, <2>1, ToolsFacts
<1>8. \A i \in 1 .. n - 1 : R(i + 1) /\ (i + 1 = n \/ ~R(i + 2)) =>
        /\ {out[j].answers : j \in T(off[i])} = AnswersOf(ms[i + 1])
        /\ Cardinality(T(off[i])) = Cardinality(AnswersOf(ms[i + 1]))
  <2> SUFFICES ASSUME NEW i \in 1 .. n - 1, R(i + 1), i + 1 = n \/ ~R(i + 2)
               PROVE  /\ {out[j].answers : j \in T(off[i])} = AnswersOf(ms[i + 1])
                      /\ Cardinality(T(off[i])) = Cardinality(AnswersOf(ms[i + 1]))
    OBVIOUS
  <2>1. i \in 1 .. n /\ i < n /\ i + 1 \in 1 .. n
    BY <1>0
  <2>2. T(off[i]) = Part(off, i + 1)
    BY <1>1, <2>1, ToolsFacts
  <2>3. Part(off, i + 1) = off[(i + 1) - 1] + 1 .. off[i + 1]
    BY DEF Part
  <2>4. off[(i + 1) - 1] + 1 \in Int /\ off[i + 1] \in Int
    BY <1>3, <2>1
  <2>5. Cardinality(Part(off, i + 1)) = Cardinality({out[p].answers : p \in Part(off, i + 1)})
    <3> DEFINE P == Part(off, i + 1)
               S == {out[p].answers : p \in P}
               g == [p \in P |-> out[p].answers]
    <3>1. \A p, q \in P : out[p].answers = out[q].answers => p = q
      BY <1>5, <2>1
    <3>2. IsFiniteSet(P)
      BY <2>3, <2>4, FS_Interval
    <3> HIDE DEF P
    <3>3. g \in Surjection(P, S) /\ g \in Injection(P, S)
      BY <3>1 DEF Surjection, Injection, IsInjective
    <3> HIDE DEF S, g
    <3>4. Cardinality(S) = Cardinality(P)
      BY <3>2, <3>3, FS_Surjection
    <3> QED BY <3>4 DEF P, S
  <2>6. {out[p].answers : p \in Part(off, i + 1)} = AnswersOf(ms[i + 1])
    BY <1>5, <2>1
  <2> QED BY <2>2, <2>5, <2>6
<1>9. \A i \in 1 .. n - 1 : i + 1 < n /\ R(i + 1) /\ R(i + 2) =>
        Part(off, i + 2) \subseteq T(off[i])
  <2> SUFFICES ASSUME NEW i \in 1 .. n - 1, i + 1 < n, R(i + 1), R(i + 2)
               PROVE  Part(off, i + 2) \subseteq T(off[i])
    OBVIOUS
  <2>1. i \in 1 .. n /\ i < n
    BY <1>0
  <2> QED BY <1>1, <2>1, ToolsFacts
<1>10. \A p \in 1 .. Len(out) : out[p].role # "tool" => \E i \in 1 .. n : ~R(i) /\ p = off[i]
  <2> SUFFICES ASSUME NEW p \in 1 .. Len(out), out[p].role # "tool"
               PROVE  \E i \in 1 .. n : ~R(i) /\ p = off[i]
    OBVIOUS
  <2>1. PICK i \in 1 .. n : p \in Part(off, i)
    BY <1>3
  <2>2. ~R(i)
    BY <1>5, <2>1
  <2> QED BY <1>4, <2>1, <2>2
<1>11. R(1) <=> out[1].role = "tool"
  <2>1. 1 \in Part(off, 1) /\ (~R(1) => off[1] = 1)
    <3>1. 1 - 1 = 0 /\ off[1] \in Nat /\ off[0] < off[1]
      BY <1>0, <1>3
    <3>2. 1 \in Part(off, 1)
      BY <1>3, <3>1 DEF Part
    <3> QED BY <1>0, <1>4, <3>2
  <2> QED BY <1>0, <1>4, <1>5, <2>1
<1> HIDE DEF R, T
<1>12. ASSUME PairedAnthropic(ms) PROVE PairedOpenAI(out)
  <2>1. ~R(1) /\ CallsOf(ms[n]) = {} /\ \A i \in 1 .. n - 1 : AnswersOf(ms[i + 1]) = CallsOf(ms[i])
    BY <1>12 DEF PairedAnthropic, R, Last
  <2>2. ASSUME NEW p \in 1 .. Len(out), out[p].role # "tool"
        PROVE  /\ {out[j].answers : j \in T(p)} = out[p].calls
               /\ Cardinality(T(p)) = Cardinality(out[p].calls)
    <3>1. PICK i \in 1 .. n : ~R(i) /\ p = off[i]
      BY <1>10, <2>2
    <3>2. out[p].calls = CallsOf(ms[i])
      BY <1>4, <3>1
    <3>3. CASE i = n
      BY <1>6, <2>1, <3>1, <3>2, <3>3
    <3>4. CASE i # n
      <4>1. i \in 1 .. n - 1 /\ i + 1 \in 1 .. n /\ CallsOf(ms[i]) = AnswersOf(ms[i + 1])
        BY <1>0, <2>1, <3>4
      <4>2. CASE ~R(i + 1)
        <5>1. CallsOf(ms[i]) = {}
          BY <4>1, <4>2 DEF R
        <5>2. T(p) = {}
          BY <1>6, <3>1, <4>2
        <5> QED BY <3>2, <5>1, <5>2
      <4>3. CASE R(i + 1)
        <5>1. i + 1 = n \/ ~R(i + 2)
          <6>1. ASSUME i + 1 # n PROVE AnswersOf(ms[i + 2]) = CallsOf(ms[i + 1])
            <7>1. i + 1 \in 1 .. n - 1 /\ (i + 1) + 1 = i + 2
              BY <1>0, <4>1, <6>1
            <7>2. AnswersOf(ms[(i + 1) + 1]) = CallsOf(ms[i + 1])
              BY <2>1, <7>1
            <7> QED BY <7>1, <7>2
          <6>2. CallsOf(ms[i + 1]) = {}
            BY <1>5, <4>1, <4>3
          <6> QED BY <6>1, <6>2 DEF R
        <5> QED BY <1>8, <3>1, <3>2, <4>1, <4>3, <5>1
      <4> QED BY <4>2, <4>3
    <3> QED BY <3>3, <3>4
  <2> QED BY <1>2, <1>11, <2>1, <2>2
<1>13. ASSUME PairedOpenAI(out) PROVE PairedAnthropic(ms)
  <2>1. ~R(1)
    BY <1>2, <1>11, <1>13
  <2>2. \A i \in 1 .. n : ~R(i) => {out[j].answers : j \in T(off[i])} = CallsOf(ms[i])
    BY <1>2, <1>3, <1>4, <1>13
  <2>3. ASSUME NEW i \in 1 .. n - 1, ~R(i), R(i + 1) PROVE i + 1 = n \/ ~R(i + 2)
    <3> SUFFICES ASSUME i + 1 # n, R(i + 2) PROVE FALSE
      OBVIOUS
    <3>1. /\ i \in 1 .. n /\ i + 1 \in 1 .. n /\ i + 2 \in 1 .. n /\ i + 1 < n
          /\ i + 1 \in 1 .. n - 1 /\ (i + 1) + 1 = i + 2
      BY <1>0
    <3>2. Part(off, i + 1) \subseteq T(off[i]) /\ Part(off, i + 2) \subseteq T(off[i])
      BY <1>7, <1>9, <2>3, <3>1
    <3>3. AnswersOf(ms[i + 1]) \subseteq CallsOf(ms[i])
      <4>1. AnswersOf(ms[i + 1]) = {out[p].answers : p \in Part(off, i + 1)}
        BY <1>5, <2>3, <3>1
      <4> QED BY <2>2, <2>3, <3>1, <3>2, <4>1
    <3>4. AnswersOf(ms[i + 2]) \subseteq CallsOf(ms[i])
      <4>1. AnswersOf(ms[i + 2]) = {out[p].answers : p \in Part(off, i + 2)}
        BY <1>5, <3>1
      <4> QED BY <2>2, <2>3, <3>1, <3>2, <4>1
    <3>5. PICK x \in AnswersOf(ms[i + 1]), y \in AnswersOf(ms[i + 2]) : TRUE
      BY <2>3 DEF R
    <3>6. /\ ms[i + 1].prompt = ms[i].prompt /\ ms[i + 1].iter = ms[i].iter
          /\ ms[i + 2].prompt = ms[i].prompt /\ ms[i + 2].iter = ms[i].iter
      BY <3>3, <3>4, <3>5, IdsNameTurns
    <3>7. \/ ms[i + 1].prompt # ms[(i + 1) + 1].prompt
          \/ ms[i + 1].iter # ms[(i + 1) + 1].iter
      BY <2>3, <3>1 DEF ApartInTime, R
    <3> QED BY <3>1, <3>6, <3>7
  <2>4. \A i \in 1 .. n - 1 : ~(R(i) /\ R(i + 1))
    <3> DEFINE S == {k \in Nat : k + 2 <= n => ~(R(k + 1) /\ R(k + 2))}
    <3>1. 0 \in S
      BY <2>1
    <3>2. ASSUME NEW k \in Nat, k \in S PROVE k + 1 \in S
      <4> SUFFICES ASSUME (k + 1) + 2 <= n, R((k + 1) + 1), R((k + 1) + 2) PROVE FALSE
        OBVIOUS
      <4>1. /\ k + 2 <= n /\ (k + 1) + 1 = k + 2 /\ (k + 1) + 2 = k + 3
            /\ k + 1 \in 1 .. n - 1 /\ (k + 1) + 1 # n
        BY <1>0
      <4>2. ~R(k + 1)
        BY <3>2, <4>1
      <4> QED BY <2>3, <4>1, <4>2
    <3> HIDE DEF S
    <3>3. \A k \in Nat : k \in S
      BY <3>1, <3>2, SetInduction
    <3> SUFFICES ASSUME NEW i \in 1 .. n - 1 PROVE ~(R(i) /\ R(i + 1))
      OBVIOUS
    <3>4. i - 1 \in Nat /\ (i - 1) + 1 = i /\ (i - 1) + 2 = i + 1 /\ (i - 1) + 2 <= n
      BY <1>0
    <3>5. ~(R((i - 1) + 1) /\ R((i - 1) + 2))
      BY <3>3, <3>4 DEF S
    <3> QED BY <3>4, <3>5
  <2>5. CallsOf(ms[n]) = {}
    <3>1. CASE R(n)
      BY <1>0, <1>5, <3>1
    <3>2. CASE ~R(n)
      <4>1. T(off[n]) = {}
        BY <1>0, <1>6
      <4> QED BY <1>0, <2>2, <3>2, <4>1
    <3> QED BY <3>1, <3>2
  <2>6. ASSUME NEW i \in 1 .. n - 1 PROVE AnswersOf(ms[i + 1]) = CallsOf(ms[i])
    <3>0. i \in 1 .. n /\ i + 1 \in 1 .. n
      BY <1>0
    <3>1. CASE R(i)
      <4>1. ~R(i + 1) /\ CallsOf(ms[i]) = {}
        BY <1>5, <2>4, <3>0, <3>1
      <4> QED BY <4>1 DEF R
    <3>2. CASE ~R(i) /\ ~R(i + 1)
      <4>1. CallsOf(ms[i]) = {}
        BY <1>6, <2>2, <3>0, <3>2
      <4> QED BY <3>2, <4>1 DEF R
    <3>3. CASE ~R(i) /\ R(i + 1)
      <4>1. {out[j].answers : j \in T(off[i])} = AnswersOf(ms[i + 1])
        BY <1>8, <2>3, <3>3
      <4> QED BY <2>2, <3>0, <3>3, <4>1
    <3> QED BY <3>1, <3>2, <3>3
  <2> QED BY <2>1, <2>5, <2>6 DEF PairedAnthropic, R, Last
<1>14. UNION {out[p].calls : p \in 1 .. Len(out)} = UNION {CallsOf(ms[i]) : i \in 1 .. n}
  <2>1. ASSUME NEW p \in 1 .. Len(out) PROVE \E i \in 1 .. n : out[p].calls = CallsOf(ms[i])
    <3>1. PICK i \in 1 .. n : p \in Part(off, i)
      BY <1>3
    <3>2. CASE R(i)
      BY <1>5, <3>1, <3>2
    <3>3. CASE ~R(i)
      <4>1. p = off[i]
        BY <1>4, <3>1, <3>3
      <4> QED BY <1>4, <3>3, <4>1
    <3> QED BY <3>2, <3>3
  <2>2. ASSUME NEW i \in 1 .. n PROVE \E p \in 1 .. Len(out) : out[p].calls = CallsOf(ms[i])
    <3>1. off[i] \in 1 .. Len(out) /\ off[i] \in Part(off, i)
      BY <1>3
    <3>2. CASE R(i)
      BY <1>5, <3>1, <3>2
    <3>3. CASE ~R(i)
      BY <1>4, <3>1, <3>3
    <3> QED BY <3>2, <3>3
  <2> QED BY <2>1, <2>2
<1>15. out # <<>>
  <2>1. off[n] \in 1 .. Len(out)
    BY <1>0, <1>3
  <2> QED BY <2>1
<1> QED BY <1>12, <1>13, <1>14, <1>15 DEF out

-----------------------------------------------------------------------------
(* What the exchange holds: while a request is upstream the client waits    *)
(* and what was forwarded is its request, translated for the one service.   *)
Forwarded ==
  /\ via \in {"direct", "anthropic", "openrouter"}
  /\ stage \in {"idle", "upstream"}
  /\ stage = "upstream" =>
       pc = "wait" /\ sent = IF via = "openrouter" THEN ToOpenAI(request) ELSE request
  /\ stage = "idle" => sent = <<>>
  /\ said \in Completions \cup {Nothing}

LEMMA ExchangeKept == BridgeSpec => []Forwarded
<1>1. BridgeInit => Forwarded
  BY DEF BridgeInit, Forwarded
<1>2. Forwarded /\ [BridgeNext]_bridge => Forwarded'
  <2> SUFFICES ASSUME Forwarded, [BridgeNext]_bridge PROVE Forwarded'
    OBVIOUS
  <2>1. CASE Client
    <3>0. CASE TypeAhead
      BY <2>1, <3>0 DEF Client, TypeAhead, bridgeVars, Forwarded
    <3>1. CASE ~TypeAhead
      <4>1. pc # "wait" /\ UNCHANGED <<via, stage, sent, said>>
        BY <2>1, <3>1
           DEF Client, bridgeVars, Program, User, Session, Finished, SendRequest,
               IterationCap, RunTool, Ask, FinishTurn, AnswerTyped, AnswerLeftover,
               AnswerEof, TypePrompt, ReadLeftover, Quit
      <4>2. stage = "idle"
        BY <4>1 DEF Forwarded
      <4> QED BY <4>1, <4>2 DEF Forwarded
    <3> QED BY <3>0, <3>1
  <2>2. CASE TurnsAway
    BY <2>2 DEF TurnsAway, bridgeVars, Forwarded
  <2>3. CASE Forwards
    <3>1. /\ pc' = "wait" /\ request' = request /\ via' = via /\ said' = said
          /\ stage' = "upstream"
          /\ sent' = IF via = "openrouter" THEN ToOpenAI(request) ELSE request
      BY <2>3 DEF Forwards, vars
    <3>2. sent' = IF via' = "openrouter" THEN ToOpenAI(request') ELSE request'
      BY <3>1
    <3> QED BY <3>1, <3>2 DEF Forwarded
  <2>4. CASE UpstreamEnds
    BY <2>4 DEF UpstreamEnds, Forwarded
  <2>5. ASSUME NEW r \in Completions, UpstreamAsks(r) PROVE Forwarded'
    BY <2>5 DEF UpstreamAsks, Forwarded
  <2>6. CASE UNCHANGED bridge
    <3>1. UNCHANGED <<pc, request, via, stage, sent, said>>
      BY <2>6 DEF bridge, vars, bridgeVars
    <3> QED BY <3>1 DEF Forwarded
  <2> QED BY <2>1, <2>2, <2>3, <2>4, <2>5, <2>6 DEF BridgeNext, Exchange
<1> QED BY <1>1, <1>2, PTL DEF BridgeSpec

(* A request is made of turns of the history, in their order: no two turns  *)
(* of results in it are of one reply.                                       *)
LEMMA RequestFacts ==
  ASSUME TypeOK, AllWellMade, RunOfHistory, HistInOrder, pc = "wait", request # <<>>
  PROVE  /\ request \in Seq(Message)
         /\ \A i \in 1 .. Len(request) : WellMade(request[i])
         /\ ApartInTime(request)
<1>0. hist \in Seq(Message) /\ Len(hist) \in Nat
  BY DEF TypeOK
<1>1. PICK s \in 1 .. Len(hist) : \E e \in s .. Len(hist) : request = SubSeq(hist, s, e)
  BY DEF RunOfHistory
<1>2. PICK e \in s .. Len(hist) : request = SubSeq(hist, s, e)
  BY <1>1
<1>3. request \in Seq(Message)
  BY DEF TypeOK
<1>4. Len(request) = e - s + 1 /\ \A i \in 1 .. Len(request) : request[i] = hist[s + i - 1]
  BY <1>0, <1>2, SubSeqProperties
<1>5. \A i \in 1 .. Len(request) : s + i - 1 \in 1 .. Len(hist)
  BY <1>0, <1>2, <1>4
<1>6. \A i \in 1 .. Len(request) : WellMade(request[i])
  BY <1>4, <1>5 DEF AllWellMade
<1>7. ASSUME NEW i \in 1 .. Len(request) - 1,
             AnswersOf(request[i]) # {}, AnswersOf(request[i + 1]) # {}
      PROVE  request[i].prompt # request[i + 1].prompt \/ request[i].iter # request[i + 1].iter
  <2>1. i \in 1 .. Len(request) /\ i + 1 \in 1 .. Len(request)
    BY <1>4, <1>0
  <2>2. request[i].kind = "results" /\ request[i + 1].kind = "results"
    BY <1>6, <1>7, <2>1 DEF WellMade, AnswersOf
  <2>3. Before(request[i], request[i + 1])
    <3>1. s + i - 1 \in 1 .. Len(hist) /\ s + (i + 1) - 1 \in 1 .. Len(hist)
          /\ s + i - 1 < s + (i + 1) - 1
      BY <1>0, <1>5, <2>1
    <3> QED BY <1>4, <2>1, <3>1 DEF HistInOrder
  <2>4. /\ request[i].prompt \in Nat /\ request[i + 1].prompt \in Nat
        /\ request[i].iter \in Nat /\ request[i + 1].iter \in Nat
    <3>1. request[i] \in Message /\ request[i + 1] \in Message
      BY <1>3, <2>1
    <3> QED BY <3>1 DEF Message
  <2> QED BY <2>2, <2>3, <2>4 DEF Before, Rank
<1> QED BY <1>3, <1>6, <1>7 DEF ApartInTime

(* The client over the bridge keeps what it keeps on its own.               *)
LEMMA ClientKept ==
  BridgeSpec => [](TypeOK /\ AllWellMade /\ RunOfHistory /\ HistInOrder /\ RequestCurrent)
BY BridgeKeepsClient, TypeCorrect, TurnsWellMade, RequestsAreRuns, HistoryPast,
   RequestsCurrent, PTL

(* A request is upstream only while the client waits, and something is sent *)
(* then (do_POST(), call_openrouter()), whatever the history was cut to.    *)
THEOREM BridgeTypeCorrect == BridgeSpec => []BridgeTypeOK
<1>1. ASSUME TypeOK, AllWellMade, RunOfHistory, HistInOrder, RequestCurrent, Forwarded
      PROVE  BridgeTypeOK
  <2>1. ASSUME stage = "upstream", ~OutOfMemory PROVE sent # <<>>
    <3>1. pc = "wait" /\ sent = IF via = "openrouter" THEN ToOpenAI(request) ELSE request
      BY <1>1, <2>1 DEF Forwarded
    <3>2. request # <<>>
      <4>1. hist \in Seq(Message) /\ Len(hist) \in Nat
        BY <1>1 DEF TypeOK
      <4>2. PICK s \in 1 .. Len(hist) : request = SubSeq(hist, s, Len(hist))
        BY <1>1, <2>1, <3>1 DEF RequestCurrent
      <4>3. Len(request) = Len(hist) - s + 1
        BY <4>1, <4>2, SubSeqProperties
      <4>4. Len(request) >= 1
        BY <4>1, <4>3
      <4> QED BY <4>4
    <3>3. ToOpenAI(request) # <<>>
      BY <1>1, <3>1, <3>2, RequestFacts, PairingKept
    <3> QED BY <3>1, <3>2, <3>3
  <2> QED BY <1>1, <2>1 DEF BridgeTypeOK, Forwarded
<1> QED BY <1>1, ClientKept, ExchangeKept, PTL

(* The two services agree about every request: _anthropic_to_openai() makes *)
(* of it one that pairs calls and answers exactly when the request does,    *)
(* with the same calls, wherever hist_join() cut the history and whichever  *)
(* results did not fit toolmsg[].                                           *)
THEOREM TranslationPairs == BridgeSpec => []TranslationKeepsPairing
<1>1. ASSUME TypeOK, AllWellMade, RunOfHistory, HistInOrder, Forwarded
      PROVE  TranslationKeepsPairing
  <2> SUFFICES ASSUME via = "openrouter", stage = "upstream", request # <<>>
               PROVE  /\ PairedOpenAI(sent) <=> PairedAnthropic(request)
                      /\ UNION {sent[i].calls : i \in 1 .. Len(sent)} =
                           UNION {CallsOf(request[i]) : i \in 1 .. Len(request)}
    BY DEF TranslationKeepsPairing
  <2>1. pc = "wait" /\ sent = ToOpenAI(request)
    BY <1>1 DEF Forwarded
  <2> QED BY <1>1, <2>1, RequestFacts, PairingKept
<1> QED BY <1>1, ClientKept, ExchangeKept, PTL

=============================================================================
