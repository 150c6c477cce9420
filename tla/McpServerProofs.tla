-------------------------- MODULE McpServerProofs --------------------------
(***************************************************************************)
(* What TLAPS proves about McpServer, for every set of lines and every size *)
(* of buffer: types, one reply and one effect per line and in order, that   *)
(* replies say what the tools did; and, for lines that are PlainLines, that *)
(* the server implements RpcContract.                                       *)
(*                                                                          *)
(* The refinement rests on what the scanner reads out of a text that a      *)
(* buffer or the end of the input has cut (ReadingFacts): the call that the *)
(* whole line asks for, or one that is refused.                             *)
(***************************************************************************)
EXTENDS McpServer, SequenceTheorems, WellFoundedInduction, TLAPS

(* While a reply is under way it agrees with the effect it is about.        *)
Pending ==
  pc = "reply" =>
    /\ \A i \in 1 .. Len(acts) : acts[i].line = taken => resp.err = ~acts[i].whole
    /\ resp.kind = "text" /\ ~resp.err =>
         \E i \in 1 .. Len(acts) : acts[i].line = taken /\ acts[i].whole
    /\ resp.kind = "doubt" =>
         ~resp.err /\ \A i \in 1 .. Len(acts) : acts[i].line # taken

Inv == TypeOK /\ OncePerLine /\ ReportsMatchActs /\ Pending

(* read_line() never keeps more than line[] holds: what it keeps is a text  *)
(* that handle_request() reads.                                             *)
LEMMA KeepsFacts ==
  ASSUME TypeOK, taken' \in 1 .. Len(wire)
  PROVE  Cut(wire[taken'], Keeps(taken')) \in Texts
<1>1. wire[taken'] \in Lines
  BY ElementOfSeq DEF TypeOK
<1>2. LineBuf \in Nat \ {0} /\ arrives \in Nat
  BY SizesAssumption DEF TypeOK
<1>3. Keeps(taken') \in 0 .. LineBuf - 1
  <2>1. PICK a \in Nat, b \in Nat \ {0} : a = arrives /\ b = LineBuf
    BY <1>2
  <2>2. (IF taken' = Len(wire) /\ a < b THEN a ELSE b - 1) \in 0 .. b - 1
    BY <2>1
  <2> QED BY <2>1, <2>2 DEF Keeps
<1> QED BY <1>1, <1>3 DEF Texts

(* A tool that acted is reported as it fared; one that is reported to have  *)
(* worked did all of its work, unless the text says it may not have run:    *)
(* that one did nothing.                                                    *)
LEMMA OutcomeFacts ==
  ASSUME NEW o \in Outcomes
  PROVE  /\ o.acts \in BOOLEAN /\ o.whole \in BOOLEAN /\ o.err \in BOOLEAN
         /\ o.says \in {"text", "doubt"}
         /\ o.acts => o.err = ~o.whole /\ o.says = "text"
         /\ ~o.err /\ o.says = "text" => o.acts /\ o.whole
         /\ o.says = "doubt" => ~o.err
<1>1. \/ \E e : o = Succeeds(e)
      \/ o = Failed
      \/ o = [Failed EXCEPT !.acts = TRUE]
      \/ o = NotStarted
  BY DEF Outcomes, Yields
<1>2. CASE \E e : o = Succeeds(e)
  <2>1. PICK e : o = Succeeds(e)
    BY <1>2
  <2>2. o.acts = TRUE /\ o.whole = TRUE /\ o.err = FALSE /\ o.says = "text"
    BY <2>1 DEF Succeeds
  <2> QED BY <2>2
<1>3. CASE o = Failed
  <2>1. o.acts = FALSE /\ o.whole = FALSE /\ o.err = TRUE /\ o.says = "text"
    BY <1>3 DEF Failed
  <2> QED BY <2>1
<1>4. CASE o = [Failed EXCEPT !.acts = TRUE]
  <2>1. o.acts = TRUE /\ o.whole = FALSE /\ o.err = TRUE /\ o.says = "text"
    BY <1>4 DEF Failed
  <2> QED BY <2>1
<1>5. CASE o = NotStarted
  <2>1. o.acts = FALSE /\ o.whole = FALSE /\ o.err = FALSE /\ o.says = "doubt"
    BY <1>5 DEF NotStarted, Failed
  <2> QED BY <2>1
<1> QED BY <1>1, <1>2, <1>3, <1>4, <1>5

(* The numbers in the state, named for the arithmetic below.                *)
LEMMA Numbers ==
  ASSUME TypeOK
  PROVE  /\ taken \in Nat /\ Len(wire) \in Nat /\ taken <= Len(wire)
         /\ Len(replies) \in Nat /\ Len(acts) \in Nat
         /\ \A i \in 1 .. Len(replies) : replies[i].line \in Nat
         /\ \A i \in 1 .. Len(acts) : acts[i].line \in Nat /\ acts[i].whole \in BOOLEAN
<1>1. Len(wire) \in Nat /\ Len(replies) \in Nat /\ Len(acts) \in Nat
  BY LenProperties DEF TypeOK
<1>2. taken \in Nat /\ taken <= Len(wire)
  BY <1>1 DEF TypeOK
<1>3. \A i \in 1 .. Len(replies) : replies[i].line \in Nat
  <2>1. \A i \in 1 .. Len(replies) : replies[i] \in Sent
    BY ElementOfSeq DEF TypeOK
  <2> QED BY <2>1 DEF Sent
<1>4. \A i \in 1 .. Len(acts) : acts[i].line \in Nat /\ acts[i].whole \in BOOLEAN
  <2>1. \A i \in 1 .. Len(acts) : acts[i] \in Act
    BY ElementOfSeq DEF TypeOK
  <2> QED BY <2>1 DEF Act
<1> QED BY <1>1, <1>2, <1>3, <1>4

LEMMA ReadIn ==
  ASSUME TypeOK
  PROVE  /\ Id \in {Reading[x].id : x \in Texts}
         /\ Asks \in {Reading[x].act : x \in Texts}
BY DEF TypeOK, Id, Asks

LEMMA InvInit == Init => Inv
<1> SUFFICES ASSUME Init PROVE Inv
  OBVIOUS
<1>1. PICK x \in Lines : TRUE
  BY LinesAssumption
<1>2. Cut(x, 0) = <<>>
  BY <1>1, LinesAssumption, EmptySeq DEF Cut
<1>3. <<>> \in Texts
  BY <1>1, <1>2, SizesAssumption DEF Texts
<1>4. TypeOK
  <2>1. resp \in Answer
    BY DEF Init, Answer
  <2>2. wire \in Seq(Lines) /\ replies \in Seq(Sent) /\ acts \in Seq(Act)
    BY EmptySeq DEF Init
  <2>3. Len(wire) = 0
    BY EmptySeq DEF Init
  <2>4. taken \in 0 .. Len(wire)
    BY <2>3 DEF Init
  <2>5. arrives \in Nat /\ (Len(wire) > 0 => arrives <= Len(wire[Len(wire)]))
    BY <2>3 DEF Init
  <2>6. line \in Texts /\ pc = "read" /\ eof = FALSE
    BY <1>3 DEF Init
  <2> QED BY <2>1, <2>2, <2>4, <2>5, <2>6 DEF TypeOK
<1> QED BY <1>4 DEF Init, Inv, OncePerLine, ReportsMatchActs, Pending

(* What the client does leaves the server's account untouched.              *)
LEMMA InvClient == ASSUME Inv, Client PROVE Inv'
<1> USE DEF Inv
<1>1. UNCHANGED <<taken, pc, line, resp, replies, acts>>
  BY DEF Client, Write, HangUp
<1>2. TypeOK'
  <2>1. CASE Write
    <3>1. PICK x \in Lines : wire' = Append(wire, x) /\ arrives' = Len(x)
      BY <2>1 DEF Write
    <3>2. Len(x) \in Nat
      BY LinesAssumption, LenProperties
    <3>3. /\ wire' \in Seq(Lines) /\ Len(wire') = Len(wire) + 1
          /\ wire'[Len(wire')] = x
      BY <3>1, AppendProperties DEF TypeOK
    <3>4. taken \in 0 .. Len(wire')
      BY <3>3, LenProperties DEF TypeOK
    <3> QED BY <2>1, <1>1, <3>1, <3>2, <3>3, <3>4 DEF TypeOK, Write
  <2>2. CASE HangUp
    <3>1. arrives' \in Nat /\ arrives' <= arrives
      BY <2>2 DEF HangUp, TypeOK
    <3>2. Len(wire) > 0 => Len(wire[Len(wire)]) \in Nat
      BY LinesAssumption, ElementOfSeq, LenProperties DEF TypeOK
    <3>3. Len(wire) > 0 => arrives' <= Len(wire[Len(wire)])
      BY <3>1, <3>2 DEF TypeOK
    <3> QED BY <2>2, <1>1, <3>1, <3>3 DEF TypeOK, HangUp
  <2> QED BY <2>1, <2>2 DEF Client
<1>3. OncePerLine'
  BY <1>1 DEF OncePerLine
<1>4. ReportsMatchActs'
  BY <1>1 DEF ReportsMatchActs
<1>5. Pending'
  BY <1>1 DEF Pending
<1> QED BY <1>2, <1>3, <1>4, <1>5

LEMMA InvRead == ASSUME Inv, ReadLine \/ EndOfInput \/ Ignore PROVE Inv'
<1> USE DEF Inv
<1>1. CASE ReadLine
  <2>1. taken' = taken + 1 /\ taken' \in 1 .. Len(wire)
    BY <1>1, Numbers DEF ReadLine
  <2>2. /\ pc = "read" /\ pc' \in {"read", "handle"}
        /\ UNCHANGED <<wire, arrives, eof, resp, replies, acts>>
    BY <1>1 DEF ReadLine, client
  <2>3. TypeOK'
    <3>1. line' \in Texts
      BY <1>1, <2>1, KeepsFacts DEF ReadLine
    <3> QED BY <2>1, <2>2, <3>1 DEF TypeOK
  <2>5. OncePerLine'
    BY <2>1, <2>2, Numbers DEF OncePerLine
  <2>6. ReportsMatchActs'
    BY <2>2 DEF ReportsMatchActs
  <2> QED BY <2>2, <2>3, <2>5, <2>6 DEF Pending
<1>2. CASE EndOfInput
  <2>1. /\ pc = "read" /\ pc' = "done"
        /\ UNCHANGED <<wire, arrives, eof, taken, line, resp, replies, acts>>
    BY <1>2 DEF EndOfInput, client
  <2> QED BY <2>1 DEF TypeOK, OncePerLine, ReportsMatchActs, Pending
<1>3. CASE Ignore
  <2>1. /\ pc = "handle" /\ pc' = "read"
        /\ UNCHANGED <<wire, arrives, eof, taken, line, resp, replies, acts>>
    BY <1>3 DEF Ignore, client
  <2>3. \A i \in 1 .. Len(acts) : acts[i].line < taken
    BY <2>1, Numbers DEF OncePerLine
  <2>4. OncePerLine'
    BY <2>1, Numbers DEF OncePerLine
  <2>5. ReportsMatchActs'
    BY <2>1, <2>3 DEF ReportsMatchActs
  <2> QED BY <2>1, <2>4, <2>5 DEF TypeOK, Pending
<1> QED BY <1>1, <1>2, <1>3

LEMMA InvHandle == ASSUME Inv, Inform \/ CallTool \/ NotFound PROVE Inv'
<1> USE DEF Inv
<1>1. /\ pc = "handle" /\ pc' = "reply"
      /\ UNCHANGED <<wire, arrives, eof, taken, line, replies>>
  BY DEF Inform, CallTool, NotFound, Answers, client
<1>4. \A i \in 1 .. Len(acts) : acts[i].line < taken
  BY <1>1, Numbers DEF OncePerLine
<1>5. CASE /\ UNCHANGED acts /\ resp' \in Answer
           /\ resp'.kind = "text" => resp'.err
           /\ resp'.kind = "doubt" => ~resp'.err
  <2>1. TypeOK'
    BY <1>1, <1>5 DEF TypeOK
  <2>2. OncePerLine'
    BY <1>1, Numbers, <1>4, <1>5 DEF OncePerLine
  <2>3. ReportsMatchActs'
    BY <1>1, <1>5 DEF ReportsMatchActs
  <2>4. Pending'
    BY <1>1, Numbers, <1>4, <1>5 DEF Pending
  <2> QED BY <2>1, <2>2, <2>3, <2>4
<1>6. ASSUME NEW o \in Outcomes, o.acts, resp' \in Answer, resp'.err = o.err,
             resp'.kind # "doubt",
             acts' = Append(acts, [line |-> taken, act |-> Asks, whole |-> o.whole])
      PROVE  Inv'
  <2>1. [line |-> taken, act |-> Asks, whole |-> o.whole] \in Act
    BY Numbers, OutcomeFacts, ReadIn DEF Act
  <2>2. /\ acts' \in Seq(Act) /\ Len(acts') = Len(acts) + 1
        /\ \A i \in 1 .. Len(acts) : acts'[i] = acts[i]
        /\ acts'[Len(acts) + 1] = [line |-> taken, act |-> Asks, whole |-> o.whole]
    BY <1>6, <2>1, AppendProperties DEF TypeOK
  <2>3. TypeOK'
    BY <1>1, <1>6, <2>2 DEF TypeOK
  <2>4. \A i \in 1 .. Len(acts') :
          \/ i \in 1 .. Len(acts) /\ acts'[i] = acts[i] /\ acts'[i].line < taken
          \/ i = Len(acts) + 1 /\ acts'[i].line = taken /\ acts'[i].whole = o.whole
    BY Numbers, <1>4, <2>2
  <2>5. OncePerLine'
    <3>1. \A i, j \in 1 .. Len(acts') : i < j => acts'[i].line < acts'[j].line
      <4> SUFFICES ASSUME NEW i \in 1 .. Len(acts'), NEW j \in 1 .. Len(acts'), i < j
                   PROVE  acts'[i].line < acts'[j].line
        OBVIOUS
      <4>1. i \in 1 .. Len(acts) /\ acts'[i] = acts[i] /\ acts'[i].line < taken
        BY <2>2, <2>4, Numbers
      <4>2. CASE j \in 1 .. Len(acts)
        BY <2>2, <4>1, <4>2 DEF OncePerLine
      <4>3. CASE j = Len(acts) + 1
        BY <2>2, <4>1, <4>3
      <4> QED BY <2>4, <4>2, <4>3
    <3>2. \A i \in 1 .. Len(acts') : acts'[i].line <= taken
      BY <2>4, Numbers
    <3> QED BY <1>1, <3>1, <3>2, Numbers DEF OncePerLine
  <2>6. ReportsMatchActs'
    <3>1. \A i \in 1 .. Len(acts') : acts'[i].line < taken =>
            i \in 1 .. Len(acts) /\ acts'[i] = acts[i]
      BY Numbers, <2>4
    <3>2. \A i \in 1 .. Len(acts) : i \in 1 .. Len(acts') /\ acts'[i] = acts[i]
      BY Numbers, <2>2
    <3>3. \A j \in 1 .. Len(replies) : replies[j].line < taken
      BY <1>1, Numbers DEF OncePerLine
    <3>4. \A j \in 1 .. Len(replies) : replies[j].kind = "doubt" =>
            ~replies[j].err /\ \A i \in 1 .. Len(acts') : acts'[i].line # replies[j].line
      <4> SUFFICES ASSUME NEW j \in 1 .. Len(replies), replies[j].kind = "doubt",
                          NEW i \in 1 .. Len(acts')
                   PROVE  ~replies[j].err /\ acts'[i].line # replies[j].line
        BY Numbers, <2>2
      <4>1. CASE i \in 1 .. Len(acts) /\ acts'[i] = acts[i]
        BY <4>1 DEF ReportsMatchActs
      <4>2. CASE acts'[i].line = taken
        BY <3>3, <4>2, Numbers DEF ReportsMatchActs
      <4> QED BY <2>4, <4>1, <4>2
    <3>5. replies' = replies /\ pc' # "read"
      BY <1>1
    <3> QED BY <1>1, <3>1, <3>2, <3>4, <3>5 DEF ReportsMatchActs
  <2>7. Pending'
    <3>1. resp'.err = ~o.whole
      BY <1>6, OutcomeFacts
    <3>2. Len(acts) + 1 \in 1 .. Len(acts')
      BY Numbers, <2>2
    <3>3. acts'[Len(acts) + 1].line = taken /\ acts'[Len(acts) + 1].whole = o.whole
      BY <2>2
    <3>4. \A i \in 1 .. Len(acts') : acts'[i].line = taken => acts'[i].whole = o.whole
      BY Numbers, <2>4
    <3>5. ~resp'.err => \E i \in 1 .. Len(acts') : acts'[i].line = taken /\ acts'[i].whole
      BY <3>1, <3>2, <3>3, OutcomeFacts
    <3>6. \A i \in 1 .. Len(acts') : acts'[i].line = taken => resp'.err = ~acts'[i].whole
      BY <3>1, <3>4
    <3>7. taken' = taken /\ resp'.kind # "doubt"
      BY <1>1, <1>6
    <3> QED BY <3>5, <3>6, <3>7 DEF Pending
  <2> QED BY <2>3, <2>5, <2>6, <2>7
<1>7. Id \in {Reading[x].id : x \in Texts}
  BY ReadIn
<1>8. CASE Inform
  BY <1>5, <1>7, <1>8 DEF Inform, Answers, Answer
<1>9. CASE NotFound
  BY <1>5, <1>7, <1>9 DEF NotFound, Answers, Answer
<1>10. CASE CallTool
  <2>1. PICK o \in Outcomes :
          /\ Answers(IF Encodes(o) THEN o.says ELSE "too large", o.err)
          /\ acts' = IF ~o.acts THEN acts
                     ELSE Append(acts, [line |-> taken, act |-> Asks, whole |-> o.whole])
    BY <1>10 DEF CallTool
  <2>2. /\ resp' \in Answer /\ resp'.err = o.err
        /\ resp'.kind \in {o.says, "too large"}
    BY <1>7, <2>1, OutcomeFacts DEF Answers, Answer
  <2>3. CASE o.acts
    <3>1. resp'.kind # "doubt"
      BY <2>2, <2>3, OutcomeFacts
    <3> QED BY <1>6, <2>1, <2>2, <2>3, <3>1
  <2>4. CASE ~o.acts
    BY <1>5, <2>1, <2>2, <2>4, OutcomeFacts
  <2> QED BY <2>3, <2>4
<1> QED BY <1>8, <1>9, <1>10

LEMMA InvReply == ASSUME Inv, Reply PROVE Inv'
<1> USE DEF Inv
<1> DEFINE r == [line |-> taken, id |-> resp.id, kind |-> resp.kind, err |-> resp.err]
<1>1. /\ pc = "reply" /\ pc' = "read" /\ replies' = Append(replies, r)
      /\ UNCHANGED <<wire, arrives, eof, taken, line, resp, acts>>
  BY DEF Reply, client
<1>4. TypeOK'
  <2>1. r \in Sent
    BY Numbers DEF TypeOK, Answer, Sent
  <2>2. replies' \in Seq(Sent)
    BY <1>1, <2>1, AppendProperties DEF TypeOK
  <2> QED BY <1>1, <2>2 DEF TypeOK
<1>5. /\ Len(replies') = Len(replies) + 1
      /\ \A i \in 1 .. Len(replies) : i \in 1 .. Len(replies') /\ replies'[i] = replies[i]
      /\ Len(replies) + 1 \in 1 .. Len(replies') /\ replies'[Len(replies) + 1] = r
  BY <1>1, Numbers, AppendProperties DEF TypeOK
<1>6. \A i \in 1 .. Len(replies') :
        \/ i \in 1 .. Len(replies) /\ replies'[i] = replies[i] /\ replies'[i].line < taken
        \/ i = Len(replies) + 1 /\ replies'[i].line = taken
  BY <1>1, Numbers, <1>5 DEF OncePerLine
<1>7. OncePerLine'
  BY <1>1, Numbers, <1>5, <1>6 DEF OncePerLine
<1>8. ReportsMatchActs'
  <2>1. ASSUME NEW i \in 1 .. Len(acts)
        PROVE  \E j \in 1 .. Len(replies') :
                 replies'[j].line = acts[i].line /\ replies'[j].err = ~acts[i].whole
    <3>1. CASE acts[i].line < taken
      BY <1>5, <3>1 DEF ReportsMatchActs
    <3>2. CASE acts[i].line = taken
      BY <1>1, <1>5, <3>2 DEF Pending
    <3> QED BY <1>1, Numbers, <3>1, <3>2 DEF OncePerLine
  <2>2. ASSUME NEW j \in 1 .. Len(replies'), replies'[j].kind = "text", ~replies'[j].err
        PROVE  \E i \in 1 .. Len(acts) : acts[i].line = replies'[j].line /\ acts[i].whole
    <3>1. CASE j \in 1 .. Len(replies)
      BY <1>5, <2>2, <3>1 DEF ReportsMatchActs
    <3>2. CASE j = Len(replies) + 1
      BY <1>1, <1>5, <2>2, <3>2 DEF Pending
    <3> QED BY <1>6, <3>1, <3>2
  <2>3. ASSUME NEW j \in 1 .. Len(replies'), replies'[j].kind = "doubt"
        PROVE  ~replies'[j].err /\ \A i \in 1 .. Len(acts) : acts[i].line # replies'[j].line
    <3>1. CASE j \in 1 .. Len(replies)
      BY <1>5, <2>3, <3>1 DEF ReportsMatchActs
    <3>2. CASE j = Len(replies) + 1
      BY <1>1, <1>5, <2>3, <3>2 DEF Pending
    <3> QED BY <1>6, <3>1, <3>2
  <2> QED BY <1>1, <2>1, <2>2, <2>3 DEF ReportsMatchActs
<1> QED BY <1>1, <1>4, <1>7, <1>8 DEF Pending

LEMMA InvAlways == Spec => []Inv
<1>1. ASSUME Inv, [Next]_vars PROVE Inv'
  <2>1. CASE UNCHANGED vars
    BY <1>1, <2>1 DEF vars, Inv, TypeOK, OncePerLine, ReportsMatchActs, Pending
  <2>2. CASE Client
    BY <1>1, <2>2, InvClient
  <2>3. CASE Server
    BY <1>1, <2>3, InvRead, InvHandle, InvReply DEF Server
  <2> QED BY <1>1, <2>1, <2>2, <2>3 DEF Next
<1> QED BY <1>1, InvInit, PTL DEF Spec

(* Every reachable state of the server has the types of TypeOK.             *)
THEOREM TypeCorrect == Spec => []TypeOK
BY InvAlways, PTL DEF Inv

(* run_server() and dispatch_tool_call(): at most one reply and one effect  *)
(* per line, in the order of the lines, the effect before the reply.        *)
THEOREM OnceEach == Spec => []OncePerLine
BY InvAlways, PTL DEF Inv

(* isError tells what the tool did, for every line the server has answered, *)
(* but for a command that was not started: its text alone says so.          *)
THEOREM ReportsTrue == Spec => []ReportsMatchActs
BY InvAlways, PTL DEF Inv

-----------------------------------------------------------------------------
(* The scanner: what it finds in a text that was cut is what it would find  *)
(* in the whole of it, or nothing.                                          *)

(* Numbers have no infinite descent.                                        *)
LEMMA NatOrder == IsWellFoundedOn({p \in Nat \X Nat : p[1] < p[2]}, Nat)
<1>1. {p \in Nat \X Nat : p[1] < p[2]} = OpToRel(<, Nat)
  BY DEF OpToRel
<1> QED BY <1>1, NatLessThanWellFounded

(* FirstOf(S) is the first of S.                                            *)
LEMMA FirstOfFacts ==
  ASSUME NEW S, S \subseteq Nat, S # {}
  PROVE  FirstOf(S) \in S /\ \A j \in S : FirstOf(S) <= j
<1> DEFINE R == {p \in Nat \X Nat : p[1] < p[2]}
<1>0. \A a, b \in Nat : a < b => <<a, b>> \in R
  OBVIOUS
<1> HIDE DEF R
<1>1. PICK x \in S : \A y \in S : ~(<<y, x>> \in R)
  BY NatOrder, WFMin DEF R
<1>2. \A y \in S : x <= y
  <2> SUFFICES ASSUME NEW y \in S PROVE ~(y < x)
    OBVIOUS
  <2>1. x \in Nat /\ y \in Nat
    OBVIOUS
  <2> QED BY <1>0, <1>1, <2>1
<1> QED BY <1>2 DEF FirstOf

(* c is what a buffer has of the text x.                                    *)
Prefix(c, x) ==
  /\ c \in Seq(Token) /\ x \in Seq(Token) /\ Len(c) <= Len(x)
  /\ \A i \in 1 .. Len(c) : c[i] = x[i]

(* A buffer keeps a prefix, or the whole of what fits it.                   *)
LEMMA CutFacts ==
  ASSUME NEW x \in Seq(Token), NEW n \in Nat
  PROVE  /\ Prefix(Cut(x, n), x) /\ Len(Cut(x, n)) <= n
         /\ Len(x) <= n => Cut(x, n) = x
         /\ Len(x) > n => Len(Cut(x, n)) = n
<1> DEFINE m == IF Len(x) < n THEN Len(x) ELSE n
<1>1. Len(x) \in Nat /\ m \in Nat /\ m <= Len(x) /\ m <= n
  OBVIOUS
<1>2. Len(x) <= n => m = Len(x)
  OBVIOUS
<1>3. Len(x) > n => m = n
  OBVIOUS
<1> HIDE DEF m
<1>4. /\ SubSeq(x, 1, m) \in Seq(Token) /\ Len(SubSeq(x, 1, m)) = m
      /\ \A i \in 1 .. m : SubSeq(x, 1, m)[i] = x[i]
  BY <1>1
<1>5. Cut(x, n) = SubSeq(x, 1, m)
  BY DEF Cut, m
<1>6. m = Len(x) => SubSeq(x, 1, m) = x
  BY <1>1, <1>4, SeqEqual
<1> QED BY <1>1, <1>2, <1>3, <1>4, <1>5, <1>6 DEF Prefix

(* Where a member named k stands, at any depth.                             *)
Keys(x, k) == {i \in 1 .. Len(x) : x[i] = [t |-> "key", v |-> k]}

(* find_key() stops behind the first such key, or at the end.               *)
LEMMA FindFacts ==
  ASSUME NEW x \in Seq(Token), NEW k
  PROVE  /\ FindKey(x, k) \in 1 .. Len(x) + 1
         /\ FindKey(x, k) <= Len(x) =>
              /\ FindKey(x, k) - 1 \in Keys(x, k)
              /\ \A j \in Keys(x, k) : FindKey(x, k) - 1 <= j
         /\ \A j \in Keys(x, k) : FindKey(x, k) <= j + 1
<1>1. Len(x) \in Nat /\ Keys(x, k) \subseteq 1 .. Len(x)
  BY DEF Keys
<1>2. CASE Keys(x, k) = {}
  <2>1. FindKey(x, k) = Len(x) + 1
    BY <1>2 DEF FindKey, Keys
  <2> QED BY <1>1, <1>2, <2>1
<1>3. CASE Keys(x, k) # {}
  <2>1. FindKey(x, k) = FirstOf(Keys(x, k)) + 1
    BY <1>3 DEF FindKey, Keys
  <2>2. FirstOf(Keys(x, k)) \in Keys(x, k) /\ \A j \in Keys(x, k) : FirstOf(Keys(x, k)) <= j
    BY <1>1, <1>3, FirstOfFacts
  <2> DEFINE f == FirstOf(Keys(x, k))
  <2>3. f \in 1 .. Len(x) /\ (f + 1) - 1 = f
    BY <1>1, <2>2
  <2> HIDE DEF f
  <2>4. \A j \in Keys(x, k) : f <= j /\ j \in Nat
    BY <1>1, <2>2 DEF f
  <2> QED BY <1>1, <2>1, <2>2, <2>3, <2>4 DEF f
<1> QED BY <1>2, <1>3

(* find_key() of a cut text: what it finds there it finds in the whole.     *)
LEMMA FindInPrefix ==
  ASSUME NEW c, NEW x, Prefix(c, x), NEW k, FindKey(c, k) <= Len(c)
  PROVE  FindKey(x, k) = FindKey(c, k)
<1>0. c \in Seq(Token) /\ x \in Seq(Token) /\ Len(c) \in Nat /\ Len(x) \in Nat
      /\ Len(c) <= Len(x)
  BY DEF Prefix
<1> DEFINE p == FindKey(c, k)
           q == FindKey(x, k)
<1>1. /\ p \in 1 .. Len(c) + 1 /\ p - 1 \in Keys(c, k)
      /\ \A j \in Keys(c, k) : p - 1 <= j
  BY <1>0, FindFacts
<1>2. /\ q \in 1 .. Len(x) + 1 /\ (q <= Len(x) => q - 1 \in Keys(x, k))
      /\ \A j \in Keys(x, k) : q <= j + 1
  BY <1>0, FindFacts
<1>3. \A j \in 1 .. Len(c) : j \in Keys(c, k) <=> j \in Keys(x, k)
  BY <1>0 DEF Keys, Prefix
<1> HIDE DEF p, q
<1>4. p - 1 \in 1 .. Len(c) /\ p - 1 \in Keys(x, k) /\ p <= Len(c)
  BY <1>0, <1>1, <1>3 DEF Keys, p
<1>5. q <= p /\ q - 1 \in Keys(x, k)
  BY <1>0, <1>1, <1>2, <1>4
<1>6. q - 1 \in 1 .. Len(c)
  <2>1. q - 1 \in 1 .. Len(x)
    BY <1>5 DEF Keys
  <2> QED BY <1>0, <1>1, <1>2, <1>4, <1>5, <2>1
<1>7. p - 1 <= q - 1
  BY <1>1, <1>3, <1>5, <1>6
<1> QED BY <1>1, <1>2, <1>5, <1>7 DEF p, q

(* Parts of a prefix that end in it are parts of the whole.                 *)
LEMMA SamePart ==
  ASSUME NEW c, NEW x, Prefix(c, x), NEW a \in Nat \ {0}, NEW b \in Int, b <= Len(c)
  PROVE  SubSeq(c, a, b) = SubSeq(x, a, b)
<1>0. c \in Seq(Token) /\ x \in Seq(Token) /\ Len(c) \in Nat /\ Len(x) \in Nat
      /\ Len(c) <= Len(x) /\ \A i \in 1 .. Len(c) : c[i] = x[i]
  BY DEF Prefix
<1>1. CASE b < a
  BY <1>1, SubSeqEmpty
<1>2. CASE a <= b
  <2>1. \A i \in a .. b : i \in 1 .. Len(c) /\ c[i] \in Token /\ x[i] = c[i]
    BY <1>0
  <2>2. /\ SubSeq(c, a, b) \in Seq(Token) /\ Len(SubSeq(c, a, b)) = b - a + 1
        /\ \A i \in 1 .. b - a + 1 : SubSeq(c, a, b)[i] = c[a + i - 1]
    BY <1>2, <2>1, SubSeqProperties
  <2>3. /\ SubSeq(x, a, b) \in Seq(Token) /\ Len(SubSeq(x, a, b)) = b - a + 1
        /\ \A i \in 1 .. b - a + 1 : SubSeq(x, a, b)[i] = x[a + i - 1]
    <3>1. \A i \in a .. b : x[i] \in Token
      BY <2>1
    <3> QED BY <1>2, <3>1, SubSeqProperties
  <2>4. \A i \in 1 .. b - a + 1 : c[a + i - 1] = x[a + i - 1]
    <3> SUFFICES ASSUME NEW i \in 1 .. b - a + 1 PROVE c[a + i - 1] = x[a + i - 1]
      OBVIOUS
    <3>1. a + i - 1 \in a .. b
      OBVIOUS
    <3> QED BY <2>1, <3>1
  <2> DEFINE s == SubSeq(c, a, b)
             t == SubSeq(x, a, b)
  <2>5. s \in Seq(Token) /\ t \in Seq(Token) /\ Len(s) = Len(t)
        /\ \A i \in 1 .. Len(s) : s[i] = t[i]
    BY <2>2, <2>3, <2>4
  <2> HIDE DEF s, t
  <2>6. s = t
    BY <2>5, SeqEqual
  <2> QED BY <2>6 DEF s, t
<1> QED BY <1>0, <1>1, <1>2

(* An object that a cut text holds to its closing brace is the same in the  *)
(* whole.                                                                   *)
LEMMA SpanInPrefix ==
  ASSUME NEW c, NEW x, Prefix(c, x), NEW p \in 1 .. Len(c)
  PROVE  SpanAt(c, p) = <<>> \/ SpanAt(c, p) = SpanAt(x, p)
<1>0. c \in Seq(Token) /\ x \in Seq(Token) /\ Len(c) \in Nat /\ Len(x) \in Nat
      /\ Len(c) <= Len(x) /\ p \in Nat \ {0} /\ p <= Len(c)
      /\ \A i \in 1 .. Len(c) : c[i] = x[i]
  BY DEF Prefix
<1> SUFFICES ASSUME Begins(c, p, "open"), Balanced(c, p) # {} PROVE SpanAt(c, p) = SpanAt(x, p)
  BY DEF SpanAt
<1>1. Begins(x, p, "open")
  BY <1>0 DEF Begins
<1>2. ASSUME NEW j \in p .. Len(c) PROVE j \in Balanced(c, p) <=> j \in Balanced(x, p)
  <2>1. p .. j \subseteq 1 .. Len(c)
    BY <1>0
  <2>2. Opens(c) \cap (p .. j) = Opens(x) \cap (p .. j)
    BY <1>0, <2>1 DEF Opens
  <2>3. Closes(c) \cap (p .. j) = Closes(x) \cap (p .. j)
    BY <1>0, <2>1 DEF Closes
  <2>4. j \in p .. Len(x)
    BY <1>0
  <2> QED BY <2>2, <2>3, <2>4 DEF Balanced
<1> DEFINE f == FirstOf(Balanced(c, p))
           g == FirstOf(Balanced(x, p))
<1>3. Balanced(c, p) \subseteq p .. Len(c) /\ Balanced(x, p) \subseteq p .. Len(x)
  BY DEF Balanced
<1>4. f \in Balanced(c, p) /\ \A j \in Balanced(c, p) : f <= j
  <2>1. Balanced(c, p) \subseteq Nat
    BY <1>0, <1>3
  <2> QED BY <2>1, FirstOfFacts
<1>5. Balanced(x, p) # {}
  BY <1>2, <1>3, <1>4
<1>6. g \in Balanced(x, p) /\ \A j \in Balanced(x, p) : g <= j
  <2>1. Balanced(x, p) \subseteq Nat
    BY <1>0, <1>3
  <2> QED BY <1>5, <2>1, FirstOfFacts
<1> HIDE DEF f, g
<1>7. f \in p .. Len(c) /\ g \in p .. Len(x)
  BY <1>3, <1>4, <1>6
<1>8. g <= f
  BY <1>2, <1>4, <1>6, <1>7
<1>9. g \in Balanced(c, p)
  <2>1. g \in p .. Len(c)
    BY <1>0, <1>7, <1>8
  <2> QED BY <1>2, <1>6, <2>1
<1>10. f = g
  BY <1>0, <1>4, <1>7, <1>8, <1>9
<1>11. SubSeq(c, p, f) = SubSeq(x, p, f)
  BY <1>0, <1>7, SamePart
<1> QED BY <1>1, <1>5, <1>10, <1>11 DEF SpanAt, f, g

(* get_raw_span() of a cut text: the whole object, or none.                 *)
LEMMA SpanOfPrefix ==
  ASSUME NEW c, NEW x, Prefix(c, x), NEW k
  PROVE  GetSpan(c, k) = <<>> \/ GetSpan(c, k) = GetSpan(x, k)
<1>0. c \in Seq(Token) /\ x \in Seq(Token)
  BY DEF Prefix
<1>1. FindKey(c, k) \in 1 .. Len(c) + 1
  BY <1>0, FindFacts
<1>2. CASE FindKey(c, k) <= Len(c)
  <2>1. FindKey(c, k) \in 1 .. Len(c)
    BY <1>1, <1>2
  <2> QED BY <1>2, <2>1, FindInPrefix, SpanInPrefix DEF GetSpan
<1>3. CASE ~(FindKey(c, k) <= Len(c))
  BY <1>3 DEF GetSpan, SpanAt, Begins
<1> QED BY <1>2, <1>3

(* A string of a cut text: a prefix of the one in the whole.                *)
LEMMA StringInPrefix ==
  ASSUME NEW c, NEW x, Prefix(c, x), NEW p \in 1 .. Len(c)
  PROVE  Prefix(StringAt(c, p), StringAt(x, p))
<1>0. c \in Seq(Token) /\ x \in Seq(Token) /\ Len(c) \in Nat /\ Len(x) \in Nat
      /\ Len(c) <= Len(x) /\ p \in Nat \ {0} /\ p <= Len(c)
      /\ \A i \in 1 .. Len(c) : c[i] = x[i]
  BY DEF Prefix
<1> DEFINE Q(y) == {i \in p + 1 .. Len(y) : y[i].t = "quote"}
           E(y) == IF Q(y) = {} THEN Len(y) ELSE FirstOf(Q(y)) - 1
<1>1. \A y : StringAt(y, p) = SubSeq(y, p + 1, E(y))
  BY DEF StringAt
<1>2. ASSUME NEW y \in Seq(Token), p <= Len(y)
      PROVE  /\ E(y) \in p .. Len(y)
             /\ Q(y) # {} => E(y) + 1 \in Q(y)
             /\ \A i \in Q(y) : E(y) + 1 <= i
  <2>1. Len(y) \in Nat /\ Q(y) \subseteq Nat
    BY <1>0
  <2>2. CASE Q(y) = {}
    BY <1>0, <1>2, <2>1, <2>2
  <2>3. CASE Q(y) # {}
    <3>1. FirstOf(Q(y)) \in Q(y) /\ \A j \in Q(y) : FirstOf(Q(y)) <= j
      BY <2>1, <2>3, FirstOfFacts
    <3>2. FirstOf(Q(y)) \in p + 1 .. Len(y)
      BY <3>1
    <3>3. E(y) = FirstOf(Q(y)) - 1
      BY <2>3
    <3> DEFINE f == FirstOf(Q(y))
    <3>4. f \in Nat /\ (f - 1) + 1 = f /\ f - 1 \in p .. Len(y)
      BY <1>0, <2>1, <3>2
    <3> HIDE DEF f, Q, E
    <3> QED BY <3>1, <3>3, <3>4 DEF f
  <2> QED BY <2>2, <2>3
<1>3. \A i \in 1 .. Len(c) : i \in Q(c) <=> i \in Q(x)
  BY <1>0
<1>4. Q(c) \subseteq p + 1 .. Len(c) /\ Q(x) \subseteq p + 1 .. Len(x)
  OBVIOUS
<1>5. Q(c) = {} => E(c) = Len(c)
  OBVIOUS
<1> HIDE DEF Q, E
<1>6. /\ E(c) \in p .. Len(c) /\ E(x) \in p .. Len(x)
      /\ Q(c) # {} => E(c) + 1 \in Q(c)
      /\ Q(x) # {} => E(x) + 1 \in Q(x)
      /\ \A i \in Q(c) : E(c) + 1 <= i
      /\ \A i \in Q(x) : E(x) + 1 <= i
  BY <1>0, <1>2
<1>7. E(c) <= E(x)
  <2> SUFFICES ASSUME E(x) < E(c) PROVE FALSE
    BY <1>0, <1>6
  <2>1. E(x) < Len(x) /\ E(x) + 1 \in 1 .. Len(c)
    BY <1>0, <1>6
  <2>2. Q(x) # {}
    <3>1. Q(x) = {} => E(x) = Len(x)
      BY DEF E
    <3> QED BY <1>0, <1>6, <2>1, <3>1
  <2>3. E(x) + 1 \in Q(c)
    BY <1>3, <1>6, <2>1, <2>2
  <2> QED BY <1>0, <1>6, <2>3
<1>8. SubSeq(c, p + 1, E(c)) = SubSeq(x, p + 1, E(c))
  BY <1>0, <1>6, SamePart
<1>9. /\ SubSeq(x, p + 1, E(c)) \in Seq(Token) /\ SubSeq(x, p + 1, E(x)) \in Seq(Token)
      /\ Len(SubSeq(x, p + 1, E(c))) = E(c) - p /\ Len(SubSeq(x, p + 1, E(x))) = E(x) - p
      /\ \A i \in 1 .. E(c) - p :
           SubSeq(x, p + 1, E(c))[i] = x[p + i] /\ SubSeq(x, p + 1, E(x))[i] = x[p + i]
  <2>1. ASSUME NEW e \in p .. Len(x)
        PROVE  /\ SubSeq(x, p + 1, e) \in Seq(Token) /\ Len(SubSeq(x, p + 1, e)) = e - p
               /\ \A i \in 1 .. e - p : SubSeq(x, p + 1, e)[i] = x[p + i]
    <3>1. \A i \in p + 1 .. e : x[i] \in Token
      BY <1>0
    <3>2. p + 1 \in Int /\ e \in Int /\ e - (p + 1) + 1 = e - p /\ e - p \in Nat
      BY <1>0
    <3>3. /\ SubSeq(x, p + 1, e) \in Seq(Token)
          /\ Len(SubSeq(x, p + 1, e)) = IF p + 1 <= e THEN e - (p + 1) + 1 ELSE 0
          /\ \A i \in 1 .. e - (p + 1) + 1 : SubSeq(x, p + 1, e)[i] = x[(p + 1) + i - 1]
      BY <3>1, <3>2, SubSeqProperties
    <3>4. \A i \in 1 .. e - p : (p + 1) + i - 1 = p + i
      BY <1>0
    <3>5. ~(p + 1 <= e) => e - p = 0
      BY <1>0
    <3> QED BY <3>2, <3>3, <3>4, <3>5
  <2>2. E(c) \in p .. Len(x) /\ E(x) \in p .. Len(x)
    BY <1>0, <1>6
  <2> QED BY <1>0, <1>6, <1>7, <2>1, <2>2
<1> DEFINE s == StringAt(c, p)
           u == StringAt(x, p)
<1>10. /\ s \in Seq(Token) /\ u \in Seq(Token) /\ Len(s) = E(c) - p /\ Len(u) = E(x) - p
       /\ \A i \in 1 .. E(c) - p : s[i] = u[i]
  BY <1>1, <1>8, <1>9
<1> HIDE DEF s, u
<1>11. Len(s) <= Len(u)
  BY <1>0, <1>6, <1>7, <1>10
<1>12. \A i \in 1 .. Len(s) : s[i] = u[i]
  BY <1>10
<1> QED BY <1>10, <1>11, <1>12 DEF Prefix, s, u

(* Where no such key stands deeper before it, the scanner finds the member. *)
LEMMA FindIsTop ==
  ASSUME NEW x \in Seq(Token), NEW k, FoundAtTop(x, k)
  PROVE  TopKey(x, k) = FindKey(x, k)
<1> DEFINE S == {i \in 1 .. Len(x) : x[i] = [t |-> "key", v |-> k] /\ Depth(x, i) = 1}
<1>0. Len(x) \in Nat /\ S \subseteq Keys(x, k) /\ Keys(x, k) \subseteq 1 .. Len(x)
  BY DEF Keys
<1>1. \A i \in Keys(x, k) : \E j \in S : j <= i
  <2> SUFFICES ASSUME NEW i \in Keys(x, k) PROVE \E j \in S : j <= i
    OBVIOUS
  <2>1. PICK j \in 1 .. i : x[j] = [t |-> "key", v |-> k] /\ Depth(x, j) = 1
    BY DEF FoundAtTop, Keys
  <2>2. j \in 1 .. Len(x) /\ j <= i
    BY <1>0
  <2> QED BY <2>1, <2>2
<1>2. TopKey(x, k) = IF S = {} THEN Len(x) + 1 ELSE FirstOf(S) + 1
  BY DEF TopKey
<1>3. FindKey(x, k) = IF Keys(x, k) = {} THEN Len(x) + 1 ELSE FirstOf(Keys(x, k)) + 1
  BY DEF FindKey, Keys
<1> HIDE DEF S
<1>4. CASE Keys(x, k) = {}
  BY <1>0, <1>2, <1>3, <1>4
<1>5. CASE Keys(x, k) # {}
  <2>1. S # {}
    BY <1>1, <1>5
  <2>2. FirstOf(S) \in S /\ \A j \in S : FirstOf(S) <= j
    <3>1. S \subseteq Nat
      BY <1>0
    <3> QED BY <2>1, <3>1, FirstOfFacts
  <2>3. FirstOf(Keys(x, k)) \in Keys(x, k)
        /\ \A j \in Keys(x, k) : FirstOf(Keys(x, k)) <= j
    <3>1. Keys(x, k) \subseteq Nat
      BY <1>0
    <3> QED BY <1>5, <3>1, FirstOfFacts
  <2> DEFINE a == FirstOf(S)
             b == FirstOf(Keys(x, k))
  <2>4. a \in Nat /\ b \in Nat /\ b <= a
    BY <1>0, <2>2, <2>3
  <2>5. a <= b
    <3>1. PICK j \in S : j <= b
      BY <1>1, <2>3
    <3>2. a <= j /\ j \in Nat
      BY <1>0, <2>2
    <3> HIDE DEF a, b
    <3> QED BY <2>4, <3>1, <3>2
  <2>6. a = b
    <3> HIDE DEF a, b
    <3> QED BY <2>4, <2>5
  <2> QED BY <1>2, <1>3, <1>5, <2>1, <2>6
<1> QED BY <1>4, <1>5

(* get_raw_span() yields a text.                                            *)
LEMMA SpanTyped ==
  ASSUME NEW x \in Seq(Token), NEW p \in Nat \ {0}
  PROVE  SpanAt(x, p) \in Seq(Token)
<1>1. CASE Begins(x, p, "open") /\ Balanced(x, p) # {}
  <2>0. Len(x) \in Nat
    OBVIOUS
  <2>1. Balanced(x, p) \subseteq p .. Len(x)
    BY DEF Balanced
  <2>2. Balanced(x, p) \subseteq Nat
    BY <2>0, <2>1
  <2>3. FirstOf(Balanced(x, p)) \in Balanced(x, p)
    BY <1>1, <2>2, FirstOfFacts
  <2> DEFINE f == FirstOf(Balanced(x, p))
  <2>4. f \in p .. Len(x)
    BY <2>1, <2>3
  <2> HIDE DEF f
  <2>5. \A i \in p .. f : x[i] \in Token
    BY <2>0, <2>4
  <2>6. SubSeq(x, p, f) \in Seq(Token)
    BY <2>4, <2>5, SubSeqProperties
  <2> QED BY <1>1, <2>6 DEF SpanAt, f
<1>2. CASE ~(Begins(x, p, "open") /\ Balanced(x, p) # {})
  BY <1>2 DEF SpanAt
<1> QED BY <1>1, <1>2

(* Nothing need be cut.                                                     *)
LEMMA PrefixSelf == ASSUME NEW x \in Seq(Token) PROVE Prefix(x, x)
BY DEF Prefix

(* Of a value that stands at its place its tool takes what fits.            *)
LEMMA ValueTaken ==
  ASSUME NEW x \in Seq(Token), NEW k, FoundAtTop(x, k)
  PROVE  GetString(x, k) = Taken(x, k)
<1> DEFINE p == FindKey(x, k)
<1>1. TopKey(x, k) = p
  BY FindIsTop
<1> HIDE DEF p
<1>2. CASE Begins(x, p, "quote")
  BY <1>1, <1>2 DEF GetString, HasString, Value, Taken, p
<1>3. CASE ~Begins(x, p, "quote")
  <2>1. <<>> \in Seq(Token) /\ Len(<<>>) <= ValueBuf /\ ValueBuf \in Nat
    BY SizesAssumption
  <2>2. Cut(<<>>, ValueBuf) = <<>>
    BY <2>1, CutFacts
  <2> QED BY <1>1, <1>3, <2>2 DEF GetString, HasString, Value, Taken, p
<1> QED BY <1>2, <1>3

(* A name of one piece that is read out of a cut text is the whole name.    *)
LEMMA NameOfPrefix ==
  ASSUME NEW c, NEW x, Prefix(c, x), NEW k, FoundAtTop(x, k), Len(Value(x, k)) <= 1,
         Len(GetString(c, k)) = 1
  PROVE  GetString(c, k) = Value(x, k)
<1> DEFINE p == FindKey(c, k)
<1>0. c \in Seq(Token) /\ x \in Seq(Token) /\ Len(c) \in Nat /\ Len(x) \in Nat
      /\ Len(c) <= Len(x)
  BY DEF Prefix
<1>1. p \in 1 .. Len(c) + 1
  BY <1>0, FindFacts
<1>2. Begins(c, p, "quote")
  BY DEF GetString, HasString
<1>3. p \in 1 .. Len(c)
  BY <1>1, <1>2 DEF Begins
<1>4. TopKey(x, k) = p
  BY <1>0, <1>3, FindInPrefix, FindIsTop
<1> HIDE DEF p
<1>5. Begins(x, p, "quote")
  BY <1>0, <1>2, <1>3 DEF Begins, Prefix
<1> DEFINE s == StringAt(c, p)
           u == StringAt(x, p)
<1>6. Prefix(s, u)
  BY <1>3, StringInPrefix
<1>7. Value(x, k) = u /\ GetString(c, k) = Cut(s, ValueBuf)
  BY <1>2, <1>4, <1>5 DEF Value, GetString, HasString, p
<1> HIDE DEF s, u
<1>8. Prefix(Cut(s, ValueBuf), s)
  BY <1>6, CutFacts, SizesAssumption DEF Prefix
<1> DEFINE g == Cut(s, ValueBuf)
<1>9. /\ g \in Seq(Token) /\ u \in Seq(Token) /\ Len(g) = 1 /\ Len(u) <= 1
      /\ Len(g) <= Len(s) /\ Len(s) <= Len(u)
      /\ Len(g) \in Nat /\ Len(s) \in Nat /\ Len(u) \in Nat
      /\ \A i \in 1 .. Len(g) : g[i] = s[i]
      /\ \A i \in 1 .. Len(s) : s[i] = u[i]
  BY <1>6, <1>7, <1>8 DEF Prefix
<1> HIDE DEF g
<1>10. Len(u) = 1 /\ Len(s) = 1 /\ g[1] = u[1]
  BY <1>9
<1>11. g = u
  <2>1. \A i \in 1 .. Len(g) : g[i] = u[i]
    BY <1>9, <1>10
  <2> QED BY <1>9, <1>10, <2>1, SeqEqual
<1> QED BY <1>7, <1>11 DEF g

(* get_raw_token(): an id that stands whole in a cut text, and fits its     *)
(* buffer, is read as it is; where there is none, none is read.             *)
LEMMA IdOfPrefix ==
  ASSUME NEW x \in Seq(Token), NEW n \in Nat, NEW k, FoundAtTop(x, k),
         Len(TokenAt(x, TopKey(x, k))) <= IdBuf,
         TokenAt(x, TopKey(x, k)) # <<>> =>
           TopKey(x, k) + Len(TokenAt(x, TopKey(x, k))) <= n + 1
  PROVE  GetToken(Cut(x, n), k) = TokenAt(x, TopKey(x, k))
<1> DEFINE c == Cut(x, n)
           p == FindKey(x, k)
           id == TokenAt(x, p)
           Q(y) == {i \in p + 1 .. Len(y) : y[i].t = "quote"}
<1>0. Prefix(c, x) /\ c \in Seq(Token) /\ (Len(x) <= n => c = x)
      /\ (Len(x) > n => Len(c) = n)
      /\ Len(c) \in Nat /\ Len(x) \in Nat /\ Len(c) <= Len(x)
      /\ \A i \in 1 .. Len(c) : c[i] = x[i]
  <2>1. Prefix(c, x) /\ (Len(x) <= n => c = x) /\ (Len(x) > n => Len(c) = n)
    BY CutFacts
  <2> HIDE DEF c
  <2> QED BY <2>1 DEF Prefix
<1>1. TopKey(x, k) = p /\ p \in 1 .. Len(x) + 1
      /\ (p <= Len(x) => p - 1 \in Keys(x, k))
  BY FindIsTop, FindFacts
<1>2. IdBuf \in Nat
  BY SizesAssumption
<1> HIDE DEF c
<1>3. CASE p > Len(x)
  <2>1. id = <<>>
    BY <1>0, <1>1, <1>3 DEF TokenAt
  <2>2. FindKey(c, k) > Len(c)
    <3>1. FindKey(c, k) \in 1 .. Len(c) + 1
      BY <1>0, FindFacts
    <3>2. ASSUME FindKey(c, k) <= Len(c) PROVE FALSE
      BY <1>0, <1>3, <3>1, <3>2, FindInPrefix
    <3> QED BY <1>0, <3>1, <3>2
  <2>3. TokenAt(c, FindKey(c, k)) = <<>>
    <3>1. FindKey(c, k) \in 1 .. Len(c) + 1
      BY <1>0, FindFacts
    <3> QED BY <1>0, <2>2, <3>1 DEF TokenAt
  <2>4. Cut(<<>>, IdBuf) = <<>>
    <3>1. <<>> \in Seq(Token) /\ Len(<<>>) <= IdBuf
      BY <1>2
    <3> QED BY <1>2, <3>1, CutFacts
  <2> QED BY <1>1, <2>1, <2>3, <2>4 DEF GetToken, c
<1>4. CASE p <= Len(x)
  <2>0. p \in 1 .. Len(x)
    BY <1>1, <1>4
  <2>1. ASSUME p <= Len(c) PROVE FindKey(c, k) = p
    <3>1. p - 1 \in Keys(c, k)
      <4>1. p - 1 \in 1 .. Len(c)
        BY <1>1, <1>4, <2>1 DEF Keys
      <4> QED BY <1>0, <1>1, <1>4, <4>1 DEF Keys
    <3>2. FindKey(c, k) <= (p - 1) + 1 /\ FindKey(c, k) \in 1 .. Len(c) + 1
      BY <1>0, <3>1, FindFacts
    <3>3. FindKey(c, k) <= Len(c)
      BY <1>0, <2>0, <2>1, <3>2
    <3> QED BY <1>0, <3>3, FindInPrefix
  <2>2. CASE x[p].t # "quote"
    <3>1. id = <<x[p]>>
      BY <1>4, <2>2 DEF TokenAt
    <3>2. id \in Seq(Token) /\ Len(id) = 1
      BY <2>0, <3>1
    <3>3. p \in 1 .. Len(c)
      <4>1. id # <<>> /\ p + 1 <= n + 1
        <5>1. id # <<>>
          BY <3>2
        <5>2. id # <<>> => p + Len(id) <= n + 1
          BY <1>1
        <5> QED BY <3>2, <5>1, <5>2
      <4> HIDE DEF p, id
      <4> QED BY <1>0, <2>0, <4>1
    <3>4. TokenAt(c, p) = id
      <4>1. c[p] = x[p] /\ ~(p > Len(c)) /\ p <= Len(c)
        BY <1>0, <3>3
      <4> QED BY <2>2, <3>1, <4>1 DEF TokenAt
    <3>5. Cut(id, IdBuf) = id
      BY <1>1, <1>2, <3>2, CutFacts
    <3> QED BY <1>1, <2>1, <3>3, <3>4, <3>5 DEF GetToken, c
  <2>3. CASE x[p].t = "quote"
    <3> DEFINE e == IF Q(x) = {} THEN Len(x) ELSE FirstOf(Q(x))
    <3>1. id = SubSeq(x, p, e)
      <4>1. ~(p > Len(x)) /\ ~(p <= Len(x) /\ x[p].t # "quote")
        BY <1>0, <2>0, <2>3
      <4>2. id = CASE p > Len(x) -> <<>>
                   [] p <= Len(x) /\ x[p].t # "quote" -> <<x[p]>>
                   [] OTHER -> SubSeq(x, p, e)
        BY DEF TokenAt
      <4> HIDE DEF p, id, e
      <4> QED BY <4>1, <4>2
    <3>2. /\ e \in p .. Len(x) /\ (Q(x) # {} => e \in Q(x))
          /\ \A i \in Q(x) : e <= i
      <4>1. CASE Q(x) = {}
        BY <2>0, <4>1
      <4>2. CASE Q(x) # {}
        <5>1. Q(x) \subseteq Nat
          BY <2>0
        <5>2. FirstOf(Q(x)) \in Q(x) /\ \A i \in Q(x) : FirstOf(Q(x)) <= i
          BY <4>2, <5>1, FirstOfFacts
        <5>3. e = FirstOf(Q(x))
          BY <4>2
        <5>4. FirstOf(Q(x)) \in p + 1 .. Len(x)
          BY <5>2
        <5> HIDE DEF e, Q
        <5> QED BY <2>0, <5>2, <5>3, <5>4
      <4> QED BY <4>1, <4>2
    <3>a. Q(x) = {} => e = Len(x)
      OBVIOUS
    <3>b. \A i \in Nat : i \in Q(c) <=> i \in Q(x) /\ i <= Len(c)
      BY <1>0, <2>0
    <3>c. Q(c) \subseteq Nat /\ Q(x) \subseteq Nat
      BY <2>0
    <3> HIDE DEF e, Q
    <3>3. id \in Seq(Token) /\ Len(id) = e - p + 1
      <4>1. \A i \in p .. e : x[i] \in Token
        BY <2>0, <3>2
      <4>2. p \in Int /\ e \in Int /\ p <= e
        BY <2>0, <3>2
      <4> HIDE DEF p
      <4> QED BY <3>1, <4>1, <4>2, SubSeqProperties
    <3>4. p + (e - p + 1) <= n + 1
      <4>1. id # <<>>
        BY <2>0, <3>2, <3>3
      <4> QED BY <1>1, <3>3, <4>1
    <3>5. e <= n /\ e <= Len(c) /\ p \in 1 .. Len(c)
      BY <1>0, <2>0, <3>2, <3>4
    <3>6. TokenAt(c, p) = SubSeq(c, p, IF Q(c) = {} THEN Len(c) ELSE FirstOf(Q(c)))
      <4>1. c[p] = x[p] /\ ~(p > Len(c)) /\ p <= Len(c)
        BY <1>0, <3>5
      <4> QED BY <2>3, <4>1 DEF TokenAt, Q
    <3>7. (IF Q(c) = {} THEN Len(c) ELSE FirstOf(Q(c))) = e
      <4>1. CASE Q(x) = {}
        <5>1. Q(c) = {} /\ e = Len(x) /\ Len(c) = Len(x)
          BY <1>0, <3>2, <3>5, <3>a, <3>b, <3>c, <4>1
        <5> QED BY <5>1
      <4>2. CASE Q(x) # {}
        <5>1. e \in Q(c)
          BY <3>2, <3>5, <3>b, <3>c, <4>2
        <5>2. FirstOf(Q(c)) \in Q(c) /\ \A i \in Q(c) : FirstOf(Q(c)) <= i
          BY <3>c, <5>1, FirstOfFacts
        <5>3. FirstOf(Q(c)) <= e /\ e <= FirstOf(Q(c)) /\ FirstOf(Q(c)) \in Nat
          BY <3>2, <3>b, <3>c, <5>1, <5>2
        <5> QED BY <3>2, <5>1, <5>3
      <4> QED BY <4>1, <4>2
    <3>8. TokenAt(c, p) = id
      <4>1. SubSeq(c, p, e) = SubSeq(x, p, e)
        <5>1. p \in Nat \ {0} /\ e \in Int /\ e <= Len(c)
          BY <2>0, <3>2, <3>5
        <5> HIDE DEF p
        <5> QED BY <1>0, <5>1, SamePart
      <4> QED BY <3>1, <3>6, <3>7, <4>1
    <3>9. Cut(id, IdBuf) = id
      BY <1>1, <1>2, <3>3, CutFacts
    <3> QED BY <1>1, <2>1, <3>5, <3>8, <3>9 DEF GetToken, c
  <2> QED BY <2>2, <2>3
<1> QED BY <1>0, <1>1, <1>3, <1>4

(* What handle_request() reads in a plain line, cut anywhere by the end of  *)
(* the input or by line[], and again by params[] and args[]: what the line  *)
(* asks, or nothing that a tool would act upon; and the id of a line that   *)
(* arrived.                                                                 *)
LEMMA ReadingFacts ==
  ASSUME NEW x \in Lines, PlainLine(x), NEW n \in 0 .. LineBuf - 1
  PROVE  /\ Cut(x, n) \in Texts
         /\ ~Reading[Cut(x, n)].refused => Reading[Cut(x, n)].act = Meaning[x].act
         /\ Reading[Cut(x, LineBuf - 1)].id = Meaning[x].id
<1>0. x \in Seq(Token) /\ LineBuf - 1 \in Nat /\ n \in Nat
      /\ LineBuf - 1 \in 0 .. LineBuf - 1
      /\ ParamBuf - 1 \in Nat /\ ArgBuf - 1 \in Nat
  BY LinesAssumption, SizesAssumption
<1>1. Cut(x, n) \in Texts /\ Cut(x, LineBuf - 1) \in Texts
  BY <1>0 DEF Texts
<1> DEFINE id == TokenAt(x, TopKey(x, "id"))
           P == Member(x, "params")
           A == Member(P, "arguments")
           tool == Value(P, "name")
<1>2. Reading[Cut(x, LineBuf - 1)].id = Meaning[x].id
  <2>1. FoundAtTop(x, "id") /\ Len(id) <= IdBuf
        /\ (id # <<>> => TopKey(x, "id") + Len(id) <= (LineBuf - 1) + 1)
    <3>1. FoundAtTop(x, "id") /\ Len(id) <= IdBuf
          /\ (id # <<>> => TopKey(x, "id") + Len(id) <= LineBuf)
      BY DEF PlainLine
    <3>2. (LineBuf - 1) + 1 = LineBuf
      BY SizesAssumption
    <3> QED BY <3>1, <3>2
  <2> HIDE DEF id
  <2>2. GetToken(Cut(x, LineBuf - 1), "id") = TokenAt(x, TopKey(x, "id"))
    BY <1>0, <2>1, IdOfPrefix DEF id
  <2> QED BY <1>1, <2>2 DEF Reading, Meaning
<1>3. ASSUME ~Reading[Cut(x, n)].refused PROVE Reading[Cut(x, n)].act = Meaning[x].act
  <2> DEFINE c == Cut(x, n)
             Pc == Cut(GetSpan(c, "params"), ParamBuf - 1)
             Ac == Cut(GetSpan(Pc, "arguments"), ArgBuf - 1)
             tc == GetString(Pc, "name")
  <2>1. /\ Required(tc) # "none" /\ HasString(Ac, Required(tc))
        /\ Reading[c].act = [tool |-> tc, arg |-> GetString(Ac, Required(tc)),
             text |-> IF tc = Is("write_file") THEN GetString(Ac, "text") ELSE <<>>]
    BY <1>1, <1>3 DEF Reading
  <2>2. Meaning[x].act = [tool |-> tool,
          arg |-> Taken(A, IF tool = Is("run_command") THEN "cmd" ELSE "path"),
          text |-> IF tool = Is("write_file") THEN Taken(A, "text") ELSE <<>>]
    BY DEF Meaning
  <2>3. Prefix(c, x)
    BY <1>0, CutFacts
  <2>4. /\ FoundAtTop(x, "params") /\ FoundAtTop(P, "arguments") /\ FoundAtTop(P, "name")
        /\ \A k \in {"path", "cmd", "text"} : FoundAtTop(A, k)
        /\ Len(A) < ArgBuf /\ Len(tool) <= 1
    BY DEF PlainLine
  <2>e. \A m \in Nat : Cut(<<>>, m) = <<>>
    <3> SUFFICES ASSUME NEW m \in Nat PROVE Cut(<<>>, m) = <<>>
      OBVIOUS
    <3>1. <<>> \in Seq(Token) /\ Len(<<>>) <= m
      OBVIOUS
    <3> QED BY <3>1, CutFacts
  <2>n. \A k : ~HasString(<<>>, k)
    <3> SUFFICES ASSUME NEW k PROVE ~HasString(<<>>, k)
      OBVIOUS
    <3>1. <<>> \in Seq(Token) /\ Len(<<>>) = 0
      OBVIOUS
    <3>2. FindKey(<<>>, k) \in 1 .. Len(<<>>) + 1
      BY <3>1, FindFacts
    <3> QED BY <3>1, <3>2 DEF HasString, Begins
  <2>5. P = GetSpan(x, "params") /\ P \in Seq(Token)
    <3>1. TopKey(x, "params") = FindKey(x, "params")
          /\ FindKey(x, "params") \in Nat \ {0}
      BY <1>0, <2>4, FindIsTop, FindFacts
    <3> QED BY <1>0, <3>1, SpanTyped DEF Member, GetSpan
  <2> HIDE DEF P
  <2>6. A = GetSpan(P, "arguments") /\ A \in Seq(Token)
    <3>1. TopKey(P, "arguments") = FindKey(P, "arguments")
          /\ FindKey(P, "arguments") \in Nat \ {0}
      BY <2>4, <2>5, FindIsTop, FindFacts
    <3> QED BY <2>5, <3>1, SpanTyped DEF Member, GetSpan
  <2> HIDE DEF A, tool, c
  <2>7. tc # <<>> /\ Len(tc) = 1
    <3>1. tc \in {Is("read_file"), Is("write_file"), Is("run_command")}
      BY <2>1 DEF Required
    <3> HIDE DEF tc
    <3> QED BY <3>1 DEF Is
  <2>8. GetSpan(c, "params") = P
    <3>1. GetSpan(c, "params") = <<>> \/ GetSpan(c, "params") = P
      BY <2>3, <2>5, SpanOfPrefix
    <3>2. ASSUME GetSpan(c, "params") = <<>> PROVE FALSE
      <4>1. Pc = <<>>
        BY <1>0, <2>e, <3>2
      <4>2. tc = <<>>
        BY <2>n, <4>1 DEF GetString
      <4> QED BY <2>7, <4>2
    <3> QED BY <3>1, <3>2
  <2>9. Prefix(Pc, P)
    BY <1>0, <2>5, <2>8, CutFacts
  <2> HIDE DEF Pc
  <2>10. tc = tool
    BY <2>4, <2>7, <2>9, NameOfPrefix DEF tool
  <2> HIDE DEF tc
  <2>11. Ac = A
    <3>1. GetSpan(Pc, "arguments") = <<>> \/ GetSpan(Pc, "arguments") = A
      BY <2>6, <2>9, SpanOfPrefix
    <3>2. ASSUME GetSpan(Pc, "arguments") = <<>> PROVE FALSE
      <4>1. Ac = <<>>
        BY <1>0, <2>e, <3>2
      <4> QED BY <2>1, <2>n, <4>1
    <3>3. Cut(A, ArgBuf - 1) = A
      <4>1. Len(A) <= ArgBuf - 1
        BY <2>4, <2>6, SizesAssumption
      <4> QED BY <1>0, <2>6, <4>1, CutFacts
    <3> QED BY <3>1, <3>2, <3>3
  <2> HIDE DEF Ac
  <2>12. \A k \in {"path", "cmd", "text"} : GetString(A, k) = Taken(A, k)
    BY <2>4, <2>6, ValueTaken
  <2>13. Required(tc) = (IF tool = Is("run_command") THEN "cmd" ELSE "path")
    <3>1. Is("run_command") # Is("read_file") /\ Is("run_command") # Is("write_file")
      BY DEF Is
    <3>2. tc \in {Is("read_file"), Is("write_file"), Is("run_command")}
      BY <2>1 DEF Required
    <3> QED BY <2>10, <3>1, <3>2 DEF Required
  <2>14. GetString(Ac, Required(tc)) = Taken(A, IF tool = Is("run_command") THEN "cmd" ELSE "path")
    BY <2>11, <2>12, <2>13
  <2>15. GetString(Ac, "text") = Taken(A, "text")
    BY <2>11, <2>12
  <2> QED BY <2>1, <2>2, <2>10, <2>14, <2>15 DEF c
<1> QED BY <1>1, <1>2, <1>3

-----------------------------------------------------------------------------
(* The contract, for lines whose meaning the scanner can find.              *)

(* What the server holds between two lines is read out of the line it is at *)
(* and, if that line arrived, of as much of it as line[] takes; the reply   *)
(* under way then carries that line's id.                                   *)
Link ==
  /\ ~eof /\ Len(wire) > 0 => arrives = Len(wire[Len(wire)])
  /\ \A i \in 1 .. Len(replies) : replies[i].line >= 1
  /\ pc \in {"handle", "reply"} =>
       /\ taken >= 1
       /\ \E n \in 0 .. LineBuf - 1 : line = Cut(wire[taken], n)
       /\ Arrived(taken) => line = Cut(wire[taken], LineBuf - 1)
  /\ pc = "reply" /\ Arrived(taken) =>
       resp.id = Meaning[wire[taken]].id /\ resp.id # <<>>

(* The lines that were written are lines; they arrive until the client      *)
(* hangs up, and all but the last do so even then.                          *)
LEMMA WireFacts ==
  ASSUME TypeOK
  PROVE  /\ \A n \in 1 .. Len(wire) : wire[n] \in Lines /\ wire[n] \in Seq(Token)
         /\ LineBuf \in Nat \ {0} /\ arrives \in Nat
         /\ \A n \in 1 .. Len(wire) : ~Arrived(n) => n = Len(wire)
<1>1. \A n \in 1 .. Len(wire) : wire[n] \in Lines
  BY ElementOfSeq DEF TypeOK
<1>2. \A n \in 1 .. Len(wire) : ~Arrived(n) => n = Len(wire)
  BY Numbers DEF Arrived
<1> QED BY <1>1, <1>2, LinesAssumption, SizesAssumption DEF TypeOK

(* read_line(): of a line that arrived, line[] keeps what it can hold.      *)
LEMMA KeptFacts ==
  ASSUME TypeOK, NEW n \in 1 .. Len(wire)
  PROVE  /\ Keeps(n) \in 0 .. LineBuf - 1
         /\ Arrived(n) => Cut(wire[n], Keeps(n)) = Cut(wire[n], LineBuf - 1)
<1>1. LineBuf \in Nat \ {0} /\ arrives \in Nat /\ wire[n] \in Seq(Token)
  BY WireFacts
<1>2. Keeps(n) \in 0 .. LineBuf - 1
  <2>1. PICK a \in Nat, b \in Nat \ {0} : a = arrives /\ b = LineBuf
    BY <1>1
  <2>2. (IF n = Len(wire) /\ a < b THEN a ELSE b - 1) \in 0 .. b - 1
    BY <2>1
  <2> QED BY <2>1, <2>2 DEF Keeps
<1>3. ASSUME Arrived(n) PROVE Cut(wire[n], Keeps(n)) = Cut(wire[n], LineBuf - 1)
  <2>1. CASE n = Len(wire) /\ arrives < LineBuf
    <3>1. arrives = Len(wire[n])
      BY <1>3, <2>1, Numbers DEF Arrived
    <3>2. Keeps(n) = Len(wire[n])
      BY <2>1, <3>1 DEF Keeps
    <3>3. Len(wire[n]) <= Len(wire[n]) /\ Len(wire[n]) <= LineBuf - 1 /\ LineBuf - 1 \in Nat
          /\ Len(wire[n]) \in Nat
      BY <1>1, <2>1, <3>1
    <3> QED BY <1>1, <3>2, <3>3, CutFacts
  <2>2. CASE ~(n = Len(wire) /\ arrives < LineBuf)
    BY <2>2 DEF Keeps
  <2> QED BY <2>1, <2>2
<1> QED BY <1>2, <1>3

(* What handle_request() reads out of line[].                               *)
LEMMA HandleFacts ==
  ASSUME \A x \in Lines : PlainLine(x),
         TypeOK, Link, pc \in {"handle", "reply"}
  PROVE  /\ taken \in 1 .. Len(wire) /\ wire[taken] \in Lines
         /\ ~Reading[line].refused => Asks = Meaning[wire[taken]].act
         /\ Arrived(taken) => Id = Meaning[wire[taken]].id
         /\ Arrived(taken) /\ Notifies => Id = <<>>
         /\ Arrived(taken) /\ Method \in Known \cup {Is("tools/call")} => Id # <<>>
<1>1. taken \in 1 .. Len(wire) /\ taken >= 1
  BY Numbers DEF Link
<1> DEFINE x == wire[taken]
<1>2. x \in Lines /\ PlainLine(x) /\ LineBuf - 1 \in 0 .. LineBuf - 1
  BY <1>1, WireFacts
<1>3. PICK n \in 0 .. LineBuf - 1 : line = Cut(x, n)
  BY DEF Link
<1>4. Arrived(taken) => line = Cut(x, LineBuf - 1)
  BY DEF Link
<1> HIDE DEF x
<1>5. ~Reading[line].refused => Asks = Meaning[x].act
  BY <1>2, <1>3, ReadingFacts DEF Asks
<1>6. Arrived(taken) => Id = Meaning[x].id
  BY <1>2, <1>4, ReadingFacts DEF Id
<1>7. ASSUME Arrived(taken)
      PROVE  /\ Notifies => Id = <<>>
             /\ Method \in Known \cup {Is("tools/call")} => Id # <<>>
  <2>1. Method = GetString(Cut(x, LineBuf - 1), "method")
    <3>1. line \in Texts
      BY DEF TypeOK
    <3> QED BY <1>4, <1>7, <3>1 DEF Method, Reading
  <2>2. Id = TokenAt(x, TopKey(x, "id"))
    BY <1>2, <1>6, <1>7 DEF Meaning
  <2> QED BY <1>2, <2>1, <2>2 DEF PlainLine, Notifies
<1> QED BY <1>1, <1>2, <1>5, <1>6, <1>7 DEF x

(* What the client writes leaves what the server has read as it is.         *)
LEMMA LinkClient == ASSUME TypeOK, Link, Client PROVE Link'
<1>1. UNCHANGED <<taken, pc, line, resp, replies>>
  BY DEF Client, Write, HangUp
<1>2. Len(wire) \in Nat /\ taken \in Nat /\ taken <= Len(wire)
  BY Numbers
<1>3. CASE Write
  <2>1. PICK x \in Lines : wire' = Append(wire, x) /\ arrives' = Len(x)
    BY <1>3 DEF Write
  <2>2. /\ Len(wire') = Len(wire) + 1 /\ wire'[Len(wire')] = x
        /\ \A n \in 1 .. Len(wire) : wire'[n] = wire[n]
    BY <2>1, AppendProperties DEF TypeOK
  <2>3. taken >= 1 => wire'[taken] = wire[taken] /\ Arrived(taken)
    <3>1. ~eof
      BY <1>3 DEF Write
    <3> QED BY <1>2, <2>2, <3>1 DEF Arrived, Link
  <2>4. arrives' = Len(wire'[Len(wire')])
    BY <2>1, <2>2
  <2> QED BY <1>1, <2>3, <2>4 DEF Link
<1>4. CASE HangUp
  <2>1. eof' = TRUE /\ wire' = wire /\ (taken = Len(wire) => arrives' = arrives)
    BY <1>4 DEF HangUp
  <2>2. Arrived(taken)' => Arrived(taken)
    BY <1>1, <1>2, <2>1 DEF Arrived
  <2> QED BY <1>1, <2>1, <2>2 DEF Link
<1> QED BY <1>3, <1>4 DEF Client

(* What the server reads and answers is tied to the line it is at.          *)
LEMMA LinkServer ==
  ASSUME \A x \in Lines : PlainLine(x), TypeOK, Link, Server
  PROVE  Link'
<1>1. UNCHANGED <<wire, arrives, eof>>
  BY DEF Server, ReadLine, EndOfInput, Ignore, Inform, CallTool, NotFound, Reply, client
<1>2. Len(wire) \in Nat /\ taken \in Nat /\ taken <= Len(wire)
  BY Numbers
<1>3. CASE ReadLine
  <2>1. /\ taken' = taken + 1 /\ line' = Cut(wire[taken'], Keeps(taken'))
        /\ pc' \in {"read", "handle"} /\ replies' = replies
        /\ taken' \in 1 .. Len(wire)
    BY <1>2, <1>3 DEF ReadLine
  <2>2. \E n \in 0 .. LineBuf - 1 : line' = Cut(wire[taken'], n)
    BY <2>1, KeptFacts
  <2>3. Arrived(taken)' => line' = Cut(wire[taken'], LineBuf - 1)
    <3>1. Arrived(taken)' => Arrived(taken')
      BY <1>1 DEF Arrived
    <3> QED BY <2>1, <3>1, KeptFacts
  <2> QED BY <1>1, <2>1, <2>2, <2>3 DEF Link
<1>4. CASE EndOfInput \/ Ignore
  BY <1>1, <1>4 DEF EndOfInput, Ignore, Link
<1>5. CASE Inform \/ CallTool \/ NotFound
  <2>1. /\ pc = "handle" /\ pc' = "reply" /\ UNCHANGED <<taken, line, replies>>
        /\ resp'.id = Id
        /\ Method \in Known \cup {Is("tools/call")} \/ Id # <<>>
    <3>1. CASE Inform
      BY <3>1 DEF Inform, Answers
    <3>2. CASE NotFound
      BY <3>2 DEF NotFound, Answers
    <3>3. CASE CallTool
      <4>1. PICK o \in Outcomes : Answers(IF Encodes(o) THEN o.says ELSE "too large", o.err)
        BY <3>3 DEF CallTool
      <4> QED BY <3>3, <4>1 DEF CallTool, Answers
    <3> QED BY <1>5, <3>1, <3>2, <3>3
  <2>2. Arrived(taken)' <=> Arrived(taken)
    BY <1>1, <2>1 DEF Arrived
  <2>3. Arrived(taken) => resp'.id = Meaning[wire[taken]].id /\ resp'.id # <<>>
    BY <2>1, HandleFacts
  <2> QED BY <1>1, <2>1, <2>2, <2>3 DEF Link
<1>6. CASE Reply
  <2> DEFINE r == [line |-> taken, id |-> resp.id, kind |-> resp.kind, err |-> resp.err]
  <2>1. /\ pc = "reply" /\ pc' = "read" /\ replies' = Append(replies, r)
    BY <1>6 DEF Reply
  <2>2. r \in Sent
    BY Numbers DEF TypeOK, Answer, Sent
  <2>3. r.line >= 1
    BY <2>1 DEF Link
  <2> HIDE DEF r
  <2>4. /\ Len(replies') = Len(replies) + 1 /\ Len(replies) \in Nat
        /\ \A i \in 1 .. Len(replies) : replies'[i] = replies[i]
        /\ replies'[Len(replies) + 1] = r
    BY <2>1, <2>2, AppendProperties, Numbers DEF TypeOK
  <2>5. \A i \in 1 .. Len(replies') : replies'[i].line >= 1
    <3>1. \A i \in 1 .. Len(replies') : i \in 1 .. Len(replies) \/ i = Len(replies) + 1
      BY <2>4
    <3> QED BY <2>3, <2>4, <3>1 DEF Link
  <2> QED BY <1>1, <2>1, <2>5 DEF Link
<1> QED BY <1>3, <1>4, <1>5, <1>6 DEF Server

(* Link holds in every reachable state.                                     *)
LEMMA LinkAlways ==
  ASSUME \A x \in Lines : PlainLine(x)
  PROVE  Spec => []Link
<1>1. Init => Link
  <2> SUFFICES ASSUME Init PROVE Link
    OBVIOUS
  <2>1. Len(wire) = 0 /\ Len(replies) = 0 /\ pc = "read"
    BY EmptySeq DEF Init
  <2> QED BY <2>1 DEF Link
<1>2. TypeOK /\ Link /\ [Next]_vars => Link'
  <2>1. ASSUME TypeOK, Link, UNCHANGED vars PROVE Link'
    BY <2>1 DEF vars, Link, Arrived
  <2> QED BY <2>1, LinkClient, LinkServer DEF Next
<1> QED BY <1>1, <1>2, TypeCorrect, PTL DEF Spec

(* One more at the end.                                                     *)
LEMMA Longer ==
  ASSUME NEW n \in Nat, NEW s, NEW t, NEW e,
         s = [i \in 1 .. n |-> s[i]], t = [i \in 1 .. n + 1 |-> t[i]],
         \A i \in 1 .. n : t[i] = s[i], t[n + 1] = e
  PROVE  t = Append(s, e)
<1> DEFINE T == {t[i] : i \in 1 .. n + 1}
<1>1. \A i \in 1 .. n : s[i] \in T
  OBVIOUS
<1>2. e \in T /\ \A i \in 1 .. n + 1 : t[i] \in T
  OBVIOUS
<1> HIDE DEF T
<1>3. s \in [1 .. n -> T] /\ t \in [1 .. n + 1 -> T]
  BY <1>1, <1>2
<1>4. s \in Seq(T) /\ t \in Seq(T) /\ Len(s) = n /\ Len(t) = n + 1
  BY <1>3
<1>5. /\ Append(s, e) \in Seq(T) /\ Len(Append(s, e)) = n + 1
      /\ \A i \in 1 .. n : Append(s, e)[i] = s[i]
      /\ Append(s, e)[n + 1] = e
  BY <1>2, <1>4, AppendProperties
<1>6. \A i \in 1 .. Len(t) : t[i] = Append(s, e)[i]
  <2>1. \A i \in 1 .. Len(t) : i \in 1 .. n \/ i = n + 1
    BY <1>4
  <2>2. \A i \in 1 .. n : t[i] = s[i]
    OBVIOUS
  <2> QED BY <1>5, <2>1, <2>2
<1> QED BY <1>4, <1>5, <1>6, SeqEqual

(* What the contract speaks of.                                             *)
Asked == [n \in 1 .. Len(wire) |-> Meaning[wire[n]]]
Handled == IF pc \in {"handle", "reply"} THEN taken - 1 ELSE taken
Acted == pc = "reply" /\ acts # <<>> /\ acts[Len(acts)].line = taken
Effects == [i \in 1 .. Len(acts) |-> [line |-> acts[i].line, act |-> acts[i].act]]
Replied == [i \in 1 .. Len(replies) |->
              IF Arrived(replies[i].line) THEN replies[i].id ELSE <<>>]
Broken == Len(wire) > 0 /\ ~Arrived(Len(wire))

(* Until the client hangs up every line arrives; after it, all but the last *)
(* do: no reply changes its meaning by what the client does.                *)
LEMMA RepliesStay ==
  ASSUME TypeOK, OncePerLine, Link, Client
  PROVE  Replied' = Replied
<1>1. replies' = replies /\ taken' = taken /\ Len(wire) \in Nat /\ taken <= Len(wire)
      /\ taken \in Nat
  BY Numbers DEF Client, Write, HangUp
<1>2. \A i \in 1 .. Len(replies) : replies[i].line \in 1 .. taken
  BY Numbers DEF OncePerLine, Link
<1>3. ASSUME NEW n \in 1 .. taken PROVE Arrived(n)' <=> Arrived(n)
  <2>1. CASE Write
    <3>1. Len(wire') = Len(wire) + 1 /\ ~eof
      BY <2>1, AppendProperties DEF Write, TypeOK
    <3> QED BY <1>1, <3>1 DEF Arrived, Link
  <2>2. CASE HangUp
    BY <1>1, <2>2 DEF HangUp, Arrived
  <2> QED BY <2>1, <2>2 DEF Client
<1>4. \A i \in 1 .. Len(replies) : Arrived(replies[i].line)' <=> Arrived(replies[i].line)
  BY <1>1, <1>2, <1>3
<1> QED BY <1>1, <1>4 DEF Replied

(* A line written is a request asked; a line cut off breaks the input.      *)
LEMMA ClientImplements ==
  ASSUME \A x \in Lines : PlainLine(x), TypeOK, OncePerLine, Link, Client
  PROVE  [Rpc!Next]_(Rpc!vars)
<1> USE DEF Rpc!vars
<1>0. UNCHANGED <<taken, pc, acts, replies>>
  BY DEF Client, Write, HangUp
<1>1. Handled' = Handled /\ Acted' = Acted /\ Effects' = Effects /\ Replied' = Replied
  BY <1>0, RepliesStay DEF Handled, Acted, Effects
<1>2. Len(wire) \in Nat
  BY Numbers
<1>3. ~eof => ~Broken
  BY <1>2 DEF Broken, Arrived, Link
<1>4. CASE Write
  <2>1. PICK x \in Lines : wire' = Append(wire, x) /\ arrives' = Len(x)
    BY <1>4 DEF Write
  <2>2. /\ Len(wire') = Len(wire) + 1 /\ wire'[Len(wire) + 1] = x
        /\ \A n \in 1 .. Len(wire) : wire'[n] = wire[n]
    BY <2>1, AppendProperties DEF TypeOK
  <2>3. ~Broken /\ ~Broken'
    BY <1>2, <1>3, <1>4, <2>1, <2>2 DEF Write, Broken, Arrived
  <2>4. Asked' = Append(Asked, Meaning[x])
    <3>1. Asked = [n \in 1 .. Len(wire) |-> Asked[n]]
          /\ \A n \in 1 .. Len(wire) : Asked[n] = Meaning[wire[n]]
      BY DEF Asked
    <3>2. /\ Asked' = [n \in 1 .. Len(wire) + 1 |-> (Asked')[n]]
          /\ \A n \in 1 .. Len(wire) + 1 : (Asked')[n] = Meaning[wire'[n]]
      BY <2>2 DEF Asked
    <3>3. \A n \in 1 .. Len(wire) : (Asked')[n] = Asked[n]
      BY <1>2, <2>2, <3>1, <3>2
    <3>4. (Asked')[Len(wire) + 1] = Meaning[x]
      BY <1>2, <2>2, <3>2
    <3> QED BY <1>2, <3>1, <3>2, <3>3, <3>4, Longer
  <2>5. \E r \in {Meaning[y] : y \in Lines} : Asked' = Append(Asked, r)
    BY <2>4
  <2> QED
    BY <1>1, <2>3, <2>5
       DEF Rpc!Next, Rpc!Ask, Asked, Handled, Acted, Effects, Replied, Broken
<1>5. CASE HangUp
  <2>1. Asked' = Asked
    BY <1>5 DEF HangUp, Asked
  <2>2. Broken' = TRUE \/ Broken' = FALSE
    BY DEF Broken
  <2>3. Broken = FALSE
    BY <1>3, <1>5 DEF HangUp, Broken
  <2>4. Broken' = TRUE \/ Broken' = Broken
    BY <2>2, <2>3
  <2> QED
    BY <1>1, <2>1, <2>4
       DEF Rpc!Next, Rpc!HangUp, Asked, Handled, Acted, Effects, Replied, Broken
<1> QED BY <1>4, <1>5 DEF Client

(* The steps of the contract, in the words above.                           *)
Same == UNCHANGED <<Asked, Handled, Acted, Effects, Replied, Broken>>

ActStep ==
  /\ Handled < Len(Asked) /\ ~Acted /\ Acted' = TRUE
  /\ Effects' = Append(Effects, [line |-> Handled + 1, act |-> Asked[Handled + 1].act])
  /\ UNCHANGED <<Asked, Handled, Replied, Broken>>

DoneStep ==
  /\ Handled' = Handled + 1 /\ Acted' = FALSE
  /\ UNCHANGED <<Asked, Effects, Broken>>
  /\ \/ /\ Handled < Len(Asked) /\ Asked[Handled + 1].id # <<>>
        /\ Replied' = Append(Replied, Asked[Handled + 1].id)
     \/ /\ Handled < Len(Asked) /\ Asked[Handled + 1].id = <<>>
        /\ Replied' = Replied
     \/ /\ Broken /\ Handled = Len(Asked) - 1
        /\ Replied' \in {Replied, Append(Replied, <<>>)}

(* They are its steps.                                                      *)
LEMMA StepImplements == ASSUME Same \/ ActStep \/ DoneStep PROVE [Rpc!Next]_(Rpc!vars)
<1>1. CASE Same
  BY <1>1 DEF Same, Rpc!vars, Asked, Handled, Acted, Effects, Replied, Broken
<1>2. CASE ActStep
  BY <1>2 DEF ActStep, Rpc!Next, Rpc!Act, Rpc!Current,
              Asked, Handled, Acted, Effects, Replied, Broken
<1>3. CASE DoneStep
  BY <1>3 DEF DoneStep, Rpc!Next, Rpc!Reply, Rpc!KeepQuiet, Rpc!Abandon, Rpc!Done,
              Rpc!Current, Asked, Handled, Acted, Effects, Replied, Broken
<1> QED BY <1>1, <1>2, <1>3

(* A step of the server that writes no reply leaves them as they are.       *)
LEMMA SilentStep ==
  ASSUME UNCHANGED <<wire, arrives>>
  PROVE  /\ Asked' = Asked /\ Broken' = Broken
         /\ replies' = replies => Replied' = Replied
         /\ acts' = acts => Effects' = Effects
BY DEF Asked, Broken, Replied, Effects, Arrived

(* The contract's requests are the meanings of the lines.                   *)
LEMMA AskedFacts ==
  ASSUME TypeOK
  PROVE  /\ Len(Asked) = Len(wire) /\ Len(wire) \in Nat
         /\ \A n \in 1 .. Len(wire) : Asked[n] = Meaning[wire[n]]
<1>1. Len(wire) \in Nat
  BY Numbers
<1>2. \A n \in 1 .. Len(wire) : Asked[n] = Meaning[wire[n]]
  BY DEF Asked
<1>3. Len(Asked) = Len(wire)
  <2>1. \A n \in Nat : Len([i \in 1 .. n |-> Meaning[wire[i]]]) = n
    OBVIOUS
  <2> QED BY <1>1, <2>1 DEF Asked
<1> QED BY <1>1, <1>2, <1>3

(* A line that is dropped: an empty one, or one that wants no reply.        *)
LEMMA ReadImplements ==
  ASSUME \A x \in Lines : PlainLine(x), TypeOK, OncePerLine, Link, ReadLine
  PROVE  Same \/ DoneStep
<1>1. /\ pc = "read" /\ taken' = taken + 1 /\ taken' \in 1 .. Len(wire)
      /\ UNCHANGED <<wire, arrives, replies, acts>>
      /\ line' = Cut(wire[taken'], Keeps(taken'))
      /\ pc' = IF line' = <<>> THEN "read" ELSE "handle"
  BY Numbers DEF ReadLine, client
<1>2. taken \in Nat /\ Handled = taken /\ Acted = FALSE /\ Acted' = FALSE
      /\ Asked' = Asked /\ Broken' = Broken /\ Replied' = Replied /\ Effects' = Effects
  <2>1. pc' # "reply"
    BY <1>1
  <2> QED BY <1>1, <2>1, Numbers, SilentStep DEF Handled, Acted
<1>3. CASE line' # <<>>
  <2>1. Handled' = Handled
    BY <1>1, <1>2, <1>3 DEF Handled
  <2> QED BY <1>2, <2>1 DEF Same
<1>4. CASE line' = <<>>
  <2>1. Handled' = Handled + 1 /\ Handled < Len(Asked) /\ Handled + 1 = taken'
    BY <1>1, <1>2, <1>4, AskedFacts DEF Handled
  <2>2. CASE Arrived(taken')
    <3>1. line' = Cut(wire[taken'], LineBuf - 1)
      BY <1>1, <2>2, KeptFacts
    <3>2. wire[taken'] \in Lines /\ LineBuf - 1 \in 0 .. LineBuf - 1
      BY <1>1, WireFacts
    <3>3. <<>> \in Texts /\ Reading[<<>>].id = Meaning[wire[taken']].id
      BY <1>4, <3>1, <3>2, ReadingFacts
    <3>4. Reading[<<>>].id = <<>>
      <4>1. <<>> \in Seq(Token) /\ Len(<<>>) = 0 /\ IdBuf \in Nat
        BY SizesAssumption
      <4>2. FindKey(<<>>, "id") > Len(<<>>)
        <5>1. FindKey(<<>>, "id") \in 1 .. Len(<<>>) + 1
          BY <4>1, FindFacts
        <5> QED BY <4>1, <5>1
      <4>3. TokenAt(<<>>, FindKey(<<>>, "id")) = <<>>
        <5>1. FindKey(<<>>, "id") = 1
          <6>1. FindKey(<<>>, "id") \in 1 .. Len(<<>>) + 1
            BY <4>1, FindFacts
          <6> QED BY <4>1, <6>1
        <5>2. 1 > Len(<<>>) /\ ~(1 <= Len(<<>>))
          BY <4>1
        <5> QED BY <5>1, <5>2 DEF TokenAt
      <4>4. Cut(<<>>, IdBuf) = <<>>
        <5>1. Len(<<>>) <= IdBuf
          BY <4>1
        <5> QED BY <4>1, <5>1, CutFacts
      <4> QED BY <3>3, <4>3, <4>4 DEF Reading, GetToken
    <3>5. Asked[Handled + 1].id = <<>>
      BY <1>1, <2>1, <3>3, <3>4, AskedFacts
    <3> QED BY <1>2, <2>1, <3>5 DEF DoneStep
  <2>3. CASE ~Arrived(taken')
    <3>1. taken' = Len(wire) /\ Broken
      BY <1>1, <2>3, WireFacts DEF Broken
    <3>2. Handled = Len(Asked) - 1
      BY <1>2, <1>1, <3>1, AskedFacts
    <3> QED BY <1>2, <2>1, <3>1, <3>2 DEF DoneStep
  <2> QED BY <2>2, <2>3
<1> QED BY <1>3, <1>4

(* A notification, or an unknown method without an id, wants no reply.      *)
LEMMA IgnoreImplements ==
  ASSUME \A x \in Lines : PlainLine(x), TypeOK, OncePerLine, Link, Ignore
  PROVE  DoneStep
<1>1. /\ pc = "handle" /\ pc' = "read" /\ taken' = taken
      /\ UNCHANGED <<wire, arrives, replies, acts>>
      /\ Notifies \/ Id = <<>>
  BY DEF Ignore, client
<1>2. taken \in 1 .. Len(wire) /\ Handled = taken - 1 /\ Handled' = taken
  BY <1>1, HandleFacts DEF Handled
<1>3. Acted' = FALSE /\ Asked' = Asked /\ Broken' = Broken /\ Replied' = Replied
      /\ Effects' = Effects
  BY <1>1, SilentStep DEF Acted
<1>4. Handled' = Handled + 1 /\ Handled < Len(Asked) /\ Handled + 1 = taken
  BY <1>2, AskedFacts
<1>5. CASE Arrived(taken)
  <2>1. Asked[Handled + 1].id = <<>>
    BY <1>1, <1>2, <1>4, <1>5, HandleFacts, AskedFacts
  <2> QED BY <1>3, <1>4, <2>1 DEF DoneStep
<1>6. CASE ~Arrived(taken)
  <2>1. taken = Len(wire) /\ Broken
    BY <1>2, <1>6, WireFacts DEF Broken
  <2>2. Handled = Len(Asked) - 1
    BY <1>2, <2>1, AskedFacts
  <2> QED BY <1>3, <1>4, <2>1, <2>2 DEF DoneStep
<1> QED BY <1>5, <1>6

(* dispatch_tool_call() acts only on what it has read in full.              *)
LEMMA HandleImplements ==
  ASSUME \A x \in Lines : PlainLine(x), TypeOK, OncePerLine, Link,
         Inform \/ CallTool \/ NotFound
  PROVE  Same \/ ActStep
<1>1. /\ pc = "handle" /\ pc' = "reply" /\ taken' = taken
      /\ UNCHANGED <<wire, arrives, replies>>
  BY DEF Inform, CallTool, NotFound, Answers, client
<1>2. taken \in 1 .. Len(wire) /\ Handled = taken - 1 /\ Handled' = Handled
      /\ Handled < Len(Asked) /\ Handled + 1 = taken
      /\ Asked[Handled + 1] = Meaning[wire[taken]]
  <2>1. taken \in 1 .. Len(wire) /\ Handled = taken - 1 /\ Handled' = taken - 1
    BY <1>1, HandleFacts DEF Handled
  <2>2. Handled < Len(Asked) /\ Handled + 1 = taken
    BY <2>1, AskedFacts
  <2> QED BY <2>1, <2>2, AskedFacts
<1>3. Acted = FALSE /\ Asked' = Asked /\ Broken' = Broken /\ Replied' = Replied
  BY <1>1, SilentStep DEF Acted
<1>4. \A i \in 1 .. Len(acts) : acts[i].line \in Nat /\ acts[i].line < taken
  BY <1>1, Numbers DEF OncePerLine
<1>5. CASE acts' = acts
  <2>1. Effects' = Effects
    BY <1>1, <1>5, SilentStep
  <2>2. Acted' = FALSE
    <3>1. acts # <<>> => acts[Len(acts)].line # taken
      <4> SUFFICES ASSUME acts # <<>> PROVE acts[Len(acts)].line # taken
        OBVIOUS
      <4>1. Len(acts) \in 1 .. Len(acts)
        BY EmptySeq, LenProperties DEF TypeOK
      <4> QED BY <1>4, <4>1
    <3> QED BY <1>1, <1>5, <3>1 DEF Acted
  <2> QED BY <1>2, <1>3, <2>1, <2>2 DEF Same
<1>6. ASSUME NEW o \in Outcomes, o.acts,
             acts' = Append(acts, [line |-> taken, act |-> Asks, whole |-> o.whole])
      PROVE  ActStep
  <2> DEFINE a == [line |-> taken, act |-> Asks, whole |-> o.whole]
  <2>1. ~Reading[line].refused
    <3>1. Failed.acts = FALSE
      BY DEF Failed
    <3> QED BY <1>6, <3>1 DEF Outcomes
  <2>2. Asks = Asked[Handled + 1].act
    BY <1>1, <1>2, <2>1, HandleFacts
  <2>3. a \in Act
    BY Numbers, OutcomeFacts, ReadIn DEF Act
  <2>4. a.line = taken /\ a.act = Asks
    OBVIOUS
  <2> HIDE DEF a
  <2>5. /\ acts' \in Seq(Act) /\ Len(acts') = Len(acts) + 1 /\ Len(acts) \in Nat
        /\ acts' # <<>>
        /\ \A i \in 1 .. Len(acts) : acts'[i] = acts[i]
        /\ acts'[Len(acts) + 1] = a
    BY <1>6, <2>3, AppendProperties, Numbers DEF TypeOK, a
  <2>6. Acted' = TRUE
    BY <1>1, <2>4, <2>5 DEF Acted
  <2>7. Effects' = Append(Effects, [line |-> Handled + 1, act |-> Asked[Handled + 1].act])
    <3>1. Effects = [i \in 1 .. Len(acts) |-> Effects[i]]
          /\ \A i \in 1 .. Len(acts) : Effects[i] = [line |-> acts[i].line, act |-> acts[i].act]
      BY DEF Effects
    <3>2. /\ Effects' = [i \in 1 .. Len(acts) + 1 |-> (Effects')[i]]
          /\ \A i \in 1 .. Len(acts) + 1 :
               (Effects')[i] = [line |-> acts'[i].line, act |-> acts'[i].act]
      BY <2>5 DEF Effects
    <3>3. \A i \in 1 .. Len(acts) : (Effects')[i] = Effects[i]
      BY <2>5, <3>1, <3>2
    <3>4. (Effects')[Len(acts) + 1] =
            [line |-> Handled + 1, act |-> Asked[Handled + 1].act]
      BY <1>2, <2>2, <2>4, <2>5, <3>2
    <3> QED BY <2>5, <3>1, <3>2, <3>3, <3>4, Longer
  <2> QED BY <1>2, <1>3, <2>6, <2>7 DEF ActStep
<1>7. CASE Inform \/ NotFound
  BY <1>5, <1>7 DEF Inform, NotFound
<1>8. CASE CallTool
  <2>1. PICK o \in Outcomes :
          acts' = IF ~o.acts THEN acts
                  ELSE Append(acts, [line |-> taken, act |-> Asks, whole |-> o.whole])
    BY <1>8 DEF CallTool
  <2> QED BY <1>5, <1>6, <2>1
<1> QED BY <1>7, <1>8

(* The reply carries the id of its line, if that line arrived.              *)
LEMMA ReplyImplements ==
  ASSUME \A x \in Lines : PlainLine(x), TypeOK, OncePerLine, Link, Reply
  PROVE  DoneStep
<1> DEFINE r == [line |-> taken, id |-> resp.id, kind |-> resp.kind, err |-> resp.err]
           i0 == IF Arrived(taken) THEN resp.id ELSE <<>>
<1>1. /\ pc = "reply" /\ pc' = "read" /\ taken' = taken
      /\ UNCHANGED <<wire, arrives, acts>> /\ replies' = Append(replies, r)
  BY DEF Reply, client
<1>2. taken \in 1 .. Len(wire) /\ Handled' = Handled + 1 /\ Handled < Len(Asked)
      /\ Handled = taken - 1 /\ Handled + 1 = taken /\ Asked[Handled + 1] = Meaning[wire[taken]]
  <2>1. taken \in 1 .. Len(wire) /\ Handled = taken - 1 /\ Handled' = taken
    BY <1>1, HandleFacts DEF Handled
  <2>2. Handled < Len(Asked) /\ Handled + 1 = taken
    BY <2>1, AskedFacts
  <2> QED BY <2>1, <2>2, AskedFacts
<1>3. Acted' = FALSE /\ Asked' = Asked /\ Broken' = Broken /\ Effects' = Effects
  BY <1>1, SilentStep DEF Acted
<1>4. r \in Sent /\ r.line = taken /\ r.id = resp.id
  BY Numbers DEF TypeOK, Answer, Sent
<1> HIDE DEF r
<1>5. /\ Len(replies') = Len(replies) + 1 /\ Len(replies) \in Nat
      /\ \A i \in 1 .. Len(replies) : replies'[i] = replies[i]
      /\ replies'[Len(replies) + 1] = r
  BY <1>1, <1>4, AppendProperties, Numbers DEF TypeOK
<1>6. Replied' = Append(Replied, i0)
  <2>0. \A n : Arrived(n)' <=> Arrived(n)
    BY <1>1 DEF Arrived
  <2>1. Replied = [i \in 1 .. Len(replies) |-> Replied[i]]
        /\ \A i \in 1 .. Len(replies) :
             Replied[i] = IF Arrived(replies[i].line) THEN replies[i].id ELSE <<>>
    BY DEF Replied
  <2>2. /\ Replied' = [i \in 1 .. Len(replies) + 1 |-> (Replied')[i]]
        /\ \A i \in 1 .. Len(replies) + 1 :
             (Replied')[i] = IF Arrived(replies'[i].line) THEN replies'[i].id ELSE <<>>
    BY <1>1, <1>5 DEF Replied, Arrived
  <2>3. \A i \in 1 .. Len(replies) : (Replied')[i] = Replied[i]
    BY <1>5, <2>1, <2>2
  <2>4. (Replied')[Len(replies) + 1] = i0
    BY <1>4, <1>5, <2>2
  <2> HIDE DEF i0
  <2> QED BY <1>5, <2>1, <2>2, <2>3, <2>4, Longer
<1>7. CASE Arrived(taken)
  <2>1. i0 = Asked[Handled + 1].id /\ Asked[Handled + 1].id # <<>>
    BY <1>1, <1>2, <1>7 DEF Link
  <2> QED BY <1>2, <1>3, <1>6, <2>1 DEF DoneStep
<1>8. CASE ~Arrived(taken)
  <2>1. taken = Len(wire) /\ Broken /\ i0 = <<>>
    BY <1>2, <1>8, WireFacts DEF Broken
  <2>2. Handled = Len(Asked) - 1
    BY <1>2, <2>1, AskedFacts
  <2>3. Replied' \in {Replied, Append(Replied, <<>>)}
    BY <1>6, <2>1
  <2> QED BY <1>2, <1>3, <2>1, <2>2, <2>3 DEF DoneStep
<1> QED BY <1>7, <1>8

(* The server keeps the contract of mcp/README.md for every set of lines    *)
(* that its scanner can find its way in and whose arguments, as a whole,    *)
(* fit args[], wherever the client hangs up: a line may be too long for     *)
(* line[] or params[], and a value that is too long for its tool is cut     *)
(* where the contract says.                                                 *)
THEOREM ServesContract ==
  ASSUME \A x \in Lines : PlainLine(x)
  PROVE  Spec => ImplementsRpc
<1>1. Init => Rpc!Init
  <2> SUFFICES ASSUME Init PROVE Rpc!Init
    OBVIOUS
  <2>1. Len(wire) = 0 /\ Len(acts) = 0 /\ Len(replies) = 0
    BY EmptySeq DEF Init
  <2>2. wire = <<>> /\ taken = 0 /\ pc = "read"
    BY DEF Init
  <2> QED BY <2>1, <2>2 DEF Rpc!Init
<1>2. TypeOK /\ OncePerLine /\ Link /\ [Next]_vars => [Rpc!Next]_(Rpc!vars)
  <2> SUFFICES ASSUME TypeOK, OncePerLine, Link, [Next]_vars
               PROVE  [Rpc!Next]_(Rpc!vars)
    OBVIOUS
  <2>1. CASE UNCHANGED vars
    <3>1. Same
      BY <2>1 DEF vars, Same, Asked, Handled, Acted, Effects, Replied, Broken, Arrived
    <3> QED BY <3>1, StepImplements
  <2>2. CASE Client
    BY <2>2, ClientImplements
  <2>3. CASE EndOfInput
    <3>1. pc = "read" /\ pc' = "done" /\ UNCHANGED <<client, taken, line, resp, replies, acts>>
      BY <2>3 DEF EndOfInput
    <3>2. Same
      BY <3>1 DEF client, Same, Asked, Handled, Acted, Effects, Replied, Broken, Arrived
    <3> QED BY <3>2, StepImplements
  <2>4. CASE ReadLine
    BY <2>4, ReadImplements, StepImplements
  <2>5. CASE Ignore
    BY <2>5, IgnoreImplements, StepImplements
  <2>6. CASE Inform \/ CallTool \/ NotFound
    BY <2>6, HandleImplements, StepImplements
  <2>7. CASE Reply
    BY <2>7, ReplyImplements, StepImplements
  <2> QED BY <2>1, <2>2, <2>3, <2>4, <2>5, <2>6, <2>7 DEF Next, Server
<1>3. Spec => []Link
  BY LinkAlways
<1> QED BY <1>1, <1>2, <1>3, TypeCorrect, OnceEach, PTL DEF Spec, ImplementsRpc, Rpc!Spec

=============================================================================
