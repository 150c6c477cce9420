----------------------- MODULE MastodonTimelineProofs -----------------------
(***************************************************************************)
(* TypeOK, Released and ShownTrue hold of MastodonTimeline for every       *)
(* timeline, chunk size and buffer.                                        *)
(*                                                                         *)
(* Released is not inductive: that nothing is closed before what needs it  *)
(* follows from the order of CloseOrder only if whatever needs something   *)
(* that is being closed is being closed as well (Whole), and that holds of *)
(* what a failing amissl_init() closes because nothing but its first steps *)
(* has been done (InSteps).                                                *)
(*                                                                         *)
(* ShownTrue says of each text that the client's functions get back what   *)
(* the instance's wrote.  Each of these walks along its text, so that a    *)
(* fact about it is shown by induction along the text: on the set of the   *)
(* positions where it holds (NumberInduction, RankInduction).              *)
(* That a letter of a status does not end its string, a string not its     *)
(* object, and an object not the array (QuotedEnds, ObjectEnds, NextStatus)*)
(* is what makes the first step of each function stop where it should.     *)
(* What has arrived of an answer is a beginning of it, and stays one       *)
(* through Dechunk() and Cut() (DechunkReads, BodyReads); the invariant of *)
(* the program is SInv.                                                    *)
(***************************************************************************)
EXTENDS MastodonTimeline, Integers, NaturalsInduction, WellFoundedInduction,
        SequenceTheorems, TLAPS

Lettered(s) == \E S : s \in Seq(S)

All == Objects \cup Libraries \cup {"bsdsocket"}

Types == TypeOK /\ Lettered(resp)

InSteps ==
  pc = "open" =>
    /\ \A i \in 1 .. step : Opens[i] # "call" => Opens[i] \in held
    /\ \A x \in held : \E i \in 1 .. step : x = Opens[i]

Whole == \A x \in held : \A y \in Needs(x) : y \in held /\ (y \in closing => x \in closing)

Stages ==
  /\ pc \in {"open", "read"} => closing = {}
  /\ pc \in {"parse", "show", "cleanup"} => held \cap Objects \subseteq closing
  /\ pc = "done" => held = closing

IInv == Types /\ InSteps /\ Whole /\ Stages

-----------------------------------------------------------------------------
(* Each library or object is opened after what it needs: amissl_init(),     *)
(* amissl_request(), proxy_request().                                       *)
LEMMA OpensInOrder ==
  ASSUME NEW k \in 0 .. Len(Opens) - 1, Opens[k + 1] # "call"
  PROVE  /\ Opens[k + 1] \in All
         /\ \A y \in Needs(Opens[k + 1]) : y # "call" /\ \E i \in 1 .. k : y = Opens[i]
<1>1. CASE proxy
  <2>1. Len(Opens) = 3 /\ Opens[1] = "bsdsocket" /\ Opens[2] = "sock" /\ Opens[3] = "call"
    BY <1>1 DEF Opens
  <2>2. k = 0 \/ k = 1
    BY <2>1
  <2>3. ASSUME k = 0 PROVE Opens[k + 1] = "bsdsocket"
    BY <2>1, <2>3
  <2>4. ASSUME k = 1 PROVE Opens[k + 1] = "sock" /\ "bsdsocket" = Opens[1] /\ 1 \in 1 .. k
    BY <2>1, <2>4
  <2> QED BY <2>2, <2>3, <2>4 DEF Needs, All, Objects
<1>2. CASE ~proxy
  <2>1. /\ Len(Opens) = 11
        /\ Opens[1] = "bsdsocket" /\ Opens[2] = "utility" /\ Opens[3] = "master"
        /\ Opens[4] = "call" /\ Opens[5] = "amissl" /\ Opens[6] = "ready"
    BY <1>2 DEF Opens
  <2>2. /\ Opens[7] = "ctx" /\ Opens[8] = "ssl" /\ Opens[9] = "sock"
        /\ Opens[10] = "call" /\ Opens[11] = "call"
    BY <1>2 DEF Opens
  <2>3. k \in {0, 1, 2, 4, 5, 6, 7, 8}
    BY <2>1, <2>2
  <2>4. CASE k \in {0, 1}
    <3>1. Opens[k + 1] \in {"bsdsocket", "utility"}
      BY <2>1, <2>4
    <3> QED BY <3>1 DEF Needs, All, Libraries
  <2>5. CASE k = 2
    <3>1. Opens[k + 1] = "master" /\ 2 \in 1 .. k
      BY <2>1, <2>5
    <3> QED BY <2>1, <3>1 DEF Needs, All, Libraries
  <2>6. CASE k = 4
    <3>1. Opens[k + 1] = "amissl" /\ 3 \in 1 .. k
      BY <2>1, <2>6
    <3> QED BY <2>1, <3>1 DEF Needs, All, Libraries
  <2>7. CASE k = 5
    <3>1. Opens[k + 1] = "ready" /\ 1 \in 1 .. k /\ 5 \in 1 .. k
      BY <2>1, <2>7
    <3> QED BY <2>1, <3>1 DEF Needs, All, Libraries
  <2>8. CASE k = 6
    <3>1. Opens[k + 1] = "ctx" /\ 6 \in 1 .. k
      BY <2>2, <2>8
    <3> QED BY <2>1, <3>1 DEF Needs, All, Objects
  <2>9. CASE k = 7
    <3>1. Opens[k + 1] = "ssl" /\ 7 \in 1 .. k
      BY <2>2, <2>9
    <3> QED BY <2>2, <3>1 DEF Needs, All, Objects
  <2>10. CASE k = 8
    <3>1. Opens[k + 1] = "sock" /\ 1 \in 1 .. k
      BY <2>2, <2>10
    <3> QED BY <2>1, <3>1 DEF Needs, All, Objects
  <2> QED BY <2>3, <2>4, <2>5, <2>6, <2>7, <2>8, <2>9, <2>10
<1> QED BY <1>1, <1>2

(* The first five steps open no object: an amissl_init() that fails there   *)
(* leaves nothing of a request to close.                                    *)
LEMMA FirstSteps ==
  ASSUME ~proxy, NEW i \in 1 .. 5
  PROVE  Opens[i] \notin Objects
<1>1. /\ Opens[1] = "bsdsocket" /\ Opens[2] = "utility" /\ Opens[3] = "master"
      /\ Opens[4] = "call" /\ Opens[5] = "amissl"
  BY DEF Opens
<1>2. i \in {1, 2, 3, 4, 5}
  OBVIOUS
<1> QED BY <1>1, <1>2 DEF Objects

(* CloseOrder has everything, and nothing before what needs it. *)
LEMMA Order ==
  /\ Len(CloseOrder) = 8
  /\ \A x \in All : \E i \in 1 .. 8 : CloseOrder[i] = x
  /\ \A i \in 1 .. 8 : CloseOrder[i] \in All
  /\ \A i, j \in 1 .. 8 : CloseOrder[i] \in Needs(CloseOrder[j]) => j < i
<1>1. /\ Len(CloseOrder) = 8
      /\ CloseOrder[1] = "sock" /\ CloseOrder[2] = "ssl" /\ CloseOrder[3] = "ctx"
      /\ CloseOrder[4] = "ready" /\ CloseOrder[5] = "amissl" /\ CloseOrder[6] = "master"
      /\ CloseOrder[7] = "utility" /\ CloseOrder[8] = "bsdsocket"
  BY DEF CloseOrder
<1>2. \A i \in 1 .. 8 : i \in {1, 2, 3, 4, 5, 6, 7, 8}
  OBVIOUS
<1>3. \A x \in All : \E i \in 1 .. 8 : CloseOrder[i] = x
  BY <1>1 DEF All, Objects, Libraries
<1>4. \A i \in 1 .. 8 : CloseOrder[i] \in All
  BY <1>1, <1>2 DEF All, Objects, Libraries
<1>5. ASSUME NEW i \in 1 .. 8, NEW j \in 1 .. 8, CloseOrder[i] \in Needs(CloseOrder[j])
      PROVE  j < i
  <2>1. CASE j \in {1, 2, 3, 4}
    BY <1>1, <1>2, <1>5, <2>1 DEF Needs
  <2>2. CASE j \in {5, 6, 7, 8}
    BY <1>1, <1>2, <1>5, <2>2 DEF Needs
  <2> QED BY <1>2, <2>1, <2>2
<1> QED BY <1>1, <1>3, <1>4, <1>5

-----------------------------------------------------------------------------
LEMMA InitIInv == Init => IInv
<1> SUFFICES ASSUME Init PROVE IInv
  OBVIOUS
<1>1. resp = <<>> /\ resp \in Seq({}) /\ Len(resp) = 0
  BY DEF Init
<1>2. step \in 0 .. Len(Opens)
  <2>1. Len(Opens) = 3 \/ Len(Opens) = 11
    BY DEF Opens
  <2> QED BY <2>1 DEF Init
<1>3. 0 <= RespBuf
  BY BufAssumption
<1>4. TypeOK
  BY <1>1, <1>2, <1>3 DEF Init, TypeOK
<1>5. Lettered(resp)
  BY <1>1 DEF Lettered
<1>6. InSteps /\ Whole /\ Stages
  BY DEF Init, InSteps, Whole, Stages
<1> QED BY <1>4, <1>5, <1>6 DEF IInv, Types

(* Opens depends on proxy alone. *)
LEMMA SameOpens == proxy' = proxy => Opens' = Opens
  BY DEF Opens

LEMMA NextIInv == IInv /\ [Next]_vars => IInv'
<1> SUFFICES ASSUME IInv, [Next]_vars PROVE IInv'
  OBVIOUS
<1> USE DEF IInv
<1>1. CASE OpensNext
  <2>1. /\ pc = "open" /\ pc' = pc /\ step \in Nat /\ step < Len(Opens)
        /\ Len(Opens) \in Nat /\ step' = step + 1 /\ closing = {} /\ closing' = {}
        /\ UNCHANGED <<proxy, sent, resp>>
    <3>1. Len(Opens) = 3 \/ Len(Opens) = 11
      BY DEF Opens
    <3> QED BY <1>1, <3>1 DEF OpensNext, Types, TypeOK, Stages, netVars
  <2>2. Opens' = Opens
    BY <2>1, SameOpens
  <2>3. /\ Opens[step + 1] = "call" => held' = held
        /\ Opens[step + 1] # "call" => held' = held \cup {Opens[step + 1]}
    BY <1>1, <2>1, <2>2 DEF OpensNext
  <2>4. step \in 0 .. Len(Opens) - 1
    BY <2>1
  <2>5. CASE Opens[step + 1] = "call"
    <3>1. held' = held
      BY <2>3, <2>5
    <3>2. Types'
      BY <2>1, <2>2, <3>1 DEF Types, TypeOK, Lettered, Answers, NoAnswer
    <3>3. InSteps'
      <4>1. \A i \in 1 .. step + 1 : i \in 1 .. step \/ i = step + 1
        BY <2>1
      <4>2. \A i \in 1 .. step : i \in 1 .. step + 1
        BY <2>1
      <4> QED BY <2>1, <2>2, <2>5, <3>1, <4>1, <4>2 DEF InSteps
    <3> QED BY <2>1, <3>1, <3>2, <3>3 DEF Whole, Stages, Needs
  <2>6. CASE Opens[step + 1] # "call"
    <3>1. held' = held \cup {Opens[step + 1]}
      BY <2>3, <2>6
    <3>2. /\ Opens[step + 1] \in All
          /\ \A y \in Needs(Opens[step + 1]) : y # "call" /\ \E i \in 1 .. step : y = Opens[i]
      BY <2>4, <2>6, OpensInOrder
    <3>3. Types'
      BY <2>1, <2>2, <3>1, <3>2 DEF Types, TypeOK, Lettered, Answers, NoAnswer, All
    <3>4. InSteps'
      <4>1. \A i \in 1 .. step + 1 : i \in 1 .. step \/ i = step + 1
        BY <2>1
      <4>2. \A i \in 1 .. step : i \in 1 .. step + 1
        BY <2>1
      <4>3. step + 1 \in 1 .. step + 1
        BY <2>1
      <4> QED BY <2>1, <2>2, <2>6, <3>1, <4>1, <4>2, <4>3 DEF InSteps
    <3>5. Needs(Opens[step + 1]) \subseteq held
      BY <2>1, <3>2 DEF InSteps
    <3>6. Whole'
      BY <2>1, <3>1, <3>5 DEF Whole
    <3> QED BY <2>1, <3>3, <3>4, <3>6 DEF Stages
  <2> QED BY <2>5, <2>6
<1>2. CASE OpenFails
  <2>1. /\ pc = "open" /\ pc' = "cleanup" /\ held' = held /\ closing = {}
        /\ step' = step /\ step \in Nat /\ proxy' = proxy /\ resp' = resp /\ sent' = sent
    BY <1>2 DEF OpenFails, Types, TypeOK, Stages, netVars
  <2>2. Opens' = Opens
    BY <2>1, SameOpens
  <2>3. CASE ~proxy /\ step \in 2 .. 5
    <3>1. closing' = held \cap Libraries
      BY <1>2, <2>3 DEF OpenFails
    <3>2. held \cap Objects = {}
      <4>1. ASSUME NEW x \in held PROVE x \notin Objects
        <5>1. PICK i \in 1 .. step : x = Opens[i]
          BY <2>1 DEF InSteps
        <5>2. i \in 1 .. 5
          BY <2>3, <5>1
        <5> QED BY <2>3, <5>1, <5>2, FirstSteps
      <4> QED BY <4>1
    <3>3. held \subseteq Libraries \cup {"bsdsocket"}
      BY <3>2 DEF Types, TypeOK
    <3>4. \A x \in held : "bsdsocket" \in Needs(x) => x \in Libraries
      BY <3>3 DEF Needs
    <3>5. \A x \in held : \A y \in Needs(x) : y \in Libraries => x \in Libraries
      BY <3>3 DEF Needs, Libraries
    <3>6. Whole'
      BY <2>1, <3>1, <3>5 DEF Whole
    <3> QED BY <2>1, <2>2, <3>1, <3>2, <3>6
            DEF Types, TypeOK, Lettered, InSteps, Stages, Answers, NoAnswer
  <2>4. CASE ~(~proxy /\ step \in 2 .. 5)
    <3>1. closing' = held \cap Objects
      BY <1>2, <2>4 DEF OpenFails
    <3>2. Whole'
      BY <2>1, <3>1 DEF Whole, Needs, Objects, Types, TypeOK, Libraries
    <3> QED BY <2>1, <2>2, <3>1, <3>2
            DEF Types, TypeOK, Lettered, InSteps, Stages, Answers, NoAnswer
  <2> QED BY <2>3, <2>4
<1>3. CASE Requests
  <2>1. /\ pc = "open" /\ pc' = "read" /\ closing = {}
        /\ UNCHANGED <<proxy, step, held, closing, resp>>
    BY <1>3 DEF Requests, Stages
  <2>2. sent' \in Answers
    BY <1>3 DEF Requests
  <2>3. Opens' = Opens
    BY <2>1, SameOpens
  <2> QED BY <2>1, <2>2, <2>3 DEF Types, TypeOK, Lettered, InSteps, Whole, Stages, Answers, Needs
<1>4. CASE Reads
  <2>1. /\ pc = "read" /\ pc' = pc /\ UNCHANGED <<proxy, step, held, closing, sent>>
        /\ Len(resp) < RespBuf /\ resp' = Append(resp, Head(wire))
    BY <1>4 DEF Reads
  <2>2. Opens' = Opens
    BY <2>1, SameOpens
  <2>3. PICK S : resp \in Seq(S)
    BY DEF Types, Lettered
  <2>4. resp \in Seq(S \cup {Head(wire)})
    BY <2>3
  <2>5. /\ Append(resp, Head(wire)) \in Seq(S \cup {Head(wire)})
        /\ Len(Append(resp, Head(wire))) = Len(resp) + 1 /\ Len(resp) \in Nat
    BY <2>4
  <2>6. RespBuf \in Nat
    BY BufAssumption
  <2>7. Lettered(resp') /\ Len(resp') <= RespBuf
    BY <2>1, <2>5, <2>6 DEF Lettered
  <2>8. TypeOK'
    BY <2>1, <2>2, <2>7 DEF Types, TypeOK, Answers, NoAnswer
  <2> QED BY <2>1, <2>7, <2>8 DEF Types, Lettered, InSteps, Whole, Stages, Needs
<1>5. CASE ReadEnds
  <2>1. /\ pc = "read" /\ pc' = "parse" /\ closing' = held \cap Objects
        /\ UNCHANGED <<proxy, step, held, sent, resp>>
    BY <1>5 DEF ReadEnds, netVars
  <2>2. Opens' = Opens
    BY <2>1, SameOpens
  <2>3. Whole'
    BY <2>1 DEF Whole, Needs, Objects, Types, TypeOK, Libraries
  <2> QED BY <2>1, <2>2, <2>3 DEF Types, TypeOK, Lettered, InSteps, Stages, Answers, NoAnswer
<1>6. CASE Closes
  <2>1. PICK i \in 1 .. Len(CloseOrder) :
          /\ CloseOrder[i] \in closing
          /\ \A j \in 1 .. i - 1 : CloseOrder[j] \notin closing
          /\ held' = held \ {CloseOrder[i]}
          /\ closing' = closing \ {CloseOrder[i]}
    BY <1>6 DEF Closes
  <2>2. UNCHANGED <<pc, proxy, step, sent, resp>> /\ i \in 1 .. 8
    BY <1>6, <2>1, Order DEF Closes, netVars
  <2>3. Opens' = Opens
    BY <2>2, SameOpens
  <2>4. ASSUME NEW x \in held, CloseOrder[i] \in Needs(x) PROVE x = CloseOrder[i]
    <3>1. x \in closing
      BY <2>1, <2>4 DEF Whole
    <3>2. x \in All
      BY DEF Types, TypeOK, All
    <3>3. PICK j \in 1 .. 8 : CloseOrder[j] = x
      BY <3>2, Order
    <3>4. j < i
      BY <2>2, <2>4, <3>3, Order
    <3>5. j \in 1 .. i - 1
      BY <2>2, <3>3, <3>4
    <3> QED BY <2>1, <3>1, <3>3, <3>5
  <2>5. Whole'
    BY <2>1, <2>4 DEF Whole
  <2>6. Types'
    BY <2>1, <2>2, <2>3 DEF Types, TypeOK, Lettered, Answers, NoAnswer
  <2>7. pc # "open"
    BY <2>1 DEF Stages
  <2> QED BY <2>1, <2>2, <2>5, <2>6, <2>7 DEF InSteps, Stages
<1>7. CASE Parses \/ Shows \/ EndsShow
  <2>1. /\ UNCHANGED <<proxy, step, held, closing, sent, resp>>
        /\ pc \in {"parse", "show"} /\ pc' \in {"show", "cleanup"}
    BY <1>7 DEF Parses, Shows, EndsShow, netVars
  <2>2. Opens' = Opens
    BY <2>1, SameOpens
  <2> QED BY <2>1, <2>2
          DEF Types, TypeOK, Lettered, InSteps, Whole, Stages, Answers, NoAnswer, Needs
<1>8. CASE CleansUp
  <2>1. /\ pc = "cleanup" /\ pc' = "done" /\ closing = {}
        /\ closing' = held \cap (Libraries \cup {"bsdsocket"})
        /\ UNCHANGED <<proxy, step, held, sent, resp>>
    BY <1>8 DEF CleansUp, netVars
  <2>2. closing' = held
    BY <2>1 DEF Stages, Types, TypeOK
  <2>3. Opens' = Opens
    BY <2>1, SameOpens
  <2> QED BY <2>1, <2>2, <2>3
          DEF Types, TypeOK, Lettered, InSteps, Whole, Stages, Answers, NoAnswer, Needs
<1>9. CASE UNCHANGED vars
  <2>1. UNCHANGED <<pc, proxy, step, held, closing, sent, resp>>
    BY <1>9 DEF vars, netVars
  <2>2. Opens' = Opens
    BY <2>1, SameOpens
  <2> QED BY <2>1, <2>2
          DEF Types, TypeOK, Lettered, InSteps, Whole, Stages, Answers, NoAnswer, Needs
<1> QED BY <1>1, <1>2, <1>3, <1>4, <1>5, <1>6, <1>7, <1>8, <1>9 DEF Next, Client

LEMMA Inductive == Spec => []IInv
<1> QED BY InitIInv, NextIInv, PTL DEF Spec

(* The types, for every timeline and buffer; resp[] is never overrun,       *)
(* whatever arrives.                                                        *)
THEOREM TypeCorrect == Spec => []TypeOK
<1>1. IInv => TypeOK
  BY DEF IInv, Types
<1> QED BY <1>1, Inductive, PTL

(* Whichever step fails and whatever arrives: nothing is closed before what *)
(* needs it, and the program ends without anything open.                    *)
THEOREM AllReleased == Spec => []Released
<1>1. IInv => Released
  <2> SUFFICES ASSUME IInv PROVE Released
    OBVIOUS
  <2>1. \A x \in held : Needs(x) \subseteq held
    BY DEF IInv, Whole
  <2> QED BY <2>1 DEF IInv, Stages, Released
<1> QED BY <1>1, Inductive, PTL

(* The order of the numbers, as a set of pairs: what is not empty has a     *)
(* least element.                                                           *)
LEMMA LeastNumber ==
  ASSUME NEW T, T \subseteq Nat, T # {}
  PROVE  \E x \in T : \A y \in T : ~(y < x)
<1> DEFINE R == {p \in Nat \X Nat : p[1] < p[2]}
<1>1. IsWellFoundedOn(R, Nat)
  <2>1. R = OpToRel(<, Nat)
    BY DEF OpToRel
  <2> QED BY <2>1, NatLessThanWellFounded
<1>2. \A x, y \in T : <<y, x>> \in R <=> y < x
  OBVIOUS
<1> HIDE DEF R
<1>3. PICK x \in T : \A y \in T : ~(<<y, x>> \in R)
  BY <1>1, WFMin
<1> QED BY <1>2, <1>3

(* Induction over the elements of a set that have a rank: T has an element  *)
(* when it has all that rank below it.                                      *)
LEMMA RankInduction ==
  ASSUME NEW S, NEW rank \in [S -> Nat], NEW T,
         \A x \in S : (\A y \in S : rank[y] < rank[x] => y \in T) => x \in T
  PROVE  S \subseteq T
<1> SUFFICES ASSUME S \ T # {} PROVE FALSE
  OBVIOUS
<1> DEFINE M == {rank[x] : x \in S \ T}
<1>1. M \subseteq Nat /\ M # {}
  OBVIOUS
<1>2. PICK m \in M : \A y \in M : ~(y < m)
  BY <1>1, LeastNumber
<1>3. PICK x \in S \ T : m = rank[x]
  OBVIOUS
<1>4. \A y \in S : rank[y] < rank[x] => y \in T
  BY <1>2, <1>3
<1> QED BY <1>3, <1>4

(* Induction along 0 .. n, on a set instead of a predicate. *)
LEMMA NumberInduction ==
  ASSUME NEW n \in Nat, NEW T, 0 \in T, \A k \in 0 .. n - 1 : k \in T => k + 1 \in T
  PROVE  0 .. n \subseteq T
<1> DEFINE rank == [k \in 0 .. n |-> k]
<1>1. rank \in [0 .. n -> Nat]
  OBVIOUS
<1>2. ASSUME NEW x \in 0 .. n, \A y \in 0 .. n : rank[y] < rank[x] => y \in T
      PROVE  x \in T
  <2>1. CASE x = 0
    BY <2>1
  <2>2. CASE x # 0
    <3>1. x - 1 \in 0 .. n - 1 /\ x - 1 \in 0 .. n /\ (x - 1) + 1 = x
      BY <2>2
    <3>2. rank[x - 1] < rank[x]
      BY <3>1
    <3> HIDE DEF rank
    <3>3. x - 1 \in T
      BY <1>2, <3>1, <3>2
    <3> QED BY <3>1, <3>3
  <2> QED BY <2>1, <2>2
<1> HIDE DEF rank
<1>3. \A x \in 0 .. n : (\A y \in 0 .. n : rank[y] < rank[x] => y \in T) => x \in T
  BY <1>2
<1> DEFINE D == 0 .. n
<1>4. rank \in [D -> Nat] /\ \A x \in D : (\A y \in D : rank[y] < rank[x] => y \in T) => x \in T
  BY <1>1, <1>3
<1>5. D \subseteq T
  <2> HIDE DEF D
  <2> QED BY <1>4, RankInduction
<1> QED BY <1>5

(* G says what a function f from S to V is at x in terms of what it is at   *)
(* the elements that rank below x.                                          *)
Recursive(S, V, n, rank, G) ==
  /\ V # {} /\ n \in Nat /\ rank \in [S -> 0 .. n] /\ G \in [S \X [S -> V] -> V]
  /\ \A x \in S : \A g, h \in [S -> V] :
       (\A y \in S : rank[y] < rank[x] => g[y] = h[y]) => G[<<x, g>>] = G[<<x, h>>]

(* A function that is defined by recursion towards a smaller rank exists. *)
LEMMA Recursion ==
  ASSUME NEW S, NEW V, NEW n, NEW rank, NEW G, Recursive(S, V, n, rank, G)
  PROVE  \E f \in [S -> V] : \A x \in S : f[x] = G[<<x, f>>]
<1>0. /\ V # {} /\ n \in Nat /\ rank \in [S -> 0 .. n] /\ G \in [S \X [S -> V] -> V]
      /\ \A x \in S : \A g, h \in [S -> V] :
           (\A y \in S : rank[y] < rank[x] => g[y] = h[y]) => G[<<x, g>>] = G[<<x, h>>]
  BY DEF Recursive
<1> DEFINE T == {k \in Nat : \E f \in [S -> V] : \A x \in S : rank[x] < k => f[x] = G[<<x, f>>]}
<1>1. 0 \in T
  <2>1. PICK v \in V : TRUE
    BY <1>0
  <2> DEFINE f == [x \in S |-> v]
  <2>2. f \in [S -> V] /\ \A x \in S : ~(rank[x] < 0)
    BY <1>0
  <2> HIDE DEF f
  <2> QED BY <2>2
<1>2. ASSUME NEW k \in 0 .. n, k \in T PROVE k + 1 \in T
  <2>1. PICK f \in [S -> V] : \A x \in S : rank[x] < k => f[x] = G[<<x, f>>]
    BY <1>2
  <2> DEFINE g == [x \in S |-> IF rank[x] < k THEN f[x] ELSE G[<<x, f>>]]
  <2>2. g \in [S -> V]
    BY <1>0
  <2>3. \A x \in S : g[x] = G[<<x, f>>]
    BY <2>1
  <2>4. \A y \in S : rank[y] < k => g[y] = f[y]
    OBVIOUS
  <2> HIDE DEF g
  <2>5. ASSUME NEW x \in S, rank[x] < k + 1 PROVE g[x] = G[<<x, g>>]
    <3>1. \A y \in S : rank[y] < rank[x] => g[y] = f[y]
      BY <1>0, <2>4, <2>5
    <3>2. G[<<x, g>>] = G[<<x, f>>]
      BY <1>0, <2>2, <3>1
    <3> QED BY <2>3, <3>2
  <2> QED BY <2>2, <2>5
<1>3. 0 .. n + 1 \subseteq T
  <2>1. n + 1 \in Nat /\ (n + 1) - 1 = n
    BY <1>0
  <2> HIDE DEF T
  <2> QED BY <1>1, <1>2, <2>1, NumberInduction
<1>4. n + 1 \in T
  <2> HIDE DEF T
  <2> QED BY <1>0, <1>3
<1>5. PICK f \in [S -> V] : \A x \in S : rank[x] < n + 1 => f[x] = G[<<x, f>>]
  BY <1>4
<1> QED BY <1>0, <1>5

(* The letters of b stand in s from p on. *)
At(s, p, b) ==
  /\ p \in Nat \ {0} /\ p + Len(b) <= Len(s) + 1
  /\ \A i \in 1 .. Len(b) : s[p + i - 1] = b[i]

(* Two parts stand one after the other. *)
LEMMA AtConcat ==
  ASSUME NEW M, NEW s, Len(s) \in Nat, NEW b \in Seq(M), NEW c \in Seq(M), NEW p \in Nat \ {0}
  PROVE  At(s, p, b \o c) <=> At(s, p, b) /\ At(s, p + Len(b), c)
<1>1. /\ Len(b \o c) = Len(b) + Len(c) /\ Len(b) \in Nat /\ Len(c) \in Nat
      /\ \A i \in 1 .. Len(b) : (b \o c)[i] = b[i]
      /\ \A i \in 1 .. Len(c) : (b \o c)[Len(b) + i] = c[i]
  OBVIOUS
<1> DEFINE d == b \o c
<1> HIDE DEF d
<1>2. ASSUME At(s, p, d) PROVE At(s, p, b)
  <2>1. \A i \in 1 .. Len(b) : i \in 1 .. Len(d) /\ d[i] = b[i]
    BY <1>1 DEF d
  <2>2. Len(d) = Len(b) + Len(c)
    BY <1>1 DEF d
  <2> QED BY <1>1, <1>2, <2>1, <2>2 DEF At
<1>3. ASSUME At(s, p, d) PROVE At(s, p + Len(b), c)
  <2>2. Len(d) = Len(b) + Len(c)
    BY <1>1 DEF d
  <2>1. \A i \in 1 .. Len(c) : Len(b) + i \in 1 .. Len(d) /\ d[Len(b) + i] = c[i]
    BY <1>1, <2>2 DEF d
  <2>3. \A i \in 1 .. Len(c) : s[(p + Len(b)) + i - 1] = c[i]
    <3> TAKE i \in 1 .. Len(c)
    <3>1. s[p + (Len(b) + i) - 1] = d[Len(b) + i]
      BY <1>3, <2>1 DEF At
    <3>2. p + (Len(b) + i) - 1 = (p + Len(b)) + i - 1
      BY <1>1
    <3> QED BY <2>1, <3>1, <3>2
  <2> QED BY <1>1, <1>3, <2>2, <2>3 DEF At
<1>4. ASSUME At(s, p, b), At(s, p + Len(b), c) PROVE At(s, p, d)
  <2>1. Len(d) = Len(b) + Len(c)
    BY <1>1 DEF d
  <2>2. ASSUME NEW i \in 1 .. Len(d) PROVE s[p + i - 1] = d[i]
    <3>1. CASE i <= Len(b)
      <4>1. i \in 1 .. Len(b)
        BY <1>1, <3>1
      <4> QED BY <1>1, <1>4, <4>1 DEF At, d
    <3>2. CASE i > Len(b)
      <4>1. PICK j \in 1 .. Len(c) : i = Len(b) + j
        <5>1. i - Len(b) \in 1 .. Len(c) /\ i = Len(b) + (i - Len(b))
          BY <1>1, <2>1, <3>2
        <5> QED BY <5>1
      <4>2. s[(p + Len(b)) + j - 1] = c[j]
        BY <1>4 DEF At
      <4>3. p + i - 1 = (p + Len(b)) + j - 1 /\ d[i] = c[j]
        BY <1>1, <4>1 DEF d
      <4> QED BY <4>2, <4>3
    <3> QED BY <1>1, <2>1, <3>1, <3>2
  <2>3. p + Len(d) <= Len(s) + 1
    BY <1>1, <1>4, <2>1 DEF At
  <2> QED BY <2>2, <2>3 DEF At
<1> QED BY <1>2, <1>3, <1>4 DEF d

(* A text stands in itself, from its first letter on. *)
LEMMA AtWhole ==
  ASSUME NEW M, NEW s \in Seq(M)
  PROVE  At(s, 1, s)
<1>1. Len(s) \in Nat /\ \A i \in 1 .. Len(s) : 1 + i - 1 = i
  OBVIOUS
<1> QED BY <1>1 DEF At

(* What stands in a part stands in the whole. *)
LEMMA AtPart ==
  ASSUME NEW s, Len(s) \in Nat, NEW p, NEW b, Len(b) \in Nat, At(s, p, b),
         NEW q, NEW c, Len(c) \in Nat, At(b, q, c)
  PROVE  At(s, p + q - 1, c)
<1>1. p \in Nat \ {0} /\ q \in Nat \ {0} /\ q + Len(c) <= Len(b) + 1 /\ p + Len(b) <= Len(s) + 1
  BY DEF At
<1>2. ASSUME NEW i \in 1 .. Len(c) PROVE s[(p + q - 1) + i - 1] = c[i]
  <2>1. q + i - 1 \in 1 .. Len(b)
    BY <1>1
  <2>2. b[q + i - 1] = c[i]
    BY DEF At
  <2>3. s[p + (q + i - 1) - 1] = b[q + i - 1]
    BY <2>1 DEF At
  <2>4. p + (q + i - 1) - 1 = (p + q - 1) + i - 1
    BY <1>1
  <2> QED BY <2>2, <2>3, <2>4
<1> QED BY <1>1, <1>2 DEF At

(* SubSeq() takes what stands there. *)
LEMMA AtSubSeq ==
  ASSUME NEW M, NEW s \in Seq(M), NEW p, NEW b \in Seq(M), At(s, p, b)
  PROVE  SubSeq(s, p, p + Len(b) - 1) = b
<1>1. p \in Nat \ {0} /\ Len(b) \in Nat /\ Len(s) \in Nat /\ p + Len(b) <= Len(s) + 1
  BY DEF At
<1> DEFINE u == SubSeq(s, p, p + Len(b) - 1)
<1>3. /\ u \in Seq(M) /\ Len(u) = Len(b)
      /\ \A i \in 1 .. Len(b) : u[i] = s[p + i - 1]
  <2>1. \A i \in p .. p + Len(b) - 1 : s[i] \in M
    BY <1>1
  <2>2. p \in Int /\ p + Len(b) - 1 \in Int /\ (p + Len(b) - 1) - p + 1 = Len(b)
    BY <1>1
  <2>3. /\ u \in Seq(M)
        /\ Len(u) = IF p <= p + Len(b) - 1 THEN (p + Len(b) - 1) - p + 1 ELSE 0
        /\ \A i \in 1 .. (p + Len(b) - 1) - p + 1 : u[i] = s[p + i - 1]
    BY <2>1, <2>2, SubSeqProperties
  <2> HIDE DEF u
  <2> QED BY <1>1, <2>2, <2>3
<1>4. \A i \in 1 .. Len(b) : u[i] = b[i]
  BY <1>3 DEF At
<1> HIDE DEF u
<1>5. u = b
  BY <1>3, <1>4, SeqEqual
<1> QED BY <1>5 DEF u

(* What a flattened sequence is joined from, and where its parts stand:     *)
(* pre[k] is the first k parts, Upto(pre, k) their length.                  *)
Upto(pre, k) == Len(pre[k])

Joins(pre, seqs, M) ==
  /\ pre \in [0 .. Len(seqs) -> Seq(M)]
  /\ pre[0] = <<>>
  /\ \A k \in 1 .. Len(seqs) : pre[k] = pre[k - 1] \o seqs[k]
  /\ FlattenSeq(seqs) = pre[Len(seqs)]
  /\ \A k \in 1 .. Len(seqs) : At(FlattenSeq(seqs), Upto(pre, k - 1) + 1, seqs[k])

(* FlattenSeq() joins its sequences one after the other; pre[k] is what     *)
(* the first k of them give.                                                *)
LEMMA FlattenIsJoined ==
  ASSUME NEW M, NEW seqs \in Seq(Seq(M))
  PROVE  \E pre \in [0 .. Len(seqs) -> Seq(M)] :
           /\ pre[0] = <<>>
           /\ \A k \in 1 .. Len(seqs) : pre[k] = pre[k - 1] \o seqs[k]
           /\ FlattenSeq(seqs) = pre[Len(seqs)]
<1> DEFINE n == Len(seqs)
           S == 0 .. n
           V == Seq(M)
           rank == [k \in S |-> k]
           G == [x \in S \X [S -> V] |-> IF x[1] = 0 THEN <<>> ELSE x[2][x[1] - 1] \o seqs[x[1]]]
<1>0. n \in Nat /\ \A k \in 1 .. n : seqs[k] \in V
  OBVIOUS
<1>1. \E pre \in [S -> V] : \A k \in S : pre[k] = G[<<k, pre>>]
  <2>1. V # {} /\ rank \in [S -> 0 .. n]
    OBVIOUS
  <2>2. \A x \in S \X [S -> V] : (IF x[1] = 0 THEN <<>> ELSE x[2][x[1] - 1] \o seqs[x[1]]) \in V
    <3> SUFFICES ASSUME NEW k \in S, NEW h \in [S -> V], k # 0 PROVE h[k - 1] \o seqs[k] \in V
      OBVIOUS
    <3>1. k - 1 \in S /\ k \in 1 .. n
      BY <1>0
    <3>2. h[k - 1] \in V /\ seqs[k] \in V
      BY <1>0, <3>1
    <3> QED BY <3>2, ConcatProperties
  <2>3. G \in [S \X [S -> V] -> V]
    <3> HIDE DEF V, S
    <3> QED BY <2>2
  <2>4. ASSUME NEW k \in S, NEW g \in [S -> V], NEW h \in [S -> V],
               \A y \in S : rank[y] < rank[k] => g[y] = h[y]
        PROVE  G[<<k, g>>] = G[<<k, h>>]
    <3>1. k # 0 => k - 1 \in S /\ rank[k - 1] < rank[k]
      BY <1>0
    <3> HIDE DEF rank
    <3>2. k # 0 => g[k - 1] = h[k - 1]
      BY <2>4, <3>1
    <3> HIDE DEF S, V
    <3> QED BY <3>2
  <2>6. n \in Nat
    BY <1>0
  <2> HIDE DEF G, rank, V, S, n
  <2>5. \A x \in S : \A g, h \in [S -> V] :
          (\A y \in S : rank[y] < rank[x] => g[y] = h[y]) => G[<<x, g>>] = G[<<x, h>>]
    BY <2>4
  <2>7. Recursive(S, V, n, rank, G)
    BY <2>6, <2>1, <2>3, <2>5 DEF Recursive
  <2> QED BY <2>7, Recursion
<1>2. PICK pre \in [S -> V] : \A k \in S : pre[k] = G[<<k, pre>>]
  BY <1>1
<1>3. \A k \in S : pre[k] = IF k = 0 THEN <<>> ELSE pre[k - 1] \o seqs[k]
  <2> HIDE DEF S, V
  <2> QED BY <1>2
<1> HIDE DEF G
<1>4. pre[0] = <<>> /\ \A k \in 1 .. n : pre[k] = pre[k - 1] \o seqs[k]
  <2>1. 0 \in S /\ \A k \in 1 .. n : k \in S /\ k # 0
    BY <1>0
  <2> HIDE DEF S, V, n
  <2> QED BY <1>3, <2>1
<1> HIDE DEF n, S, V
<1>5. CASE n = 0
  <2>1. FlattenSeq(seqs) = <<>>
    BY <1>5 DEF FlattenSeq, n
  <2> QED BY <1>4, <1>5, <2>1 DEF n, S, V
<1>6. CASE n # 0
  <2> DEFINE Eq(g) == g = [i \in 1 .. n |-> IF i = 1 THEN seqs[i] ELSE g[i - 1] \o seqs[i]]
             f == [i \in 1 .. n |-> pre[i]]
             c == CHOOSE g : Eq(g)
  <2>1. Eq(f)
    <3>1. \A i \in 1 .. n : f[i] = IF i = 1 THEN seqs[i] ELSE f[i - 1] \o seqs[i]
      <4> SUFFICES ASSUME NEW i \in 1 .. n
                   PROVE f[i] = IF i = 1 THEN seqs[i] ELSE f[i - 1] \o seqs[i]
        OBVIOUS
      <4>1. CASE i = 1
        <5>1. pre[i] = pre[i - 1] \o seqs[i] /\ seqs[i] \in V
          BY <1>0, <1>4
        <5>2. i - 1 = 0 /\ f[i] = pre[i]
          BY <4>1
        <5>3. pre[i] = <<>> \o seqs[i]
          BY <1>4, <5>1, <5>2
        <5>4. pre[i] = seqs[i]
          BY <5>1, <5>3, ConcatEmptySeq DEF V
        <5> HIDE DEF f
        <5> QED BY <4>1, <5>2, <5>4
      <4>2. CASE i # 1
        <5>1. i - 1 \in 1 .. n
          BY <1>0, <4>2
        <5>2. f[i] = pre[i] /\ f[i - 1] = pre[i - 1]
          BY <5>1
        <5> HIDE DEF f
        <5> QED BY <1>4, <4>2, <5>2
      <4> QED BY <4>1, <4>2
    <3>2. f = [i \in 1 .. n |-> f[i]]
      OBVIOUS
    <3> HIDE DEF f
    <3> QED BY <3>1, <3>2
  <2>2. Eq(c)
    <3> HIDE DEF Eq
    <3> QED BY <2>1
  <2>3. FlattenSeq(seqs) = c[n]
    BY <1>0, <1>6 DEF FlattenSeq, n
  <2> HIDE DEF c
  <2> DEFINE T == {k \in 0 .. n : k # 0 => c[k] = pre[k]}
  <2>4. ASSUME NEW k \in 0 .. n - 1, k \in T PROVE k + 1 \in T
    <3>0. k + 1 \in 1 .. n /\ (k + 1) - 1 = k
      BY <1>0
    <3> DEFINE i == k + 1
    <3> HIDE DEF i
    <3>1. c[i] = IF i = 1 THEN seqs[i] ELSE c[k] \o seqs[i]
      <4>1. i \in 1 .. n /\ i - 1 = k
        BY <3>0 DEF i
      <4>2. c[i] = IF i = 1 THEN seqs[i] ELSE c[i - 1] \o seqs[i]
        BY <2>2, <4>1
      <4> QED BY <4>1, <4>2
    <3>2. pre[i] = pre[k] \o seqs[i] /\ seqs[i] \in V
      <4>1. i \in 1 .. n /\ i - 1 = k
        BY <3>0 DEF i
      <4>2. pre[i] = pre[i - 1] \o seqs[i] /\ seqs[i] \in V
        BY <1>0, <1>4, <4>1
      <4> QED BY <4>1, <4>2
    <3>3. CASE k = 0
      <4>1. pre[i] = <<>> \o seqs[i]
        BY <1>4, <3>2, <3>3
      <4>2. pre[i] = seqs[i]
        BY <3>2, <4>1, ConcatEmptySeq DEF V
      <4>3. c[i] = seqs[i]
        BY <3>1, <3>3 DEF i
      <4> QED BY <3>0, <4>2, <4>3 DEF i
    <3>4. CASE k # 0
      <4>1. c[k] = pre[k]
        BY <2>4, <3>4
      <4>2. c[i] = c[k] \o seqs[i]
        <5>1. i # 1
          BY <1>0, <3>4 DEF i
        <5> QED BY <3>1, <5>1
      <4>3. c[i] = pre[i]
        BY <3>2, <4>1, <4>2
      <4> QED BY <3>0, <4>3 DEF i
    <3> QED BY <3>3, <3>4
  <2>5. 0 .. n \subseteq T
    <3>1. 0 \in T
      BY <1>0
    <3> HIDE DEF T
    <3> QED BY <1>0, <2>4, <3>1, NumberInduction
  <2>6. c[n] = pre[n]
    BY <1>0, <1>6, <2>5
  <2> QED BY <1>4, <2>3, <2>6 DEF n, S, V
<1> QED BY <1>5, <1>6

(* A flattened sequence has its parts where the parts before them end. *)
LEMMA FlattenFacts ==
  ASSUME NEW M, NEW seqs \in Seq(Seq(M))
  PROVE  \E pre : Joins(pre, seqs, M)
<1> DEFINE n == Len(seqs)
<1>1. PICK pre \in [0 .. n -> Seq(M)] :
        /\ pre[0] = <<>>
        /\ \A k \in 1 .. n : pre[k] = pre[k - 1] \o seqs[k]
        /\ FlattenSeq(seqs) = pre[n]
  BY FlattenIsJoined
<1>0. n \in Nat /\ \A k \in 1 .. n : seqs[k] \in Seq(M)
  OBVIOUS
<1> HIDE DEF n
<1> DEFINE T == {j \in 0 .. n : \A k \in 1 .. j : At(pre[j], Len(pre[k - 1]) + 1, seqs[k])}
<1>2. 0 \in T
  BY <1>0
<1>3. ASSUME NEW j \in 0 .. n - 1, j \in T PROVE j + 1 \in T
  <2>1. j + 1 \in 1 .. n /\ j \in 0 .. n /\ (j + 1) - 1 = j
    BY <1>0
  <2>2. /\ pre[j + 1] = pre[j] \o seqs[j + 1] /\ pre[j] \in Seq(M) /\ seqs[j + 1] \in Seq(M)
        /\ pre[j + 1] \in Seq(M)
    <3>1. pre[j + 1] = pre[(j + 1) - 1] \o seqs[j + 1] /\ seqs[j + 1] \in Seq(M)
      BY <1>0, <1>1, <2>1
    <3>2. pre[j] \in Seq(M)
      BY <1>1, <2>1
    <3>3. pre[j + 1] = pre[j] \o seqs[j + 1]
      BY <2>1, <3>1
    <3> QED BY <3>1, <3>2, <3>3, ConcatProperties
  <2>3. At(pre[j + 1], 1, pre[j]) /\ At(pre[j + 1], 1 + Len(pre[j]), seqs[j + 1])
    <3>1. At(pre[j + 1], 1, pre[j] \o seqs[j + 1])
      <4>1. At(pre[j + 1], 1, pre[j + 1])
        BY <2>2, AtWhole
      <4> QED BY <2>2, <4>1
    <3>2. Len(pre[j + 1]) \in Nat
      <4>1. \A s \in Seq(M) : Len(s) \in Nat
        OBVIOUS
      <4> QED BY <2>2, <4>1
    <3>3. 1 \in Nat \ {0} /\ pre[j] \in Seq(M) /\ seqs[j + 1] \in Seq(M)
      BY <2>2
    <3> QED BY <3>1, <3>2, <3>3, AtConcat
  <2>4. ASSUME NEW k \in 1 .. j + 1 PROVE At(pre[j + 1], Len(pre[k - 1]) + 1, seqs[k])
    <3>1. CASE k = j + 1
      <4>1. 1 + Len(pre[j]) = Len(pre[k - 1]) + 1
        BY <2>1, <2>2, <3>1
      <4> QED BY <2>3, <3>1, <4>1
    <3>2. CASE k # j + 1
      <4>1. k \in 1 .. j /\ k \in 1 .. n /\ k - 1 \in 0 .. n
        BY <1>0, <3>2
      <4>2. At(pre[j], Len(pre[k - 1]) + 1, seqs[k])
        BY <1>3, <4>1
      <4>3. Len(pre[j + 1]) \in Nat /\ Len(pre[j]) \in Nat /\ Len(seqs[k]) \in Nat /\ Len(pre[k - 1]) \in Nat
        <5>1. pre[j + 1] \in Seq(M) /\ pre[j] \in Seq(M) /\ seqs[k] \in Seq(M) /\ pre[k - 1] \in Seq(M)
          BY <1>0, <1>1, <2>2, <4>1
        <5> QED BY <5>1, SMTT(60)
      <4>4. At(pre[j + 1], 1 + (Len(pre[k - 1]) + 1) - 1, seqs[k])
        BY <2>3, <4>2, <4>3, AtPart
      <4>5. 1 + (Len(pre[k - 1]) + 1) - 1 = Len(pre[k - 1]) + 1
        BY <4>3
      <4> QED BY <4>4, <4>5
    <3> QED BY <3>1, <3>2
  <2> QED BY <2>1, <2>4
<1>4. 0 .. n \subseteq T
  <2> HIDE DEF T
  <2> QED BY <1>0, <1>2, <1>3, NumberInduction
<1>5. \A k \in 1 .. n : At(pre[n], Len(pre[k - 1]) + 1, seqs[k])
  BY <1>0, <1>4
<1> QED BY <1>1, <1>5 DEF Joins, Upto, n

(* What StringEnd() is at a letter.                                         *)
LEMMA StringEndFacts ==
  ASSUME NEW M, NEW s \in Seq(M), NEW p \in 1 .. Len(s) + 1
  PROVE  /\ StringEnd(s, p) \in p .. Len(s) + 1
         /\ p > Len(s) \/ s[p] = "q" => StringEnd(s, p) = p
         /\ p < Len(s) /\ s[p] = "bs" => StringEnd(s, p) = StringEnd(s, p + 2)
         /\ p <= Len(s) /\ s[p] # "q" /\ ~(p < Len(s) /\ s[p] = "bs") =>
              StringEnd(s, p) = StringEnd(s, p + 1)
<1> DEFINE n == Len(s)
           S == 1 .. n + 1
           Step(h, i) == CASE i > n \/ s[i] = "q" -> i
                           [] i < n /\ s[i] = "bs" -> h[i + 2]
                           [] OTHER -> h[i + 1]
           Eq(g) == g = [i \in S |-> Step(g, i)]
           rank == [i \in S |-> n + 1 - i]
           G == [x \in S \X [S -> Nat] |-> Step(x[2], x[1])]
           c == CHOOSE g : Eq(g)
<1>0. n \in Nat /\ p \in S
  OBVIOUS
<1>1. \A q : StringEnd(s, q) = c[q]
  BY DEF StringEnd
<1> HIDE DEF n, c
<1>2. \A h : \A i \in S :
        /\ i > n \/ s[i] = "q" => Step(h, i) = i
        /\ i < n /\ s[i] = "bs" => Step(h, i) = h[i + 2] /\ i + 2 \in S
        /\ i <= n /\ s[i] # "q" /\ ~(i < n /\ s[i] = "bs") => Step(h, i) = h[i + 1] /\ i + 1 \in S
  BY <1>0
<1> HIDE DEF Step
<1>3. \E g : Eq(g)
  <2>1. Nat # {} /\ n \in Nat /\ rank \in [S -> 0 .. n]
    BY <1>0
  <2>2. G \in [S \X [S -> Nat] -> Nat]
    <3>1. ASSUME NEW i \in S, NEW h \in [S -> Nat] PROVE Step(h, i) \in Nat
      <4>1. i \in Nat /\ (i > n \/ i <= n)
        BY <1>0
      <4>2. CASE i > n \/ s[i] = "q"
        BY <1>2, <4>1, <4>2
      <4>3. CASE i < n /\ s[i] = "bs"
        <5>1. Step(h, i) = h[i + 2] /\ i + 2 \in S
          BY <1>2, <4>3
        <5> QED BY <5>1
      <4>4. CASE i <= n /\ s[i] # "q" /\ ~(i < n /\ s[i] = "bs")
        <5>1. Step(h, i) = h[i + 1] /\ i + 1 \in S
          BY <1>2, <4>4
        <5> QED BY <5>1
      <4> QED BY <4>1, <4>2, <4>3, <4>4
    <3> HIDE DEF S
    <3> QED BY <3>1
  <2>3. \A i \in S : (i + 2 \in S => rank[i + 2] < rank[i]) /\ (i + 1 \in S => rank[i + 1] < rank[i])
    BY <1>0
  <2> HIDE DEF rank
  <2>4. \A i \in S : \A g, h \in [S -> Nat] :
          (\A y \in S : rank[y] < rank[i] => g[y] = h[y]) => Step(g, i) = Step(h, i)
    <3> SUFFICES ASSUME NEW i \in S, NEW g \in [S -> Nat], NEW h \in [S -> Nat],
                        \A y \in S : rank[y] < rank[i] => g[y] = h[y]
                 PROVE  Step(g, i) = Step(h, i)
      OBVIOUS
    <3>1. \/ i > n \/ s[i] = "q"
          \/ i < n /\ s[i] = "bs"
          \/ i <= n /\ s[i] # "q" /\ ~(i < n /\ s[i] = "bs")
      BY <1>0, SMTT(60)
    <3>2. (i + 2 \in S => g[i + 2] = h[i + 2]) /\ (i + 1 \in S => g[i + 1] = h[i + 1])
      BY <2>3
    <3> HIDE DEF S
    <3> QED BY <1>2, <3>1, <3>2
  <2>5. Recursive(S, Nat, n, rank, G)
    <3> HIDE DEF S
    <3> QED BY <2>1, <2>2, <2>4, ZenonT(60) DEF Recursive
  <2>6. PICK f \in [S -> Nat] : \A i \in S : f[i] = G[<<i, f>>]
    <3> HIDE DEF S, G
    <3> QED BY <2>5, Recursion
  <2>7. Eq(f)
    <3> HIDE DEF S
    <3>1. \A i \in S : f[i] = Step(f, i)
      BY <2>6
    <3> QED BY <3>1
  <2> QED BY <2>7
<1>4. Eq(c)
  <2> HIDE DEF Eq
  <2> QED BY <1>3 DEF c
<1>5. \A i \in S : c[i] = Step(c, i)
  <2> HIDE DEF S
  <2> QED BY <1>4
<1> HIDE DEF Eq
<1> DEFINE T == {i \in S : c[i] \in i .. n + 1}
<1>6. ASSUME NEW i \in S, \A y \in S : rank[y] < rank[i] => y \in T PROVE i \in T
  <2>1. (i + 2 \in S => rank[i + 2] < rank[i]) /\ (i + 1 \in S => rank[i + 1] < rank[i])
    BY <1>0
  <2> HIDE DEF rank
  <2>2. (i + 2 \in S => c[i + 2] \in i + 2 .. n + 1) /\ (i + 1 \in S => c[i + 1] \in i + 1 .. n + 1)
    BY <1>6, <2>1
  <2>3. c[i] \in i .. n + 1
    BY <1>0, <1>2, <1>5, <2>2, SMTT(60)
  <2> QED BY <2>3
<1>7. S \subseteq T
  <2>1. rank \in [S -> Nat]
    BY <1>0
  <2>2. \A i \in S : (\A y \in S : rank[y] < rank[i] => y \in T) => i \in T
    BY <1>6
  <2> HIDE DEF S, T, rank
  <2> QED BY <2>1, <2>2, RankInduction
<1>8. c[p] \in p .. n + 1
  BY <1>0, <1>7
<1> QED BY <1>0, <1>1, <1>2, <1>5, <1>8 DEF n

(* Where SpanEnd() gets to from the i-th letter, depth objects down. *)
Spans(s) ==
  CHOOSE g : g = [x \in (1 .. Len(s) + 2) \X (Nat \ {0}) |->
        LET i == x[1]
            depth == x[2]
        IN IF i > Len(s) THEN 0
           ELSE CASE s[i] = "q" -> g[<<StringEnd(s, i + 1) + 1, depth>>]
                  [] s[i] = "ob" -> g[<<i + 1, depth + 1>>]
                  [] s[i] = "cb" -> IF depth = 1 THEN i ELSE g[<<i + 1, depth - 1>>]
                  [] OTHER -> g[<<i + 1, depth>>]]

(* SpanEnd(), letter by letter. *)
LEMMA SpanEndFacts ==
  ASSUME NEW M, NEW s \in Seq(M)
  PROVE  /\ \A p : SpanEnd(s, p, "ob", "cb") = Spans(s)[<<p + 1, 1>>]
         /\ \A i \in 1 .. Len(s) + 2 : \A d \in Nat \ {0} :
              /\ i > Len(s) => Spans(s)[<<i, d>>] = 0
              /\ i <= Len(s) /\ s[i] = "q" => Spans(s)[<<i, d>>] = Spans(s)[<<StringEnd(s, i + 1) + 1, d>>]
              /\ i <= Len(s) /\ s[i] = "ob" => Spans(s)[<<i, d>>] = Spans(s)[<<i + 1, d + 1>>]
              /\ i <= Len(s) /\ s[i] = "cb" /\ d = 1 => Spans(s)[<<i, d>>] = i
              /\ i <= Len(s) /\ s[i] = "cb" /\ d # 1 => Spans(s)[<<i, d>>] = Spans(s)[<<i + 1, d - 1>>]
              /\ i <= Len(s) /\ s[i] \notin {"q", "ob", "cb"} => Spans(s)[<<i, d>>] = Spans(s)[<<i + 1, d>>]
<1> DEFINE n == Len(s)
           I == 1 .. n + 2
           D == Nat \ {0}
           S == I \X D
           Step(h, i, depth) ==
             IF i > n THEN 0
             ELSE CASE s[i] = "q" -> h[<<StringEnd(s, i + 1) + 1, depth>>]
                    [] s[i] = "ob" -> h[<<i + 1, depth + 1>>]
                    [] s[i] = "cb" -> IF depth = 1 THEN i ELSE h[<<i + 1, depth - 1>>]
                    [] OTHER -> h[<<i + 1, depth>>]
           Eq(g) == g = [x \in S |-> Step(g, x[1], x[2])]
           rank == [x \in S |-> n + 2 - x[1]]
           G == [x \in S \X [S -> Nat] |-> Step(x[2], x[1][1], x[1][2])]
           c == Spans(s)
<1>0. n \in Nat
  OBVIOUS
<1>1. \A p : SpanEnd(s, p, "ob", "cb") = c[<<p + 1, 1>>]
  BY DEF SpanEnd, Spans
<1>a. \A i \in 1 .. n : StringEnd(s, i + 1) + 1 \in i + 1 .. n + 2
  <2> SUFFICES ASSUME NEW i \in 1 .. n PROVE StringEnd(s, i + 1) + 1 \in i + 1 .. n + 2
    OBVIOUS
  <2>1. i + 1 \in 1 .. n + 1
    BY <1>0
  <2>2. StringEnd(s, i + 1) \in i + 1 .. n + 1
    BY <2>1, StringEndFacts
  <2> QED BY <1>0, <2>2
<1>2. c = CHOOSE g : Eq(g)
  BY DEF Spans
<1> HIDE DEF n, c
<1>c. \A i \in I : i \in Int
  BY <1>0
<1>d. \A d \in D : d \in Int
  OBVIOUS
<1> HIDE DEF I, D
<1>3. ASSUME NEW h, NEW i \in I, NEW d \in D
      PROVE  /\ i > n => Step(h, i, d) = 0
             /\ i <= n /\ s[i] = "q" => Step(h, i, d) = h[<<StringEnd(s, i + 1) + 1, d>>]
             /\ i <= n /\ s[i] = "ob" => Step(h, i, d) = h[<<i + 1, d + 1>>]
             /\ i <= n /\ s[i] = "cb" /\ d = 1 => Step(h, i, d) = i
             /\ i <= n /\ s[i] = "cb" /\ d # 1 => Step(h, i, d) = h[<<i + 1, d - 1>>]
             /\ i <= n /\ s[i] \notin {"q", "ob", "cb"} => Step(h, i, d) = h[<<i + 1, d>>]
  <2>1. i \in Int /\ n \in Int
    BY <1>0, <1>c
  <2>2. i <= n => ~(i > n)
    BY <2>1
  <2>3. i > n => Step(h, i, d) = 0
    OBVIOUS
  <2>4. i <= n /\ s[i] = "q" => Step(h, i, d) = h[<<StringEnd(s, i + 1) + 1, d>>]
    BY <2>2
  <2>5. i <= n /\ s[i] = "ob" => Step(h, i, d) = h[<<i + 1, d + 1>>]
    BY <2>2
  <2>6. i <= n /\ s[i] = "cb" /\ d = 1 => Step(h, i, d) = i
    BY <2>2
  <2>7. i <= n /\ s[i] = "cb" /\ d # 1 => Step(h, i, d) = h[<<i + 1, d - 1>>]
    BY <2>2
  <2>8. i <= n /\ s[i] \notin {"q", "ob", "cb"} => Step(h, i, d) = h[<<i + 1, d>>]
    BY <2>2
  <2> HIDE DEF Step
  <2> QED BY <2>3, <2>4, <2>5, <2>6, <2>7, <2>8
<1> HIDE DEF Step
<1>b. \A i \in I : \A d \in D : i <= n =>
        /\ StringEnd(s, i + 1) + 1 \in I /\ i + 1 \in I /\ d + 1 \in D /\ (d # 1 => d - 1 \in D)
        /\ StringEnd(s, i + 1) + 1 > i /\ i + 1 > i
  BY <1>0, <1>a DEF I, D
<1>4. \E g : Eq(g)
  <2>1. Nat # {} /\ n + 2 \in Nat /\ rank \in [S -> 0 .. n + 2]
    <3>1. \A x \in S : n + 2 - x[1] \in 0 .. n + 2
      BY <1>0 DEF I
    <3>2. 0 \in Nat /\ n + 2 \in Nat
      BY <1>0
    <3> DEFINE T == 0 .. n + 2
    <3> HIDE DEF S
    <3>3. \A x \in S : rank[x] \in T
      BY <3>1
    <3>4. rank \in [S -> T]
      <4>1. rank = [x \in S |-> rank[x]]
        OBVIOUS
      <4> HIDE DEF rank, T
      <4> QED BY <3>3, <4>1
    <3> QED BY <3>2, <3>4
  <2>2. G \in [S \X [S -> Nat] -> Nat]
    <3>1. ASSUME NEW i \in I, NEW d \in D, NEW h \in [S -> Nat] PROVE Step(h, i, d) \in Nat
      <4>0. i \in Int /\ i \in Nat /\ d \in Int /\ n \in Int
        BY <1>0, <1>c, <1>d DEF I
      <4>1. CASE i > n
        <5>1. Step(h, i, d) = 0
          BY <1>3, <4>0, <4>1
        <5> QED BY <5>1
      <4>2. CASE i <= n
        <5>1. /\ h[<<StringEnd(s, i + 1) + 1, d>>] \in Nat /\ h[<<i + 1, d + 1>>] \in Nat
              /\ h[<<i + 1, d>>] \in Nat /\ (d # 1 => h[<<i + 1, d - 1>>] \in Nat)
          BY <1>b, <4>2
        <5> HIDE DEF S
        <5>2. \/ Step(h, i, d) = i
              \/ Step(h, i, d) = h[<<StringEnd(s, i + 1) + 1, d>>]
              \/ Step(h, i, d) = h[<<i + 1, d + 1>>]
              \/ Step(h, i, d) = h[<<i + 1, d>>]
              \/ d # 1 /\ Step(h, i, d) = h[<<i + 1, d - 1>>]
          BY <1>3, <4>0, <4>2
        <5> QED BY <4>0, <5>1, <5>2
      <4> QED BY <4>0, <4>1, <4>2
    <3>2. \A x \in S \X [S -> Nat] : Step(x[2], x[1][1], x[1][2]) \in Nat
      BY <3>1
    <3> HIDE DEF S
    <3> QED BY <3>2
  <2>3. \A i \in I : \A d \in D : \A j \in I : \A e \in D : j > i => rank[<<j, e>>] < rank[<<i, d>>]
    BY <1>0, <1>c
  <2> HIDE DEF rank
  <2>4. \A x \in S : \A g, h \in [S -> Nat] :
          (\A y \in S : rank[y] < rank[x] => g[y] = h[y]) =>
             Step(g, x[1], x[2]) = Step(h, x[1], x[2])
    <3>0. ASSUME NEW i \in I, NEW d \in D, NEW g \in [S -> Nat], NEW h \in [S -> Nat],
                        \A y \in S : rank[y] < rank[<<i, d>>] => g[y] = h[y]
          PROVE  Step(g, i, d) = Step(h, i, d)
      <4>0. i \in Int /\ d \in Int /\ n \in Int
        BY <1>0, <1>c, <1>d
      <4>1. \A j \in I : \A e \in D : j > i => g[<<j, e>>] = h[<<j, e>>]
        <5> SUFFICES ASSUME NEW j \in I, NEW e \in D, j > i PROVE g[<<j, e>>] = h[<<j, e>>]
          OBVIOUS
        <5>1. <<j, e>> \in S /\ rank[<<j, e>>] < rank[<<i, d>>]
          BY <2>3
        <5> HIDE DEF S
        <5> QED BY <3>0, <5>1
      <4> HIDE DEF S
      <4>2. CASE i > n
        BY <1>3, <4>2
      <4>3. CASE i <= n
        <5>1. /\ g[<<StringEnd(s, i + 1) + 1, d>>] = h[<<StringEnd(s, i + 1) + 1, d>>]
              /\ g[<<i + 1, d + 1>>] = h[<<i + 1, d + 1>>] /\ g[<<i + 1, d>>] = h[<<i + 1, d>>]
              /\ d # 1 => g[<<i + 1, d - 1>>] = h[<<i + 1, d - 1>>]
          BY <1>b, <4>1, <4>3
        <5>2. CASE s[i] = "q"
          BY <1>3, <4>3, <5>1, <5>2
        <5>3. CASE s[i] = "ob"
          BY <1>3, <4>3, <5>1, <5>3
        <5>4. CASE s[i] = "cb" /\ d = 1
          BY <1>3, <4>3, <5>4
        <5>5. CASE s[i] = "cb" /\ d # 1
          <6>1. Step(g, i, d) = g[<<i + 1, d - 1>>] /\ Step(h, i, d) = h[<<i + 1, d - 1>>]
            BY <1>3, <4>3, <5>5
          <6> QED BY <5>1, <5>5, <6>1
        <5>6. CASE s[i] \notin {"q", "ob", "cb"}
          BY <1>3, <4>3, <5>1, <5>6
        <5> QED BY <5>2, <5>3, <5>4, <5>5, <5>6
      <4> QED BY <4>0, <4>2, <4>3
    <3> SUFFICES ASSUME NEW x \in S, NEW g \in [S -> Nat], NEW h \in [S -> Nat],
                        \A y \in S : rank[y] < rank[x] => g[y] = h[y]
                 PROVE  Step(g, x[1], x[2]) = Step(h, x[1], x[2])
      OBVIOUS
    <3>1. PICK i \in I, d \in D : x = <<i, d>>
      OBVIOUS
    <3> HIDE DEF S
    <3> QED BY <3>0, <3>1
  <2>5. Recursive(S, Nat, n + 2, rank, G)
    <3> HIDE DEF S
    <3> QED BY <2>1, <2>2, <2>4, ZenonT(60) DEF Recursive
  <2>6. PICK f \in [S -> Nat] : \A x \in S : f[x] = G[<<x, f>>]
    <3> HIDE DEF S, G
    <3> QED BY <2>5, Recursion
  <2>7. Eq(f)
    <3> HIDE DEF I, D
    <3>1. \A i \in I : \A d \in D : f[<<i, d>>] = Step(f, i, d)
      BY <2>6
    <3> QED BY <3>1
  <2> QED BY <2>7
<1>5. Eq(c)
  <2> HIDE DEF Eq
  <2> QED BY <1>2, <1>4
<1>6. ASSUME NEW i \in I, NEW d \in D PROVE c[<<i, d>>] = Step(c, i, d)
  BY <1>5 DEF Eq
<1> HIDE DEF Eq
<1>7. ASSUME NEW i \in I, NEW d \in D
      PROVE  /\ i > n => c[<<i, d>>] = 0
             /\ i <= n /\ s[i] = "q" => c[<<i, d>>] = c[<<StringEnd(s, i + 1) + 1, d>>]
             /\ i <= n /\ s[i] = "ob" => c[<<i, d>>] = c[<<i + 1, d + 1>>]
             /\ i <= n /\ s[i] = "cb" /\ d = 1 => c[<<i, d>>] = i
             /\ i <= n /\ s[i] = "cb" /\ d # 1 => c[<<i, d>>] = c[<<i + 1, d - 1>>]
             /\ i <= n /\ s[i] \notin {"q", "ob", "cb"} => c[<<i, d>>] = c[<<i + 1, d>>]
  <2>1. i > n => Step(c, i, d) = 0
    BY <1>3
  <2>2. i <= n /\ s[i] = "q" => Step(c, i, d) = c[<<StringEnd(s, i + 1) + 1, d>>]
    BY <1>3
  <2>3. i <= n /\ s[i] = "ob" => Step(c, i, d) = c[<<i + 1, d + 1>>]
    BY <1>3
  <2>4. i <= n /\ s[i] = "cb" /\ d = 1 => Step(c, i, d) = i
    BY <1>3
  <2>5. i <= n /\ s[i] = "cb" /\ d # 1 => Step(c, i, d) = c[<<i + 1, d - 1>>]
    BY <1>3
  <2>6. i <= n /\ s[i] \notin {"q", "ob", "cb"} => Step(c, i, d) = c[<<i + 1, d>>]
    BY <1>3
  <2> QED BY <1>6, <2>1, <2>2, <2>3, <2>4, <2>5, <2>6
<1> QED BY <1>1, <1>7 DEF n, c, I, D

(* What json_unescape() makes of the rest of a text, from the i-th letter.  *)
Unescapes(s) ==
  CHOOSE g : g = [i \in 1 .. Len(s) + 1 |->
        IF i > Len(s) THEN <<>>
        ELSE IF i < Len(s) /\ s[i] = "bs" THEN <<s[i + 1]>> \o g[i + 2]
        ELSE <<s[i]>> \o g[i + 1]]

(* Unescape(), letter by letter. *)
LEMMA UnescapeFacts ==
  ASSUME NEW M, NEW s \in Seq(M)
  PROVE  /\ Unescape(s) = Unescapes(s)[1]
         /\ \A i \in 1 .. Len(s) + 1 :
              /\ i > Len(s) => Unescapes(s)[i] = <<>>
              /\ i < Len(s) /\ s[i] = "bs" => Unescapes(s)[i] = <<s[i + 1]>> \o Unescapes(s)[i + 2]
              /\ i <= Len(s) /\ ~(i < Len(s) /\ s[i] = "bs") =>
                   Unescapes(s)[i] = <<s[i]>> \o Unescapes(s)[i + 1]
<1> DEFINE n == Len(s)
           S == 1 .. n + 1
           V == Seq(M)
           Step(h, i) == IF i > n THEN <<>>
                         ELSE IF i < n /\ s[i] = "bs" THEN <<s[i + 1]>> \o h[i + 2]
                         ELSE <<s[i]>> \o h[i + 1]
           Eq(g) == g = [i \in S |-> Step(g, i)]
           rank == [i \in S |-> n + 1 - i]
           G == [x \in S \X [S -> V] |-> Step(x[2], x[1])]
           c == Unescapes(s)
<1>0. n \in Nat /\ \A i \in 1 .. n : s[i] \in M
  OBVIOUS
<1>1. Unescape(s) = c[1] /\ c = CHOOSE g : Eq(g)
  BY DEF Unescape, Unescapes
<1> HIDE DEF n, c
<1>2. ASSUME NEW h, NEW i \in S
      PROVE  /\ i > n => Step(h, i) = <<>>
             /\ i < n /\ s[i] = "bs" => Step(h, i) = <<s[i + 1]>> \o h[i + 2] /\ i + 2 \in S
             /\ i <= n /\ ~(i < n /\ s[i] = "bs") => Step(h, i) = <<s[i]>> \o h[i + 1] /\ i + 1 \in S
  BY <1>0, SMTT(60)
<1> HIDE DEF Step
<1>3. \E g : Eq(g)
  <2>1. V # {} /\ n \in Nat /\ rank \in [S -> 0 .. n]
    BY <1>0
  <2>2. G \in [S \X [S -> V] -> V]
    <3>1. ASSUME NEW i \in S, NEW h \in [S -> V] PROVE Step(h, i) \in V
      <4>1. CASE i > n
        <5>1. Step(h, i) = <<>>
          BY <1>2, <4>1
        <5>2. <<>> \in V
          OBVIOUS
        <5> QED BY <5>1, <5>2
      <4>2. CASE i < n /\ s[i] = "bs"
        <5>1. Step(h, i) = <<s[i + 1]>> \o h[i + 2] /\ i + 2 \in S
          BY <1>2, <4>2
        <5>2. <<s[i + 1]>> \in V
          BY <1>0, <4>2
        <5>3. h[i + 2] \in V
          BY <5>1
        <5> QED BY <5>1, <5>2, <5>3, ConcatProperties
      <4>3. CASE i <= n /\ ~(i < n /\ s[i] = "bs")
        <5>1. Step(h, i) = <<s[i]>> \o h[i + 1] /\ i + 1 \in S
          BY <1>2, <4>3
        <5>2. <<s[i]>> \in V
          BY <1>0, <4>3
        <5>3. h[i + 1] \in V
          BY <5>1
        <5> QED BY <5>1, <5>2, <5>3, ConcatProperties
      <4> QED BY <1>0, <4>1, <4>2, <4>3
    <3> HIDE DEF S, V
    <3> QED BY <3>1
  <2>3. \A i \in S : (i + 2 \in S => rank[i + 2] < rank[i]) /\ (i + 1 \in S => rank[i + 1] < rank[i])
    BY <1>0
  <2> HIDE DEF rank, V
  <2>4. \A i \in S : \A g, h \in [S -> V] :
          (\A y \in S : rank[y] < rank[i] => g[y] = h[y]) => Step(g, i) = Step(h, i)
    <3> SUFFICES ASSUME NEW i \in S, NEW g \in [S -> V], NEW h \in [S -> V],
                        \A y \in S : rank[y] < rank[i] => g[y] = h[y]
                 PROVE  Step(g, i) = Step(h, i)
      OBVIOUS
    <3>1. (i + 2 \in S => g[i + 2] = h[i + 2]) /\ (i + 1 \in S => g[i + 1] = h[i + 1])
      BY <2>3
    <3>2. CASE i > n
      BY <1>2, <3>2
    <3>3. CASE i < n /\ s[i] = "bs"
      <4>1. /\ Step(g, i) = <<s[i + 1]>> \o g[i + 2] /\ Step(h, i) = <<s[i + 1]>> \o h[i + 2]
            /\ i + 2 \in S
        BY <1>2, <3>3
      <4>2. g[i + 2] = h[i + 2]
        BY <3>1, <4>1
      <4> HIDE DEF S
      <4> QED BY <4>1, <4>2
    <3>4. CASE i <= n /\ ~(i < n /\ s[i] = "bs")
      <4>1. Step(g, i) = <<s[i]>> \o g[i + 1] /\ Step(h, i) = <<s[i]>> \o h[i + 1]
        BY <1>2, <3>4
      <4>2. i + 1 \in S
        BY <1>0, <3>4
      <4> QED BY <3>1, <4>1, <4>2
    <3> QED BY <1>0, <3>2, <3>3, <3>4
  <2>5. Recursive(S, V, n, rank, G)
    <3> HIDE DEF S
    <3> QED BY <2>1, <2>2, <2>4 DEF Recursive
  <2>6. PICK f \in [S -> V] : \A i \in S : f[i] = G[<<i, f>>]
    <3> HIDE DEF S, G
    <3> QED BY <2>5, Recursion
  <2>7. Eq(f)
    <3> HIDE DEF S
    <3>1. \A i \in S : f[i] = Step(f, i)
      BY <2>6
    <3> QED BY <3>1
  <2> QED BY <2>7
<1>4. Eq(c)
  <2> HIDE DEF Eq
  <2> QED BY <1>1, <1>3
<1>5. \A i \in S : c[i] = Step(c, i)
  <2> HIDE DEF S
  <2> QED BY <1>4
<1> HIDE DEF Eq
<1>6. \A i \in S :
        /\ i > n => c[i] = <<>>
        /\ i < n /\ s[i] = "bs" => c[i] = <<s[i + 1]>> \o c[i + 2]
        /\ i <= n /\ ~(i < n /\ s[i] = "bs") => c[i] = <<s[i]>> \o c[i + 1]
  BY <1>2, <1>5
<1> QED BY <1>1, <1>6 DEF n, c

Escapes(x) == [i \in 1 .. Len(x) |-> Escaped(x[i])]

(* What a quoted text is made of. *)
LEMMA EscapesFacts ==
  ASSUME NEW M, {"q", "bs"} \subseteq M, NEW x \in Seq(M)
  PROVE  /\ Escapes(x) \in Seq(Seq(M)) /\ Len(Escapes(x)) = Len(x)
         /\ FlattenSeq(Escapes(x)) \in Seq(M)
         /\ Quoted(x) \in Seq(M)
         /\ Len(Quoted(x)) = Len(FlattenSeq(Escapes(x))) + 2
         /\ \A i \in 1 .. Len(x) :
              /\ Escapes(x)[i] \in Seq(M)
              /\ x[i] \in {"q", "bs"} => Escapes(x)[i] = <<"bs", x[i]>>
              /\ x[i] \notin {"q", "bs"} => Escapes(x)[i] = <<x[i]>>
<1> DEFINE E == Escapes(x)
<1>1. \A i \in 1 .. Len(x) :
              /\ E[i] \in Seq(M)
              /\ x[i] \in {"q", "bs"} => E[i] = <<"bs", x[i]>>
              /\ x[i] \notin {"q", "bs"} => E[i] = <<x[i]>>
  <2> SUFFICES ASSUME NEW i \in 1 .. Len(x)
               PROVE  /\ E[i] \in Seq(M)
                      /\ x[i] \in {"q", "bs"} => E[i] = <<"bs", x[i]>>
                      /\ x[i] \notin {"q", "bs"} => E[i] = <<x[i]>>
    OBVIOUS
  <2>1. E[i] = Escaped(x[i])
    BY DEF Escapes
  <2>2. x[i] \in M /\ "bs" \in M
    OBVIOUS
  <2>3. <<"bs", x[i]>> \in Seq(M) /\ <<x[i]>> \in Seq(M)
    BY <2>2
  <2> QED BY <2>1, <2>3 DEF Escaped
<1>2. E \in Seq(Seq(M)) /\ Len(E) = Len(x)
  <2>1. E = [i \in 1 .. Len(x) |-> E[i]] /\ Len(x) \in Nat
    BY DEF Escapes
  <2> HIDE DEF E
  <2>2. E \in [1 .. Len(x) -> Seq(M)]
    BY <1>1, <2>1
  <2> QED BY <2>1, <2>2
<1>3. FlattenSeq(E) \in Seq(M)
  <2> HIDE DEF E
  <2>1. PICK pre \in [0 .. Len(E) -> Seq(M)] : FlattenSeq(E) = pre[Len(E)]
    BY <1>2, FlattenIsJoined
  <2>2. Len(E) \in 0 .. Len(E)
    BY <1>2
  <2> QED BY <2>1, <2>2
<1>4. <<"q">> \in Seq(M) /\ Len(<<"q">>) = 1
  OBVIOUS
<1>5. Quoted(x) = <<"q">> \o FlattenSeq(E) \o <<"q">>
  BY DEF Quoted, Escapes
<1> DEFINE F == FlattenSeq(E)
<1> HIDE DEF E, F
<1>6. <<"q">> \o F \in Seq(M) /\ Len(<<"q">> \o F) = Len(F) + 1 /\ Len(F) \in Nat
  BY <1>3, <1>4, ConcatProperties DEF F
<1>7. (<<"q">> \o F) \o <<"q">> \in Seq(M) /\ Len((<<"q">> \o F) \o <<"q">>) = Len(F) + 2
  BY <1>4, <1>6, ConcatProperties
<1> QED BY <1>1, <1>2, <1>3, <1>5, <1>7 DEF E, F

(* A quoted text is opened, holds its letters escaped, and is closed.       *)
LEMMA AtQuoted ==
  ASSUME NEW M, {"q", "bs"} \subseteq M, NEW x \in Seq(M),
         NEW s \in Seq(M), NEW p, At(s, p, Quoted(x))
  PROVE  /\ p \in Nat \ {0} /\ p + Len(Quoted(x)) <= Len(s) + 1
         /\ s[p] = "q" /\ At(s, p + 1, FlattenSeq(Escapes(x)))
         /\ s[p + Len(Quoted(x)) - 1] = "q"
<1> DEFINE F == FlattenSeq(Escapes(x))
<1>1. F \in Seq(M) /\ Len(Quoted(x)) = Len(F) + 2
  BY EscapesFacts
<1>2. Quoted(x) = (<<"q">> \o F) \o <<"q">>
  BY DEF Quoted, Escapes
<1>3. p \in Nat \ {0} /\ p + Len(Quoted(x)) <= Len(s) + 1 /\ Len(s) \in Nat
  BY DEF At
<1>4. <<"q">> \in Seq(M) /\ Len(<<"q">>) = 1 /\ <<"q">>[1] = "q"
  OBVIOUS
<1> HIDE DEF F
<1>5. <<"q">> \o F \in Seq(M) /\ Len(<<"q">> \o F) = Len(F) + 1 /\ Len(F) \in Nat
  BY <1>1, <1>4, ConcatProperties
<1>6. At(s, p, <<"q">> \o F) /\ At(s, p + Len(<<"q">> \o F), <<"q">>)
  BY <1>2, <1>3, <1>4, <1>5, AtConcat, ZenonT(60)
<1>7. At(s, p, <<"q">>) /\ At(s, p + 1, F)
  BY <1>1, <1>3, <1>4, <1>6, AtConcat
<1>8. s[p] = "q"
  <2>1. s[p + 1 - 1] = <<"q">>[1]
    BY <1>4, <1>7 DEF At
  <2> QED BY <1>3, <1>4, <2>1
<1>9. s[p + (Len(F) + 1)] = "q"
  <2>1. s[(p + (Len(F) + 1)) + 1 - 1] = <<"q">>[1]
    BY <1>4, <1>5, <1>6 DEF At
  <2> QED BY <1>3, <1>4, <1>5, <2>1
<1>10. p + Len(Quoted(x)) - 1 = p + (Len(F) + 1)
  BY <1>1, <1>3, <1>5
<1> QED BY <1>3, <1>7, <1>8, <1>9, <1>10 DEF F

(* Where the escape of the next letter stands, and what it is.              *)
LEMMA NextEscape ==
  ASSUME NEW M, {"q", "bs"} \subseteq M, NEW x \in Seq(M), NEW pre, Joins(pre, Escapes(x), M),
         NEW s \in Seq(M), NEW p, At(s, p, FlattenSeq(Escapes(x))),
         NEW k \in 0 .. Len(x) - 1
  PROVE  LET a == p + Upto(pre, k)
             b == p + Upto(pre, k + 1)
         IN /\ p \in Nat \ {0} /\ Upto(pre, k) \in Nat /\ Upto(pre, k + 1) \in Nat
            /\ b <= p + Len(FlattenSeq(Escapes(x))) /\ b <= Len(s) + 1
            /\ x[k + 1] \in {"q", "bs"} => b = a + 2 /\ s[a] = "bs" /\ s[a + 1] = x[k + 1]
            /\ x[k + 1] \notin {"q", "bs"} => b = a + 1 /\ s[a] = x[k + 1]
<1> DEFINE E == Escapes(x)
           F == FlattenSeq(E)
           n == Len(x)
           j == k + 1
           e == E[j]
           u == Upto(pre, k)
           v == Upto(pre, j)
<1>1. /\ n \in Nat /\ Len(E) = n /\ F \in Seq(M) /\ j \in 1 .. n /\ k \in 0 .. n /\ j \in 0 .. n
      /\ j - 1 = k /\ e \in Seq(M)
  BY EscapesFacts, SMTT(60)
<1>2. /\ x[j] \in {"q", "bs"} => e = <<"bs", x[j]>>
      /\ x[j] \notin {"q", "bs"} => e = <<x[j]>>
  BY <1>1, EscapesFacts, SMTT(60)
<1> HIDE DEF E, F, j
<1>3. /\ pre[j] = pre[k] \o e /\ pre[k] \in Seq(M) /\ pre[j] \in Seq(M)
      /\ At(F, u + 1, e)
  BY <1>1 DEF Joins, E, F
<1>4. u \in Nat /\ v \in Nat /\ Len(e) \in Nat /\ v = u + Len(e)
  <2>1. \A w \in Seq(M) : Len(w) \in Nat
    OBVIOUS
  <2>2. \A w, z \in Seq(M) : Len(w \o z) = Len(w) + Len(z)
    OBVIOUS
  <2>3. Len(pre[k]) \in Nat /\ Len(pre[j]) \in Nat /\ Len(e) \in Nat
    BY <1>1, <1>3, <2>1
  <2>4. Len(pre[j]) = Len(pre[k]) + Len(e)
    BY <1>1, <1>3, <2>2
  <2> QED BY <2>3, <2>4 DEF Upto
<1> HIDE DEF e, u, v
<1>5. p \in Nat \ {0} /\ p \in Nat /\ Len(s) \in Nat /\ Len(F) \in Nat /\ p + Len(F) <= Len(s) + 1
  BY <1>1 DEF At, E, F
<1>7. u + 1 + Len(e) <= Len(F) + 1
  BY <1>3 DEF At
<1>8. At(s, p + (u + 1) - 1, e)
  BY <1>3, <1>4, <1>5, AtPart DEF E, F
<1>9. p + (u + 1) - 1 = p + u
  BY <1>4, <1>5
<1>10. \A i \in 1 .. Len(e) : s[p + u + i - 1] = e[i]
  BY <1>8, <1>9 DEF At
<1>11. ASSUME x[j] \in {"q", "bs"}
       PROVE  Len(e) = 2 /\ s[p + u] = "bs" /\ s[p + u + 1] = x[j]
  <2>1. e = <<"bs", x[j]>>
    BY <1>2, <1>11
  <2>2. Len(e) = 2 /\ e[1] = "bs" /\ e[2] = x[j]
    BY <2>1
  <2>3. s[p + u + 1 - 1] = e[1] /\ s[p + u + 2 - 1] = e[2]
    BY <1>10, <2>2
  <2>4. p + u + 1 - 1 = p + u /\ p + u + 2 - 1 = p + u + 1
    BY <1>4, <1>5
  <2> QED BY <2>2, <2>3, <2>4
<1>12. ASSUME x[j] \notin {"q", "bs"} PROVE Len(e) = 1 /\ s[p + u] = x[j]
  <2>1. e = <<x[j]>>
    BY <1>2, <1>12
  <2>2. Len(e) = 1 /\ e[1] = x[j]
    BY <2>1
  <2>3. s[p + u + 1 - 1] = e[1]
    BY <1>10, <2>2
  <2>4. p + u + 1 - 1 = p + u
    BY <1>4, <1>5
  <2> QED BY <2>2, <2>3, <2>4
<1>13. p + v = p + u + Len(e) /\ p + v <= p + Len(F) /\ p + v <= Len(s) + 1
  BY <1>4, <1>5, <1>7, SMTT(60)
<1>14. x[j] \in {"q", "bs"} => p + v = p + u + 2 /\ s[p + u] = "bs" /\ s[p + u + 1] = x[j]
  BY <1>11, <1>13
<1>15. x[j] \notin {"q", "bs"} => p + v = p + u + 1 /\ s[p + u] = x[j]
  BY <1>12, <1>13
<1> QED BY <1>4, <1>5, <1>13, <1>14, <1>15 DEF E, F, j, u, v

(* get_json_string() finds the end of a quoted text, whatever is in it.     *)
LEMMA QuotedEnds ==
  ASSUME NEW M, {"q", "bs"} \subseteq M, NEW x \in Seq(M),
         NEW s \in Seq(M), NEW p, At(s, p, Quoted(x))
  PROVE  StringEnd(s, p + 1) = p + Len(Quoted(x)) - 1
<1> DEFINE E == Escapes(x)
           F == FlattenSeq(E)
           n == Len(x)
<1>1. /\ n \in Nat /\ E \in Seq(Seq(M)) /\ Len(E) = n /\ F \in Seq(M) /\ Len(Quoted(x)) = Len(F) + 2
      /\ Len(F) \in Nat /\ Len(s) \in Nat
  BY EscapesFacts
<1>2. /\ p \in Nat \ {0} /\ p \in Nat /\ p + Len(Quoted(x)) <= Len(s) + 1 /\ At(s, p + 1, F)
      /\ s[p + Len(Quoted(x)) - 1] = "q"
  BY AtQuoted
<1>3. PICK pre : Joins(pre, E, M)
  BY <1>1, FlattenFacts
<1> HIDE DEF E, F, n
<1>4. pre[0] = <<>> /\ F = pre[n]
  BY <1>1, <1>3 DEF Joins, F
<1> DEFINE pos(k) == (p + 1) + Upto(pre, k)
           T == {k \in 0 .. n : StringEnd(s, p + 1) = StringEnd(s, pos(k))}
<1>5. 0 \in T
  <2>1. pos(0) = p + 1
    BY <1>2, <1>4 DEF Upto
  <2> QED BY <1>1, <2>1
<1>6. ASSUME NEW k \in 0 .. n - 1, k \in T PROVE k + 1 \in T
  <2>1. /\ Upto(pre, k) \in Nat /\ Upto(pre, k + 1) \in Nat /\ pos(k + 1) <= Len(s) + 1
        /\ pos(k + 1) <= (p + 1) + Len(F)
        /\ x[k + 1] \in {"q", "bs"} =>
             pos(k + 1) = pos(k) + 2 /\ s[pos(k)] = "bs" /\ s[pos(k) + 1] = x[k + 1]
        /\ x[k + 1] \notin {"q", "bs"} => pos(k + 1) = pos(k) + 1 /\ s[pos(k)] = x[k + 1]
    <3>1. p + 1 \in Nat
      BY <1>2
    <3> HIDE DEF T, pos
    <3> DEFINE P == p + 1
    <3>2. At(s, P, FlattenSeq(Escapes(x))) /\ Joins(pre, Escapes(x), M) /\ k \in 0 .. Len(x) - 1
      BY <1>2, <1>3 DEF E, F, n
    <3> HIDE DEF P
    <3>3. /\ P \in Nat \ {0} /\ Upto(pre, k) \in Nat /\ Upto(pre, k + 1) \in Nat
          /\ P + Upto(pre, k + 1) <= P + Len(F) /\ P + Upto(pre, k + 1) <= Len(s) + 1
          /\ x[k + 1] \in {"q", "bs"} =>
               /\ P + Upto(pre, k + 1) = (P + Upto(pre, k)) + 2 /\ s[P + Upto(pre, k)] = "bs"
               /\ s[(P + Upto(pre, k)) + 1] = x[k + 1]
          /\ x[k + 1] \notin {"q", "bs"} =>
               P + Upto(pre, k + 1) = (P + Upto(pre, k)) + 1 /\ s[P + Upto(pre, k)] = x[k + 1]
      BY <3>2, NextEscape DEF E, F
    <3> QED BY <3>3 DEF P, pos
  <2>2. pos(k) \in Nat \ {0}
    <3>1. p \in Nat /\ Upto(pre, k) \in Nat
      BY <1>2, <2>1
    <3> QED BY <3>1
  <2>3. pos(k + 1) <= Len(s)
    <3>1. (p + 1) + Len(F) <= Len(s)
      BY <1>1, <1>2
    <3>2. p \in Nat /\ Upto(pre, k + 1) \in Nat /\ (p + 1) + Upto(pre, k + 1) <= (p + 1) + Len(F)
      BY <1>2, <2>1
    <3> QED BY <1>1, <3>1, <3>2
  <2> HIDE DEF pos
  <2>4. CASE x[k + 1] \in {"q", "bs"}
    <3>1. pos(k) \in 1 .. Len(s) + 1 /\ pos(k) < Len(s) /\ s[pos(k)] = "bs"
      <4>1. pos(k) \in Nat \ {0} /\ Len(s) \in Nat /\ pos(k + 1) <= Len(s) /\ pos(k + 1) = pos(k) + 2
        BY <1>1, <2>1, <2>2, <2>3, <2>4
      <4> QED BY <2>1, <2>4, <4>1, SMTT(60)
    <3>2. StringEnd(s, pos(k)) = StringEnd(s, pos(k) + 2)
      BY <3>1, StringEndFacts
    <3>3. StringEnd(s, p + 1) = StringEnd(s, pos(k + 1))
      BY <1>6, <2>1, <2>4, <3>2
    <3> QED BY <1>1, <3>3
  <2>5. CASE x[k + 1] \notin {"q", "bs"}
    <3>1. pos(k) \in 1 .. Len(s) + 1 /\ pos(k) <= Len(s) /\ s[pos(k)] # "q" /\ s[pos(k)] # "bs"
      <4>1. pos(k) \in Nat \ {0} /\ Len(s) \in Nat /\ pos(k + 1) <= Len(s) /\ pos(k + 1) = pos(k) + 1
        BY <1>1, <2>1, <2>2, <2>3, <2>5
      <4> QED BY <2>1, <2>5, <4>1, SMTT(60)
    <3>2. StringEnd(s, pos(k)) = StringEnd(s, pos(k) + 1)
      BY <3>1, StringEndFacts
    <3>3. StringEnd(s, p + 1) = StringEnd(s, pos(k + 1))
      BY <1>6, <2>1, <2>5, <3>2
    <3> QED BY <1>1, <3>3
  <2> QED BY <2>4, <2>5
<1>7. 0 .. n \subseteq T
  <2> HIDE DEF T
  <2> QED BY <1>1, <1>5, <1>6, NumberInduction
<1>8. StringEnd(s, p + 1) = StringEnd(s, pos(n))
  BY <1>1, <1>7
<1>9. pos(n) = p + Len(Quoted(x)) - 1 /\ pos(n) \in 1 .. Len(s) + 1
  <2>1. pos(n) = (p + 1) + Len(F)
    BY <1>4 DEF Upto
  <2>2. p \in Nat \ {0} /\ p + (Len(F) + 2) <= Len(s) + 1
    BY <1>1, <1>2
  <2> HIDE DEF pos
  <2> QED BY <1>1, <2>1, <2>2
<1>10. StringEnd(s, p + Len(Quoted(x)) - 1) = p + Len(Quoted(x)) - 1
  BY <1>2, <1>9, StringEndFacts
<1> QED BY <1>8, <1>9, <1>10

(* The rest of a text is a letter and the rest after it. *)
LEMMA SubSeqHead ==
  ASSUME NEW M, NEW x \in Seq(M), NEW k \in 1 .. Len(x)
  PROVE  SubSeq(x, k, Len(x)) = <<x[k]>> \o SubSeq(x, k + 1, Len(x))
<1> DEFINE n == Len(x)
           a == SubSeq(x, k, n)
           b == SubSeq(x, k + 1, n)
           h == <<x[k]>>
<1>1. n \in Nat /\ k \in Nat /\ k <= n /\ k >= 1 /\ \A i \in 1 .. n : x[i] \in M
  OBVIOUS
<1>2. h \in Seq(M) /\ Len(h) = 1 /\ h[1] = x[k]
  BY <1>1
<1> HIDE DEF n, a, b, h
<1>3. a \in Seq(M) /\ Len(a) = n - k + 1 /\ \A i \in 1 .. n - k + 1 : a[i] = x[k + i - 1]
  <2>1. k \in Int /\ n \in Int /\ k <= n /\ \A i \in k .. n : x[i] \in M
    BY <1>1
  <2>2. /\ a \in Seq(M) /\ Len(a) = IF k <= n THEN n - k + 1 ELSE 0
        /\ \A i \in 1 .. n - k + 1 : a[i] = x[k + i - 1]
    BY <2>1, SubSeqProperties DEF a
  <2> QED BY <2>1, <2>2
<1>4. b \in Seq(M) /\ Len(b) = n - k /\ \A i \in 1 .. n - k : b[i] = x[k + i]
  <2>1. k + 1 \in Int /\ n \in Int /\ \A i \in k + 1 .. n : x[i] \in M
    BY <1>1
  <2>2. /\ b \in Seq(M) /\ Len(b) = IF k + 1 <= n THEN n - (k + 1) + 1 ELSE 0
        /\ \A i \in 1 .. n - (k + 1) + 1 : b[i] = x[(k + 1) + i - 1]
    BY <2>1, SubSeqProperties DEF b
  <2>3. n - (k + 1) + 1 = n - k /\ \A i \in 1 .. n - k : (k + 1) + i - 1 = k + i
    BY <1>1
  <2>4. Len(b) = n - k
    BY <1>1, <2>2
  <2> QED BY <2>2, <2>3, <2>4
<1>5. /\ h \o b \in Seq(M) /\ Len(h \o b) = n - k + 1
      /\ \A i \in 1 .. n - k + 1 : (h \o b)[i] = IF i <= 1 THEN h[i] ELSE b[i - 1]
  <2>1. /\ h \o b \in Seq(M) /\ Len(h \o b) = Len(h) + Len(b)
        /\ \A i \in 1 .. Len(h) + Len(b) : (h \o b)[i] = IF i <= Len(h) THEN h[i] ELSE b[i - Len(h)]
    BY <1>2, <1>4, ConcatProperties
  <2>2. Len(h) + Len(b) = n - k + 1
    BY <1>1, <1>2, <1>4
  <2> QED BY <1>2, <2>1, <2>2
<1>6. ASSUME NEW i \in 1 .. Len(a) PROVE a[i] = (h \o b)[i]
  <2>1. i \in 1 .. n - k + 1 /\ a[i] = x[k + i - 1]
    BY <1>3
  <2>2. CASE i = 1
    <3>1. k + i - 1 = k
      BY <1>1, <2>2
    <3>2. (h \o b)[i] = h[i]
      BY <1>5, <2>1, <2>2
    <3> QED BY <1>2, <2>1, <2>2, <3>1, <3>2
  <2>3. CASE i # 1
    <3>1. i - 1 \in 1 .. n - k /\ ~(i <= 1) /\ k + (i - 1) = k + i - 1
      BY <1>1, <2>1, <2>3, SMTT(60)
    <3>2. (h \o b)[i] = b[i - 1]
      BY <1>5, <2>1, <3>1
    <3>3. b[i - 1] = x[k + (i - 1)]
      BY <1>4, <3>1
    <3> QED BY <2>1, <3>1, <3>2, <3>3
  <2> QED BY <2>2, <2>3
<1>7. a = h \o b
  BY <1>3, <1>5, <1>6, SeqEqual
<1> QED BY <1>7 DEF n, a, b, h

(* json_unescape() undoes the escapes of an instance.                       *)
LEMMA UnescapeEscapes ==
  ASSUME NEW M, {"q", "bs"} \subseteq M, NEW x \in Seq(M)
  PROVE  Unescape(FlattenSeq(Escapes(x))) = x
<1> DEFINE E == Escapes(x)
           F == FlattenSeq(E)
           U == Unescapes(F)
           n == Len(x)
<1>1. n \in Nat /\ E \in Seq(Seq(M)) /\ Len(E) = n /\ F \in Seq(M) /\ Len(F) \in Nat
  BY EscapesFacts
<1>2. PICK pre : Joins(pre, E, M)
  BY <1>1, FlattenFacts
<1>3. At(F, 1, F)
  BY <1>1, AtWhole
<1> HIDE DEF E, F, n, U
<1>4. pre[0] = <<>> /\ F = pre[n]
  BY <1>1, <1>2 DEF Joins, F
<1>5. /\ Unescape(F) = U[1]
      /\ \A i \in 1 .. Len(F) + 1 :
              /\ i > Len(F) => U[i] = <<>>
              /\ i < Len(F) /\ F[i] = "bs" => U[i] = <<F[i + 1]>> \o U[i + 2]
              /\ i <= Len(F) /\ ~(i < Len(F) /\ F[i] = "bs") => U[i] = <<F[i]>> \o U[i + 1]
  BY <1>1, UnescapeFacts DEF U
<1> DEFINE pos(k) == 1 + Upto(pre, k)
           T == {j \in 0 .. n : U[pos(n - j)] = SubSeq(x, n - j + 1, n)}
<1>6. 0 \in T
  <2>1. pos(n) = Len(F) + 1
    BY <1>1, <1>4 DEF Upto
  <2>2. U[Len(F) + 1] = <<>>
    <3>1. Len(F) + 1 \in 1 .. Len(F) + 1 /\ Len(F) + 1 > Len(F)
      BY <1>1
    <3> QED BY <1>5, <3>1
  <2>3. SubSeq(x, n + 1, n) = <<>>
    BY <1>1, SubSeqEmpty
  <2>4. n - 0 = n /\ n - 0 + 1 = n + 1 /\ 0 \in 0 .. n
    BY <1>1
  <2> HIDE DEF pos
  <2>5. U[pos(n - 0)] = SubSeq(x, n - 0 + 1, n)
    BY <2>1, <2>2, <2>3, <2>4
  <2> QED BY <2>4, <2>5
<1>7. ASSUME NEW j \in 0 .. n - 1, j \in T PROVE j + 1 \in T
  <2> DEFINE k == n - (j + 1)
  <2>1. k \in 0 .. n - 1 /\ k + 1 = n - j /\ k + 1 \in 1 .. n
    BY <1>1
  <2> HIDE DEF k
  <2>2. /\ Upto(pre, k) \in Nat /\ pos(k + 1) <= Len(F) + 1
        /\ x[k + 1] \in {"q", "bs"} =>
             pos(k + 1) = pos(k) + 2 /\ F[pos(k)] = "bs" /\ F[pos(k) + 1] = x[k + 1]
        /\ x[k + 1] \notin {"q", "bs"} => pos(k + 1) = pos(k) + 1 /\ F[pos(k)] = x[k + 1]
    <3> HIDE DEF T
    <3>1. k \in 0 .. Len(x) - 1
      BY <2>1 DEF n
    <3> QED BY <1>1, <1>2, <1>3, <3>1, NextEscape DEF E, F
  <2>3. pos(k) \in Nat \ {0}
    BY <2>2
  <2>4. U[pos(k + 1)] = SubSeq(x, k + 2, n)
    <3>1. n - j + 1 = k + 2
      BY <1>1, <2>1
    <3> HIDE DEF pos
    <3> QED BY <1>7, <2>1, <3>1
  <2>5. SubSeq(x, k + 1, n) = <<x[k + 1]>> \o SubSeq(x, k + 2, n)
    <3>1. k + 1 \in 1 .. Len(x) /\ (k + 1) + 1 = k + 2
      BY <1>1, <2>1 DEF n
    <3> QED BY <3>1, SubSeqHead DEF n
  <2> HIDE DEF pos
  <2>6. U[pos(k)] = <<x[k + 1]>> \o U[pos(k + 1)]
    <3>1. CASE x[k + 1] \in {"q", "bs"}
      <4>1. pos(k) < Len(F) /\ pos(k) \in 1 .. Len(F) + 1
        BY <1>1, <2>2, <2>3, <3>1, SMTT(60)
      <4> QED BY <1>5, <2>2, <3>1, <4>1
    <3>2. CASE x[k + 1] \notin {"q", "bs"}
      <4>1. pos(k) <= Len(F) /\ pos(k) \in 1 .. Len(F) + 1
        BY <1>1, <2>2, <2>3, <3>2
      <4> QED BY <1>5, <2>2, <3>2, <4>1
    <3> QED BY <3>1, <3>2
  <2>7. U[pos(k)] = SubSeq(x, k + 1, n)
    BY <2>4, <2>5, <2>6
  <2>8. j + 1 \in 0 .. n /\ n - (j + 1) = k /\ n - (j + 1) + 1 = k + 1
    BY <1>1, <2>1 DEF k
  <2> QED BY <2>7, <2>8
<1>8. 0 .. n \subseteq T
  <2> HIDE DEF T
  <2> QED BY <1>1, <1>6, <1>7, NumberInduction
<1>9. U[pos(0)] = SubSeq(x, 1, n)
  <2>1. n \in T /\ n - n = 0 /\ n - n + 1 = 1
    BY <1>1, <1>8
  <2> HIDE DEF pos
  <2> QED BY <2>1
<1>10. pos(0) = 1
  BY <1>4 DEF Upto
<1>11. SubSeq(x, 1, n) = x
  BY DEF n
<1> QED BY <1>5, <1>9, <1>10, <1>11 DEF F, E

(* A text of one letter. *)
LEMMA OneLetter ==
  ASSUME NEW M, NEW l \in M
  PROVE  <<l>> \in Seq(M) /\ Len(<<l>>) = 1 /\ <<l>>[1] = l
OBVIOUS

(* Two texts joined are a text. *)
LEMMA TwoParts ==
  ASSUME NEW M, NEW b \in Seq(M), NEW c \in Seq(M)
  PROVE  /\ b \o c \in Seq(M) /\ Len(b \o c) = Len(b) + Len(c)
         /\ Len(b) \in Nat /\ Len(c) \in Nat /\ Len(b \o c) \in Nat
BY ConcatProperties

(* A text has a length. *)
LEMMA Length ==
  ASSUME NEW M, NEW b \in Seq(M)
  PROVE  Len(b) \in Nat
OBVIOUS

(* SpanEnd() gets past these letters at the depth at which it meets them.   *)
Inert(b, M) ==
  /\ b \in Seq(M)
  /\ \A s \in Seq(M) : \A p \in Nat : At(s, p, b) =>
       \A d \in Nat \ {0} : Spans(s)[<<p, d>>] = Spans(s)[<<p + Len(b), d>>]

(* The facts of a letter that stands somewhere. *)
LEMMA AtLetter ==
  ASSUME NEW M, NEW s \in Seq(M), NEW p \in Nat, NEW l
  PROVE  At(s, p, <<l>>) <=> p \in 1 .. Len(s) /\ s[p] = l
<1> DEFINE b == <<l>>
<1>1. Len(b) = 1 /\ b[1] = l /\ Len(s) \in Nat
  OBVIOUS
<1> HIDE DEF b
<1>2. p + 1 - 1 = p
  OBVIOUS
<1>3. ASSUME At(s, p, b) PROVE p \in 1 .. Len(s) /\ s[p] = l
  <2>1. s[p + 1 - 1] = b[1]
    BY <1>1, <1>3 DEF At
  <2> QED BY <1>1, <1>2, <1>3, <2>1 DEF At
<1>4. ASSUME p \in 1 .. Len(s), s[p] = l PROVE At(s, p, b)
  <2>1. \A i \in 1 .. Len(b) : i = 1
    BY <1>1
  <2> QED BY <1>1, <1>2, <1>4, <2>1 DEF At
<1> QED BY <1>3, <1>4 DEF b

(* Nothing is inert. *)
LEMMA InertEmpty ==
  ASSUME NEW M
  PROVE  Inert(<<>>, M)
<1>1. <<>> \in Seq(M) /\ Len(<<>>) = 0
  OBVIOUS
<1> QED BY <1>1 DEF Inert

(* So is a letter that is neither a bracket nor a quotation mark, *)
LEMMA InertLetter ==
  ASSUME NEW M, NEW l \in M, l \notin {"q", "ob", "cb"}
  PROVE  Inert(<<l>>, M)
<1> SUFFICES ASSUME NEW s \in Seq(M), NEW p \in Nat, At(s, p, <<l>>), NEW d \in Nat \ {0}
             PROVE  Spans(s)[<<p, d>>] = Spans(s)[<<p + 1, d>>]
  <2>1. <<l>> \in Seq(M) /\ Len(<<l>>) = 1
    BY OneLetter
  <2> QED BY <2>1 DEF Inert
<1>1. p \in 1 .. Len(s) /\ s[p] = l
  BY AtLetter
<1>2. p \in 1 .. Len(s) + 2 /\ p <= Len(s)
  <2>1. p \in 1 .. Len(s) /\ Len(s) \in Nat
    BY <1>1, Length
  <2> QED BY <2>1
<1> QED BY <1>1, <1>2, SpanEndFacts

(* so are two inert texts, one after the other, *)
LEMMA InertConcat ==
  ASSUME NEW M, NEW b, NEW c, Inert(b, M), Inert(c, M)
  PROVE  Inert(b \o c, M)
<1>1. b \in Seq(M) /\ c \in Seq(M)
  BY DEF Inert
<1>2. b \o c \in Seq(M) /\ Len(b \o c) = Len(b) + Len(c) /\ Len(b) \in Nat /\ Len(c) \in Nat
  BY <1>1
<1> SUFFICES ASSUME NEW s \in Seq(M), NEW p \in Nat, At(s, p, b \o c), NEW d \in Nat \ {0}
             PROVE  Spans(s)[<<p, d>>] = Spans(s)[<<p + Len(b \o c), d>>]
  BY <1>2 DEF Inert
<1>3. p \in Nat \ {0} /\ Len(s) \in Nat
  BY DEF At
<1>4. At(s, p, b) /\ At(s, p + Len(b), c)
  BY <1>1, <1>3, AtConcat
<1>5. Spans(s)[<<p, d>>] = Spans(s)[<<p + Len(b), d>>]
  BY <1>4 DEF Inert
<1>6. p + Len(b) \in Nat
  BY <1>2
<1>7. Spans(s)[<<p + Len(b), d>>] = Spans(s)[<<(p + Len(b)) + Len(c), d>>]
  BY <1>4, <1>6 DEF Inert
<1>8. (p + Len(b)) + Len(c) = p + Len(b \o c)
  BY <1>2
<1> QED BY <1>5, <1>7, <1>8

(* A quoted text is inert, whatever brackets and quotation marks are in it. *)
LEMMA InertQuoted ==
  ASSUME NEW M, {"q", "bs", "ob", "cb"} \subseteq M, NEW x \in Seq(M)
  PROVE  Inert(Quoted(x), M)
<1>0. {"q", "bs"} \subseteq M
  OBVIOUS
<1>1. Quoted(x) \in Seq(M)
  BY <1>0, EscapesFacts
<1> SUFFICES ASSUME NEW s \in Seq(M), NEW p \in Nat, At(s, p, Quoted(x)), NEW d \in Nat \ {0}
             PROVE  Spans(s)[<<p, d>>] = Spans(s)[<<p + Len(Quoted(x)), d>>]
  BY <1>1 DEF Inert
<1>2. p \in Nat \ {0} /\ p + Len(Quoted(x)) <= Len(s) + 1 /\ s[p] = "q"
  BY <1>0, AtQuoted
<1>3. StringEnd(s, p + 1) = p + Len(Quoted(x)) - 1
  BY <1>0, QuotedEnds
<1>4. Len(Quoted(x)) \in Nat /\ Len(Quoted(x)) >= 2 /\ Len(s) \in Nat
  BY <1>0, <1>1, EscapesFacts
<1> DEFINE n == Len(Quoted(x))
<1> HIDE DEF n
<1>5. p \in 1 .. Len(s) + 2 /\ p <= Len(s)
  BY <1>2, <1>4 DEF n
<1>6. Spans(s)[<<p, d>>] = Spans(s)[<<StringEnd(s, p + 1) + 1, d>>]
  BY <1>2, <1>5, SpanEndFacts
<1>7. StringEnd(s, p + 1) + 1 = p + n
  BY <1>3, <1>4 DEF n
<1> QED BY <1>6, <1>7 DEF n

(* What an object is made of. *)
LEMMA ObjectFacts ==
  ASSUME NEW M, {"q", "bs", "ob", "cb"} \subseteq M, NEW b \in Seq(M)
  PROVE  /\ Object(b) \in Seq(M) /\ Len(Object(b)) = Len(b) + 2
         /\ Object(b) = (<<"ob">> \o b) \o <<"cb">>
         /\ \A s \in Seq(M) : \A p \in Nat : At(s, p, Object(b)) =>
              /\ p \in 1 .. Len(s) /\ s[p] = "ob" /\ At(s, p + 1, b)
              /\ p + 1 + Len(b) \in 1 .. Len(s) /\ s[p + 1 + Len(b)] = "cb"
<1>1. Object(b) = (<<"ob">> \o b) \o <<"cb">>
  BY DEF Object
<1>2. "ob" \in M /\ "cb" \in M
  OBVIOUS
<1> DEFINE o == <<"ob">>
           c == <<"cb">>
<1>3. o \in Seq(M) /\ c \in Seq(M) /\ Len(o) = 1 /\ Len(c) = 1
  BY <1>2, OneLetter
<1> HIDE DEF o, c
<1>4. o \o b \in Seq(M) /\ Len(o \o b) = 1 + Len(b) /\ Len(b) \in Nat
  BY <1>3, TwoParts
<1>5. (o \o b) \o c \in Seq(M) /\ Len((o \o b) \o c) = Len(b) + 2
  BY <1>3, <1>4, TwoParts
<1>6. ASSUME NEW s \in Seq(M), NEW p \in Nat, At(s, p, Object(b))
      PROVE  /\ p \in 1 .. Len(s) /\ s[p] = "ob" /\ At(s, p + 1, b)
             /\ p + 1 + Len(b) \in 1 .. Len(s) /\ s[p + 1 + Len(b)] = "cb"
  <2>1. p \in Nat \ {0} /\ Len(s) \in Nat
    BY <1>6 DEF At
  <2>2. At(s, p, o \o b) /\ At(s, p + Len(o \o b), c)
    BY <1>1, <1>3, <1>4, <1>6, <2>1, AtConcat, ZenonT(60) DEF o, c
  <2>3. At(s, p, o) /\ At(s, p + Len(o), b)
    BY <1>3, <2>1, <2>2, AtConcat
  <2>4. p + Len(o \o b) = p + 1 + Len(b) /\ p + 1 + Len(b) \in Nat
    BY <1>4
  <2>5. p \in 1 .. Len(s) /\ s[p] = "ob"
    BY <2>3, AtLetter DEF o
  <2>6. p + 1 + Len(b) \in 1 .. Len(s) /\ s[p + 1 + Len(b)] = "cb"
    BY <2>2, <2>4, AtLetter DEF c
  <2> QED BY <1>3, <2>3, <2>5, <2>6
<1> QED BY <1>1, <1>5, <1>6 DEF o, c

(* SpanEnd() finds the end of an object, and gets past an object within one. *)
LEMMA ObjectEnds ==
  ASSUME NEW M, {"q", "bs", "ob", "cb"} \subseteq M, NEW b, Inert(b, M),
         NEW s \in Seq(M), NEW p \in Nat, At(s, p, Object(b))
  PROVE  SpanEnd(s, p, "ob", "cb") = p + Len(Object(b)) - 1
<1>1. b \in Seq(M) /\ Len(b) \in Nat /\ Len(s) \in Nat
  BY DEF Inert
<1>2. /\ p \in 1 .. Len(s) /\ s[p] = "ob" /\ At(s, p + 1, b) /\ Len(Object(b)) = Len(b) + 2
      /\ p + 1 + Len(b) \in 1 .. Len(s) /\ s[p + 1 + Len(b)] = "cb"
  <2> HIDE DEF Inert
  <2> QED BY <1>1, ObjectFacts
<1>2a. p \in 1 .. Len(s) /\ p + 1 + Len(b) \in 1 .. Len(s)
  BY <1>2
<1>2b. Len(Object(b)) = Len(b) + 2
  BY <1>2
<1>3. SpanEnd(s, p, "ob", "cb") = Spans(s)[<<p + 1, 1>>]
  BY SpanEndFacts
<1>4. Spans(s)[<<p + 1, 1>>] = Spans(s)[<<(p + 1) + Len(b), 1>>]
  <2>1. p + 1 \in Nat /\ 1 \in Nat \ {0}
    OBVIOUS
  <2> QED BY <1>2, <2>1 DEF Inert
<1> DEFINE q == p + 1 + Len(b)
<1>5. q \in 1 .. Len(s) + 2 /\ q <= Len(s) /\ 1 \in Nat \ {0}
  BY <1>1, <1>2a
<1>6. Spans(s)[<<q, 1>>] = q
  <2> HIDE DEF q
  <2>1. s[q] = "cb"
    BY <1>2 DEF q
  <2> QED BY <1>5, <2>1, SpanEndFacts
<1>7. q = p + Len(Object(b)) - 1
  BY <1>1, <1>2b
<1> QED BY <1>3, <1>4, <1>6, <1>7

(* and so is an object around an inert text. *)
LEMMA InertObject ==
  ASSUME NEW M, {"q", "bs", "ob", "cb"} \subseteq M, NEW b, Inert(b, M)
  PROVE  Inert(Object(b), M)
<1>1. b \in Seq(M) /\ Len(b) \in Nat
  BY DEF Inert
<1>2. Object(b) \in Seq(M) /\ Len(Object(b)) = Len(b) + 2
  BY <1>1, ObjectFacts
<1> SUFFICES ASSUME NEW s \in Seq(M), NEW p \in Nat, At(s, p, Object(b)), NEW d \in Nat \ {0}
             PROVE  Spans(s)[<<p, d>>] = Spans(s)[<<p + Len(Object(b)), d>>]
  BY <1>2 DEF Inert
<1>3. /\ p \in 1 .. Len(s) /\ s[p] = "ob" /\ At(s, p + 1, b) /\ Len(s) \in Nat
      /\ p + 1 + Len(b) \in 1 .. Len(s) /\ s[p + 1 + Len(b)] = "cb"
  BY <1>1, ObjectFacts, Length
<1>3a. p \in 1 .. Len(s) /\ p + 1 + Len(b) \in 1 .. Len(s) /\ Len(s) \in Nat
  BY <1>3
<1>4. Spans(s)[<<p, d>>] = Spans(s)[<<p + 1, d + 1>>]
  <2>1. p \in 1 .. Len(s) + 2 /\ p <= Len(s)
    BY <1>3a
  <2> QED BY <1>3, <2>1, SpanEndFacts
<1>5. Spans(s)[<<p + 1, d + 1>>] = Spans(s)[<<(p + 1) + Len(b), d + 1>>]
  <2>1. p + 1 \in Nat /\ d + 1 \in Nat \ {0}
    OBVIOUS
  <2> QED BY <1>3, <2>1 DEF Inert
<1> DEFINE q == p + 1 + Len(b)
<1>6. Spans(s)[<<q, d + 1>>] = Spans(s)[<<q + 1, (d + 1) - 1>>]
  <2>1. q \in 1 .. Len(s) + 2 /\ q <= Len(s) /\ d + 1 \in Nat \ {0} /\ d + 1 # 1
    BY <1>1, <1>3a
  <2> HIDE DEF q
  <2>2. s[q] = "cb"
    BY <1>3 DEF q
  <2> QED BY <2>1, <2>2, SpanEndFacts
<1>7. q + 1 = p + Len(Object(b)) /\ (d + 1) - 1 = d
  BY <1>1, <1>2
<1> QED BY <1>4, <1>5, <1>6, <1>7

(* First() is determined by what it is to find. *)
LEMMA FirstIs ==
  ASSUME NEW M, NEW s \in Seq(M), NEW p \in Nat, NEW letters,
         NEW i \in p .. Len(s) + 1, i = Len(s) + 1 \/ s[i] \in letters,
         \A j \in p .. i - 1 : s[j] \notin letters
  PROVE  First(s, p, letters) = i
<1> DEFINE P(k) == /\ k = Len(s) + 1 \/ s[k] \in letters
                   /\ \A j \in p .. k - 1 : s[j] \notin letters
<1>0. Len(s) \in Nat
  OBVIOUS
<1>1. P(i)
  OBVIOUS
<1>2. ASSUME NEW k \in p .. Len(s) + 1, P(k) PROVE k = i
  <2>1. k \in Int /\ i \in Int /\ p <= k /\ p <= i /\ k <= Len(s) + 1 /\ i <= Len(s) + 1
    BY <1>0
  <2>2. ~(k < i)
    <3> SUFFICES ASSUME k < i PROVE FALSE
      OBVIOUS
    <3>1. k \in p .. i - 1 /\ k # Len(s) + 1
      BY <1>0, <2>1
    <3> QED BY <1>2, <3>1
  <2>3. ~(i < k)
    <3> SUFFICES ASSUME i < k PROVE FALSE
      OBVIOUS
    <3>1. i \in p .. k - 1 /\ i # Len(s) + 1
      BY <1>0, <2>1
    <3> QED BY <1>2, <3>1
  <2> QED BY <2>1, <2>2, <2>3
<1>3. First(s, p, letters) = CHOOSE k \in p .. Len(s) + 1 : P(k)
  BY DEF First
<1> HIDE DEF P
<1> QED BY <1>1, <1>2, <1>3

(* What First() finds. *)
LEMMA FirstFacts ==
  ASSUME NEW M, NEW s \in Seq(M), NEW p \in 1 .. Len(s) + 1, NEW letters
  PROVE  /\ First(s, p, letters) \in p .. Len(s) + 1
         /\ First(s, p, letters) = Len(s) + 1 \/ s[First(s, p, letters)] \in letters
         /\ \A j \in p .. First(s, p, letters) - 1 : s[j] \notin letters
<1> DEFINE T == {k \in Nat : k \in p .. Len(s) + 1 /\ (k = Len(s) + 1 \/ s[k] \in letters)}
<1>0. Len(s) \in Nat /\ p \in Nat
  OBVIOUS
<1>1. Len(s) + 1 \in T
  BY <1>0
<1>2. PICK k \in T : \A y \in T : ~(y < k)
  <2>1. T \subseteq Nat /\ T # {}
    BY <1>1
  <2> HIDE DEF T
  <2> QED BY <2>1, LeastNumber
<1>3. k \in p .. Len(s) + 1 /\ (k = Len(s) + 1 \/ s[k] \in letters)
  BY <1>2
<1>4. ASSUME NEW j \in p .. k - 1 PROVE s[j] \notin letters
  <2>1. j \in Nat /\ j \in p .. Len(s) + 1 /\ j < k
    BY <1>0, <1>3
  <2> QED BY <1>2, <2>1
<1>5. First(s, p, letters) = k
  <2> HIDE DEF T
  <2> QED BY <1>0, <1>3, <1>4, FirstIs
<1> QED BY <1>3, <1>4, <1>5

(* A member of this name is not among these letters. *)
Lacks(b, key, M) ==
  /\ b \in Seq(M)
  /\ \A i \in 1 .. Len(b) : b[i] # key

(* These letters stand in s, and nothing of this name before them.          *)
Seeks(s, key, b, M) ==
  /\ s \in Seq(M) /\ b \in Seq(M)
  /\ \E p \in Nat : At(s, p, b) /\ \A j \in 1 .. p - 1 : s[j] # key

(* FindKey() starts with the whole text; *)
LEMMA SeekWhole ==
  ASSUME NEW M, NEW s \in Seq(M), NEW key
  PROVE  Seeks(s, key, s, M)
<1>1. At(s, 1, s) /\ \A j \in 1 .. 1 - 1 : s[j] # key
  BY AtWhole
<1> QED BY <1>1 DEF Seeks

(* it looks into the first part of what is left; *)
LEMMA SeekFirst ==
  ASSUME NEW M, NEW s, NEW key, NEW b \in Seq(M), NEW c \in Seq(M), Seeks(s, key, b \o c, M)
  PROVE  Seeks(s, key, b, M)
<1>1. s \in Seq(M) /\ Len(s) \in Nat
  BY Length DEF Seeks
<1>2. PICK p \in Nat : At(s, p, b \o c) /\ \A j \in 1 .. p - 1 : s[j] # key
  BY DEF Seeks
<1>3. p \in Nat \ {0}
  BY <1>2 DEF At
<1>4. At(s, p, b)
  BY <1>1, <1>2, <1>3, AtConcat
<1> QED BY <1>1, <1>2, <1>4 DEF Seeks

(* and it passes by a part that lacks the key. *)
LEMMA SeekPast ==
  ASSUME NEW M, NEW s, NEW key, NEW b, NEW c \in Seq(M), Lacks(b, key, M), Seeks(s, key, b \o c, M)
  PROVE  Seeks(s, key, c, M)
<1>1. s \in Seq(M) /\ Len(s) \in Nat /\ b \in Seq(M) /\ Len(b) \in Nat
  BY Length DEF Seeks, Lacks
<1>2. PICK p \in Nat : At(s, p, b \o c) /\ \A j \in 1 .. p - 1 : s[j] # key
  BY DEF Seeks
<1>3. p \in Nat \ {0}
  BY <1>2 DEF At
<1>4. At(s, p, b) /\ At(s, p + Len(b), c)
  BY <1>1, <1>2, <1>3, AtConcat
<1>5. ASSUME NEW j \in 1 .. (p + Len(b)) - 1 PROVE s[j] # key
  <2>1. CASE j <= p - 1
    <3>1. j \in 1 .. p - 1
      BY <1>1, <2>1
    <3> QED BY <1>2, <3>1
  <2>2. CASE ~(j <= p - 1)
    <3> DEFINE i == j - p + 1
    <3>1. i \in 1 .. Len(b) /\ p + i - 1 = j
      BY <1>1, <2>2
    <3> HIDE DEF i
    <3>2. s[p + i - 1] = b[i]
      BY <1>4, <3>1 DEF At
    <3>3. b[i] # key
      BY <3>1 DEF Lacks
    <3> QED BY <3>1, <3>2, <3>3
  <2> QED BY <2>1, <2>2
<1>6. p + Len(b) \in Nat
  BY <1>1
<1> QED BY <1>1, <1>4, <1>5, <1>6 DEF Seeks

(* find_key() gets to the value of the member.                              *)
LEMMA KeyFound ==
  ASSUME NEW M, NEW s, NEW key \in M, NEW b \in Seq(M), Seeks(s, key, <<key>> \o b, M)
  PROVE  /\ s \in Seq(M) /\ FindKey(s, key) \in Nat /\ At(s, FindKey(s, key), b)
<1>1. s \in Seq(M) /\ Len(s) \in Nat /\ <<key>> \in Seq(M) /\ Len(<<key>>) = 1
  BY Length, OneLetter DEF Seeks
<1>2. PICK p \in Nat : At(s, p, <<key>> \o b) /\ \A j \in 1 .. p - 1 : s[j] # key
  BY DEF Seeks
<1>3. p \in Nat \ {0}
  BY <1>2 DEF At
<1>4. At(s, p, <<key>>) /\ At(s, p + Len(<<key>>), b)
  BY <1>1, <1>2, <1>3, AtConcat
<1>5. p \in 1 .. Len(s) /\ s[p] = key
  BY <1>1, <1>4, AtLetter
<1>6. First(s, 1, {key}) = p
  <2>1. p \in 1 .. Len(s) + 1 /\ 1 \in Nat
    BY <1>1, <1>5
  <2>2. (p = Len(s) + 1 \/ s[p] \in {key}) /\ \A j \in 1 .. p - 1 : s[j] \notin {key}
    BY <1>2, <1>5
  <2> DEFINE K == {key}
  <2> HIDE DEF K
  <2>3. First(s, 1, K) = p
    BY <1>1, <2>1, <2>2, FirstIs DEF K
  <2> QED BY <2>3 DEF K
<1> QED BY <1>1, <1>4, <1>6 DEF FindKey

(* get_raw_span() returns the object that is the value of a member.         *)
LEMMA RawSpanReads ==
  ASSUME NEW M, {"q", "bs", "ob", "cb"} \subseteq M, NEW s, NEW key \in M, NEW b, Inert(b, M),
         Seeks(s, key, <<key>> \o Object(b), M)
  PROVE  RawSpan(s, key) = Object(b)
<1>1. b \in Seq(M) /\ Len(b) \in Nat
  BY Length DEF Inert
<1>2. Object(b) \in Seq(M) /\ Len(Object(b)) = Len(b) + 2
  BY <1>1, ObjectFacts
<1> DEFINE p == FindKey(s, key)
           o == Object(b)
<1>3. s \in Seq(M) /\ p \in Nat /\ At(s, p, o) /\ Len(s) \in Nat
  BY <1>2, KeyFound, Length
<1>4. p \in 1 .. Len(s) /\ s[p] = "ob"
  BY <1>1, <1>3, ObjectFacts
<1>5. SpanEnd(s, p, "ob", "cb") = p + Len(o) - 1
  BY <1>3, ObjectEnds
<1>6. SubSeq(s, p, p + Len(o) - 1) = o
  BY <1>2, <1>3, AtSubSeq
<1>7. p + Len(o) - 1 # 0 /\ ~(p > Len(s))
  <2>1. Len(o) = Len(b) + 2 /\ p \in 1 .. Len(s)
    BY <1>2, <1>4
  <2> HIDE DEF o, p
  <2> QED BY <1>1, <1>3, <2>1
<1>8. RawSpan(s, key) = IF SpanEnd(s, p, "ob", "cb") = 0 THEN <<>>
                        ELSE SubSeq(s, p, SpanEnd(s, p, "ob", "cb"))
  BY <1>4, <1>7 DEF RawSpan
<1> HIDE DEF o, p
<1>9. RawSpan(s, key) = o
  BY <1>5, <1>6, <1>7, <1>8
<1> QED BY <1>9 DEF o

(* ... and nothing for what is not an object or an array.                   *)
LEMMA RawSpanNull ==
  ASSUME NEW M, NEW s, NEW key \in M, NEW l \in M, l \notin {"ob", "["},
         Seeks(s, key, <<key>> \o <<l>>, M)
  PROVE  RawSpan(s, key) = <<>>
<1> DEFINE p == FindKey(s, key)
<1>1. <<l>> \in Seq(M)
  BY OneLetter
<1>2. s \in Seq(M) /\ p \in Nat /\ At(s, p, <<l>>) /\ Len(s) \in Nat
  BY <1>1, KeyFound, Length
<1>3. p \in 1 .. Len(s) /\ s[p] = l
  BY <1>2, AtLetter
<1>4. ~(p > Len(s))
  BY <1>2, <1>3
<1> QED BY <1>3, <1>4 DEF RawSpan

(* get_json_string() returns the text that was quoted, as far as it fits.   *)
LEMMA JsonStringReads ==
  ASSUME NEW M, {"q", "bs"} \subseteq M, NEW s, NEW key \in M, NEW x \in Seq(M), NEW max,
         Seeks(s, key, <<key>> \o Quoted(x), M)
  PROVE  JsonString(s, key, max) = Cut(x, max)
<1> DEFINE p == FindKey(s, key)
           F == FlattenSeq(Escapes(x))
           Q == Quoted(x)
<1>1. Q \in Seq(M) /\ F \in Seq(M) /\ Len(Q) = Len(F) + 2 /\ Len(F) \in Nat
  BY EscapesFacts, Length
<1>2. s \in Seq(M) /\ p \in Nat /\ At(s, p, Q) /\ Len(s) \in Nat
  BY <1>1, KeyFound, Length
<1>3. p \in Nat \ {0} /\ p + Len(Q) <= Len(s) + 1 /\ s[p] = "q" /\ At(s, p + 1, F)
  BY <1>2, AtQuoted
<1>4. StringEnd(s, p + 1) = p + Len(Q) - 1
  BY <1>2, QuotedEnds
<1>5. Unescape(F) = x
  BY UnescapeEscapes
<1> HIDE DEF p, F, Q
<1>6. SubSeq(s, p + 1, (p + 1) + Len(F) - 1) = F
  BY <1>1, <1>2, <1>3, AtSubSeq
<1>7. StringEnd(s, p + 1) - 1 = (p + 1) + Len(F) - 1
  BY <1>1, <1>2, <1>4
<1>8. ~(p > Len(s))
  BY <1>1, <1>2, <1>3
<1> QED BY <1>3, <1>5, <1>6, <1>7, <1>8 DEF JsonString, p

(* The letters of texts and objects, and all that may stand in an answer.   *)
Text ==
  Alphabet \cup {"q", "bs", "ob", "cb", "[", "]", "null", "<", ">", "&", "lt", "amp", "br", "p", "/p"}

Written ==
  Text \cup Members \cup {SizeText[n] : n \in 0 .. RespBuf}
  \cup {"error", "200", "500", "chunked", "blank", "crlf"}

(* Letters of texts and marks are no member names; with these they are all  *)
(* that is written.                                                         *)
LEMMA TextIsWritten ==
  /\ Text \subseteq Written /\ Members \subseteq Written /\ Text \cap Members = {}
  /\ {"q", "bs", "ob", "cb", "[", "]", "null", "<", ">", "&", "lt", "amp", "br", "p", "/p"} \subseteq Text
  /\ Alphabet \subseteq Text
<1>1. Text \subseteq Written /\ Members \subseteq Written
  BY DEF Written
<1>2. {"q", "bs", "ob", "cb", "[", "]", "null", "<", ">", "&", "lt", "amp", "br", "p", "/p"} \cap Members = {}
  BY DEF Members
<1>3. Text \cap Members = {}
  BY <1>2, TimelinesAssumption DEF Text
<1> QED BY <1>1, <1>3 DEF Text

(* A text without the letter lacks the key. *)
LEMMA LacksIs ==
  ASSUME NEW M, NEW key, NEW b \in Seq(M \ {key})
  PROVE  Lacks(b, key, M)
<1>1. b \in Seq(M)
  OBVIOUS
<1>2. \A i \in 1 .. Len(b) : b[i] \in M \ {key}
  OBVIOUS
<1> QED BY <1>1, <1>2 DEF Lacks

(* A text of two letters. *)
LEMMA TwoLetters ==
  ASSUME NEW M, NEW a \in M, NEW b \in M
  PROVE  <<a, b>> \in Seq(M) /\ <<a, b>> = <<a>> \o <<b>>
<1> DEFINE t == <<a, b>>
           x == <<a>>
           y == <<b>>
           u == x \o y
<1>1. t \in Seq(M) /\ Len(t) = 2 /\ t[1] = a /\ t[2] = b
  OBVIOUS
<1>2. x \in Seq(M) /\ Len(x) = 1 /\ x[1] = a /\ y \in Seq(M) /\ Len(y) = 1 /\ y[1] = b
  BY OneLetter
<1> HIDE DEF t, x, y
<1>3. u \in Seq(M) /\ Len(u) = 2 /\ u[1] = a /\ u[2] = b
  <2>1. /\ u \in Seq(M) /\ Len(u) = Len(x) + Len(y)
        /\ \A i \in 1 .. Len(x) + Len(y) : u[i] = IF i <= Len(x) THEN x[i] ELSE y[i - Len(x)]
    BY <1>2, ConcatProperties
  <2> HIDE DEF u
  <2>2. \A i \in 1 .. 2 : u[i] = IF i <= 1 THEN x[i] ELSE y[i - 1]
    BY <1>2, <2>1
  <2> QED BY <1>2, <2>1, <2>2
<1> HIDE DEF u
<1>4. \A i \in 1 .. Len(t) : t[i] = u[i]
  <2>1. \A i \in 1 .. 2 : i = 1 \/ i = 2
    OBVIOUS
  <2> QED BY <1>1, <1>3, <2>1
<1>5. t = u
  BY <1>1, <1>3, <1>4, SeqEqual
<1> QED BY <1>1, <1>5 DEF t, u, x, y

(* Texts joined are a text. *)
LEMMA FlattenType ==
  ASSUME NEW M, NEW seqs \in Seq(Seq(M))
  PROVE  FlattenSeq(seqs) \in Seq(M)
<1>1. PICK pre \in [0 .. Len(seqs) -> Seq(M)] : FlattenSeq(seqs) = pre[Len(seqs)]
  BY FlattenIsJoined
<1>2. Len(seqs) \in 0 .. Len(seqs)
  OBVIOUS
<1> QED BY <1>1, <1>2

Marks(x) == [i \in 1 .. Len(x) |-> Marked(x[i])]

(* What a marked-up text is made of. *)
LEMMA MarksFacts ==
  ASSUME NEW M, {"<", ">", "&", "lt", "amp", "br", "p", "/p"} \subseteq M, NEW x \in Seq(M)
  PROVE  /\ Marks(x) \in Seq(Seq(M)) /\ Len(Marks(x)) = Len(x)
         /\ FlattenSeq(Marks(x)) \in Seq(M)
         /\ Html(x) = (<<"<", "p", ">">> \o FlattenSeq(Marks(x))) \o <<"<", "/p", ">">>
         /\ Html(x) \in Seq(M)
         /\ Len(Html(x)) = Len(FlattenSeq(Marks(x))) + 6
<1> DEFINE E == Marks(x)
<1>1. \A i \in 1 .. Len(x) : E[i] \in Seq(M)
  <2> SUFFICES ASSUME NEW i \in 1 .. Len(x) PROVE E[i] \in Seq(M)
    OBVIOUS
  <2>1. E[i] = Marked(x[i])
    BY DEF Marks
  <2>2. x[i] \in M /\ {"<", ">", "&", "lt", "amp", "br"} \subseteq M
    OBVIOUS
  <2>3. /\ <<"&", "lt">> \in Seq(M) /\ <<"&", "amp">> \in Seq(M)
        /\ <<"<", "br", ">">> \in Seq(M) /\ <<x[i]>> \in Seq(M)
    BY <2>2
  <2> QED BY <2>1, <2>3 DEF Marked
<1>2. E \in Seq(Seq(M)) /\ Len(E) = Len(x)
  <2>1. E = [i \in 1 .. Len(x) |-> E[i]] /\ Len(x) \in Nat
    BY DEF Marks
  <2> HIDE DEF E
  <2>2. E \in [1 .. Len(x) -> Seq(M)]
    BY <1>1, <2>1
  <2> QED BY <2>1, <2>2
<1> DEFINE F == FlattenSeq(E)
           a == <<"<", "p", ">">>
           c == <<"<", "/p", ">">>
<1>3. F \in Seq(M)
  BY <1>2, FlattenType
<1>4. Html(x) = (a \o F) \o c
  BY DEF Html, Marks
<1>5. a \in Seq(M) /\ Len(a) = 3 /\ c \in Seq(M) /\ Len(c) = 3
  OBVIOUS
<1> HIDE DEF E, F, a, c
<1>6. a \o F \in Seq(M) /\ Len(a \o F) = 3 + Len(F) /\ Len(F) \in Nat
  BY <1>3, <1>5, TwoParts
<1>7. (a \o F) \o c \in Seq(M) /\ Len((a \o F) \o c) = Len(F) + 6
  BY <1>5, <1>6, TwoParts
<1> QED BY <1>2, <1>3, <1>4, <1>7 DEF E, F, a, c

(* Which letters the parts of a status are made of. *)
Profile(name) == (((<<"acct:">> \o Quoted(<<name>>)) \o <<"fields:", "[">>) \o Object(<<>>)) \o <<"]">>

Within(st) ==
  ((<<"content:">> \o Quoted(Html(st.text))) \o <<"reblog:", "null">>) \o Account(st.author)

Parts(st) ==
  Content(st) \o IF st.accountFirst THEN Account(st.by) \o Reblog(st)
                 ELSE Reblog(st) \o Account(st.by)

(* What an account is made of. *)
LEMMA AccountParts ==
  ASSUME NEW M, Text \cup {"account:", "acct:", "fields:"} \subseteq M, NEW name \in Alphabet
  PROVE  /\ Quoted(<<name>>) \in Seq(M) /\ Profile(name) \in Seq(M)
         /\ Account(name) \in Seq(M) /\ Account(name) = <<"account:">> \o Object(Profile(name))
         /\ <<"acct:">> \o Quoted(<<name>>) \in Seq(M)
         /\ (<<"acct:">> \o Quoted(<<name>>)) \o <<"fields:", "[">> \in Seq(M)
         /\ ((<<"acct:">> \o Quoted(<<name>>)) \o <<"fields:", "[">>) \o Object(<<>>) \in Seq(M)
<1>1. name \in M /\ {"q", "bs", "ob", "cb", "account:", "acct:", "fields:", "[", "]"} \subseteq M
  BY DEF Text
<1>2. <<name>> \in Seq(M) /\ <<"acct:">> \in Seq(M) /\ <<"]">> \in Seq(M) /\ <<"account:">> \in Seq(M)
  BY <1>1, OneLetter
<1>3. <<"fields:", "[">> \in Seq(M)
  BY <1>1, TwoLetters
<1> DEFINE Q == Quoted(<<name>>)
           O == Object(<<>>)
           A == <<"acct:">>
           F == <<"fields:", "[">>
           C == <<"]">>
<1>4. Q \in Seq(M)
  BY <1>1, <1>2, EscapesFacts
<1>5. O \in Seq(M)
  <2>1. <<>> \in Seq(M)
    OBVIOUS
  <2> QED BY <1>1, <2>1, ObjectFacts
<1>6. Account(name) = <<"account:">> \o Object(Profile(name))
  BY DEF Account, Profile
<1> HIDE DEF Q, O, A, F, C
<1>7. A \o Q \in Seq(M)
  BY <1>2, <1>4, TwoParts DEF A
<1>8. (A \o Q) \o F \in Seq(M)
  BY <1>3, <1>7, TwoParts DEF F
<1>9. ((A \o Q) \o F) \o O \in Seq(M)
  BY <1>5, <1>8, TwoParts
<1>10. (((A \o Q) \o F) \o O) \o C \in Seq(M)
  BY <1>2, <1>9, TwoParts DEF C
<1>11. Object(Profile(name)) \in Seq(M)
  BY <1>1, <1>10, ObjectFacts, ZenonT(60) DEF Profile, Q, O, A, F, C
<1>12. Account(name) \in Seq(M)
  BY <1>2, <1>6, <1>11, TwoParts
<1> QED BY <1>4, <1>6, <1>7, <1>8, <1>9, <1>10, <1>12 DEF Profile, Q, O, A, F, C

(* The letters of a marked-up text. *)
LEMMA HtmlType ==
  ASSUME NEW M, Text \subseteq M, NEW x \in Seq(Alphabet)
  PROVE  Html(x) \in Seq(M) /\ Quoted(Html(x)) \in Seq(M)
<1>1. {"<", ">", "&", "lt", "amp", "br", "p", "/p", "q", "bs"} \subseteq M /\ Alphabet \subseteq M
  BY DEF Text
<1>2. x \in Seq(M)
  BY <1>1
<1>3. Html(x) \in Seq(M)
  BY <1>1, <1>2, MarksFacts
<1> QED BY <1>1, <1>3, EscapesFacts

(* The letters of a status's content. *)
LEMMA ContentType ==
  ASSUME NEW M, Text \cup {"content:"} \subseteq M, NEW st \in Status
  PROVE  Content(st) \in Seq(M)
<1> DEFINE x == IF st.boosts THEN <<>> ELSE Html(st.text)
<1>1. Text \subseteq M /\ "content:" \in M /\ {"q", "bs"} \subseteq M /\ st.text \in Seq(Alphabet)
  BY DEF Text, Status
<1>2. x \in Seq(M)
  <2>1. <<>> \in Seq(M)
    OBVIOUS
  <2> QED BY <1>1, <2>1, HtmlType
<1>3. Content(st) = <<"content:">> \o Quoted(x)
  BY DEF Content
<1> HIDE DEF x
<1>4. Quoted(x) \in Seq(M) /\ <<"content:">> \in Seq(M)
  BY <1>1, <1>2, EscapesFacts, OneLetter
<1> QED BY <1>3, <1>4, TwoParts

(* What the status within a boost is made of. *)
LEMMA WithinParts ==
  ASSUME NEW M, Text \cup Members \subseteq M, NEW st \in Status
  PROVE  /\ Within(st) \in Seq(M) /\ Boosted(st) = Object(Within(st)) /\ Boosted(st) \in Seq(M)
         /\ <<"content:">> \o Quoted(Html(st.text)) \in Seq(M)
         /\ (<<"content:">> \o Quoted(Html(st.text))) \o <<"reblog:", "null">> \in Seq(M)
         /\ Account(st.author) \in Seq(M)
<1>1. /\ Text \subseteq M /\ Text \cup {"account:", "acct:", "fields:"} \subseteq M
      /\ {"content:", "reblog:", "null", "ob", "cb", "q", "bs"} \subseteq M
      /\ st.text \in Seq(Alphabet) /\ st.author \in Alphabet
  BY DEF Text, Status, Members
<1>2. Boosted(st) = Object(Within(st))
  BY DEF Boosted, Within
<1> DEFINE Q == Quoted(Html(st.text))
           A == Account(st.author)
           R == <<"reblog:", "null">>
           C == <<"content:">>
<1>3. Q \in Seq(M)
  BY <1>1, HtmlType
<1>4. A \in Seq(M)
  BY <1>1, AccountParts
<1>5. R \in Seq(M) /\ C \in Seq(M)
  BY <1>1, TwoLetters, OneLetter
<1> HIDE DEF Q, A, R, C
<1>6. C \o Q \in Seq(M)
  BY <1>3, <1>5, TwoParts
<1>7. (C \o Q) \o R \in Seq(M)
  BY <1>5, <1>6, TwoParts
<1>8. ((C \o Q) \o R) \o A \in Seq(M)
  BY <1>4, <1>7, TwoParts
<1>9. Object(Within(st)) \in Seq(M)
  <2>1. Within(st) \in Seq(M)
    BY <1>8 DEF Within, Q, A, R, C
  <2> QED BY <1>1, <2>1, ObjectFacts
<1> QED BY <1>2, <1>4, <1>6, <1>7, <1>8, <1>9 DEF Within, Q, A, R, C

(* What a status is made of. *)
LEMMA JsonParts ==
  ASSUME NEW M, Text \cup Members \subseteq M, NEW st \in Status
  PROVE  /\ Content(st) \in Seq(M) /\ Account(st.by) \in Seq(M) /\ Reblog(st) \in Seq(M)
         /\ Account(st.by) \o Reblog(st) \in Seq(M) /\ Reblog(st) \o Account(st.by) \in Seq(M)
         /\ Parts(st) \in Seq(M) /\ Json(st) = Object(Parts(st)) /\ Json(st) \in Seq(M)
         /\ Len(Json(st)) = Len(Parts(st)) + 2
<1>1. /\ Text \cup {"content:"} \subseteq M /\ Text \cup {"account:", "acct:", "fields:"} \subseteq M
      /\ {"reblog:", "null", "ob", "cb", "q", "bs"} \subseteq M /\ st.by \in Alphabet
  BY DEF Text, Status, Members
<1> DEFINE C == Content(st)
           A == Account(st.by)
           R == Reblog(st)
<1>2. C \in Seq(M)
  BY <1>1, ContentType
<1>3. A \in Seq(M)
  BY <1>1, AccountParts
<1>4. R \in Seq(M)
  <2>1. <<"reblog:">> \in Seq(M) /\ <<"null">> \in Seq(M)
    BY <1>1, OneLetter
  <2>2. Boosted(st) \in Seq(M)
    BY WithinParts
  <2> DEFINE v == IF st.boosts THEN Boosted(st) ELSE <<"null">>
  <2>3. v \in Seq(M)
    BY <2>1, <2>2
  <2>4. R = <<"reblog:">> \o v
    BY DEF Reblog
  <2> HIDE DEF v, R
  <2> QED BY <2>1, <2>3, <2>4, TwoParts
<1>5. Json(st) = Object(Parts(st))
  BY DEF Json, Parts
<1> HIDE DEF C, A, R
<1>6. A \o R \in Seq(M) /\ R \o A \in Seq(M)
  BY <1>3, <1>4, TwoParts
<1>7. Parts(st) \in Seq(M)
  BY <1>2, <1>6, TwoParts DEF Parts, C, A, R
<1>8. Object(Parts(st)) \in Seq(M) /\ Len(Object(Parts(st))) = Len(Parts(st)) + 2
  BY <1>1, <1>7, ObjectFacts
<1> QED BY <1>2, <1>3, <1>4, <1>5, <1>6, <1>7, <1>8 DEF C, A, R

(* Which letters are written. *)
LEMMA WrittenFacts ==
  /\ Text \cup Members \subseteq Written /\ Text \subseteq Written
  /\ Text \cup {"account:", "acct:", "fields:"} \subseteq Written
  /\ Text \cup {"content:"} \subseteq Written
  /\ {"q", "bs", "ob", "cb"} \subseteq Written /\ {"q", "bs"} \subseteq Written
  /\ {"[", "]", "null"} \subseteq Written
  /\ {"content:", "reblog:", "account:", "acct:", "fields:"} \subseteq Written
  /\ Alphabet \subseteq Written
BY TextIsWritten DEF Members

(* The brackets and quotation marks in an account match, *)
LEMMA ProfileInert ==
  ASSUME NEW name \in Alphabet
  PROVE  Inert(Profile(name), Written)
<1>1. name \in Written /\ <<name>> \in Seq(Written)
  BY WrittenFacts, OneLetter
<1> DEFINE Q == Quoted(<<name>>)
           O == Object(<<>>)
           A == <<"acct:">>
           F == <<"fields:", "[">>
           C == <<"]">>
<1>2. Inert(Q, Written)
  BY <1>1, WrittenFacts, InertQuoted
<1>3. Inert(O, Written)
  BY WrittenFacts, InertEmpty, InertObject
<1>4. Inert(A, Written) /\ Inert(C, Written)
  BY WrittenFacts, InertLetter
<1>5. Inert(F, Written)
  <2>1. Inert(<<"fields:">>, Written) /\ Inert(<<"[">>, Written)
    BY WrittenFacts, InertLetter
  <2>2. F = <<"fields:">> \o <<"[">>
    BY WrittenFacts, TwoLetters
  <2> HIDE DEF F
  <2> QED BY <2>1, <2>2, InertConcat
<1> HIDE DEF Q, O, A, F, C
<1>6. Inert(A \o Q, Written)
  BY <1>2, <1>4, InertConcat
<1>7. Inert((A \o Q) \o F, Written)
  BY <1>5, <1>6, InertConcat
<1>8. Inert(((A \o Q) \o F) \o O, Written)
  BY <1>3, <1>7, InertConcat
<1>9. Inert((((A \o Q) \o F) \o O) \o C, Written)
  BY <1>4, <1>8, InertConcat
<1> QED BY <1>9 DEF Profile, Q, O, A, F, C

(* those around it too, *)
LEMMA AccountInert ==
  ASSUME NEW name \in Alphabet
  PROVE  Inert(Account(name), Written)
<1>1. Inert(Object(Profile(name)), Written)
  BY WrittenFacts, ProfileInert, InertObject
<1>2. Inert(<<"account:">>, Written)
  BY WrittenFacts, InertLetter
<1>3. Account(name) = <<"account:">> \o Object(Profile(name))
  BY WrittenFacts, AccountParts
<1> QED BY <1>1, <1>2, <1>3, InertConcat

(* those in the status within a boost, *)
LEMMA WithinInert ==
  ASSUME NEW st \in Status
  PROVE  Inert(Within(st), Written)
<1> DEFINE Q == Quoted(Html(st.text))
           A == Account(st.author)
           R == <<"reblog:", "null">>
           C == <<"content:">>
<1>1. st.text \in Seq(Alphabet) /\ st.author \in Alphabet
  BY DEF Status
<1>2. Inert(Q, Written)
  BY <1>1, WrittenFacts, HtmlType, InertQuoted
<1>3. Inert(A, Written)
  BY <1>1, AccountInert
<1>4. Inert(C, Written)
  BY WrittenFacts, InertLetter
<1>5. Inert(R, Written)
  <2>1. Inert(<<"reblog:">>, Written) /\ Inert(<<"null">>, Written)
    BY WrittenFacts, InertLetter
  <2>2. R = <<"reblog:">> \o <<"null">>
    BY WrittenFacts, TwoLetters
  <2> HIDE DEF R
  <2> QED BY <2>1, <2>2, InertConcat
<1> HIDE DEF Q, A, R, C
<1>6. Inert(C \o Q, Written)
  BY <1>2, <1>4, InertConcat
<1>7. Inert((C \o Q) \o R, Written)
  BY <1>5, <1>6, InertConcat
<1>8. Inert(((C \o Q) \o R) \o A, Written)
  BY <1>3, <1>7, InertConcat
<1> QED BY <1>8 DEF Within, Q, A, R, C

(* and those in a status: json_raw_span() and json_next_obj() get to its    *)
(* end.                                                                     *)
LEMMA PartsInert ==
  ASSUME NEW st \in Status
  PROVE  Inert(Parts(st), Written)
<1> DEFINE C == Content(st)
           A == Account(st.by)
           R == Reblog(st)
           x == IF st.boosts THEN <<>> ELSE Html(st.text)
           v == IF st.boosts THEN Boosted(st) ELSE <<"null">>
<1>1. st.text \in Seq(Alphabet) /\ st.by \in Alphabet
  BY DEF Status
<1>2. Inert(C, Written)
  <2>1. Inert(<<"content:">>, Written)
    BY WrittenFacts, InertLetter
  <2>2. x \in Seq(Written)
    <3>1. <<>> \in Seq(Written)
      OBVIOUS
    <3> QED BY <1>1, <3>1, WrittenFacts, HtmlType
  <2>3. C = <<"content:">> \o Quoted(x)
    BY DEF Content
  <2> HIDE DEF C, x
  <2>4. Inert(Quoted(x), Written)
    BY <2>2, WrittenFacts, InertQuoted
  <2> QED BY <2>1, <2>3, <2>4, InertConcat
<1>3. Inert(A, Written)
  BY <1>1, AccountInert
<1>4. Inert(R, Written)
  <2>1. Inert(<<"reblog:">>, Written) /\ Inert(<<"null">>, Written)
    BY WrittenFacts, InertLetter
  <2>2. Inert(Boosted(st), Written)
    <3>1. Boosted(st) = Object(Within(st))
      BY DEF Boosted, Within
    <3> QED BY <3>1, WrittenFacts, WithinInert, InertObject
  <2>3. Inert(v, Written)
    BY <2>1, <2>2
  <2>4. R = <<"reblog:">> \o v
    BY DEF Reblog
  <2> HIDE DEF R, v
  <2> QED BY <2>1, <2>3, <2>4, InertConcat
<1> HIDE DEF C, A, R
<1>5. Inert(A \o R, Written) /\ Inert(R \o A, Written)
  BY <1>3, <1>4, InertConcat
<1>6. Inert(C \o (A \o R), Written) /\ Inert(C \o (R \o A), Written)
  BY <1>2, <1>5, InertConcat
<1> QED BY <1>6 DEF Parts, C, A, R

(* A text that is cut has what stood before the cut. *)
LEMMA CutFacts ==
  ASSUME NEW M, NEW s \in Seq(M), NEW n \in Nat
  PROVE  /\ Cut(s, n) \in Seq(M)
         /\ Len(s) <= n => Cut(s, n) = s
         /\ \A p \in Nat : \A b \in Seq(M) :
              At(s, p, b) /\ p + Len(b) <= n + 1 => At(Cut(s, n), p, b)
<1> DEFINE m == IF Len(s) <= n THEN Len(s) ELSE n
           c == Cut(s, n)
<1>1. Len(s) \in Nat /\ m \in 0 .. Len(s) /\ (m = Len(s) \/ m = n)
  OBVIOUS
<1>2. c = SubSeq(s, 1, m)
  BY DEF Cut
<1> HIDE DEF c
<1>3. /\ c \in Seq(M) /\ Len(c) = m /\ \A i \in 1 .. m : c[i] = s[i]
  <2>0. 1 \in Int /\ m \in Int /\ \A i \in 1 .. m : s[i] \in M
    BY <1>1
  <2> HIDE DEF m
  <2>1. /\ c \in Seq(M)
        /\ Len(c) = IF 1 <= m THEN m - 1 + 1 ELSE 0
        /\ \A i \in 1 .. m - 1 + 1 : c[i] = s[1 + i - 1]
    BY <1>2, <2>0, SubSeqProperties
  <2>2. m - 1 + 1 = m /\ \A i \in 1 .. m : 1 + i - 1 = i
    BY <1>1
  <2> QED BY <1>1, <2>1, <2>2
<1>4. Len(s) <= n => c = s
  <2> SUFFICES ASSUME Len(s) <= n PROVE c = s
    OBVIOUS
  <2>1. m = Len(s)
    OBVIOUS
  <2> HIDE DEF m
  <2> QED BY <1>3, <2>1, SeqEqual
<1>5. ASSUME NEW p \in Nat, NEW b \in Seq(M), At(s, p, b), p + Len(b) <= n + 1
      PROVE  At(c, p, b)
  <2>1. Len(b) \in Nat /\ p \in Nat \ {0} /\ p + Len(b) <= Len(s) + 1
    BY <1>5, Length DEF At
  <2>2. p + Len(b) <= m + 1
    BY <1>1, <1>5, <2>1
  <2> HIDE DEF m
  <2>3. \A i \in 1 .. Len(b) : p + i - 1 \in 1 .. m
    BY <1>1, <2>1, <2>2
  <2>4. \A i \in 1 .. Len(b) : c[p + i - 1] = b[i]
    BY <1>3, <1>5, <2>3 DEF At
  <2> QED BY <1>3, <2>1, <2>2, <2>4 DEF At
<1> QED BY <1>3, <1>4, <1>5 DEF c

(* A quoted letter is at most four letters long. *)
LEMMA QuotedLetter ==
  ASSUME NEW M, {"q", "bs"} \subseteq M, NEW l \in M
  PROVE  Len(Quoted(<<l>>)) <= 4
<1> DEFINE x == <<l>>
           E == Escapes(x)
<1>1. x \in Seq(M) /\ Len(x) = 1
  BY OneLetter
<1> HIDE DEF x
<1>2. /\ E \in Seq(Seq(M)) /\ Len(E) = 1 /\ Len(Quoted(x)) = Len(FlattenSeq(E)) + 2
      /\ E[1] \in Seq(M) /\ (E[1] = <<"bs", x[1]>> \/ E[1] = <<x[1]>>)
  <2>1. 1 \in 1 .. Len(x)
    BY <1>1
  <2>2. E \in Seq(Seq(M)) /\ Len(E) = 1 /\ Len(Quoted(x)) = Len(FlattenSeq(E)) + 2
    BY <1>1, EscapesFacts
  <2>3. E[1] \in Seq(M) /\ (E[1] = <<"bs", x[1]>> \/ E[1] = <<x[1]>>)
    BY <1>1, <2>1, EscapesFacts
  <2> QED BY <2>2, <2>3
<1>3. PICK pre : Joins(pre, E, M)
  BY <1>2, FlattenFacts
<1> HIDE DEF E
<1>4. FlattenSeq(E) = E[1]
  <2>1. FlattenSeq(E) = pre[1] /\ pre[0] = <<>> /\ pre[1] = pre[1 - 1] \o E[1]
    BY <1>2, <1>3 DEF Joins
  <2>2. pre[1] = <<>> \o E[1]
    <3>1. 1 - 1 = 0
      OBVIOUS
    <3>2. pre[1 - 1] = <<>>
      BY <2>1, <3>1
    <3> QED BY <2>1, <3>2
  <2> QED BY <1>2, <2>1, <2>2, ConcatEmptySeq
<1>5. Len(E[1]) <= 2
  <2>1. CASE E[1] = <<"bs", x[1]>>
    BY <2>1
  <2>2. CASE E[1] = <<x[1]>>
    BY <2>2
  <2> QED BY <1>2, <2>1, <2>2
<1>6. Len(E[1]) \in Nat
  BY <1>2, Length
<1> QED BY <1>2, <1>4, <1>5, <1>6 DEF x

(* A text that fits is not cut. *)
LEMMA CutWhole ==
  ASSUME NEW M, NEW s \in Seq(M), NEW n \in Nat, Len(s) <= n
  PROVE  Cut(s, n) = s
BY CutFacts

(* What stands before the cut stays. *)
LEMMA CutAt ==
  ASSUME NEW M, NEW s \in Seq(M), NEW n \in Nat, NEW p \in Nat, NEW b \in Seq(M),
         At(s, p, b), p + Len(b) <= n + 1
  PROVE  Cut(s, n) \in Seq(M) /\ At(Cut(s, n), p, b)
<1>1. Cut(s, n) \in Seq(M) /\ \A r \in Nat : \A d \in Seq(M) :
              At(s, r, d) /\ r + Len(d) <= n + 1 => At(Cut(s, n), r, d)
  BY CutFacts
<1> QED BY <1>1

(* The name of the author is read from the account, although accobj[] may   *)
(* not hold all of it.                                                      *)
LEMMA NameReads ==
  ASSUME NEW name \in Alphabet
  PROVE  JsonString(Cut(Object(Profile(name)), AccObjBuf), "acct:", ContentBuf) = <<name>>
<1> DEFINE m == Profile(name)
           o == Object(m)
           c == Cut(o, AccObjBuf)
           k == <<"acct:">>
           Q == Quoted(<<name>>)
<1>0. AccObjBuf \in Nat /\ AccObjBuf >= 6 /\ ContentBuf \in Nat /\ ContentBuf >= 1
  BY BufAssumption, FitsAssumption
<1>1. /\ m \in Seq(Written) /\ Q \in Seq(Written) /\ k \o Q \in Seq(Written)
      /\ (k \o Q) \o <<"fields:", "[">> \in Seq(Written)
      /\ ((k \o Q) \o <<"fields:", "[">>) \o Object(<<>>) \in Seq(Written)
      /\ k \in Seq(Written) /\ Len(k) = 1
      /\ Object(<<>>) \in Seq(Written) /\ <<"fields:", "[">> \in Seq(Written) /\ <<"]">> \in Seq(Written)
  <2>1. <<>> \in Seq(Written)
    OBVIOUS
  <2>2. Object(<<>>) \in Seq(Written)
    BY <2>1, WrittenFacts, ObjectFacts
  <2>3. <<"fields:", "[">> \in Seq(Written)
    BY WrittenFacts, TwoLetters
  <2> QED BY <2>2, <2>3, WrittenFacts, AccountParts, OneLetter
<1>2. m = (((k \o Q) \o <<"fields:", "[">>) \o Object(<<>>)) \o <<"]">>
  BY DEF Profile
<1>3. o \in Seq(Written) /\ Len(o) \in Nat
  BY <1>1, WrittenFacts, ObjectFacts, Length
<1> HIDE DEF o
<1>4. At(o, 1, o)
  BY <1>3, AtWhole
<1>5. o[1] = "ob" /\ At(o, 2, m) /\ 1 \in 1 .. Len(o)
  <2>1. At(o, 1, Object(m)) /\ 1 \in Nat
    BY <1>4 DEF o
  <2> HIDE DEF m
  <2>2. o[1] = "ob" /\ At(o, 1 + 1, m) /\ 1 \in 1 .. Len(o)
    BY <1>1, <1>3, <2>1, WrittenFacts, ObjectFacts
  <2> QED BY <2>2
<1> HIDE DEF m, k, Q
<1>6. At(o, 2, k \o Q)
  <2>0. 2 \in Nat \ {0}
    OBVIOUS
  <2>1. At(o, 2, ((k \o Q) \o <<"fields:", "[">>) \o Object(<<>>))
    BY <1>1, <1>2, <1>3, <1>5, <2>0, AtConcat
  <2>2. At(o, 2, (k \o Q) \o <<"fields:", "[">>)
    BY <1>1, <1>3, <2>0, <2>1, AtConcat
  <2> QED BY <1>1, <1>3, <2>0, <2>2, AtConcat
<1>7. Len(Q) \in Nat /\ Len(Q) <= 4 /\ Len(k \o Q) = 1 + Len(Q)
  <2>1. Len(Q) <= 4
    BY WrittenFacts, QuotedLetter DEF Q
  <2> QED BY <1>1, <2>1, TwoParts
<1>8. c \in Seq(Written) /\ At(c, 2, k \o Q)
  <2>1. 2 + Len(k \o Q) <= AccObjBuf + 1
    BY <1>0, <1>7
  <2>2. 2 \in Nat
    OBVIOUS
  <2> QED BY <1>0, <1>1, <1>3, <1>6, <2>1, <2>2, CutAt
<1>9. c[1] = "ob"
  <2>1. At(o, 1, <<"ob">>) /\ <<"ob">> \in Seq(Written) /\ Len(<<"ob">>) = 1
    BY <1>3, <1>5, AtLetter, WrittenFacts, OneLetter
  <2> DEFINE b == <<"ob">>
  <2> HIDE DEF b
  <2>2. At(o, 1, b) /\ b \in Seq(Written) /\ 1 + Len(b) <= AccObjBuf + 1 /\ 1 \in Nat
    BY <1>0, <2>1 DEF b
  <2>3. At(c, 1, b)
    BY <1>0, <1>3, <2>2, CutAt
  <2> QED BY <1>8, <2>2, <2>3, AtLetter DEF b
<1> HIDE DEF c
<1>10. Seeks(c, "acct:", <<"acct:">> \o Q, Written)
  <2>1. \A j \in 1 .. 2 - 1 : c[j] # "acct:"
    <3>1. \A j \in 1 .. 2 - 1 : j = 1
      OBVIOUS
    <3> QED BY <1>9, <3>1
  <2>2. 2 \in Nat
    OBVIOUS
  <2> QED BY <1>1, <1>8, <2>1, <2>2 DEF Seeks, k
<1> DEFINE x == <<name>>
<1>11. x \in Seq(Written) /\ Len(x) = 1
  BY WrittenFacts, OneLetter
<1> HIDE DEF x
<1>12. JsonString(c, "acct:", ContentBuf) = Cut(x, ContentBuf)
  <2>1. Seeks(c, "acct:", <<"acct:">> \o Quoted(x), Written) /\ "acct:" \in Written
    BY <1>10, WrittenFacts DEF Q, x
  <2> QED BY <1>11, <2>1, WrittenFacts, JsonStringReads
<1>13. Cut(x, ContentBuf) = x
  <2>1. Len(x) <= ContentBuf
    BY <1>0, <1>11
  <2> QED BY <1>0, <1>11, <2>1, CutWhole
<1> QED BY <1>12, <1>13 DEF c, o, m, x

(* The letters of a status and of its parts. *)
LEMMA StatusFacts ==
  ASSUME NEW st \in Status
  PROVE  /\ st.text \in Seq(Alphabet) /\ st.by \in Alphabet /\ st.author \in Alphabet
         /\ Html(st.text) \in Seq(Written) /\ Quoted(Html(st.text)) \in Seq(Written)
         /\ Content(st) \in Seq(Written) /\ Account(st.by) \in Seq(Written)
         /\ Account(st.author) \in Seq(Written) /\ Reblog(st) \in Seq(Written)
         /\ Account(st.by) \o Reblog(st) \in Seq(Written)
         /\ Reblog(st) \o Account(st.by) \in Seq(Written)
         /\ Parts(st) \in Seq(Written) /\ Json(st) \in Seq(Written) /\ Json(st) = Object(Parts(st))
         /\ Within(st) \in Seq(Written) /\ Boosted(st) \in Seq(Written)
         /\ Boosted(st) = Object(Within(st))
<1>1. st.text \in Seq(Alphabet) /\ st.by \in Alphabet /\ st.author \in Alphabet
  BY DEF Status
<1>2. Html(st.text) \in Seq(Written) /\ Quoted(Html(st.text)) \in Seq(Written)
  BY <1>1, WrittenFacts, HtmlType
<1>3. Account(st.author) \in Seq(Written)
  BY <1>1, WrittenFacts, AccountParts
<1>4. /\ Within(st) \in Seq(Written) /\ Boosted(st) \in Seq(Written)
      /\ Boosted(st) = Object(Within(st))
  BY WrittenFacts, WithinParts
<1> QED BY <1>1, <1>2, <1>3, <1>4, WrittenFacts, JsonParts

(* Which members the parts of a status do not have.                         *)
LEMMA StatusLacks ==
  ASSUME NEW st \in Status
  PROVE  /\ Lacks(Content(st), "reblog:", Written) /\ Lacks(Content(st), "account:", Written)
         /\ Lacks(Account(st.by), "reblog:", Written)
         /\ ~st.boosts => Lacks(Reblog(st), "account:", Written)
         /\ Lacks(<<"content:">> \o Quoted(Html(st.text)), "account:", Written)
         /\ Lacks(<<"reblog:", "null">>, "account:", Written)
         /\ \A key \in Members : Lacks(<<"ob">>, key, Written)
<1> DEFINE NR == Written \ {"reblog:"}
           NA == Written \ {"account:"}
<1>0. st.text \in Seq(Alphabet) /\ st.by \in Alphabet /\ st.author \in Alphabet
  BY StatusFacts
<1>1. Text \cup {"content:"} \subseteq NR /\ Text \cup {"content:"} \subseteq NA
  BY TextIsWritten, WrittenFacts DEF Members
<1>2. Text \cup {"account:", "acct:", "fields:"} \subseteq NR
  BY TextIsWritten, WrittenFacts DEF Members
<1>3. {"reblog:", "null"} \subseteq NA
  BY WrittenFacts
<1> HIDE DEF NR, NA
<1>4. Lacks(Content(st), "reblog:", Written) /\ Lacks(Content(st), "account:", Written)
  <2>1. Content(st) \in Seq(NR) /\ Content(st) \in Seq(NA)
    BY <1>1, ContentType
  <2> QED BY <2>1, LacksIs DEF NR, NA
<1>5. Lacks(Account(st.by), "reblog:", Written)
  <2>1. Account(st.by) \in Seq(NR)
    BY <1>0, <1>2, AccountParts
  <2> QED BY <2>1, LacksIs DEF NR
<1>6. Lacks(<<"reblog:", "null">>, "account:", Written)
  <2>1. <<"reblog:", "null">> \in Seq(NA)
    BY <1>3, TwoLetters
  <2> QED BY <2>1, LacksIs DEF NA
<1>7. ~st.boosts => Lacks(Reblog(st), "account:", Written)
  <2> SUFFICES ASSUME ~st.boosts PROVE Lacks(Reblog(st), "account:", Written)
    OBVIOUS
  <2>1. Reblog(st) = <<"reblog:">> \o <<"null">>
    BY DEF Reblog
  <2>2. Reblog(st) = <<"reblog:", "null">>
    BY <1>3, <2>1, TwoLetters
  <2> QED BY <1>6, <2>2
<1>8. Lacks(<<"content:">> \o Quoted(Html(st.text)), "account:", Written)
  <2>1. Text \subseteq NA /\ "content:" \in NA
    BY <1>1
  <2>2. Quoted(Html(st.text)) \in Seq(NA) /\ <<"content:">> \in Seq(NA)
    BY <1>0, <2>1, HtmlType, OneLetter
  <2>3. <<"content:">> \o Quoted(Html(st.text)) \in Seq(NA)
    BY <2>2, TwoParts
  <2> QED BY <2>3, LacksIs DEF NA
<1>9. \A key \in Members : Lacks(<<"ob">>, key, Written)
  <2> SUFFICES ASSUME NEW key \in Members PROVE Lacks(<<"ob">>, key, Written)
    OBVIOUS
  <2>1. "ob" \in Written \ {key}
    BY WrittenFacts DEF Members
  <2>2. <<"ob">> \in Seq(Written \ {key})
    BY <2>1, OneLetter
  <2> QED BY <2>2, LacksIs
<1> QED BY <1>4, <1>5, <1>6, <1>7, <1>8, <1>9

(* In an object, the members are sought from the first.                     *)
LEMMA SeekMembers ==
  ASSUME NEW b \in Seq(Written), NEW key \in Members, NEW st \in Status
  PROVE  Object(b) \in Seq(Written) /\ Seeks(Object(b), key, b, Written)
<1>1. Object(b) \in Seq(Written) /\ Object(b) = (<<"ob">> \o b) \o <<"cb">>
  BY WrittenFacts, ObjectFacts
<1>2. Seeks(Object(b), key, (<<"ob">> \o b) \o <<"cb">>, Written)
  BY <1>1, SeekWhole
<1>3. <<"ob">> \in Seq(Written) /\ <<"cb">> \in Seq(Written)
  BY WrittenFacts, OneLetter
<1>4. <<"ob">> \o b \in Seq(Written)
  BY <1>3, TwoParts
<1>5. Seeks(Object(b), key, <<"ob">> \o b, Written)
  BY <1>2, <1>3, <1>4, SeekFirst
<1> QED BY <1>1, <1>5, StatusLacks, SeekPast

(* parse_status() finds the status within a boost, and none in a status that *)
(* is not one.                                                              *)
LEMMA BoostReads ==
  ASSUME NEW st \in Status
  PROVE  /\ st.boosts => RawSpan(Json(st), "reblog:") = Boosted(st)
         /\ ~st.boosts => RawSpan(Json(st), "reblog:") = <<>>
<1> DEFINE J == Json(st)
           C == Content(st)
           A == Account(st.by)
           R == Reblog(st)
<1>1. /\ C \in Seq(Written) /\ A \in Seq(Written) /\ R \in Seq(Written)
      /\ A \o R \in Seq(Written) /\ R \o A \in Seq(Written) /\ J \in Seq(Written)
      /\ Parts(st) \in Seq(Written) /\ J = Object(Parts(st))
  BY StatusFacts
<1>2. Seeks(J, "reblog:", Parts(st), Written)
  <2>1. "reblog:" \in Members
    BY DEF Members
  <2> QED BY <1>1, <2>1, SeekMembers
<1>3. Lacks(C, "reblog:", Written) /\ Lacks(A, "reblog:", Written)
  BY StatusLacks
<1>4. Parts(st) = C \o (A \o R) \/ Parts(st) = C \o (R \o A)
  BY DEF Parts
<1> HIDE DEF J, C, A, R
<1>5. Seeks(J, "reblog:", R, Written)
  <2>1. CASE Parts(st) = C \o (A \o R)
    <3>1. Seeks(J, "reblog:", A \o R, Written)
      BY <1>1, <1>2, <1>3, <2>1, SeekPast
    <3> QED BY <1>1, <1>3, <3>1, SeekPast
  <2>2. CASE Parts(st) = C \o (R \o A)
    <3>1. Seeks(J, "reblog:", R \o A, Written)
      BY <1>1, <1>2, <1>3, <2>2, SeekPast
    <3> QED BY <1>1, <3>1, SeekFirst
  <2> QED BY <1>4, <2>1, <2>2
<1>6. ASSUME st.boosts PROVE RawSpan(J, "reblog:") = Boosted(st)
  <2>1. R = <<"reblog:">> \o Object(Within(st)) /\ Boosted(st) = Object(Within(st))
    BY <1>6, StatusFacts DEF R, Reblog
  <2>2. Seeks(J, "reblog:", <<"reblog:">> \o Object(Within(st)), Written)
    BY <1>5, <2>1
  <2> QED BY <2>1, <2>2, WrittenFacts, WithinInert, RawSpanReads
<1>7. ASSUME ~st.boosts PROVE RawSpan(J, "reblog:") = <<>>
  <2>1. R = <<"reblog:">> \o <<"null">>
    BY <1>7 DEF R, Reblog
  <2>2. Seeks(J, "reblog:", <<"reblog:">> \o <<"null">>, Written)
    BY <1>5, <2>1
  <2> QED BY <2>2, WrittenFacts, RawSpanNull
<1> QED BY <1>6, <1>7 DEF J

(* The status that is shown: the one within a boost.                        *)
Target(st) == IF st.boosts THEN Boosted(st) ELSE Json(st)
Named(st) == IF st.boosts THEN st.author ELSE st.by

(* parse_status() finds the account of the status's author: in a boost      *)
(* that of the status within, never the one of who boosted.                 *)
LEMMA AccountReads ==
  ASSUME NEW st \in Status
  PROVE  RawSpan(Target(st), "account:") = Object(Profile(Named(st)))
<1> DEFINE key == "account:"
           B == Account(Named(st))
<1>0. key \in Members /\ key \in Written
  BY WrittenFacts DEF Members
<1>1. /\ Named(st) \in Alphabet /\ B \in Seq(Written)
      /\ B = <<key>> \o Object(Profile(Named(st)))
  <2>1. Named(st) \in Alphabet
    BY StatusFacts DEF Named
  <2> QED BY <2>1, WrittenFacts, AccountParts
<1> HIDE DEF B
<1>2. CASE st.boosts
  <2> DEFINE C == <<"content:">> \o Quoted(Html(st.text))
             R == <<"reblog:", "null">>
             A == Account(st.author)
  <2>1. Target(st) = Object(Within(st)) /\ Within(st) \in Seq(Written) /\ A = B
    BY <1>2, StatusFacts DEF Target, Named, B
  <2>2. Within(st) = (C \o R) \o A
    BY DEF Within
  <2>3. C \in Seq(Written) /\ C \o R \in Seq(Written) /\ A \in Seq(Written) /\ R \in Seq(Written)
    <3>1. R \in Seq(Written)
      BY WrittenFacts, TwoLetters
    <3> QED BY <3>1, WrittenFacts, WithinParts
  <2>4. Lacks(C, key, Written) /\ Lacks(R, key, Written)
    BY StatusLacks
  <2> HIDE DEF C, R, A
  <2>5. Lacks(C \o R, key, Written)
    <3>1. \A i \in 1 .. Len(C \o R) : (C \o R)[i] # key
      <4>1. /\ Len(C \o R) = Len(C) + Len(R)
            /\ \A i \in 1 .. Len(C) + Len(R) :
                 (C \o R)[i] = IF i <= Len(C) THEN C[i] ELSE R[i - Len(C)]
            /\ Len(C) \in Nat /\ Len(R) \in Nat
        BY <2>3, ConcatProperties
      <4> SUFFICES ASSUME NEW i \in 1 .. Len(C) + Len(R) PROVE (C \o R)[i] # key
        BY <4>1
      <4>2. CASE i <= Len(C)
        <5>1. i \in 1 .. Len(C)
          BY <4>1, <4>2
        <5> QED BY <2>4, <4>1, <4>2, <5>1 DEF Lacks
      <4>3. CASE ~(i <= Len(C))
        <5>1. i - Len(C) \in 1 .. Len(R)
          BY <4>1, <4>3
        <5> QED BY <2>4, <4>1, <4>3, <5>1 DEF Lacks
      <4> QED BY <4>2, <4>3
    <3> QED BY <2>3, <3>1 DEF Lacks
  <2>6. Seeks(Target(st), key, (C \o R) \o A, Written)
    BY <1>0, <2>1, <2>2, SeekMembers
  <2>7. Seeks(Target(st), key, <<key>> \o Object(Profile(Named(st))), Written)
    BY <1>1, <2>1, <2>3, <2>5, <2>6, SeekPast
  <2> QED BY <1>0, <1>1, <2>7, WrittenFacts, ProfileInert, RawSpanReads
<1>3. CASE ~st.boosts
  <2> DEFINE C == Content(st)
             R == Reblog(st)
             A == Account(st.by)
             T == Target(st)
  <2>1. T = Object(Parts(st)) /\ Parts(st) \in Seq(Written) /\ A = B
    BY <1>3, StatusFacts DEF Target, Named, B
  <2>2. Parts(st) = C \o (A \o R) \/ Parts(st) = C \o (R \o A)
    BY DEF Parts
  <2>3. /\ C \in Seq(Written) /\ A \in Seq(Written) /\ R \in Seq(Written)
        /\ A \o R \in Seq(Written) /\ R \o A \in Seq(Written)
    BY StatusFacts
  <2>4. Lacks(C, key, Written) /\ Lacks(R, key, Written)
    BY <1>3, StatusLacks
  <2>5. Seeks(T, key, Parts(st), Written)
    BY <1>0, <2>1, SeekMembers
  <2> HIDE DEF C, R, A, T
  <2>6. Seeks(T, key, A, Written)
    <3>1. CASE Parts(st) = C \o (A \o R)
      <4>1. Seeks(T, key, A \o R, Written)
        BY <2>3, <2>4, <2>5, <3>1, SeekPast
      <4> QED BY <2>3, <4>1, SeekFirst
    <3>2. CASE Parts(st) = C \o (R \o A)
      <4>1. Seeks(T, key, R \o A, Written)
        BY <2>3, <2>4, <2>5, <3>2, SeekPast
      <4> QED BY <2>3, <2>4, <4>1, SeekPast
    <3> QED BY <2>2, <3>1, <3>2
  <2>7. Seeks(T, key, <<key>> \o Object(Profile(Named(st))), Written)
    BY <1>1, <2>1, <2>6
  <2> QED BY <1>0, <1>1, <2>7, WrittenFacts, ProfileInert, RawSpanReads DEF T
<1> QED BY <1>2, <1>3

(* parse_status() reads the status's marked-up text, as far as              *)
(* raw_content[] holds it.                                                  *)
LEMMA TextReads ==
  ASSUME NEW st \in Status
  PROVE  JsonString(Target(st), "content:", ContentBuf) = Cut(Html(st.text), ContentBuf)
<1> DEFINE key == "content:"
           H == Html(st.text)
           T == Target(st)
           C == <<key>> \o Quoted(H)
<1>0. key \in Members /\ key \in Written /\ H \in Seq(Written)
  BY WrittenFacts, StatusFacts DEF Members
<1>1. Seeks(T, key, C, Written)
  <2>1. CASE st.boosts
    <3> DEFINE R == <<"reblog:", "null">>
               A == Account(st.author)
    <3>1. T = Object(Within(st)) /\ Within(st) \in Seq(Written)
      BY <2>1, StatusFacts DEF Target
    <3>2. Within(st) = (C \o R) \o A
      BY DEF Within
    <3>3. C \in Seq(Written) /\ C \o R \in Seq(Written) /\ A \in Seq(Written) /\ R \in Seq(Written)
      <4>1. R \in Seq(Written)
        BY WrittenFacts, TwoLetters
      <4> QED BY <4>1, WrittenFacts, WithinParts
    <3> HIDE DEF C, R, A, T
    <3>4. Seeks(T, key, (C \o R) \o A, Written)
      BY <1>0, <3>1, <3>2, SeekMembers
    <3>5. Seeks(T, key, C \o R, Written)
      BY <3>3, <3>4, SeekFirst
    <3> QED BY <3>3, <3>5, SeekFirst
  <2>2. CASE ~st.boosts
    <3> DEFINE X == IF st.accountFirst THEN Account(st.by) \o Reblog(st)
                    ELSE Reblog(st) \o Account(st.by)
    <3>1. T = Object(Parts(st)) /\ Parts(st) \in Seq(Written)
      BY <2>2, StatusFacts DEF Target
    <3>2. Parts(st) = C \o X
      BY <2>2 DEF Parts, Content
    <3>3. C \in Seq(Written)
      BY WrittenFacts, WithinParts
    <3>4. X \in Seq(Written)
      BY StatusFacts
    <3> HIDE DEF C, X, T
    <3>5. Seeks(T, key, C \o X, Written)
      BY <1>0, <3>1, <3>2, SeekMembers
    <3> QED BY <3>3, <3>4, <3>5, SeekFirst
  <2> QED BY <2>1, <2>2
<1> QED BY <1>0, <1>1, WrittenFacts, JsonStringReads

(* A boost holds the status within. *)
LEMMA BoostedFits ==
  ASSUME NEW st \in Status, st.boosts
  PROVE  Len(Boosted(st)) <= Len(Json(st)) /\ Boosted(st) # <<>>
<1> DEFINE B == Boosted(st)
           C == Content(st)
           A == Account(st.by)
           R == Reblog(st)
           P == Parts(st)
<1>1. /\ C \in Seq(Written) /\ A \in Seq(Written) /\ R \in Seq(Written) /\ B \in Seq(Written)
      /\ A \o R \in Seq(Written) /\ R \o A \in Seq(Written) /\ P \in Seq(Written)
      /\ Within(st) \in Seq(Written) /\ B = Object(Within(st)) /\ Json(st) = Object(P)
  BY StatusFacts
<1>2. R = <<"reblog:">> \o B
  BY DEF Reblog
<1>3. P = C \o (A \o R) \/ P = C \o (R \o A)
  BY DEF Parts
<1> HIDE DEF B, C, A, R, P
<1>4. <<"reblog:">> \in Seq(Written) /\ Len(<<"reblog:">>) = 1
  BY WrittenFacts, OneLetter
<1>5. Len(R) = 1 + Len(B) /\ Len(B) \in Nat /\ Len(R) \in Nat
  BY <1>1, <1>2, <1>4, TwoParts
<1>6. /\ Len(A \o R) = Len(A) + Len(R) /\ Len(R \o A) = Len(R) + Len(A)
      /\ Len(A) \in Nat /\ Len(C) \in Nat
  BY <1>1, TwoParts
<1>7. Len(C \o (A \o R)) = Len(C) + Len(A \o R) /\ Len(C \o (R \o A)) = Len(C) + Len(R \o A)
  BY <1>1, TwoParts
<1>8. Len(P) = Len(C) + Len(A) + Len(R)
  <2>1. CASE P = C \o (A \o R)
    BY <1>5, <1>6, <1>7, <2>1
  <2>2. CASE P = C \o (R \o A)
    BY <1>5, <1>6, <1>7, <2>2
  <2> QED BY <1>3, <2>1, <2>2
<1>9. Len(Json(st)) = Len(P) + 2 /\ Len(B) = Len(Within(st)) + 2 /\ Len(Within(st)) \in Nat
  BY <1>1, WrittenFacts, ObjectFacts, Length
<1>10. Len(B) <= Len(Json(st)) /\ Len(B) # 0
  BY <1>5, <1>6, <1>8, <1>9
<1>11. B # <<>>
  <2>1. Len(<<>>) = 0
    OBVIOUS
  <2> QED BY <1>10, <2>1
<1> QED BY <1>10, <1>11 DEF B

(* parse_status() reads back who wrote a status and what, boost or not, as  *)
(* far as the buffers hold it.                                              *)
LEMMA StatusReads ==
  ASSUME NEW st \in Status, Len(Json(st)) <= ObjBuf
  PROVE  /\ ParseStatus(Json(st)).acct = Author(st)
         /\ ParseStatus(Json(st)).boost = st.boosts
         /\ Len(Html(st.text)) <= ContentBuf =>
              ParseStatus(Json(st)).text = HtmlStrip(Html(st.text), StripBuf)
<1> DEFINE obj == Json(st)
           inner == Cut(RawSpan(obj, "reblog:"), ObjBuf)
           target == IF inner # <<>> THEN inner ELSE obj
           span == RawSpan(target, "account:")
<1>0. ObjBuf \in Nat /\ ContentBuf \in Nat /\ AccObjBuf \in Nat /\ AccObjBuf >= 6
  BY BufAssumption, FitsAssumption
<1>1. obj \in Seq(Written) /\ Boosted(st) \in Seq(Written) /\ Html(st.text) \in Seq(Written)
  BY StatusFacts
<1>2. inner = (IF st.boosts THEN Boosted(st) ELSE <<>>)
  <2>1. CASE st.boosts
    <3>1. RawSpan(obj, "reblog:") = Boosted(st)
      BY <2>1, BoostReads
    <3>2. Len(Boosted(st)) <= ObjBuf
      <4>1. Len(Boosted(st)) <= Len(obj) /\ Len(Boosted(st)) \in Nat /\ Len(obj) \in Nat
        BY <1>1, <2>1, BoostedFits, Length
      <4> QED BY <1>0, <4>1
    <3> QED BY <1>0, <1>1, <2>1, <3>1, <3>2, CutWhole
  <2>2. CASE ~st.boosts
    <3>1. RawSpan(obj, "reblog:") = <<>>
      BY <2>2, BoostReads
    <3>2. <<>> \in Seq(Written) /\ Len(<<>>) <= ObjBuf
      BY <1>0
    <3>3. Cut(<<>>, ObjBuf) = <<>>
      BY <1>0, <3>2, CutWhole
    <3> QED BY <2>2, <3>1, <3>3
  <2> QED BY <2>1, <2>2
<1> HIDE DEF inner
<1>3. st.boosts \in BOOLEAN
  BY DEF Status
<1>4. (inner # <<>>) = st.boosts /\ target = Target(st)
  <2>1. CASE st.boosts
    BY <1>2, <1>3, <2>1, BoostedFits DEF Target
  <2>2. CASE ~st.boosts
    BY <1>2, <1>3, <2>2 DEF Target
  <2> QED BY <2>1, <2>2
<1>5. span = Object(Profile(Named(st)))
  BY <1>4, AccountReads
<1>6. Named(st) \in Alphabet
  BY StatusFacts DEF Named
<1>7. JsonString(Cut(span, AccObjBuf), "acct:", ContentBuf) = <<Named(st)>>
  BY <1>5, <1>6, NameReads
<1>8. JsonString(target, "content:", ContentBuf) = Cut(Html(st.text), ContentBuf)
  BY <1>4, TextReads
<1>9. Len(Html(st.text)) <= ContentBuf => Cut(Html(st.text), ContentBuf) = Html(st.text)
  BY <1>0, <1>1, CutWhole
<1>10. ParseStatus(obj) =
         [acct |-> JsonString(Cut(span, AccObjBuf), "acct:", ContentBuf),
          text |-> HtmlStrip(JsonString(target, "content:", ContentBuf), StripBuf),
          boost |-> inner # <<>>]
  BY DEF ParseStatus, inner
<1> HIDE DEF target, span, obj
<1>11. /\ ParseStatus(obj).acct = <<Named(st)>>
       /\ ParseStatus(obj).boost = st.boosts
       /\ ParseStatus(obj).text = HtmlStrip(Cut(Html(st.text), ContentBuf), StripBuf)
  BY <1>4, <1>7, <1>8, <1>10
<1> QED BY <1>9, <1>11 DEF obj, Author, Named

(* Where a tag that begins at the i-th letter ends, and whether it starts a *)
(* line.                                                                    *)
Close(s, i) == First(s, i, {">"})
Breaking(s, i) == SubSeq(s, i + 1, Close(s, i) - 1) \in Breaks
EndsLine(s, i) == s[i] = "nl"

(* What html_strip() makes of the rest of a text, from the i-th letter, and *)
(* after the start of a line or not.                                        *)
Strips(s) ==
  CHOOSE g : g = [x \in (1 .. Len(s) + 1) \X BOOLEAN |->
        LET i == x[1]
            after == x[2]
            close == First(s, i, {">"})
            breaks == SubSeq(s, i + 1, close - 1) \in Breaks
        IN CASE i > Len(s) -> <<>>
             [] i <= Len(s) /\ s[i] = "<" ->
                  CASE close > Len(s) -> <<>>
                    [] close <= Len(s) /\ breaks /\ ~after -> <<"nl">> \o g[<<close + 1, TRUE>>]
                    [] OTHER -> g[<<close + 1, after>>]
             [] i < Len(s) /\ s[i] = "&" /\ s[i + 1] \in DOMAIN Entity ->
                  <<Entity[s[i + 1]]>> \o g[<<i + 2, FALSE>>]
             [] OTHER -> <<s[i]>> \o g[<<i + 1, s[i] = "nl">>]]

EntityAt(s, i) == i < Len(s) /\ s[i] = "&" /\ s[i + 1] \in DOMAIN Entity

(* HtmlStrip(), letter by letter. *)
LEMMA StripFacts ==
  ASSUME NEW M, {"nl", "sp", "<", "&", "q"} \subseteq M, NEW s \in Seq(M)
  PROVE  /\ \A max : HtmlStrip(s, max) = Trimmed(Cut(Strips(s)[<<1, FALSE>>], max))
         /\ \A i \in 1 .. Len(s) + 1 : \A a \in BOOLEAN :
              /\ Strips(s)[<<i, a>>] \in Seq(M)
              /\ i > Len(s) => Strips(s)[<<i, a>>] = <<>>
              /\ i <= Len(s) /\ s[i] = "<" /\ Close(s, i) <= Len(s) /\ Breaking(s, i) /\ ~a =>
                   Strips(s)[<<i, a>>] = <<"nl">> \o Strips(s)[<<Close(s, i) + 1, TRUE>>]
              /\ i <= Len(s) /\ s[i] = "<" /\ Close(s, i) <= Len(s) /\ ~(Breaking(s, i) /\ ~a) =>
                   Strips(s)[<<i, a>>] = Strips(s)[<<Close(s, i) + 1, a>>]
              /\ i <= Len(s) /\ EntityAt(s, i) =>
                   Strips(s)[<<i, a>>] = <<Entity[s[i + 1]]>> \o Strips(s)[<<i + 2, FALSE>>]
              /\ i <= Len(s) /\ s[i] # "<" /\ ~EntityAt(s, i) =>
                   Strips(s)[<<i, a>>] = <<s[i]>> \o Strips(s)[<<i + 1, EndsLine(s, i)>>]
<1> DEFINE n == Len(s)
           I == 1 .. n + 1
           B == BOOLEAN
           S == I \X B
           V == Seq(M)
           Step(h, i, a) ==
             CASE i > n -> <<>>
               [] i <= n /\ s[i] = "<" ->
                    CASE Close(s, i) > n -> <<>>
                      [] Close(s, i) <= n /\ Breaking(s, i) /\ ~a ->
                           <<"nl">> \o h[<<Close(s, i) + 1, TRUE>>]
                      [] OTHER -> h[<<Close(s, i) + 1, a>>]
               [] EntityAt(s, i) -> <<Entity[s[i + 1]]>> \o h[<<i + 2, FALSE>>]
               [] OTHER -> <<s[i]>> \o h[<<i + 1, EndsLine(s, i)>>]
           Eq(g) == g = [x \in S |-> Step(g, x[1], x[2])]
           rank == [x \in S |-> n + 1 - x[1]]
           G == [x \in S \X [S -> V] |-> Step(x[2], x[1][1], x[1][2])]
           c == Strips(s)
           u(i) == i > n \/ (s[i] = "<" /\ Close(s, i) > n)
           v(i, a) == i <= n /\ s[i] = "<" /\ Close(s, i) <= n /\ Breaking(s, i) /\ ~a
           w(i, a) == i <= n /\ s[i] = "<" /\ Close(s, i) <= n /\ ~(Breaking(s, i) /\ ~a)
           y(i) == i <= n /\ EntityAt(s, i)
           z(i) == i <= n /\ s[i] # "<" /\ ~EntityAt(s, i)
<1>0. n \in Nat /\ \A i \in 1 .. n : s[i] \in M
  OBVIOUS
<1>1. \A max : HtmlStrip(s, max) = Trimmed(Cut(c[<<1, FALSE>>], max))
  BY DEF HtmlStrip, Strips
<1>2. c = CHOOSE g : Eq(g)
  BY DEF Strips, Close, Breaking, EndsLine, EntityAt
<1>3. \A i \in I : Close(s, i) \in i .. n + 1
  BY FirstFacts DEF Close
<1>4. \A i \in I : EntityAt(s, i) => i < n /\ s[i] # "<" /\ Entity[s[i + 1]] \in M
  <2> SUFFICES ASSUME NEW i \in I, EntityAt(s, i) PROVE i < n /\ s[i] # "<" /\ Entity[s[i + 1]] \in M
    OBVIOUS
  <2>1. i < n /\ s[i] = "&" /\ s[i + 1] \in DOMAIN Entity
    BY DEF EntityAt
  <2>2. Entity[s[i + 1]] \in {"<", "&", "q", "sp"}
    BY <2>1 DEF Entity
  <2> QED BY <2>1, <2>2
<1>5. \A i \in I : EndsLine(s, i) \in B
  BY DEF EndsLine
<1> HIDE DEF n, c
<1>6. \A i \in I : i \in Int /\ i \in Nat /\ (i <= n \/ i > n) /\ ~(i <= n /\ i > n)
  BY <1>0
<1>7. TRUE \in B /\ FALSE \in B
  OBVIOUS
<1> HIDE DEF I, B
<1>8. ASSUME NEW h, NEW i \in I, NEW a \in B
      PROVE  /\ u(i) => Step(h, i, a) = <<>>
             /\ v(i, a) => Step(h, i, a) = <<"nl">> \o h[<<Close(s, i) + 1, TRUE>>]
             /\ w(i, a) => Step(h, i, a) = h[<<Close(s, i) + 1, a>>]
             /\ y(i) => Step(h, i, a) = <<Entity[s[i + 1]]>> \o h[<<i + 2, FALSE>>]
             /\ z(i) => Step(h, i, a) = <<s[i]>> \o h[<<i + 1, EndsLine(s, i)>>]
  <2>0. (i <= n \/ i > n) /\ ~(i <= n /\ i > n)
    BY <1>6
  <2>1. Close(s, i) \in Int /\ n \in Int
    BY <1>0, <1>3, <1>6
  <2>2. u(i) => Step(h, i, a) = <<>>
    <3>1. CASE i > n
      <4>1. ~EntityAt(s, i)
        BY <1>0, <1>4, <1>6, <3>1
      <4> QED BY <2>0, <3>1, <4>1
    <3>2. ASSUME i <= n, s[i] = "<", Close(s, i) > n PROVE Step(h, i, a) = <<>>
      <4>1. ~(i > n) /\ ~(Close(s, i) <= n) /\ ~EntityAt(s, i)
        BY <1>4, <2>0, <2>1, <3>2
      <4> QED BY <3>2, <4>1
    <3> HIDE DEF Step
    <3> QED BY <2>0, <3>1, <3>2
  <2>3. v(i, a) => Step(h, i, a) = <<"nl">> \o h[<<Close(s, i) + 1, TRUE>>]
    <3> SUFFICES ASSUME i <= n, s[i] = "<", Close(s, i) <= n, Breaking(s, i), ~a
                 PROVE  Step(h, i, a) = <<"nl">> \o h[<<Close(s, i) + 1, TRUE>>]
      <4> HIDE DEF Step
      <4> QED OBVIOUS
    <3>1. ~(Close(s, i) > n) /\ ~(i > n) /\ ~EntityAt(s, i)
      BY <1>4, <2>0, <2>1
    <3> QED BY <3>1
  <2>4. w(i, a) => Step(h, i, a) = h[<<Close(s, i) + 1, a>>]
    <3> SUFFICES ASSUME i <= n, s[i] = "<", Close(s, i) <= n, ~(Breaking(s, i) /\ ~a)
                 PROVE  Step(h, i, a) = h[<<Close(s, i) + 1, a>>]
      <4> HIDE DEF Step
      <4> QED OBVIOUS
    <3>1. ~(Close(s, i) > n) /\ ~(i > n) /\ ~EntityAt(s, i)
      BY <1>4, <2>0, <2>1
    <3> QED BY <3>1
  <2>5. y(i) => Step(h, i, a) = <<Entity[s[i + 1]]>> \o h[<<i + 2, FALSE>>]
    BY <1>4, <2>0
  <2>6. z(i) => Step(h, i, a) = <<s[i]>> \o h[<<i + 1, EndsLine(s, i)>>]
    BY <2>0
  <2> HIDE DEF Step, u, v, w, y, z
  <2> QED BY <2>2, <2>3, <2>4, <2>5, <2>6
<1>9. \A i \in I : \A a \in B : u(i) \/ v(i, a) \/ w(i, a) \/ y(i) \/ z(i)
  <2> SUFFICES ASSUME NEW i \in I, NEW a \in B PROVE u(i) \/ v(i, a) \/ w(i, a) \/ y(i) \/ z(i)
    OBVIOUS
  <2>1. Close(s, i) \in Int /\ n \in Int
    BY <1>0, <1>3, <1>6
  <2>2. Close(s, i) <= n \/ Close(s, i) > n
    BY <2>1
  <2> QED BY <1>6, <2>2
<1>10. \A i \in I : \A a \in B :
         /\ v(i, a) \/ w(i, a) => Close(s, i) + 1 \in I /\ Close(s, i) + 1 > i
         /\ y(i) => i + 2 \in I /\ i + 2 > i /\ Entity[s[i + 1]] \in M
         /\ z(i) => i + 1 \in I /\ i + 1 > i /\ s[i] \in M
  <2> SUFFICES ASSUME NEW i \in I, NEW a \in B
               PROVE  /\ v(i, a) \/ w(i, a) => Close(s, i) + 1 \in I /\ Close(s, i) + 1 > i
                      /\ y(i) => i + 2 \in I /\ i + 2 > i /\ Entity[s[i + 1]] \in M
                      /\ z(i) => i + 1 \in I /\ i + 1 > i /\ s[i] \in M
    OBVIOUS
  <2>0. i \in Nat /\ i >= 1 /\ i <= n + 1
    BY <1>0, <1>6 DEF I
  <2>1. Close(s, i) \in i .. n + 1
    BY <1>3
  <2>2. Close(s, i) <= n => Close(s, i) + 1 \in I /\ Close(s, i) + 1 > i
    BY <1>0, <2>0, <2>1 DEF I
  <2>3. y(i) => i < n /\ Entity[s[i + 1]] \in M
    BY <1>4
  <2>4. i < n => i + 2 \in I /\ i + 2 > i
    BY <1>0, <2>0 DEF I
  <2>5. i <= n => i + 1 \in I /\ i + 1 > i /\ i \in 1 .. n
    BY <1>0, <2>0 DEF I
  <2>6. z(i) => i + 1 \in I /\ i + 1 > i /\ s[i] \in M
    BY <1>0, <2>5
  <2> QED BY <2>2, <2>3, <2>4, <2>6
<1> HIDE DEF Step
<1>11. \A i \in I : \A a \in B : \A h \in [S -> V] : Step(h, i, a) \in V
  <2> SUFFICES ASSUME NEW i \in I, NEW a \in B, NEW h \in [S -> V] PROVE Step(h, i, a) \in V
    OBVIOUS
  <2>0. \A j \in I : \A b \in B : h[<<j, b>>] \in V
    OBVIOUS
  <2>1. CASE u(i)
    <3>1. <<>> \in V
      OBVIOUS
    <3> HIDE DEF u, S, V
    <3> QED BY <1>8, <2>1, <3>1
  <2>2. CASE v(i, a)
    <3> HIDE DEF v
    <3>1. h[<<Close(s, i) + 1, TRUE>>] \in V
      BY <1>7, <1>10, <2>0, <2>2
    <3>2. <<"nl">> \in V
      BY OneLetter
    <3>3. Step(h, i, a) = <<"nl">> \o h[<<Close(s, i) + 1, TRUE>>]
      BY <1>8, <2>2
    <3> QED BY <3>1, <3>2, <3>3, ConcatProperties
  <2>3. CASE w(i, a)
    <3> HIDE DEF w, S, V
    <3>1. h[<<Close(s, i) + 1, a>>] \in V
      BY <1>10, <2>0, <2>3
    <3> QED BY <1>8, <2>3, <3>1
  <2>4. CASE y(i)
    <3> HIDE DEF y
    <3>1. h[<<i + 2, FALSE>>] \in V
      BY <1>7, <1>10, <2>0, <2>4
    <3>2. <<Entity[s[i + 1]]>> \in V
      BY <1>10, <2>4, OneLetter
    <3>3. Step(h, i, a) = <<Entity[s[i + 1]]>> \o h[<<i + 2, FALSE>>]
      BY <1>8, <2>4
    <3> QED BY <3>1, <3>2, <3>3, ConcatProperties
  <2>5. CASE z(i)
    <3> HIDE DEF z
    <3>1. h[<<i + 1, EndsLine(s, i)>>] \in V
      BY <1>5, <1>10, <2>0, <2>5
    <3>2. <<s[i]>> \in V
      BY <1>10, <2>5, OneLetter
    <3>3. Step(h, i, a) = <<s[i]>> \o h[<<i + 1, EndsLine(s, i)>>]
      BY <1>8, <2>5
    <3> QED BY <3>1, <3>2, <3>3, ConcatProperties
  <2> HIDE DEF u, v, w, y, z
  <2> QED BY <1>9, <2>1, <2>2, <2>3, <2>4, <2>5
<1> HIDE DEF V, u, v, w, y, z
<1>12. \E f \in [S -> V] : Eq(f)
  <2>1. V # {} /\ n + 1 \in Nat /\ rank \in [S -> 0 .. n + 1]
    <3>1. \A x \in S : n + 1 - x[1] \in 0 .. n + 1
      BY <1>0 DEF I
    <3>2. V # {}
      BY DEF V
    <3> HIDE DEF S
    <3> QED BY <1>0, <3>1, <3>2
  <2>2. G \in [S \X [S -> V] -> V]
    <3>1. \A x \in S \X [S -> V] : Step(x[2], x[1][1], x[1][2]) \in V
      BY <1>11
    <3> HIDE DEF S
    <3> QED BY <3>1
  <2>3. \A i \in I : \A a \in B : \A j \in I : \A e \in B : j > i => rank[<<j, e>>] < rank[<<i, a>>]
    <3> SUFFICES ASSUME NEW i \in I, NEW a \in B, NEW j \in I, NEW e \in B, j > i
                 PROVE  rank[<<j, e>>] < rank[<<i, a>>]
      OBVIOUS
    <3>1. rank[<<j, e>>] = n + 1 - j /\ rank[<<i, a>>] = n + 1 - i
      OBVIOUS
    <3>2. i \in Int /\ j \in Int
      BY <1>6
    <3> QED BY <1>0, <3>1, <3>2
  <2> HIDE DEF rank
  <2>4. \A x \in S : \A g, h \in [S -> V] :
          (\A k \in S : rank[k] < rank[x] => g[k] = h[k]) =>
             Step(g, x[1], x[2]) = Step(h, x[1], x[2])
    <3>0. ASSUME NEW i \in I, NEW a \in B, NEW g \in [S -> V], NEW h \in [S -> V],
                 \A k \in S : rank[k] < rank[<<i, a>>] => g[k] = h[k]
          PROVE  Step(g, i, a) = Step(h, i, a)
      <4>1. \A j \in I : \A e \in B : j > i => g[<<j, e>>] = h[<<j, e>>]
        <5> SUFFICES ASSUME NEW j \in I, NEW e \in B, j > i PROVE g[<<j, e>>] = h[<<j, e>>]
          OBVIOUS
        <5>1. <<j, e>> \in S /\ rank[<<j, e>>] < rank[<<i, a>>]
          BY <2>3
        <5> HIDE DEF S
        <5> QED BY <3>0, <5>1
      <4> HIDE DEF S
      <4>2. CASE u(i)
        BY <1>8, <4>2
      <4>3. CASE v(i, a)
        <5>1. g[<<Close(s, i) + 1, TRUE>>] = h[<<Close(s, i) + 1, TRUE>>]
          BY <1>7, <1>10, <4>1, <4>3
        <5>2. /\ Step(g, i, a) = <<"nl">> \o g[<<Close(s, i) + 1, TRUE>>]
              /\ Step(h, i, a) = <<"nl">> \o h[<<Close(s, i) + 1, TRUE>>]
          BY <1>8, <4>3
        <5> QED BY <5>1, <5>2
      <4>4. CASE w(i, a)
        <5>1. g[<<Close(s, i) + 1, a>>] = h[<<Close(s, i) + 1, a>>]
          BY <1>10, <4>1, <4>4
        <5>2. Step(g, i, a) = g[<<Close(s, i) + 1, a>>] /\ Step(h, i, a) = h[<<Close(s, i) + 1, a>>]
          BY <1>8, <4>4
        <5> QED BY <5>1, <5>2
      <4>5. CASE y(i)
        <5>1. g[<<i + 2, FALSE>>] = h[<<i + 2, FALSE>>]
          BY <1>7, <1>10, <4>1, <4>5
        <5>2. /\ Step(g, i, a) = <<Entity[s[i + 1]]>> \o g[<<i + 2, FALSE>>]
              /\ Step(h, i, a) = <<Entity[s[i + 1]]>> \o h[<<i + 2, FALSE>>]
          BY <1>8, <4>5
        <5> QED BY <5>1, <5>2
      <4>6. CASE z(i)
        <5>1. g[<<i + 1, EndsLine(s, i)>>] = h[<<i + 1, EndsLine(s, i)>>]
          BY <1>5, <1>10, <4>1, <4>6
        <5>2. /\ Step(g, i, a) = <<s[i]>> \o g[<<i + 1, EndsLine(s, i)>>]
              /\ Step(h, i, a) = <<s[i]>> \o h[<<i + 1, EndsLine(s, i)>>]
          BY <1>8, <4>6
        <5> QED BY <5>1, <5>2
      <4> QED BY <1>9, <4>2, <4>3, <4>4, <4>5, <4>6
    <3> SUFFICES ASSUME NEW x \in S, NEW g \in [S -> V], NEW h \in [S -> V],
                        \A k \in S : rank[k] < rank[x] => g[k] = h[k]
                 PROVE  Step(g, x[1], x[2]) = Step(h, x[1], x[2])
      OBVIOUS
    <3>1. PICK i \in I, a \in B : x = <<i, a>>
      OBVIOUS
    <3> HIDE DEF S
    <3> QED BY <3>0, <3>1
  <2>5. Recursive(S, V, n + 1, rank, G)
    <3> HIDE DEF S
    <3> QED BY <2>1, <2>2, <2>4 DEF Recursive
  <2>6. PICK f \in [S -> V] : \A x \in S : f[x] = G[<<x, f>>]
    <3> HIDE DEF S, G
    <3> QED BY <2>5, Recursion
  <2>7. Eq(f)
    <3>1. \A i \in I : \A a \in B : f[<<i, a>>] = Step(f, i, a)
      BY <2>6
    <3> QED BY <3>1
  <2> QED BY <2>7
<1>13. Eq(c)
  <2> HIDE DEF Eq
  <2> QED BY <1>2, <1>12
<1>14. c \in [S -> V]
  <2>1. PICK f \in [S -> V] : Eq(f)
    BY <1>12
  <2> DEFINE T == {k \in Nat : \A i \in I : \A a \in B : n + 1 - i < k => c[<<i, a>>] = f[<<i, a>>]}
  <2>2. \A i \in I : \A a \in B : c[<<i, a>>] = Step(c, i, a) /\ f[<<i, a>>] = Step(f, i, a)
    BY <1>13, <2>1
  <2>3. 0 \in T
    <3>1. \A i \in I : ~(n + 1 - i < 0)
      BY <1>0 DEF I
    <3> QED BY <3>1
  <2>4. ASSUME NEW k \in 0 .. n + 1, k \in T PROVE k + 1 \in T
    <3>1. ASSUME NEW i \in I, NEW a \in B, n + 1 - i < k + 1 PROVE c[<<i, a>>] = f[<<i, a>>]
      <4>1. \A j \in I : \A e \in B : j > i => c[<<j, e>>] = f[<<j, e>>]
        <5> SUFFICES ASSUME NEW j \in I, NEW e \in B, j > i PROVE c[<<j, e>>] = f[<<j, e>>]
          OBVIOUS
        <5>1. i \in Int /\ j \in Int
          BY <1>6
        <5>2. n + 1 - j < k
          BY <1>0, <3>1, <5>1
        <5> QED BY <2>4, <5>2
      <4> HIDE DEF T, S, Eq
      <4>2. CASE u(i)
        BY <1>8, <2>2, <4>2, ZenonT(60)
      <4>3. CASE v(i, a)
        <5>1. c[<<Close(s, i) + 1, TRUE>>] = f[<<Close(s, i) + 1, TRUE>>]
          BY <1>7, <1>10, <4>1, <4>3
        <5>2. /\ Step(c, i, a) = <<"nl">> \o c[<<Close(s, i) + 1, TRUE>>]
              /\ Step(f, i, a) = <<"nl">> \o f[<<Close(s, i) + 1, TRUE>>]
          BY <1>8, <4>3
        <5> QED BY <2>2, <5>1, <5>2
      <4>4. CASE w(i, a)
        <5>1. c[<<Close(s, i) + 1, a>>] = f[<<Close(s, i) + 1, a>>]
          BY <1>10, <4>1, <4>4
        <5>2. Step(c, i, a) = c[<<Close(s, i) + 1, a>>] /\ Step(f, i, a) = f[<<Close(s, i) + 1, a>>]
          BY <1>8, <4>4
        <5> QED BY <2>2, <5>1, <5>2
      <4>5. CASE y(i)
        <5>1. c[<<i + 2, FALSE>>] = f[<<i + 2, FALSE>>]
          BY <1>7, <1>10, <4>1, <4>5
        <5>2. /\ Step(c, i, a) = <<Entity[s[i + 1]]>> \o c[<<i + 2, FALSE>>]
              /\ Step(f, i, a) = <<Entity[s[i + 1]]>> \o f[<<i + 2, FALSE>>]
          BY <1>8, <4>5
        <5> QED BY <2>2, <5>1, <5>2
      <4>6. CASE z(i)
        <5>1. c[<<i + 1, EndsLine(s, i)>>] = f[<<i + 1, EndsLine(s, i)>>]
          BY <1>5, <1>10, <4>1, <4>6
        <5>2. /\ Step(c, i, a) = <<s[i]>> \o c[<<i + 1, EndsLine(s, i)>>]
              /\ Step(f, i, a) = <<s[i]>> \o f[<<i + 1, EndsLine(s, i)>>]
          BY <1>8, <4>6
        <5> QED BY <2>2, <5>1, <5>2
      <4> QED BY <1>9, <4>2, <4>3, <4>4, <4>5, <4>6
    <3> QED BY <3>1
  <2>5. 0 .. n + 2 \subseteq T
    <3>1. n + 2 \in Nat /\ (n + 2) - 1 = n + 1
      BY <1>0
    <3> HIDE DEF T
    <3> QED BY <2>3, <2>4, <3>1, NumberInduction
  <2>6. \A i \in I : \A a \in B : c[<<i, a>>] = f[<<i, a>>]
    <3>1. n + 2 \in T
      BY <1>0, <2>5
    <3>2. \A i \in I : n + 1 - i < n + 2
      BY <1>0 DEF I
    <3> QED BY <3>1, <3>2
  <2>7. \A x \in S : c[x] \in V
    <3>1. \A i \in I : \A a \in B : c[<<i, a>>] \in V
      BY <2>6
    <3> QED BY <3>1
  <2>8. c = [x \in S |-> c[x]]
    BY <1>13
  <2> HIDE DEF S
  <2> QED BY <2>7, <2>8
<1>15. \A i \in I : \A a \in B : c[<<i, a>>] = Step(c, i, a) /\ c[<<i, a>>] \in V
  BY <1>13, <1>14
<1> HIDE DEF Eq, S
<1>16. ASSUME NEW i \in I, NEW a \in B
       PROVE  /\ c[<<i, a>>] \in V
              /\ u(i) => c[<<i, a>>] = <<>>
              /\ v(i, a) => c[<<i, a>>] = <<"nl">> \o c[<<Close(s, i) + 1, TRUE>>]
              /\ w(i, a) => c[<<i, a>>] = c[<<Close(s, i) + 1, a>>]
              /\ y(i) => c[<<i, a>>] = <<Entity[s[i + 1]]>> \o c[<<i + 2, FALSE>>]
              /\ z(i) => c[<<i, a>>] = <<s[i]>> \o c[<<i + 1, EndsLine(s, i)>>]
  BY <1>8, <1>15
<1> QED BY <1>1, <1>16, ZenonT(60) DEF n, c, I, B, V, u, v, w, y, z

(* Three letters that stand in a text. *)
LEMMA ThreeLetters ==
  ASSUME NEW M, NEW s \in Seq(M), NEW p, NEW a, NEW b, NEW c, At(s, p, <<a, b, c>>)
  PROVE  /\ p \in Nat \ {0} /\ p + 2 <= Len(s)
         /\ s[p] = a /\ s[p + 1] = b /\ s[p + 2] = c
<1> DEFINE t == <<a, b, c>>
<1>1. Len(t) = 3 /\ t[1] = a /\ t[2] = b /\ t[3] = c
  OBVIOUS
<1> HIDE DEF t
<1>2. p \in Nat \ {0} /\ p + 3 <= Len(s) + 1 /\ Len(s) \in Nat
  BY <1>1, Length DEF At, t
<1>3. s[p + 1 - 1] = a /\ s[p + 2 - 1] = b /\ s[p + 3 - 1] = c
  <2>1. \A i \in 1 .. 3 : s[p + i - 1] = t[i]
    BY <1>1 DEF At, t
  <2> QED BY <1>1, <2>1
<1>4. p + 1 - 1 = p /\ p + 2 - 1 = p + 1 /\ p + 3 - 1 = p + 2
  BY <1>2
<1>5. p + 2 <= Len(s)
  BY <1>2
<1> QED BY <1>2, <1>3, <1>4, <1>5

(* html_strip() gets past a tag, and knows whether it starts a line. *)
LEMMA TagFacts ==
  ASSUME NEW M, NEW s \in Seq(M), NEW p, NEW t \in M, t # ">", At(s, p, <<"<", t, ">">>)
  PROVE  /\ p \in 1 .. Len(s) + 1 /\ p + 2 <= Len(s) /\ s[p] = "<"
         /\ Close(s, p) = p + 2
         /\ Breaking(s, p) <=> <<t>> \in Breaks
<1>1. /\ p \in Nat \ {0} /\ p + 2 <= Len(s)
      /\ s[p] = "<" /\ s[p + 1] = t /\ s[p + 2] = ">"
  BY ThreeLetters
<1>2. Len(s) \in Nat /\ p \in Nat
  BY <1>1, Length
<1>3. p \in 1 .. Len(s) + 1 /\ p + 2 \in p .. Len(s) + 1 /\ p + 1 \in 1 .. Len(s) /\ p + 1 \in Nat
  BY <1>1, <1>2
<1>4. Close(s, p) = p + 2
  <2> DEFINE L == {">"}
             q == p + 2
  <2>1. s[q] \in L /\ \A j \in p .. q - 1 : s[j] \notin L
    <3>1. \A j \in p .. q - 1 : j = p \/ j = p + 1
      BY <1>2
    <3> QED BY <1>1, <3>1
  <2>2. q \in p .. Len(s) + 1
    BY <1>3
  <2> HIDE DEF L, q
  <2>3. First(s, p, L) = q
    BY <1>2, <2>1, <2>2, FirstIs
  <2> QED BY <2>3 DEF L, q, Close
<1>5. SubSeq(s, p + 1, p + 1) = <<t>>
  <2> DEFINE b == <<t>>
  <2>1. b \in Seq(M) /\ Len(b) = 1
    BY OneLetter
  <2>2. At(s, p + 1, b)
    BY <1>1, <1>3, AtLetter
  <2> HIDE DEF b
  <2>3. SubSeq(s, p + 1, (p + 1) + Len(b) - 1) = b
    BY <2>1, <2>2, AtSubSeq
  <2>4. (p + 1) + Len(b) - 1 = p + 1
    BY <1>2, <2>1
  <2> QED BY <2>3, <2>4 DEF b
<1>6. Close(s, p) - 1 = p + 1
  BY <1>2, <1>4
<1>7. Breaking(s, p) <=> <<t>> \in Breaks
  BY <1>5, <1>6 DEF Breaking
<1> QED BY <1>1, <1>3, <1>4, <1>7

(* "br" and "/p" start a line, "p" does not. *)
LEMMA TagsThatBreak ==
  <<"br">> \in Breaks /\ <<"/p">> \in Breaks /\ <<"p">> \notin Breaks
<1>1. <<"p">> # <<"br">> /\ <<"p">> # <<"br/">> /\ <<"p">> # <<"/p">> /\ <<"p">> # <<"/blockquote">>
  OBVIOUS
<1> QED BY <1>1 DEF Breaks

(* A bounded set of numbers has a largest. *)
LEMMA LargestNumber ==
  ASSUME NEW n \in Nat, NEW T, T \subseteq 1 .. n, T # {}
  PROVE  \E x \in T : \A y \in T : y <= x
<1> DEFINE D == {n - x : x \in T}
<1>1. D \subseteq Nat /\ D # {}
  <2>1. \A x \in T : x \in 1 .. n /\ n - x \in Nat
    OBVIOUS
  <2>2. PICK x \in T : TRUE
    OBVIOUS
  <2>3. n - x \in D
    OBVIOUS
  <2>4. D \subseteq Nat
    BY <2>1
  <2> QED BY <2>3, <2>4
<1>2. PICK d \in D : \A e \in D : ~(e < d)
  BY <1>1, LeastNumber
<1>3. PICK x \in T : d = n - x
  OBVIOUS
<1>4. ASSUME NEW y \in T PROVE y <= x
  <2>1. ~(n - y < d)
    BY <1>2
  <2>2. x \in 1 .. n /\ y \in 1 .. n
    OBVIOUS
  <2> QED BY <1>3, <2>1, <2>2
<1> QED BY <1>4

(* The end of the last line is no part of a text. *)
LEMMA TrimmedLine ==
  ASSUME NEW M, "nl" \in M, NEW s \in Seq(M)
  PROVE  Trimmed(s \o <<"nl">>) = Trimmed(s)
<1> DEFINE t == s \o <<"nl">>
           W == {"nl", "sp"}
           n == Len(s)
           K == {i \in 1 .. n : s[i] \notin W}
           L == {i \in 1 .. Len(t) : t[i] \notin W}
           m == IF K = {} THEN 0 ELSE CHOOSE i \in K : \A j \in K : j <= i
<1>1. n \in Nat /\ <<"nl">> \in Seq(M) /\ Len(<<"nl">>) = 1 /\ <<"nl">>[1] = "nl"
  BY Length, OneLetter
<1>2. /\ t \in Seq(M) /\ Len(t) = n + 1
      /\ \A i \in 1 .. n : t[i] = s[i]
      /\ t[n + 1] = "nl"
  <2> DEFINE c == <<"nl">>
  <2> HIDE DEF c
  <2>1. /\ s \o c \in Seq(M) /\ Len(s \o c) = n + Len(c)
        /\ \A i \in 1 .. n + Len(c) : (s \o c)[i] = IF i <= n THEN s[i] ELSE c[i - n]
    BY <1>1, ConcatProperties DEF c
  <2>2. Len(c) = 1 /\ c[1] = "nl"
    BY <1>1 DEF c
  <2>3. \A i \in 1 .. n : (s \o c)[i] = s[i]
    BY <1>1, <2>1, <2>2
  <2>4. (s \o c)[n + 1] = "nl"
    <3>1. n + 1 \in 1 .. n + Len(c) /\ ~(n + 1 <= n) /\ (n + 1) - n = 1
      BY <1>1, <2>2
    <3> QED BY <2>1, <2>2, <3>1
  <2> QED BY <2>1, <2>2, <2>3, <2>4 DEF c
<1>3. Trimmed(s) = SubSeq(s, 1, m)
  BY DEF Trimmed
<1>4. Trimmed(t) = SubSeq(t, 1, IF L = {} THEN 0 ELSE CHOOSE i \in L : \A j \in L : j <= i)
  BY DEF Trimmed
<1> HIDE DEF t, n
<1>5. L = K
  <2>1. \A i \in 1 .. n + 1 : i \in 1 .. n \/ i = n + 1
    BY <1>1
  <2>2. \A i \in 1 .. n : i \in 1 .. n + 1
    BY <1>1
  <2>3. L \subseteq K
    BY <1>2, <2>1
  <2>4. K \subseteq L
    BY <1>2, <2>2
  <2> QED BY <2>3, <2>4
<1>6. Trimmed(t) = SubSeq(t, 1, m)
  BY <1>4, <1>5
<1>7. m \in 0 .. n
  <2>1. K \subseteq 1 .. n
    OBVIOUS
  <2> HIDE DEF K
  <2>2. CASE K = {}
    BY <1>1, <2>2
  <2>3. CASE K # {}
    <3>1. \E x \in K : \A y \in K : y <= x
      BY <1>1, <2>1, <2>3, LargestNumber
    <3>2. m \in K
      BY <2>3, <3>1
    <3>3. m \in 1 .. n
      BY <2>1, <3>2
    <3> HIDE DEF m
    <3> QED BY <1>1, <3>3
  <2> QED BY <2>2, <2>3
<1> HIDE DEF m
<1>8. SubSeq(t, 1, m) = SubSeq(s, 1, m)
  <2> DEFINE a == SubSeq(t, 1, m)
             b == SubSeq(s, 1, m)
  <2>1. m \in Int /\ 1 \in Int /\ (\A i \in 1 .. m : t[i] \in M) /\ (\A i \in 1 .. m : s[i] \in M)
    <3>1. \A i \in 1 .. m : i \in 1 .. n
      BY <1>1, <1>7
    <3>2. \A i \in 1 .. n : s[i] \in M
      BY DEF n
    <3> QED BY <1>2, <1>7, <3>1, <3>2
  <2>2. /\ a \in Seq(M) /\ Len(a) = IF 1 <= m THEN m - 1 + 1 ELSE 0
        /\ \A i \in 1 .. m - 1 + 1 : a[i] = t[1 + i - 1]
    BY <2>1, SubSeqProperties
  <2>3. /\ b \in Seq(M) /\ Len(b) = IF 1 <= m THEN m - 1 + 1 ELSE 0
        /\ \A i \in 1 .. m - 1 + 1 : b[i] = s[1 + i - 1]
    BY <2>1, SubSeqProperties
  <2> HIDE DEF a, b
  <2>4. m - 1 + 1 = m /\ (IF 1 <= m THEN m - 1 + 1 ELSE 0) = m
    BY <1>1, <1>7
  <2>5. \A i \in 1 .. Len(a) : a[i] = b[i]
    <3>1. \A i \in 1 .. m : 1 + i - 1 = i /\ t[i] = s[i]
      BY <1>1, <1>2, <1>7
    <3> QED BY <2>2, <2>3, <2>4, <3>1
  <2>6. a = b
    BY <2>2, <2>3, <2>4, <2>5, SeqEqual
  <2> QED BY <2>6 DEF a, b
<1> QED BY <1>3, <1>6, <1>8 DEF t

(* Where the j-th part of a flattened sequence stands, the one after the    *)
(* first k, when the whole stands in s from p on.                           *)
Part(s, p, pre, seqs, M, k, j) ==
  /\ p \in Nat \ {0} /\ Upto(pre, k) \in Nat /\ Upto(pre, j) \in Nat
  /\ seqs[j] \in Seq(M) /\ pre[k] \in Seq(M) /\ pre[j] \in Seq(M)
  /\ pre[j] = pre[k] \o seqs[j]
  /\ Upto(pre, j) = Upto(pre, k) + Len(seqs[j])
  /\ At(s, p + Upto(pre, k), seqs[j])
  /\ Upto(pre, j) <= Len(FlattenSeq(seqs))

(* One of the parts of a flattened text that stands somewhere. *)
LEMMA JoinedPart ==
  ASSUME NEW M, NEW seqs \in Seq(Seq(M)), NEW pre, Joins(pre, seqs, M),
         NEW s \in Seq(M), NEW p, At(s, p, FlattenSeq(seqs)),
         NEW k \in 0 .. Len(seqs) - 1, NEW j, j = k + 1
  PROVE  Part(s, p, pre, seqs, M, k, j)
<1> DEFINE F == FlattenSeq(seqs)
           n == Len(seqs)
           e == seqs[j]
           u == Upto(pre, k)
           v == Upto(pre, j)
<1>1. /\ n \in Nat /\ j \in 1 .. n /\ k \in 0 .. n /\ j \in 0 .. n /\ j - 1 = k /\ e \in Seq(M)
      /\ F \in Seq(M)
  BY FlattenType
<1> HIDE DEF F, e
<1>2. /\ pre[j] = pre[k] \o e /\ pre[k] \in Seq(M) /\ pre[j] \in Seq(M)
      /\ At(F, u + 1, e)
  BY <1>1 DEF Joins, F, e
<1>3. u \in Nat /\ v \in Nat /\ Len(e) \in Nat /\ v = u + Len(e)
  <2>1. Len(pre[k]) \in Nat /\ Len(pre[j]) \in Nat /\ Len(e) \in Nat
    BY <1>1, <1>2, Length
  <2>2. Len(pre[j]) = Len(pre[k]) + Len(e)
    BY <1>1, <1>2, TwoParts
  <2> QED BY <2>1, <2>2 DEF Upto
<1> HIDE DEF u, v
<1>4. p \in Nat \ {0} /\ Len(s) \in Nat /\ Len(F) \in Nat
  BY <1>1, Length DEF At, F
<1>5. At(s, p + (u + 1) - 1, e) /\ u + 1 + Len(e) <= Len(F) + 1
  <2>1. u + 1 + Len(e) <= Len(F) + 1
    BY <1>2 DEF At
  <2> QED BY <1>2, <1>3, <1>4, <2>1, AtPart DEF F
<1>6. p + (u + 1) - 1 = p + u /\ v <= Len(F)
  BY <1>3, <1>4, <1>5
<1> QED BY <1>1, <1>2, <1>3, <1>4, <1>5, <1>6 DEF F, e, u, v, Part

Markup == {"nl", "sp", "<", ">", "&", "q", "lt", "amp", "br", "p", "/p"}

(* html_strip() turns what stands for a letter back into the letter; an end *)
(* of line after another is dropped.                                        *)
ReadsMark(s, a, l) ==
  /\ l = "nl" =>
       /\ Strips(s)[<<a, TRUE>>] = Strips(s)[<<a + Len(Marked(l)), TRUE>>]
       /\ Strips(s)[<<a, FALSE>>] = <<"nl">> \o Strips(s)[<<a + Len(Marked(l)), TRUE>>]
  /\ l # "nl" =>
       /\ Strips(s)[<<a, TRUE>>] = <<l>> \o Strips(s)[<<a + Len(Marked(l)), FALSE>>]
       /\ Strips(s)[<<a, FALSE>>] = <<l>> \o Strips(s)[<<a + Len(Marked(l)), FALSE>>]

(* html_strip() reads a marked-up letter as that letter. *)
LEMMA MarkReads ==
  ASSUME NEW M, Markup \subseteq M, NEW s \in Seq(M), NEW a, NEW l \in M, At(s, a, Marked(l))
  PROVE  ReadsMark(s, a, l)
<1>0. {"nl", "sp", "<", "&", "q"} \subseteq M /\ {"br", "lt", "amp"} \subseteq M /\ Len(s) \in Nat
  BY Length DEF Markup
<1>1. a \in Nat \ {0} /\ a \in Nat
  BY DEF At
<1>2. CASE l = "nl"
  <2>1. Marked(l) = <<"<", "br", ">">> /\ Len(Marked(l)) = 3
    BY <1>2 DEF Marked
  <2>2. /\ a \in 1 .. Len(s) + 1 /\ a + 2 <= Len(s) /\ s[a] = "<" /\ Close(s, a) = a + 2
        /\ Breaking(s, a)
    BY <1>0, <2>1, TagFacts, TagsThatBreak
  <2>3. a <= Len(s) /\ Close(s, a) <= Len(s) /\ Close(s, a) + 1 = a + 3
    BY <1>0, <1>1, <2>2
  <2>4. Strips(s)[<<a, TRUE>>] = Strips(s)[<<Close(s, a) + 1, TRUE>>]
    BY <1>0, <2>2, <2>3, StripFacts
  <2>5. Strips(s)[<<a, FALSE>>] = <<"nl">> \o Strips(s)[<<Close(s, a) + 1, TRUE>>]
    BY <1>0, <2>2, <2>3, StripFacts
  <2>6. a + Len(Marked(l)) = Close(s, a) + 1
    BY <2>1, <2>3
  <2> QED BY <1>2, <2>4, <2>5, <2>6, Zenon DEF ReadsMark
<1>3. CASE l = "<" \/ l = "&"
  <2> DEFINE e == IF l = "<" THEN "lt" ELSE "amp"
  <2>1. Marked(l) = <<"&", e>> /\ Len(Marked(l)) = 2
    BY <1>3 DEF Marked
  <2>2. e \in DOMAIN Entity /\ Entity[e] = l /\ l # "nl"
    BY <1>3 DEF Entity
  <2>3. a + 1 <= Len(s) /\ s[a] = "&" /\ s[a + 1] = e
    <3> DEFINE t == <<"&", e>>
    <3>1. Len(t) = 2 /\ t[1] = "&" /\ t[2] = e
      OBVIOUS
    <3>2. At(s, a, t)
      BY <2>1
    <3> HIDE DEF t, e
    <3>3. a + 2 <= Len(s) + 1 /\ \A i \in 1 .. 2 : s[a + i - 1] = t[i]
      BY <3>1, <3>2 DEF At
    <3>4. s[a + 1 - 1] = "&" /\ s[a + 2 - 1] = e
      BY <3>1, <3>3
    <3>5. a + 1 - 1 = a /\ a + 2 - 1 = a + 1 /\ a + 1 <= Len(s)
      BY <1>0, <1>1, <3>3
    <3> QED BY <3>4, <3>5
  <2>4. a < Len(s) /\ a <= Len(s) /\ a \in 1 .. Len(s) + 1
    BY <1>0, <1>1, <2>3
  <2> HIDE DEF e
  <2>5. EntityAt(s, a)
    BY <2>2, <2>3, <2>4 DEF EntityAt
  <2>6. /\ Strips(s)[<<a, TRUE>>] = <<Entity[s[a + 1]]>> \o Strips(s)[<<a + 2, FALSE>>]
        /\ Strips(s)[<<a, FALSE>>] = <<Entity[s[a + 1]]>> \o Strips(s)[<<a + 2, FALSE>>]
    BY <1>0, <2>4, <2>5, StripFacts
  <2>7. <<Entity[s[a + 1]]>> = <<l>>
    BY <2>2, <2>3
  <2> QED BY <2>1, <2>2, <2>6, <2>7, Zenon DEF ReadsMark
<1>4. CASE l \notin {"nl", "<", "&"}
  <2>1. Marked(l) = <<l>> /\ Len(Marked(l)) = 1
    BY <1>4 DEF Marked
  <2>2. a \in 1 .. Len(s) /\ s[a] = l
    BY <1>1, <2>1, AtLetter
  <2>3. a <= Len(s) /\ a \in 1 .. Len(s) + 1 /\ s[a] # "<" /\ ~EntityAt(s, a)
    BY <1>0, <1>4, <2>2 DEF EntityAt
  <2>4. /\ Strips(s)[<<a, TRUE>>] = <<s[a]>> \o Strips(s)[<<a + 1, EndsLine(s, a)>>]
        /\ Strips(s)[<<a, FALSE>>] = <<s[a]>> \o Strips(s)[<<a + 1, EndsLine(s, a)>>]
    BY <1>0, <2>3, StripFacts
  <2>5. EndsLine(s, a) = FALSE
    BY <1>4, <2>2 DEF EndsLine
  <2>6. l # "nl"
    BY <1>4
  <2> QED BY <2>1, <2>2, <2>4, <2>5, <2>6, Zenon DEF ReadsMark
<1>5. l = "nl" \/ (l = "<" \/ l = "&") \/ l \notin {"nl", "<", "&"}
  OBVIOUS
<1> QED BY <1>2, <1>3, <1>4, <1>5

(* What of a text is read, letter by letter. *)
Lines(x) ==
  [i \in 1 .. Len(x) |-> IF i > 1 /\ x[i] = "nl" /\ x[i - 1] = "nl" THEN <<>> ELSE <<x[i]>>]

(* Reading(), letter by letter. *)
LEMMA LinesFacts ==
  ASSUME NEW M, NEW x \in Seq(M)
  PROVE  /\ Lines(x) \in Seq(Seq(M)) /\ Len(Lines(x)) = Len(x)
         /\ FlattenSeq(Lines(x)) \in Seq(M)
         /\ Reading(x) = Trimmed(FlattenSeq(Lines(x)))
         /\ \A i \in 1 .. Len(x) :
              /\ i > 1 /\ x[i] = "nl" /\ x[i - 1] = "nl" => Lines(x)[i] = <<>>
              /\ ~(i > 1 /\ x[i] = "nl" /\ x[i - 1] = "nl") => Lines(x)[i] = <<x[i]>>
<1> DEFINE E == Lines(x)
<1>1. \A i \in 1 .. Len(x) :
        /\ i > 1 /\ x[i] = "nl" /\ x[i - 1] = "nl" => E[i] = <<>>
        /\ ~(i > 1 /\ x[i] = "nl" /\ x[i - 1] = "nl") => E[i] = <<x[i]>>
  BY DEF Lines
<1>2. \A i \in 1 .. Len(x) : E[i] \in Seq(M)
  <2> SUFFICES ASSUME NEW i \in 1 .. Len(x) PROVE E[i] \in Seq(M)
    OBVIOUS
  <2>1. x[i] \in M
    OBVIOUS
  <2>2. <<>> \in Seq(M) /\ <<x[i]>> \in Seq(M)
    BY <2>1, OneLetter
  <2> QED BY <1>1, <2>2
<1>3. E \in Seq(Seq(M)) /\ Len(E) = Len(x)
  <2>1. E = [i \in 1 .. Len(x) |-> E[i]] /\ Len(x) \in Nat
    BY DEF Lines
  <2> HIDE DEF E
  <2>2. E \in [1 .. Len(x) -> Seq(M)]
    BY <1>2, <2>1
  <2> QED BY <2>1, <2>2
<1>4. Reading(x) = Trimmed(FlattenSeq(E))
  BY DEF Reading, Lines
<1> HIDE DEF E
<1> QED BY <1>1, <1>3, <1>4, FlattenType DEF E

StartsLine(x, k) == k > 0 /\ x[k] = "nl"

Cat(d, e) == d \o e

(* Joining is associative. *)
LEMMA CatFacts ==
  ASSUME NEW M, NEW d \in Seq(M), NEW e \in Seq(M), NEW y \in Seq(M)
  PROVE  Cat(d, Cat(e, y)) = Cat(Cat(d, e), y)
BY ConcatAssociative, SMTT(60) DEF Cat

(* What has been read after k letters of x, and what is still to be read.   *)
ReadUpTo(pl, k) == pl[k]
Rest(s, p, pm, x, k) == Strips(s)[<<p + Upto(pm, k), StartsLine(x, k)>>]

(* One more letter of the text is read. *)
LEMMA TextStep ==
  ASSUME NEW M, Markup \subseteq M, NEW x \in Seq(M), NEW s \in Seq(M), NEW p,
         At(s, p, FlattenSeq(Marks(x))),
         NEW pm, Joins(pm, Marks(x), M), NEW pl, Joins(pl, Lines(x), M),
         NEW k \in 0 .. Len(x) - 1, NEW first \in Seq(M),
         first = Cat(ReadUpTo(pl, k), Rest(s, p, pm, x, k)),
         Upto(pl, k) <= Upto(pm, k)
  PROVE  /\ first = Cat(ReadUpTo(pl, k + 1), Rest(s, p, pm, x, k + 1))
         /\ Upto(pl, k + 1) <= Upto(pm, k + 1)
<1> DEFINE j == k + 1
           a == p + Upto(pm, k)
           b == p + Upto(pm, j)
           l == x[j]
           e == Lines(x)[j]
           S == Strips(s)
           h == StartsLine(x, k)
           g == StartsLine(x, j)
<1>0. /\ Len(x) \in Nat /\ k \in Nat /\ j \in 1 .. Len(x) /\ j - 1 = k /\ j > 0 /\ (j > 1 <=> k > 0)
      /\ Len(s) \in Nat
  BY Length
<1>1. {"<", ">", "&", "lt", "amp", "br", "p", "/p"} \subseteq M /\ {"nl", "sp", "<", "&", "q"} \subseteq M
  BY DEF Markup
<1>2. /\ Marks(x) \in Seq(Seq(M)) /\ Len(Marks(x)) = Len(x)
      /\ Lines(x) \in Seq(Seq(M)) /\ Len(Lines(x)) = Len(x)
      /\ FlattenSeq(Lines(x)) \in Seq(M) /\ FlattenSeq(Marks(x)) \in Seq(M)
  BY <1>1, MarksFacts, LinesFacts
<1>3. Marks(x)[j] = Marked(l)
  BY <1>0 DEF Marks
<1> HIDE DEF j
<1>4. /\ p \in Nat \ {0} /\ Upto(pm, k) \in Nat /\ Upto(pm, j) \in Nat
      /\ Upto(pm, j) = Upto(pm, k) + Len(Marked(l))
      /\ At(s, a, Marked(l)) /\ Marked(l) \in Seq(M)
      /\ Upto(pm, j) <= Len(FlattenSeq(Marks(x)))
  <2>1. k \in 0 .. Len(Marks(x)) - 1 /\ j = k + 1
    BY <1>2 DEF j
  <2>2. Part(s, p, pm, Marks(x), M, k, j)
    BY <1>2, <2>1, JoinedPart
  <2> HIDE DEF a, l
  <2>3. a = p + Upto(pm, k) /\ Marks(x)[j] = Marked(l)
    BY <1>3 DEF a, l
  <2> QED BY <2>2, <2>3 DEF Part
<1>5. /\ Upto(pl, k) \in Nat /\ Upto(pl, j) \in Nat /\ e \in Seq(M)
      /\ pl[k] \in Seq(M) /\ pl[j] \in Seq(M) /\ pl[j] = pl[k] \o e
      /\ Upto(pl, j) = Upto(pl, k) + Len(e)
  <2>1. k \in 0 .. Len(Lines(x)) - 1 /\ j = k + 1
    BY <1>2 DEF j
  <2> DEFINE F == FlattenSeq(Lines(x))
  <2>2. At(F, 1, F)
    BY <1>2, AtWhole
  <2>3. Part(F, 1, pl, Lines(x), M, k, j)
    BY <1>2, <2>1, <2>2, JoinedPart
  <2> HIDE DEF e, F
  <2>4. Lines(x)[j] = e
    BY DEF e
  <2> QED BY <2>3, <2>4 DEF Part
<1>6. b = a + Len(Marked(l)) /\ Len(Marked(l)) \in Nat
  <2>1. Len(Marked(l)) \in Nat
    BY <1>4, Length
  <2> QED BY <1>4, <2>1
<1>7. l \in M /\ h \in BOOLEAN /\ g \in BOOLEAN /\ (g <=> l = "nl")
  BY <1>0 DEF StartsLine
<1>8. b \in 1 .. Len(s) + 1
  <2>1. p \in Nat \ {0} /\ p + Len(FlattenSeq(Marks(x))) <= Len(s) + 1 /\ Len(FlattenSeq(Marks(x))) \in Nat
    BY <1>2, Length DEF At
  <2>2. Upto(pm, j) \in Nat /\ Upto(pm, j) <= Len(FlattenSeq(Marks(x)))
    BY <1>4
  <2> QED BY <1>0, <2>1, <2>2
<1>9. S[<<b, TRUE>>] \in Seq(M) /\ S[<<b, FALSE>>] \in Seq(M)
  BY <1>1, <1>8, StripFacts
<1>10. /\ l = "nl" /\ h => e = <<>>
       /\ ~(l = "nl" /\ h) => e = <<l>>
  <2>1. j > 1 /\ l = "nl" /\ x[j - 1] = "nl" <=> l = "nl" /\ h
    BY <1>0 DEF StartsLine
  <2> QED BY <1>0, <2>1, LinesFacts
<1>11. /\ l = "nl" /\ h => S[<<a, h>>] = S[<<b, TRUE>>]
       /\ l = "nl" /\ ~h => S[<<a, h>>] = <<"nl">> \o S[<<b, TRUE>>]
       /\ l # "nl" => S[<<a, h>>] = <<l>> \o S[<<b, FALSE>>]
  <2> HIDE DEF S, a, b, l, h
  <2>0. At(s, a, Marked(l)) /\ l \in M /\ h \in BOOLEAN
    BY <1>4, <1>7
  <2>1. ReadsMark(s, a, l)
    BY <2>0, MarkReads
  <2>2. CASE h = TRUE
    BY <1>6, <2>1, <2>2, Zenon DEF S, ReadsMark
  <2>3. CASE h = FALSE
    BY <1>6, <2>1, <2>3, Zenon DEF S, ReadsMark
  <2>4. h = TRUE \/ h = FALSE
    BY <1>7
  <2> QED BY <2>2, <2>3, <2>4
<1> DEFINE y == S[<<b, g>>]
<1>12. y \in Seq(M)
  <2>1. g = TRUE \/ g = FALSE
    BY <1>7
  <2> QED BY <1>9, <2>1
<1>13. S[<<a, h>>] = e \o y
  <2>1. CASE l = "nl" /\ h
    <3>1. g = TRUE
      BY <1>7, <2>1
    <3>2. S[<<a, h>>] = y /\ e = <<>>
      BY <1>10, <1>11, <2>1, <3>1
    <3> HIDE DEF y, S, e
    <3>3. <<>> \o y = y
      BY <1>12, ConcatEmptySeq
    <3> QED BY <3>2, <3>3
  <2>2. CASE l = "nl" /\ ~h
    <3>1. g = TRUE
      BY <1>7, <2>2
    <3> QED BY <1>10, <1>11, <2>2, <3>1
  <2>3. CASE l # "nl"
    <3>1. g = FALSE
      BY <1>7, <2>3
    <3> QED BY <1>10, <1>11, <2>3, <3>1
  <2> QED BY <2>1, <2>2, <2>3
<1> HIDE DEF y, S, e, a, b, h, g, l
<1>14. first = Cat(pl[j], y)
  <2> DEFINE d == pl[k]
             c == pl[j]
             r == S[<<a, h>>]
  <2>1. first = Cat(d, r)
    BY DEF S, a, h, ReadUpTo, Rest
  <2> HIDE DEF d, c, r
  <2>2. d \in Seq(M) /\ e \in Seq(M) /\ y \in Seq(M) /\ c = Cat(d, e) /\ r = Cat(e, y)
    BY <1>5, <1>12, <1>13 DEF d, c, r, Cat
  <2>3. first = Cat(c, y)
    BY <2>1, <2>2, CatFacts
  <2> QED BY <2>3 DEF c
<1>15. Len(e) <= Len(Marked(l)) /\ Len(e) \in Nat
  <2>1. Len(<<>>) = 0 /\ Len(<<l>>) = 1 /\ Len(e) \in Nat
    BY <1>5, Length
  <2>2. Len(Marked(l)) >= 1
    <3>1. Len(<<"&", "lt">>) = 2 /\ Len(<<"&", "amp">>) = 2 /\ Len(<<"<", "br", ">">>) = 3 /\ Len(<<l>>) = 1
      OBVIOUS
    <3> QED BY <3>1 DEF Marked
  <2>3. Len(e) = 0 \/ Len(e) = 1
    BY <1>10, <2>1
  <2> DEFINE u == Len(e)
             v == Len(Marked(l))
  <2>4. u \in Nat /\ v \in Nat /\ v >= 1 /\ (u = 0 \/ u = 1)
    BY <1>6, <2>1, <2>2, <2>3
  <2> HIDE DEF u, v
  <2>5. u <= v /\ u \in Nat
    BY <2>4
  <2> QED BY <2>5 DEF u, v
<1>16. Upto(pl, j) <= Upto(pm, j)
  BY <1>4, <1>5, <1>6, <1>15, SMTT(60)
<1> QED BY <1>14, <1>16 DEF j, y, S, b, g, ReadUpTo, Rest

(* html_strip() reads back the text of a status, without empty lines.       *)
LEMMA HtmlReads ==
  ASSUME NEW x \in Seq(Alphabet), Len(Html(x)) <= ContentBuf
  PROVE  HtmlStrip(Html(x), StripBuf) = Reading(x)
<1> DEFINE M == Written \cup Markup
           H == Html(x)
           F == FlattenSeq(Marks(x))
           n == Len(x)
           S == Strips(H)
           a == <<"<", "p", ">">>
           c == <<"<", "/p", ">">>
<1>0. /\ Markup \subseteq M /\ {"<", ">", "&", "lt", "amp", "br", "p", "/p"} \subseteq M
      /\ {"nl", "sp", "<", "&", "q"} \subseteq M /\ x \in Seq(M) /\ "nl" \in M /\ {"p", "/p"} \subseteq M
  <2>1. Alphabet \subseteq M
    BY WrittenFacts
  <2>2. Markup \subseteq M
    OBVIOUS
  <2>3. {"<", ">", "&", "lt", "amp", "br", "p", "/p", "nl", "sp", "q"} \subseteq Markup
    BY DEF Markup
  <2> HIDE DEF M
  <2> QED BY <2>1, <2>2, <2>3
<1> HIDE DEF M
<1>1. /\ Marks(x) \in Seq(Seq(M)) /\ Len(Marks(x)) = n /\ F \in Seq(M)
      /\ H = (a \o F) \o c /\ H \in Seq(M) /\ Len(H) = Len(F) + 6
      /\ Lines(x) \in Seq(Seq(M)) /\ Len(Lines(x)) = n /\ FlattenSeq(Lines(x)) \in Seq(M)
      /\ Reading(x) = Trimmed(FlattenSeq(Lines(x)))
  BY <1>0, MarksFacts, LinesFacts
<1>2. /\ a \in Seq(M) /\ Len(a) = 3 /\ c \in Seq(M) /\ Len(c) = 3
      /\ Len(F) \in Nat /\ Len(H) \in Nat /\ n \in Nat
  <2>1. a \in Seq(M) /\ Len(a) = 3 /\ c \in Seq(M) /\ Len(c) = 3
    BY <1>0
  <2> QED BY <1>0, <1>1, <2>1, Length
<1> HIDE DEF H, F, a, c, n
<1>3. At(H, 1, a) /\ At(H, 4, F) /\ At(H, 4 + Len(F), c)
  <2>1. a \o F \in Seq(M) /\ Len(a \o F) = 3 + Len(F)
    BY <1>1, <1>2, TwoParts
  <2>2. At(H, 1, (a \o F) \o c)
    BY <1>1, AtWhole
  <2>3. 1 \in Nat \ {0}
    OBVIOUS
  <2>4. At(H, 1, a \o F) /\ At(H, 1 + Len(a \o F), c)
    BY <1>1, <1>2, <2>1, <2>2, <2>3, AtConcat
  <2>5. At(H, 1, a) /\ At(H, 1 + Len(a), F)
    BY <1>1, <1>2, <2>3, <2>4, AtConcat
  <2>6. 1 + Len(a \o F) = 4 + Len(F) /\ 1 + Len(a) = 4
    BY <1>2, <2>1
  <2> QED BY <2>4, <2>5, <2>6
<1> DEFINE first == S[<<4, FALSE>>]
<1>4. S[<<1, FALSE>>] = first
  <2>1. 1 + 2 <= Len(H) /\ H[1] = "<" /\ Close(H, 1) = 1 + 2 /\ ~Breaking(H, 1)
    <3>1. At(H, 1, <<"<", "p", ">">>) /\ "p" \in M /\ "p" # ">" /\ H \in Seq(M)
      BY <1>0, <1>1, <1>3 DEF a
    <3> QED BY <3>1, TagFacts, TagsThatBreak
  <2>2. 1 \in 1 .. Len(H) + 1 /\ 1 <= Len(H) /\ Close(H, 1) <= Len(H) /\ Close(H, 1) + 1 = 4
    BY <1>2, <2>1
  <2>3. S[<<1, FALSE>>] = S[<<Close(H, 1) + 1, FALSE>>]
    BY <1>0, <1>1, <2>1, <2>2, StripFacts, ZenonT(60)
  <2> QED BY <2>2, <2>3
<1>5. first \in Seq(M)
  <2>1. 4 \in 1 .. Len(H) + 1
    BY <1>1, <1>2
  <2> QED BY <1>0, <1>1, <2>1, StripFacts
<1>6. PICK pm : Joins(pm, Marks(x), M)
  BY <1>1, FlattenFacts
<1>7. PICK pl : Joins(pl, Lines(x), M)
  BY <1>1, FlattenFacts
<1>8. pm[0] = <<>> /\ pl[0] = <<>> /\ F = pm[n] /\ FlattenSeq(Lines(x)) = pl[n]
  BY <1>1, <1>6, <1>7 DEF Joins, F
<1>9. Upto(pm, 0) = 0 /\ Upto(pl, 0) = 0 /\ Upto(pm, n) = Len(F) /\ Upto(pl, n) = Len(FlattenSeq(Lines(x)))
  BY <1>8 DEF Upto
<1> HIDE DEF first
<1> DEFINE T == {k \in 0 .. n : /\ first = Cat(ReadUpTo(pl, k), Rest(H, 4, pm, x, k))
                               /\ Upto(pl, k) <= Upto(pm, k)}
<1>10. 0 \in T
  <2>1. StartsLine(x, 0) = FALSE
    BY DEF StartsLine
  <2>2. 4 + Upto(pm, 0) = 4
    BY <1>9
  <2>3. first = <<>> \o first
    BY <1>5, ConcatEmptySeq
  <2>4. first = Cat(ReadUpTo(pl, 0), Rest(H, 4, pm, x, 0))
    BY <1>8, <2>1, <2>2, <2>3 DEF first, ReadUpTo, Rest, S, Cat
  <2>5. 0 \in 0 .. n /\ Upto(pl, 0) <= Upto(pm, 0)
    BY <1>2, <1>9
  <2> QED BY <2>4, <2>5
<1>11. ASSUME NEW k \in 0 .. n - 1, k \in T PROVE k + 1 \in T
  <2>1. first = Cat(ReadUpTo(pl, k), Rest(H, 4, pm, x, k)) /\ Upto(pl, k) <= Upto(pm, k)
    BY <1>11
  <2>2. k \in 0 .. Len(x) - 1 /\ At(H, 4, FlattenSeq(Marks(x)))
    BY <1>3 DEF n, F
  <2>5. /\ Markup \subseteq M /\ x \in Seq(M) /\ H \in Seq(M) /\ first \in Seq(M)
        /\ Joins(pm, Marks(x), M) /\ Joins(pl, Lines(x), M)
    BY <1>0, <1>1, <1>5, <1>6, <1>7
  <2>3. /\ first = Cat(ReadUpTo(pl, k + 1), Rest(H, 4, pm, x, k + 1))
        /\ Upto(pl, k + 1) <= Upto(pm, k + 1)
    BY <2>1, <2>2, <2>5, TextStep
  <2>4. k + 1 \in 0 .. n
    BY <1>2
  <2> QED BY <2>3, <2>4
<1>12. 0 .. n \subseteq T
  <2> HIDE DEF T
  <2> QED BY <1>2, <1>10, <1>11, NumberInduction
<1> DEFINE R == FlattenSeq(Lines(x))
           z == S[<<4 + Len(F), StartsLine(x, n)>>]
<1>13. first = R \o z /\ Len(R) <= Len(F)
  <2>1. n \in T
    <3> HIDE DEF T
    <3> QED BY <1>2, <1>12
  <2>2. first = Cat(ReadUpTo(pl, n), Rest(H, 4, pm, x, n)) /\ Upto(pl, n) <= Upto(pm, n)
    BY <2>1
  <2>3. ReadUpTo(pl, n) = R /\ Rest(H, 4, pm, x, n) = z
    BY <1>8, <1>9 DEF ReadUpTo, Rest, S
  <2> HIDE DEF R, z
  <2>4. Upto(pl, n) = Len(R) /\ Upto(pm, n) = Len(F)
    BY <1>9 DEF R
  <2> QED BY <2>2, <2>3, <2>4 DEF Cat
<1>14. z = <<>> \/ z = <<"nl">>
  <2> DEFINE e == 4 + Len(F)
             h == StartsLine(x, n)
  <2>1. e \in 1 .. Len(H) + 1 /\ e + 2 <= Len(H) /\ H[e] = "<" /\ Close(H, e) = e + 2 /\ Breaking(H, e)
    <3>1. At(H, e, <<"<", "/p", ">">>) /\ "/p" \in M /\ "/p" # ">" /\ H \in Seq(M)
      BY <1>0, <1>1, <1>3 DEF c
    <3> HIDE DEF e
    <3> QED BY <3>1, TagFacts, TagsThatBreak
  <2>2. /\ e <= Len(H) /\ Close(H, e) <= Len(H) /\ Close(H, e) + 1 = Len(H) + 1
        /\ Len(H) + 1 \in 1 .. Len(H) + 1 /\ Len(H) + 1 > Len(H)
    <3>1. e + 3 = Len(H) + 1 /\ e \in Nat
      BY <1>1, <1>2
    <3>2. Close(H, e) = e + 2
      BY <2>1
    <3> HIDE DEF e
    <3> QED BY <1>2, <3>1, <3>2
  <2>3. h = TRUE \/ h = FALSE
    BY DEF StartsLine
  <2> HIDE DEF e, h
  <2>4. S[<<Len(H) + 1, TRUE>>] = <<>>
    BY <1>0, <1>1, <2>2, StripFacts
  <2>5. CASE h = TRUE
    <3>1. S[<<e, TRUE>>] = S[<<Close(H, e) + 1, TRUE>>]
      BY <1>0, <1>1, <2>1, <2>2, StripFacts
    <3> QED BY <2>2, <2>4, <2>5, <3>1 DEF e, h
  <2>6. CASE h = FALSE
    <3>1. S[<<e, FALSE>>] = <<"nl">> \o S[<<Close(H, e) + 1, TRUE>>]
      BY <1>0, <1>1, <2>1, <2>2, StripFacts
    <3>2. <<"nl">> \o <<>> = <<"nl">>
      <4>1. <<"nl">> \in Seq(M)
        BY <1>0, OneLetter
      <4> QED BY <4>1, ConcatEmptySeq
    <3> QED BY <2>2, <2>4, <2>6, <3>1, <3>2 DEF e, h
  <2> QED BY <2>3, <2>5, <2>6
<1> HIDE DEF R, z, T, S
<1>15. R \in Seq(M) /\ Len(R) \in Nat
  BY <1>1, Length DEF R
<1>16. Trimmed(first) = Trimmed(R) /\ Len(first) <= Len(R) + 1
  <2>1. CASE z = <<>>
    <3>1. first = R
      BY <1>13, <1>15, <2>1, ConcatEmptySeq
    <3> QED BY <1>15, <3>1
  <2>2. CASE z = <<"nl">>
    <3>1. first = R \o <<"nl">>
      BY <1>13, <2>2
    <3>2. <<"nl">> \in Seq(M) /\ Len(<<"nl">>) = 1
      BY <1>0, OneLetter
    <3>3. Len(first) = Len(R) + 1
      BY <1>15, <3>1, <3>2, TwoParts
    <3> QED BY <1>0, <1>15, <3>1, <3>3, TrimmedLine
  <2> QED BY <1>14, <2>1, <2>2
<1>17. Cut(first, StripBuf) = first
  <2>1. StripBuf \in Nat /\ ContentBuf \in Nat /\ StripBuf >= ContentBuf
    BY BufAssumption, FitsAssumption
  <2>2. Len(first) \in Nat /\ Len(H) <= ContentBuf
    BY <1>5, Length DEF H
  <2>3. Len(first) <= StripBuf
    BY <1>1, <1>2, <1>13, <1>15, <1>16, <2>1, <2>2
  <2> QED BY <1>5, <2>1, <2>3, CutWhole
<1>18. HtmlStrip(H, StripBuf) = Trimmed(Cut(S[<<1, FALSE>>], StripBuf))
  BY <1>0, <1>1, StripFacts DEF S
<1> QED BY <1>1, <1>4, <1>16, <1>17, <1>18 DEF H, R

(* A status that fits is printed as it should be.                           *)
PrintsTrue(obj, status) ==
  /\ ParseStatus(obj).acct = Author(status) /\ ParseStatus(obj).boost = status.boosts
  /\ Len(Html(status.text)) <= ContentBuf => ParseStatus(obj).text = Reading(status.text)

(* A status that fits is read as it should be, whether it is a boost or     *)
(* not.                                                                     *)
LEMMA StatusPrints ==
  ASSUME NEW st \in Status, Len(Json(st)) <= ObjBuf
  PROVE  PrintsTrue(Cut(Json(st), ObjBuf), st)
<1>1. Cut(Json(st), ObjBuf) = Json(st)
  <2>1. Text \cup Members \subseteq Written
    BY WrittenFacts
  <2>2. Json(st) \in Seq(Written)
    BY <2>1, JsonParts
  <2> QED BY <2>2, CutWhole, BufAssumption
<1>2. st.text \in Seq(Alphabet)
  BY DEF Status
<1>3. Len(Html(st.text)) <= ContentBuf => ParseStatus(Json(st)).text = Reading(st.text)
  BY <1>2, StatusReads, HtmlReads
<1> QED BY <1>1, <1>3, StatusReads DEF PrintsTrue

-----------------------------------------------------------------------------
(* What a text that is cut off has in common with the whole.                *)
LEMMA PrefixFacts ==
  ASSUME NEW M, NEW t \in Seq(M), NEW s \in Seq(M), At(t, 1, s)
  PROVE  /\ Len(s) \in Nat /\ Len(t) \in Nat /\ Len(s) <= Len(t)
         /\ \A i \in 1 .. Len(s) : t[i] = s[i]
<1>1. Len(s) \in Nat /\ Len(t) \in Nat /\ 1 + Len(s) <= Len(t) + 1
  BY Length DEF At
<1>2. \A i \in 1 .. Len(s) : t[1 + i - 1] = s[i] /\ 1 + i - 1 = i
  BY DEF At
<1> QED BY <1>1, <1>2

(* A string that ends before the cut ends there in the whole text, *)
LEMMA PrefixStringEnd ==
  ASSUME NEW M, NEW t \in Seq(M), NEW s \in Seq(M), At(t, 1, s),
         NEW p \in 1 .. Len(s) + 1, StringEnd(s, p) <= Len(s)
  PROVE  StringEnd(t, p) = StringEnd(s, p)
<1> DEFINE n == Len(s)
           S == 1 .. n + 1
           T == {i \in S : StringEnd(s, i) <= n => StringEnd(t, i) = StringEnd(s, i)}
           rank == [i \in S |-> n + 1 - i]
<1>1. n \in Nat /\ Len(t) \in Nat /\ n <= Len(t) /\ \A i \in 1 .. n : t[i] = s[i]
  BY PrefixFacts
<1> HIDE DEF n
<1>2. rank \in [S -> Nat]
  BY <1>1
<1>3. ASSUME NEW i \in S, \A y \in S : rank[y] < rank[i] => y \in T, StringEnd(s, i) <= n
      PROVE  StringEnd(t, i) = StringEnd(s, i)
  <2>1. i \in 1 .. Len(s) + 1 /\ i \in 1 .. Len(t) + 1 /\ n + 1 \in 1 .. Len(s) + 1
    BY <1>1 DEF n
  <2>2. CASE i > n
    <3>1. StringEnd(s, i) = i
      BY <2>1, <2>2, StringEndFacts DEF n
    <3> QED BY <1>1, <1>3, <2>2, <3>1
  <2>3. CASE i <= n /\ s[i] = "q"
    <3>1. t[i] = "q"
      BY <1>1, <2>3
    <3> QED BY <2>1, <2>3, <3>1, StringEndFacts
  <2>4. CASE i < n /\ s[i] = "bs"
    <3>1. t[i] = "bs" /\ i < Len(t) /\ i < Len(s)
      BY <1>1, <2>4 DEF n
    <3>2. StringEnd(s, i) = StringEnd(s, i + 2) /\ StringEnd(t, i) = StringEnd(t, i + 2)
      BY <2>1, <2>4, <3>1, StringEndFacts
    <3>3. i + 2 \in S /\ rank[i + 2] < rank[i]
      BY <1>1, <2>4
    <3> QED BY <1>3, <3>2, <3>3
  <2>5. CASE i = n /\ s[i] = "bs"
    <3>1. StringEnd(s, i) = StringEnd(s, i + 1) /\ StringEnd(s, n + 1) = n + 1
      <4>1. i <= Len(s) /\ s[i] # "q" /\ ~(i < Len(s) /\ s[i] = "bs") /\ n + 1 > Len(s)
        BY <1>1, <2>5 DEF n
      <4> QED BY <2>1, <4>1, StringEndFacts
    <3> QED BY <1>1, <1>3, <2>5, <3>1
  <2>6. CASE i <= n /\ s[i] # "q" /\ s[i] # "bs"
    <3>1. t[i] # "q" /\ t[i] # "bs" /\ i <= Len(t) /\ i <= Len(s)
      BY <1>1, <2>6 DEF n
    <3>2. StringEnd(s, i) = StringEnd(s, i + 1) /\ StringEnd(t, i) = StringEnd(t, i + 1)
      BY <2>1, <2>6, <3>1, StringEndFacts
    <3>3. i + 1 \in S /\ rank[i + 1] < rank[i]
      BY <1>1, <2>6
    <3> QED BY <1>3, <3>2, <3>3
  <2>7. i \in Int /\ n \in Int
    BY <1>1
  <2> QED BY <2>2, <2>3, <2>4, <2>5, <2>6, <2>7
<1>4. \A i \in S : (\A y \in S : rank[y] < rank[i] => y \in T) => i \in T
  BY <1>3
<1>5. S \subseteq T
  <2> HIDE DEF S, T, rank
  <2> QED BY <1>2, <1>4, RankInduction
<1> QED BY <1>5 DEF n

(* The brackets of a text that is cut off close where they do in the whole, *)
(* or not at all.                                                           *)
Same(s, t, i, d) ==
  \/ Spans(s)[<<i, d>>] = 0
  \/ Spans(s)[<<i, d>>] = Spans(t)[<<i, d>>] /\ Spans(s)[<<i, d>>] \in 1 .. Len(s)

(* and so does an object. *)
LEMMA PrefixSpans ==
  ASSUME NEW M, NEW t \in Seq(M), NEW s \in Seq(M), At(t, 1, s)
  PROVE  \A i \in 1 .. Len(s) + 2 : \A d \in Nat \ {0} : Same(s, t, i, d)
<1> DEFINE n == Len(s)
           S == 1 .. n + 2
           D == Nat \ {0}
           T == {i \in S : \A d \in D : Same(s, t, i, d)}
           rank == [i \in S |-> n + 2 - i]
<1>1. n \in Nat /\ Len(t) \in Nat /\ n <= Len(t) /\ \A i \in 1 .. n : t[i] = s[i]
  BY PrefixFacts
<1> HIDE DEF n
<1>2. rank \in [S -> Nat]
  BY <1>1
<1>3. ASSUME NEW i \in S, \A y \in S : rank[y] < rank[i] => y \in T, NEW d \in D
      PROVE  Same(s, t, i, d)
  <2>1. i \in 1 .. Len(s) + 2
    BY DEF n
  <2>2. CASE i > n
    <3>1. Spans(s)[<<i, d>>] = 0
      BY <2>1, <2>2, SpanEndFacts DEF n
    <3> QED BY <3>1 DEF Same
  <2>3. ASSUME i <= n
        PROVE  Same(s, t, i, d)
    <3>1. t[i] = s[i] /\ i <= Len(s) /\ i <= Len(t) /\ i \in 1 .. Len(t) + 2 /\ i + 1 \in S
          /\ i + 1 \in 1 .. Len(s) + 1 /\ i + 1 \in 1 .. Len(t) + 1
      BY <1>1, <2>3 DEF n
    <3>2. i + 1 \in T
      <4>1. rank[i + 1] < rank[i]
        BY <1>1, <3>1
      <4> QED BY <1>3, <3>1, <4>1
    <3>3. CASE s[i] = "q"
      <4> DEFINE e == StringEnd(s, i + 1) + 1
      <4>1. StringEnd(s, i + 1) \in i + 1 .. n + 1
        BY <3>1, StringEndFacts DEF n
      <4>2. e \in S /\ rank[e] < rank[i]
        BY <1>1, <4>1, SMTT(60)
      <4>3. Spans(s)[<<i, d>>] = Spans(s)[<<e, d>>]
        BY <2>1, <3>1, <3>3, SpanEndFacts
      <4>4. CASE StringEnd(s, i + 1) <= n
        <5>1. StringEnd(t, i + 1) = StringEnd(s, i + 1)
          BY <3>1, <4>4, PrefixStringEnd DEF n
        <5>2. Spans(t)[<<i, d>>] = Spans(t)[<<e, d>>]
          <6>1. t[i] = "q" /\ StringEnd(t, i + 1) + 1 = e
            BY <3>1, <3>3, <5>1
          <6> HIDE DEF e
          <6> QED BY <3>1, <6>1, SpanEndFacts
        <5>3. e \in T
          BY <1>3, <4>2
        <5>4. Same(s, t, e, d)
          BY <5>3
        <5> HIDE DEF e
        <5> QED BY <4>3, <5>2, <5>4 DEF Same
      <4>5. CASE StringEnd(s, i + 1) = n + 1
        <5>1. e > n /\ e \in 1 .. Len(s) + 2
          BY <1>1, <4>2, <4>5 DEF n
        <5> HIDE DEF e
        <5>2. Spans(s)[<<e, d>>] = 0
          BY <5>1, SpanEndFacts DEF n
        <5> QED BY <4>3, <5>2 DEF Same
      <4> QED BY <1>1, <4>1, <4>4, <4>5
    <3>4. CASE s[i] = "ob"
      <4>1. d + 1 \in D
        OBVIOUS
      <4>2. /\ Spans(s)[<<i, d>>] = Spans(s)[<<i + 1, d + 1>>]
            /\ Spans(t)[<<i, d>>] = Spans(t)[<<i + 1, d + 1>>]
        <5>1. t[i] = "ob"
          BY <3>1, <3>4
        <5> QED BY <2>1, <3>1, <3>4, <5>1, SpanEndFacts
      <4>3. Same(s, t, i + 1, d + 1)
        BY <3>2, <4>1
      <4> QED BY <4>2, <4>3 DEF Same
    <3>5. CASE s[i] = "cb" /\ d = 1
      <4>1. Spans(s)[<<i, d>>] = i /\ Spans(t)[<<i, d>>] = i
        BY <2>1, <3>1, <3>5, SpanEndFacts
      <4>2. i \in 1 .. Len(s)
        BY <3>1
      <4> QED BY <4>1, <4>2 DEF Same
    <3>6. CASE s[i] = "cb" /\ d # 1
      <4>1. d - 1 \in D
        BY <3>6
      <4>2. /\ Spans(s)[<<i, d>>] = Spans(s)[<<i + 1, d - 1>>]
            /\ Spans(t)[<<i, d>>] = Spans(t)[<<i + 1, d - 1>>]
        BY <2>1, <3>1, <3>6, SpanEndFacts
      <4>3. Same(s, t, i + 1, d - 1)
        BY <3>2, <4>1
      <4> QED BY <4>2, <4>3 DEF Same
    <3>7. CASE s[i] \notin {"q", "ob", "cb"}
      <4>1. /\ Spans(s)[<<i, d>>] = Spans(s)[<<i + 1, d>>]
            /\ Spans(t)[<<i, d>>] = Spans(t)[<<i + 1, d>>]
        BY <2>1, <3>1, <3>7, SpanEndFacts
      <4>2. Same(s, t, i + 1, d)
        BY <3>2
      <4> QED BY <4>1, <4>2 DEF Same
    <3> QED BY <3>3, <3>4, <3>5, <3>6, <3>7
  <2> QED BY <1>1, <2>2, <2>3
<1>4. \A i \in S : (\A y \in S : rank[y] < rank[i] => y \in T) => i \in T
  BY <1>3
<1>5. S \subseteq T
  <2> HIDE DEF S, T, rank
  <2> QED BY <1>2, <1>4, RankInduction
<1> QED BY <1>5 DEF n

Jsons(tl) == [i \in 1 .. Len(tl) |-> Json(tl[i])]

(* What the array of all statuses is made of. *)
LEMMA JsonAllFacts ==
  ASSUME NEW tl \in Seq(Status)
  PROVE  /\ Jsons(tl) \in Seq(Seq(Written)) /\ Len(Jsons(tl)) = Len(tl)
         /\ FlattenSeq(Jsons(tl)) \in Seq(Written)
         /\ JsonAll(tl) \in Seq(Written) /\ Len(JsonAll(tl)) = Len(FlattenSeq(Jsons(tl))) + 2
         /\ At(JsonAll(tl), 1, <<"[">>) /\ At(JsonAll(tl), 2, FlattenSeq(Jsons(tl)))
         /\ At(JsonAll(tl), 2 + Len(FlattenSeq(Jsons(tl))), <<"]">>)
<1> DEFINE E == Jsons(tl)
           F == FlattenSeq(Jsons(tl))
           a == <<"[">>
           c == <<"]">>
           A == JsonAll(tl)
<1>1. \A i \in 1 .. Len(tl) : E[i] \in Seq(Written)
  <2>1. Text \cup Members \subseteq Written
    BY WrittenFacts
  <2> SUFFICES ASSUME NEW i \in 1 .. Len(tl) PROVE E[i] \in Seq(Written)
    OBVIOUS
  <2>2. tl[i] \in Status
    OBVIOUS
  <2>3. Json(tl[i]) \in Seq(Written)
    BY <2>1, <2>2, JsonParts
  <2> QED BY <2>3 DEF Jsons
<1>2. E \in Seq(Seq(Written)) /\ Len(E) = Len(tl)
  <2>1. E = [i \in 1 .. Len(tl) |-> E[i]] /\ Len(tl) \in Nat
    BY DEF Jsons
  <2> HIDE DEF E
  <2>2. E \in [1 .. Len(tl) -> Seq(Written)]
    BY <1>1, <2>1
  <2> QED BY <2>1, <2>2
<1>3. F \in Seq(Written)
  BY <1>2, FlattenType
<1>4. a \in Seq(Written) /\ c \in Seq(Written) /\ Len(a) = 1 /\ Len(c) = 1
  BY WrittenFacts, OneLetter
<1>5. A = (a \o F) \o c
  <2>1. A = a \o F \o c
    BY DEF JsonAll, Jsons
  <2> QED BY <2>1
<1> HIDE DEF E, F, a, c, A
<1>6. a \o F \in Seq(Written) /\ Len(a \o F) = Len(F) + 1 /\ Len(F) \in Nat
  <2>1. a \o F \in Seq(Written) /\ Len(a \o F) = Len(a) + Len(F) /\ Len(F) \in Nat
    BY <1>3, <1>4, TwoParts, Length
  <2> QED BY <1>4, <2>1
<1>7. A \in Seq(Written) /\ Len(A) = Len(F) + 2 /\ Len(A) \in Nat
  <2> DEFINE b == a \o F
  <2> HIDE DEF b
  <2>1. b \in Seq(Written) /\ Len(b) = Len(F) + 1 /\ A = b \o c /\ Len(F) \in Nat
    BY <1>5, <1>6 DEF b
  <2>2. A \in Seq(Written) /\ Len(A) = Len(b) + Len(c)
    BY <1>4, <2>1, TwoParts
  <2> QED BY <1>4, <2>1, <2>2
<1>8. At(A, 1, a) /\ At(A, 2, F) /\ At(A, 2 + Len(F), c)
  <2>1. At(A, 1, (a \o F) \o c)
    BY <1>5, <1>7, AtWhole
  <2>2. 1 \in Nat \ {0}
    OBVIOUS
  <2>3. At(A, 1, a \o F) /\ At(A, 1 + Len(a \o F), c)
    BY <1>4, <1>6, <1>7, <2>1, <2>2, AtConcat
  <2>4. At(A, 1, a) /\ At(A, 1 + Len(a), F)
    BY <1>3, <1>4, <1>7, <2>2, <2>3, AtConcat
  <2>5. 1 + Len(a \o F) = 2 + Len(F) /\ 1 + Len(a) = 2
    BY <1>4, <1>6
  <2> QED BY <2>3, <2>4, <2>5
<1> QED BY <1>2, <1>3, <1>7, <1>8 DEF E, F, A, a, c

(* What json_next_obj() finds, by the first bracket it meets.               *)
LEMMA NextObjFacts ==
  ASSUME NEW s, NEW p, NEW max, NEW open, open = First(s, p, {"ob", "]"})
  PROVE  /\ open > Len(s) \/ s[open] = "]" => ~NextObj(s, p, max).found
         /\ ~(open > Len(s) \/ s[open] = "]") /\ SpanEnd(s, open, "ob", "cb") = 0 =>
              ~NextObj(s, p, max).found
         /\ ~(open > Len(s) \/ s[open] = "]") /\ SpanEnd(s, open, "ob", "cb") # 0 =>
              /\ NextObj(s, p, max).found
              /\ NextObj(s, p, max).obj = Cut(SubSeq(s, open, SpanEnd(s, open, "ob", "cb")), max)
              /\ NextObj(s, p, max).next = SpanEnd(s, open, "ob", "cb") + 1
<1> DEFINE K == {"ob", "]"}
           end == IF open > Len(s) \/ s[open] = "]" THEN 0 ELSE SpanEnd(s, open, "ob", "cb")
           N == NextObj(s, p, max)
<1>1. N = IF end = 0 THEN [found |-> FALSE]
          ELSE [found |-> TRUE, obj |-> Cut(SubSeq(s, open, end), max), next |-> end + 1]
  BY DEF NextObj
<1> HIDE DEF N
<1>2. open > Len(s) \/ s[open] = "]" => end = 0
  OBVIOUS
<1>3. ~(open > Len(s) \/ s[open] = "]") => end = SpanEnd(s, open, "ob", "cb")
  OBVIOUS
<1> HIDE DEF end
<1>4. end = 0 => ~N.found
  BY <1>1
<1>5. end # 0 => N.found /\ N.obj = Cut(SubSeq(s, open, end), max) /\ N.next = end + 1
  BY <1>1
<1> QED BY <1>2, <1>3, <1>4, <1>5 DEF N

(* Where do_timeline() goes on after k statuses.                            *)
Start(pre, k) == IF k = 0 THEN 1 ELSE 2 + Upto(pre, k)

(* The first bracket that json_next_obj() meets after k statuses is where   *)
(* the next one begins, or the array ends, if that much has arrived.        *)
LEMMA OpensAt ==
  ASSUME NEW tl \in Seq(Status), NEW pre, Joins(pre, Jsons(tl), Written),
         NEW b \in Seq(Written), At(JsonAll(tl), 1, b), NEW k \in 0 .. Len(tl),
         NEW p, p = Start(pre, k), p <= Len(b) + 1, NEW q, q = 2 + Upto(pre, k), Upto(pre, k) \in Nat,
         k = 0 => Upto(pre, k) = 0,
         q <= Len(b) => b[q] \in {"ob", "]"}
  PROVE  First(b, p, {"ob", "]"}) = IF q <= Len(b) THEN q ELSE Len(b) + 1
<1> DEFINE K == {"ob", "]"}
           A == JsonAll(tl)
           n == Len(b)
           m == IF q <= n THEN q ELSE n + 1
<1>1. A \in Seq(Written) /\ At(A, 1, <<"[">>) /\ At(A, 1, b)
  BY JsonAllFacts
<1> HIDE DEF A, K, n
<1>2. n \in Nat /\ Len(A) \in Nat /\ \A i \in 1 .. n : A[i] = b[i]
  BY <1>1, PrefixFacts DEF n
<1>3. A[1] = "["
  BY <1>1, AtLetter
<1>4. q \in Nat /\ q >= 2 /\ p \in Nat /\ p <= q /\ p <= n + 1 /\ p >= 1
  <2>1. p = 1 \/ p = q
    BY DEF Start
  <2> QED BY <1>2, <2>1 DEF n
<1>5. m \in p .. n + 1
  BY <1>2, <1>4
<1>6. m = n + 1 \/ b[m] \in K
  BY DEF n, K
<1>7. ASSUME NEW j \in p .. m - 1 PROVE b[j] \notin K
  <2>1. CASE k = 0
    <3>1. p = 1 /\ q = 2
      BY <2>1 DEF Start
    <3>2. j = 1 /\ 1 \in 1 .. n
      BY <1>2, <3>1
    <3> QED BY <1>2, <1>3, <3>2 DEF K
  <2>2. CASE k # 0
    <3>1. p = q
      BY <2>2 DEF Start
    <3>2. FALSE
      BY <1>2, <1>4, <3>1
    <3> QED BY <3>2
  <2> QED BY <2>1, <2>2
<1> HIDE DEF m
<1>8. First(b, p, K) = m
  BY <1>4, <1>5, <1>6, <1>7, FirstIs DEF n
<1> QED BY <1>8 DEF m, n, K

(* json_next_obj() finds the statuses of an answer one by one, each whole,  *)
(* wherever the answer was cut off, and all of them if it was not.          *)
LEMMA NextStatus ==
  ASSUME NEW tl \in Seq(Status), NEW pre, Joins(pre, Jsons(tl), Written),
         NEW b \in Seq(Written), At(JsonAll(tl), 1, b), NEW k \in 0 .. Len(tl),
         NEW p, p = Start(pre, k), p <= Len(b) + 1
  PROVE  /\ NextObj(b, p, ObjBuf).found =>
              /\ k < Len(tl)
              /\ NextObj(b, p, ObjBuf).obj = Cut(Json(tl[k + 1]), ObjBuf)
              /\ NextObj(b, p, ObjBuf).next = Start(pre, k + 1)
              /\ NextObj(b, p, ObjBuf).next <= Len(b) + 1
         /\ ~NextObj(b, p, ObjBuf).found /\ b = JsonAll(tl) => k = Len(tl)
<1> DEFINE K == {"ob", "]"}
           A == JsonAll(tl)
           F == FlattenSeq(Jsons(tl))
           n == Len(b)
           u == Upto(pre, k)
           q == 2 + u
           L == Len(tl)
           found == NextObj(b, p, ObjBuf).found
<1>1. /\ A \in Seq(Written) /\ At(A, 1, b) /\ At(A, 2, F) /\ At(A, 2 + Len(F), <<"]">>)
      /\ Jsons(tl) \in Seq(Seq(Written)) /\ Len(Jsons(tl)) = L /\ F \in Seq(Written)
      /\ L \in Nat /\ Len(A) = Len(F) + 2 /\ Len(F) \in Nat
  BY JsonAllFacts, Length
<1>2. n \in Nat /\ n <= Len(A) /\ \A i \in 1 .. n : A[i] = b[i]
  BY <1>1, PrefixFacts
<1>3. pre[0] = <<>> /\ F = pre[L] /\ pre[k] \in Seq(Written)
  <2>1. k \in 0 .. Len(Jsons(tl))
    BY <1>1
  <2> QED BY <1>1, <2>1 DEF Joins
<1>4. u \in Nat /\ (k = 0 => u = 0) /\ (k = L => u = Len(F))
  <2>1. Len(pre[k]) \in Nat
    BY <1>3, Length
  <2>2. Len(<<>>) = 0
    OBVIOUS
  <2> QED BY <1>3, <2>1, <2>2 DEF Upto
<1> DEFINE open == First(b, p, K)
<1>5. ASSUME q <= n => b[q] \in K PROVE open = IF q <= n THEN q ELSE n + 1
  BY <1>1, <1>4, <1>5, OpensAt
<1>6. /\ open > n \/ b[open] = "]" => ~found
      /\ ~(open > n \/ b[open] = "]") /\ SpanEnd(b, open, "ob", "cb") = 0 => ~found
      /\ ~(open > n \/ b[open] = "]") /\ SpanEnd(b, open, "ob", "cb") # 0 =>
              /\ found
              /\ NextObj(b, p, ObjBuf).obj = Cut(SubSeq(b, open, SpanEnd(b, open, "ob", "cb")), ObjBuf)
              /\ NextObj(b, p, ObjBuf).next = SpanEnd(b, open, "ob", "cb") + 1
  BY NextObjFacts
<1> HIDE DEF open, found, A, F, n, u, L
<1>7. CASE k = L
  <2>1. q = 2 + Len(F) /\ q \in Nat
    BY <1>1, <1>4, <1>7
  <2>2. A[q] = "]"
    BY <1>1, <2>1, AtLetter
  <2>3. q <= n => b[q] = "]"
    BY <1>2, <1>4, <2>2
  <2>4. open = IF q <= n THEN q ELSE n + 1
    BY <1>5, <2>3
  <2>5. open > n \/ b[open] = "]"
    BY <1>2, <2>3, <2>4
  <2>6. ~found
    BY <1>6, <2>5
  <2> QED BY <1>7, <2>6 DEF found, L
<1>8. CASE k < L
  <2> DEFINE j == k + 1
             st == tl[j]
             B == Parts(st)
             J == Json(st)
             e == q + Len(J) - 1
  <2>1. j \in 1 .. L /\ k \in 0 .. L - 1
    BY <1>1, <1>8 DEF L
  <2>2. st \in Status /\ Jsons(tl)[j] = J
    BY <2>1 DEF L, Jsons
  <2>3. J = Object(B) /\ J \in Seq(Written) /\ Inert(B, Written) /\ {"q", "bs", "ob", "cb"} \subseteq Written
    BY <2>2, WrittenFacts, JsonParts, PartsInert
  <2> HIDE DEF B
  <2>4. Len(J) \in Nat /\ Len(J) > 0 /\ At(J, 1, <<"ob">>)
    <3>1. B \in Seq(Written)
      BY <2>3 DEF Inert
    <3>2. Len(J) \in Nat /\ Len(J) = Len(B) + 2 /\ Len(B) \in Nat
      BY <2>2, <2>3, <3>1, WrittenFacts, JsonParts, Length DEF B
    <3> DEFINE o == <<"ob">>
               c == <<"cb">>
    <3>3. o \in Seq(Written) /\ c \in Seq(Written) /\ J = o \o B \o c
      BY <2>3, OneLetter DEF Object
    <3>4. At(J, 1, J) /\ 1 \in Nat \ {0}
      BY <2>3, AtWhole
    <3> HIDE DEF o, c, J
    <3>5. o \o B \in Seq(Written)
      BY <3>1, <3>3, TwoParts
    <3>6. At(J, 1, (o \o B) \o c)
      BY <3>3, <3>4
    <3>7. At(J, 1, o \o B)
      BY <3>2, <3>3, <3>4, <3>5, <3>6, AtConcat
    <3>8. At(J, 1, o)
      BY <3>1, <3>2, <3>3, <3>4, <3>7, AtConcat
    <3> QED BY <3>2, <3>8 DEF o
  <2> HIDE DEF J, st
  <2>5. /\ At(A, q, J) /\ Upto(pre, j) = u + Len(J) /\ Upto(pre, j) \in Nat
    <3>1. k \in 0 .. Len(Jsons(tl)) - 1 /\ j = k + 1 /\ At(A, 2, FlattenSeq(Jsons(tl)))
      BY <1>1, <2>1 DEF F
    <3> HIDE DEF j
    <3>2. Part(A, 2, pre, Jsons(tl), Written, k, j)
      BY <1>1, <3>1, JoinedPart
    <3> QED BY <2>2, <3>2 DEF Part, u
  <2>6. A[q] = "ob"
    <3>1. q \in Nat \ {0} /\ Len(A) \in Nat
      BY <1>1, <1>4
    <3>2. At(A, q + 1 - 1, <<"ob">>)
      <4> DEFINE o == <<"ob">>
      <4>1. Len(o) \in Nat /\ At(J, 1, o)
        BY <2>4
      <4> HIDE DEF o, q
      <4>2. At(A, q + 1 - 1, o)
        BY <2>4, <2>5, <3>1, <4>1, AtPart
      <4> QED BY <4>2 DEF o
    <3>3. q + 1 - 1 = q
      BY <3>1
    <3> HIDE DEF q
    <3>4. At(A, q, <<"ob">>) /\ q \in Nat
      BY <3>1, <3>2, <3>3
    <3> QED BY <1>1, <3>4, AtLetter
  <2>7. q <= n => b[q] = "ob"
    BY <1>2, <1>4, <2>6
  <2>8. open = IF q <= n THEN q ELSE n + 1
    BY <1>5, <2>7
  <2>9. SpanEnd(A, q, "ob", "cb") = e /\ e >= q /\ e \in Nat /\ e <= Len(A)
    <3>1. q \in Nat
      BY <1>4
    <3>2. At(A, q, Object(B))
      BY <2>3, <2>5
    <3>3. SpanEnd(A, q, "ob", "cb") = q + Len(Object(B)) - 1
      BY <1>1, <2>3, <3>1, <3>2, ObjectEnds
    <3>4. q + Len(J) <= Len(A) + 1
      BY <2>5 DEF At
    <3> QED BY <1>1, <2>3, <2>4, <3>1, <3>3, <3>4, SMTT(60)
  <2>10. CASE q > n
    <3>1. ~found
      BY <1>2, <1>6, <2>8, <2>10
    <3>2. b # A
      BY <1>1, <1>4, <2>9, <2>10 DEF n
    <3> QED BY <3>1, <3>2 DEF found, A
  <2>11. CASE q <= n
    <3> DEFINE end == SpanEnd(b, q, "ob", "cb")
    <3>1. open = q /\ ~(open > n \/ b[open] = "]")
      BY <1>2, <1>4, <2>7, <2>8, <2>11
    <3>2. end = 0 \/ (end = e /\ e <= n)
      <4>1. q + 1 \in 1 .. Len(b) + 2
        BY <1>2, <1>4, <2>11 DEF n
      <4>2. 1 \in Nat \ {0}
        OBVIOUS
      <4>3. Same(b, A, q + 1, 1)
        BY <1>1, <4>1, <4>2, PrefixSpans
      <4>4. end = Spans(b)[<<q + 1, 1>>] /\ SpanEnd(A, q, "ob", "cb") = Spans(A)[<<q + 1, 1>>]
        BY <1>1, SpanEndFacts
      <4> HIDE DEF end, q
      <4> QED BY <2>9, <4>3, <4>4 DEF Same, n
    <3> HIDE DEF end
    <3>3. CASE end = 0
      <4>1. ~found
        BY <1>6, <3>1, <3>3 DEF end
      <4>2. b # A
        <5>1. e # 0
          BY <1>4, <2>9
        <5> QED BY <2>9, <3>3, <5>1 DEF end
      <4> QED BY <4>1, <4>2 DEF found, A
    <3>4. CASE end = e /\ e <= n
      <4>1. end # 0
        BY <1>4, <2>9, <3>4
      <4>2. /\ found
            /\ NextObj(b, p, ObjBuf).obj = Cut(SubSeq(b, q, e), ObjBuf)
            /\ NextObj(b, p, ObjBuf).next = e + 1
        BY <1>6, <3>1, <3>4, <4>1 DEF end
      <4>3. At(b, q, J)
        <5>1. \A i \in 1 .. Len(J) : A[q + i - 1] = J[i]
          BY <2>5 DEF At
        <5>2. \A i \in 1 .. Len(J) : q + i - 1 \in 1 .. n
          BY <1>2, <1>4, <2>4, <3>4
        <5>3. \A i \in 1 .. Len(J) : b[q + i - 1] = J[i]
          BY <1>2, <5>1, <5>2
        <5>4. q + Len(J) <= n + 1 /\ q \in Nat \ {0}
          BY <1>2, <1>4, <2>4, <3>4
        <5> QED BY <5>3, <5>4 DEF At, n
      <4>4. SubSeq(b, q, e) = J
        BY <2>3, <4>3, AtSubSeq
      <4>5. e + 1 = 2 + Upto(pre, j) /\ e + 1 <= n + 1
        BY <1>2, <1>4, <2>4, <2>5, <3>4
      <4>6. Start(pre, j) = 2 + Upto(pre, j)
        BY <2>1 DEF Start
      <4> QED BY <1>8, <4>2, <4>4, <4>5, <4>6 DEF found, L, n, J, st
    <3> QED BY <3>2, <3>3, <3>4
  <2> QED BY <1>2, <1>4, <2>10, <2>11
<1>9. k = L \/ k < L
  BY <1>1 DEF L
<1> QED BY <1>7, <1>8, <1>9

(* rc_strtoul() reads the length that was written. *)
LEMMA SizeOfFacts ==
  /\ \A l : SizeOf(l) \in Nat
  /\ \A m \in 0 .. RespBuf : SizeOf(SizeText[m]) = m
<1>1. ASSUME NEW l PROVE SizeOf(l) \in Nat
  <2>1. CASE \E n \in 1 .. RespBuf : SizeText[n] = l
    <3>1. SizeOf(l) \in 1 .. RespBuf
      BY <2>1 DEF SizeOf
    <3> QED BY <3>1, BufAssumption
  <2>2. CASE ~\E n \in 1 .. RespBuf : SizeText[n] = l
    <3>1. SizeOf(l) = 0
      BY <2>2 DEF SizeOf
    <3> QED BY <3>1
  <2> QED BY <2>1, <2>2
<1>2. ASSUME NEW m \in 0 .. RespBuf PROVE SizeOf(SizeText[m]) = m
  <2>0. RespBuf \in Nat /\ \A n \in 0 .. RespBuf : SizeText[n] = SizeText[m] => n = m
    BY BufAssumption, SizeTextAssumption
  <2>1. CASE m = 0
    <3>1. ~\E n \in 1 .. RespBuf : SizeText[n] = SizeText[m]
      BY <2>0, <2>1
    <3> QED BY <2>1, <3>1 DEF SizeOf
  <2>2. CASE m # 0
    <3>1. m \in 1 .. RespBuf
      BY <2>0, <2>2
    <3>2. \A n \in 1 .. RespBuf : SizeText[n] = SizeText[m] => n = m
      BY <2>0
    <3>3. \E n \in 1 .. RespBuf : SizeText[n] = SizeText[m]
      BY <3>1
    <3>4. SizeOf(SizeText[m]) = CHOOSE n \in 1 .. RespBuf : SizeText[n] = SizeText[m]
      BY <3>3 DEF SizeOf
    <3>5. (CHOOSE n \in 1 .. RespBuf : SizeText[n] = SizeText[m]) \in 1 .. RespBuf
          /\ SizeText[CHOOSE n \in 1 .. RespBuf : SizeText[n] = SizeText[m]] = SizeText[m]
      BY <3>3
    <3> QED BY <3>2, <3>4, <3>5
  <2> QED BY <2>1, <2>2
<1> QED BY <1>1, <1>2

(* The end of a chunk is passed, and no more. *)
LEMMA AfterBreaksFacts ==
  ASSUME NEW M, NEW s \in Seq(M), NEW p \in 1 .. Len(s) + 1
  PROVE  /\ AfterBreaks(s, p) \in p .. Len(s) + 1
         /\ p <= Len(s) /\ s[p] = "crlf" /\ (p = Len(s) \/ s[p + 1] # "crlf") => AfterBreaks(s, p) = p + 1
<1> DEFINE n == Len(s)
           P(i) == /\ i = n + 1 \/ s[i] # "crlf"
                   /\ \A j \in p .. i - 1 : s[j] = "crlf"
           T == {i \in Nat : i \in p .. n + 1 /\ (i = n + 1 \/ s[i] # "crlf")}
           a == AfterBreaks(s, p)
<1>0. n \in Nat /\ p \in Nat
  OBVIOUS
<1>1. a = CHOOSE i \in p .. n + 1 : P(i)
  BY DEF AfterBreaks
<1> HIDE DEF n, a
<1>2. PICK k \in T : \A y \in T : ~(y < k)
  <2>1. n + 1 \in T
    BY <1>0 DEF n
  <2>2. T \subseteq Nat /\ T # {}
    BY <2>1
  <2> HIDE DEF T
  <2> QED BY <2>2, LeastNumber
<1>3. P(k)
  <2>1. ASSUME NEW j \in p .. k - 1 PROVE s[j] = "crlf"
    <3>1. j \in Nat /\ j < k /\ j \in p .. n + 1
      BY <1>0
    <3> QED BY <1>2, <3>1
  <2> QED BY <2>1
<1>4. a \in p .. n + 1 /\ P(a)
  <2>1. k \in p .. n + 1
    OBVIOUS
  <2> HIDE DEF P
  <2> QED BY <1>1, <1>3, <2>1
<1>5. ASSUME p <= n, s[p] = "crlf", p = n \/ s[p + 1] # "crlf" PROVE a = p + 1
  <2>1. a # p
    BY <1>0, <1>4, <1>5
  <2>2. ~(p + 1 < a)
    <3>1. SUFFICES ASSUME p + 1 < a PROVE FALSE
      OBVIOUS
    <3>2. p + 1 \in p .. a - 1 /\ p # n
      BY <1>0, <1>4, <3>1
    <3> QED BY <1>4, <1>5, <3>2
  <2> QED BY <1>0, <1>4, <2>1, <2>2
<1> QED BY <1>4, <1>5 DEF n, a

(* What dechunk_in_place() makes of the rest of a text. *)
Dechunks(s) ==
  CHOOSE g : g = [i \in 1 .. Len(s) + 1 |->
        IF i >= Len(s) \/ s[i + 1] # "crlf" \/ SizeOf(s[i]) = 0 THEN <<>>
        ELSE LET end == i + 1 + SizeOf(s[i])
             IN IF end >= Len(s) THEN SubSeq(s, i + 2, Len(s))
                ELSE SubSeq(s, i + 2, end) \o g[AfterBreaks(s, end + 1)]]

NoChunk(s, i) == i >= Len(s) \/ s[i + 1] # "crlf" \/ SizeOf(s[i]) = 0
ChunkEnd(s, i) == i + 1 + SizeOf(s[i])

(* Dechunk(), chunk by chunk. *)
LEMMA DechunkFacts ==
  ASSUME NEW M, NEW s \in Seq(M)
  PROVE  /\ \A p : Dechunk(s, p) = Dechunks(s)[p]
         /\ \A i \in 1 .. Len(s) + 1 :
              /\ Dechunks(s)[i] \in Seq(M)
              /\ NoChunk(s, i) => Dechunks(s)[i] = <<>>
              /\ ~NoChunk(s, i) /\ ChunkEnd(s, i) >= Len(s) =>
                   Dechunks(s)[i] = SubSeq(s, i + 2, Len(s))
              /\ ~NoChunk(s, i) /\ ChunkEnd(s, i) < Len(s) =>
                   Dechunks(s)[i] = SubSeq(s, i + 2, ChunkEnd(s, i))
                                      \o Dechunks(s)[AfterBreaks(s, ChunkEnd(s, i) + 1)]
<1> DEFINE n == Len(s)
           S == 1 .. n + 1
           V == Seq(M)
           Step(h, i) == IF i >= n \/ s[i + 1] # "crlf" \/ SizeOf(s[i]) = 0 THEN <<>>
                         ELSE LET end == i + 1 + SizeOf(s[i])
                              IN IF end >= n THEN SubSeq(s, i + 2, n)
                                 ELSE SubSeq(s, i + 2, end) \o h[AfterBreaks(s, end + 1)]
           Eq(g) == g = [i \in S |-> Step(g, i)]
           rank == [i \in S |-> n + 1 - i]
           G == [x \in S \X [S -> V] |-> Step(x[2], x[1])]
           c == Dechunks(s)
           Next1(i) == AfterBreaks(s, ChunkEnd(s, i) + 1)
<1>0. n \in Nat /\ \A i \in 1 .. n : s[i] \in M
  OBVIOUS
<1>1. (\A p : Dechunk(s, p) = c[p]) /\ c = CHOOSE g : Eq(g)
  BY DEF Dechunk, Dechunks
<1>a. ASSUME NEW h, NEW i \in S
      PROVE  /\ NoChunk(s, i) => Step(h, i) = <<>>
             /\ ~NoChunk(s, i) /\ ChunkEnd(s, i) >= n => Step(h, i) = SubSeq(s, i + 2, n)
             /\ ~NoChunk(s, i) /\ ChunkEnd(s, i) < n =>
                  Step(h, i) = SubSeq(s, i + 2, ChunkEnd(s, i)) \o h[Next1(i)]
  <2> DEFINE end == i + 1 + SizeOf(s[i])
  <2>1. Step(h, i) = IF i >= n \/ s[i + 1] # "crlf" \/ SizeOf(s[i]) = 0 THEN <<>>
                     ELSE IF end >= n THEN SubSeq(s, i + 2, n)
                     ELSE SubSeq(s, i + 2, end) \o h[AfterBreaks(s, end + 1)]
    OBVIOUS
  <2>2. ChunkEnd(s, i) = end /\ (NoChunk(s, i) <=> i >= n \/ s[i + 1] # "crlf" \/ SizeOf(s[i]) = 0)
    BY DEF ChunkEnd, NoChunk
  <2>3. end \in Nat
    BY SizeOfFacts
  <2> HIDE DEF Step, end, n
  <2>4. end >= n <=> ~(end < n)
    BY <1>0, <2>3
  <2> QED BY <2>1, <2>2, <2>4
<1> HIDE DEF Step, n, c
<1>b. ASSUME NEW i \in S, ~NoChunk(s, i)
      PROVE  /\ i + 2 \in S /\ ChunkEnd(s, i) \in Nat /\ ChunkEnd(s, i) >= i + 2 /\ i < n
             /\ ChunkEnd(s, i) < n => Next1(i) \in S /\ Next1(i) > i
  <2>1. i < n /\ SizeOf(s[i]) # 0 /\ SizeOf(s[i]) \in Nat /\ i \in Nat
    BY <1>0, <1>b, SizeOfFacts DEF NoChunk, n
  <2>2. ChunkEnd(s, i) \in Nat /\ ChunkEnd(s, i) >= i + 2
    BY <2>1 DEF ChunkEnd
  <2>3. ASSUME ChunkEnd(s, i) < n PROVE Next1(i) \in S /\ Next1(i) > i
    <3> DEFINE e == ChunkEnd(s, i) + 1
    <3>1. e \in 1 .. Len(s) + 1 /\ e > i
      BY <1>0, <2>1, <2>2, <2>3 DEF n
    <3> HIDE DEF e
    <3>2. AfterBreaks(s, e) \in e .. Len(s) + 1
      BY <3>1, AfterBreaksFacts
    <3> HIDE DEF Next1
    <3>3. Next1(i) = AfterBreaks(s, e)
      BY DEF e, Next1
    <3> QED BY <1>0, <3>1, <3>2, <3>3, <2>1 DEF n
  <2> QED BY <1>0, <2>1, <2>2, <2>3
<1>c. ASSUME NEW a \in Nat, NEW b \in Nat, a >= 1, b <= n PROVE SubSeq(s, a, b) \in V
  <2>1. \A i \in a .. b : s[i] \in M
    BY <1>0, <1>c
  <2> QED BY <2>1, SubSeqProperties
<1> HIDE DEF Next1
<1>3. \E g : Eq(g)
  <2>1. V # {} /\ n \in Nat /\ rank \in [S -> 0 .. n]
    BY <1>0
  <2>2. G \in [S \X [S -> V] -> V]
    <3>1. ASSUME NEW i \in S, NEW h \in [S -> V] PROVE Step(h, i) \in V
      <4>1. CASE NoChunk(s, i)
        <5>1. Step(h, i) = <<>>
          BY <1>a, <4>1
        <5>2. <<>> \in V
          OBVIOUS
        <5> QED BY <5>1, <5>2
      <4>2. CASE ~NoChunk(s, i) /\ ChunkEnd(s, i) >= n
        <5>1. Step(h, i) = SubSeq(s, i + 2, n)
          BY <1>a, <4>2
        <5>2. i + 2 \in Nat /\ i + 2 >= 1 /\ n \in Nat /\ n <= n
          BY <1>0
        <5> HIDE DEF V
        <5> QED BY <1>c, <5>1, <5>2
      <4>3. CASE ~NoChunk(s, i) /\ ChunkEnd(s, i) < n
        <5>1. Step(h, i) = SubSeq(s, i + 2, ChunkEnd(s, i)) \o h[Next1(i)]
          BY <1>a, <4>3
        <5>2. i + 2 \in Nat /\ i + 2 >= 1 /\ ChunkEnd(s, i) \in Nat /\ ChunkEnd(s, i) <= n /\ Next1(i) \in S
          BY <1>0, <1>b, <4>3
        <5>3. SubSeq(s, i + 2, ChunkEnd(s, i)) \in V
          <6> HIDE DEF V
          <6> QED BY <1>c, <5>2
        <5>4. h[Next1(i)] \in V
          BY <5>2
        <5> QED BY <5>1, <5>3, <5>4, ConcatProperties
      <4>4. ChunkEnd(s, i) >= n \/ ChunkEnd(s, i) < n \/ NoChunk(s, i)
        BY <1>0, <1>b
      <4> QED BY <4>1, <4>2, <4>3, <4>4
    <3> HIDE DEF S, V
    <3> QED BY <3>1
  <2>3. \A i \in S : ~NoChunk(s, i) /\ ChunkEnd(s, i) < n => Next1(i) \in S /\ rank[Next1(i)] < rank[i]
    <3> SUFFICES ASSUME NEW i \in S, ~NoChunk(s, i), ChunkEnd(s, i) < n
                 PROVE  Next1(i) \in S /\ rank[Next1(i)] < rank[i]
      OBVIOUS
    <3>1. Next1(i) \in S /\ Next1(i) > i
      BY <1>b
    <3> QED BY <1>0, <3>1
  <2> HIDE DEF rank, V
  <2>4. \A i \in S : \A g, h \in [S -> V] :
          (\A y \in S : rank[y] < rank[i] => g[y] = h[y]) => Step(g, i) = Step(h, i)
    <3> SUFFICES ASSUME NEW i \in S, NEW g \in [S -> V], NEW h \in [S -> V],
                        \A y \in S : rank[y] < rank[i] => g[y] = h[y]
                 PROVE  Step(g, i) = Step(h, i)
      OBVIOUS
    <3>1. CASE NoChunk(s, i)
      BY <1>a, <3>1
    <3>2. CASE ~NoChunk(s, i) /\ ChunkEnd(s, i) >= n
      BY <1>a, <3>2
    <3>3. CASE ~NoChunk(s, i) /\ ChunkEnd(s, i) < n
      <4>1. g[Next1(i)] = h[Next1(i)]
        BY <2>3, <3>3
      <4>2. /\ Step(g, i) = SubSeq(s, i + 2, ChunkEnd(s, i)) \o g[Next1(i)]
            /\ Step(h, i) = SubSeq(s, i + 2, ChunkEnd(s, i)) \o h[Next1(i)]
        BY <1>a, <3>3
      <4> QED BY <4>1, <4>2
    <3>4. ChunkEnd(s, i) >= n \/ ChunkEnd(s, i) < n \/ NoChunk(s, i)
      BY <1>0, <1>b
    <3> QED BY <3>1, <3>2, <3>3, <3>4
  <2>5. Recursive(S, V, n, rank, G)
    <3> HIDE DEF S
    <3> QED BY <2>1, <2>2, <2>4 DEF Recursive
  <2>6. PICK f \in [S -> V] : \A i \in S : f[i] = G[<<i, f>>]
    <3> HIDE DEF S, G
    <3> QED BY <2>5, Recursion
  <2>7. f \in [S -> V] /\ Eq(f)
    <3> HIDE DEF S
    <3>1. \A i \in S : f[i] = Step(f, i)
      BY <2>6
    <3> QED BY <3>1
  <2> QED BY <2>7
<1>4. Eq(c)
  <2> HIDE DEF Eq
  <2> QED BY <1>1, <1>3
<1>5. \A i \in S : c[i] = Step(c, i)
  <2> HIDE DEF S
  <2> QED BY <1>4
<1> HIDE DEF Eq
<1>6. \A i \in S :
        /\ NoChunk(s, i) => c[i] = <<>>
        /\ ~NoChunk(s, i) /\ ChunkEnd(s, i) >= n => c[i] = SubSeq(s, i + 2, n)
        /\ ~NoChunk(s, i) /\ ChunkEnd(s, i) < n =>
             c[i] = SubSeq(s, i + 2, ChunkEnd(s, i)) \o c[Next1(i)]
  BY <1>a, <1>5
<1>7. \A i \in S : c[i] \in V
  <2> DEFINE T == {i \in S : c[i] \in V}
             r == [i \in S |-> n + 1 - i]
  <2>1. r \in [S -> Nat]
    BY <1>0
  <2>2. ASSUME NEW i \in S, \A y \in S : r[y] < r[i] => y \in T PROVE c[i] \in V
    <3>1. CASE NoChunk(s, i)
      <4>1. <<>> \in V
        OBVIOUS
      <4> QED BY <1>6, <3>1, <4>1
    <3>2. CASE ~NoChunk(s, i) /\ ChunkEnd(s, i) >= n
      <4>1. i + 2 \in Nat /\ i + 2 >= 1 /\ n \in Nat /\ n <= n
        BY <1>0
      <4> HIDE DEF V
      <4>2. SubSeq(s, i + 2, n) \in V
        BY <1>c, <4>1
      <4> QED BY <1>6, <3>2, <4>2
    <3>3. CASE ~NoChunk(s, i) /\ ChunkEnd(s, i) < n
      <4>1. /\ i + 2 \in Nat /\ i + 2 >= 1 /\ ChunkEnd(s, i) \in Nat /\ ChunkEnd(s, i) <= n
            /\ Next1(i) \in S /\ Next1(i) > i
        BY <1>0, <1>b, <3>3
      <4>2. r[Next1(i)] < r[i]
        BY <1>0, <4>1
      <4>3. c[Next1(i)] \in V
        BY <2>2, <4>1, <4>2
      <4>4. SubSeq(s, i + 2, ChunkEnd(s, i)) \in V
        <5> HIDE DEF V
        <5> QED BY <1>c, <4>1
      <4>5. c[i] = SubSeq(s, i + 2, ChunkEnd(s, i)) \o c[Next1(i)]
        BY <1>6, <3>3
      <4> QED BY <4>3, <4>4, <4>5, ConcatProperties
    <3>4. ChunkEnd(s, i) >= n \/ ChunkEnd(s, i) < n \/ NoChunk(s, i)
      BY <1>0, <1>b
    <3> QED BY <3>1, <3>2, <3>3, <3>4
  <2>3. \A i \in S : (\A y \in S : r[y] < r[i] => y \in T) => i \in T
    BY <2>2
  <2>4. S \subseteq T
    <3> HIDE DEF S, T, r
    <3> QED BY <2>1, <2>3, RankInduction
  <2> QED BY <2>4
<1> QED BY <1>1, <1>6, <1>7 DEF n, c, Next1

(* How many letters the first k chunks hold. *)
Count(J, n) == (Len(J) + n - 1) \div n
Cover(J, n, k) == IF k * n <= Len(J) THEN k * n ELSE Len(J)

(* How many chunks of n letters L letters take. *)
LEMMA DivFacts ==
  ASSUME NEW L \in Nat, NEW n \in Nat \ {0}, NEW K, K = (L + n - 1) \div n
  PROVE  /\ K \in Nat
         /\ L <= K * n
         /\ \A k \in 1 .. K : (k - 1) * n < L
<1>1. K \in Nat
  OBVIOUS
<1>2. n * K <= L + n - 1 /\ L + n - 1 < n * K + n
  OBVIOUS
<1>3. L <= K * n
  BY <1>1, <1>2
<1>4. ASSUME NEW k \in 1 .. K PROVE (k - 1) * n < L
  <2>1. k - 1 <= K - 1 /\ k - 1 \in Nat /\ K - 1 \in Nat
    BY <1>1
  <2>2. (k - 1) * n <= (K - 1) * n
    BY <2>1
  <2>3. (K - 1) * n = n * K - n
    BY <1>1
  <2> QED BY <1>1, <1>2, <2>1, <2>2, <2>3
<1> QED BY <1>1, <1>3, <1>4

(* How much the first k chunks hold. *)
LEMMA CoverFacts ==
  ASSUME NEW J, Len(J) \in Nat, NEW n \in Nat \ {0}
  PROVE  /\ Count(J, n) \in Nat
         /\ Cover(J, n, 0) = 0 /\ Cover(J, n, Count(J, n)) = Len(J)
         /\ \A k \in 1 .. Count(J, n) :
              /\ Cover(J, n, k - 1) \in Nat /\ Cover(J, n, k) \in Nat
              /\ Cover(J, n, k - 1) = (k - 1) * n
              /\ Cover(J, n, k - 1) < Cover(J, n, k) /\ Cover(J, n, k) <= Len(J)
<1> DEFINE L == Len(J)
           K == Count(J, n)
<1>1. K \in Nat /\ L <= K * n /\ \A k \in 1 .. K : (k - 1) * n < L
  <2>1. K = (L + n - 1) \div n /\ L \in Nat
    BY DEF Count
  <2> HIDE DEF K, L
  <2> QED BY <2>1, DivFacts
<1>2. Cover(J, n, 0) = 0
  <2>1. 0 * n = 0 /\ 0 <= L
    OBVIOUS
  <2> QED BY <2>1 DEF Cover
<1>3. Cover(J, n, K) = L
  <2> HIDE DEF K
  <2>1. K * n \in Nat
    BY <1>1
  <2>2. K * n <= L => K * n = L
    BY <1>1, <2>1
  <2> QED BY <2>2 DEF Cover
<1>4. ASSUME NEW k \in 1 .. K
      PROVE  /\ Cover(J, n, k - 1) \in Nat /\ Cover(J, n, k) \in Nat
             /\ Cover(J, n, k - 1) = (k - 1) * n
             /\ Cover(J, n, k - 1) < Cover(J, n, k) /\ Cover(J, n, k) <= L
  <2> HIDE DEF K
  <2>1. k \in Nat /\ k - 1 \in Nat
    BY <1>1
  <2> DEFINE a == (k - 1) * n
             b == k * n
  <2>2. a \in Nat /\ b \in Nat /\ a < b /\ a < L
    <3>1. b = a + n
      BY <2>1
    <3>2. a \in Nat
      BY <2>1
    <3>3. a < L
      BY <1>1
    <3> HIDE DEF a, b
    <3> QED BY <3>1, <3>2, <3>3
  <2>3. Cover(J, n, k - 1) = IF a <= L THEN a ELSE L
    BY DEF Cover
  <2>4. Cover(J, n, k) = IF b <= L THEN b ELSE L
    BY DEF Cover
  <2> HIDE DEF a, b, L
  <2>5. L \in Nat
    BY DEF L
  <2>6. /\ Cover(J, n, k - 1) \in Nat /\ Cover(J, n, k) \in Nat
        /\ Cover(J, n, k - 1) = a
        /\ Cover(J, n, k - 1) < Cover(J, n, k) /\ Cover(J, n, k) <= L
    BY <2>2, <2>3, <2>4, <2>5
  <2> QED BY <2>6 DEF a, L
<1> QED BY <1>1, <1>2, <1>3, <1>4

Chunks(J, n) == [k \in 1 .. Count(J, n) |-> Chunk(J, n, (k - 1) * n + 1)]

(* What a chunk holds. *)
Holds(J, n, k) == SubSeq(J, Cover(J, n, k - 1) + 1, Cover(J, n, k))
Size(J, n, k) == Cover(J, n, k) - Cover(J, n, k - 1)

(* What a chunk is made of. *)
LEMMA ChunkIs ==
  ASSUME NEW M, NEW J \in Seq(M), NEW n \in Nat \ {0}, NEW k \in 1 .. Count(J, n)
  PROVE  /\ Chunks(J, n)[k] = (<<SizeText[Size(J, n, k)], "crlf">> \o Holds(J, n, k)) \o <<"crlf">>
         /\ Holds(J, n, k) \in Seq(M) /\ Len(Holds(J, n, k)) = Size(J, n, k)
         /\ Size(J, n, k) \in Nat /\ Size(J, n, k) >= 1
<1> DEFINE L == Len(J)
           K == Count(J, n)
           a == Cover(J, n, k - 1)
           b == Cover(J, n, k)
           i == (k - 1) * n + 1
           last == IF i + n - 1 <= L THEN i + n - 1 ELSE L
<1>1. L \in Nat /\ K \in Nat /\ k \in Nat /\ a \in Nat /\ b \in Nat /\ a = (k - 1) * n /\ a < b /\ b <= L
  <2>1. L \in Nat
    BY Length
  <2>2. K \in Nat
    BY <2>1, CoverFacts
  <2>3. k \in Nat
    BY <2>2
  <2> QED BY <2>1, <2>2, <2>3, CoverFacts
<1>2. i = a + 1
  BY <1>1
<1>3. i + n - 1 = k * n
  BY <1>1
<1>4. last = b
  BY <1>3 DEF Cover
<1>5. Chunks(J, n)[k] = <<SizeText[last - i + 1], "crlf">> \o SubSeq(J, i, last) \o <<"crlf">>
  BY DEF Chunks, Chunk
<1> HIDE DEF a, b, i, last, L, K
<1>6. last - i + 1 = b - a /\ b - a \in Nat /\ b - a >= 1
  BY <1>1, <1>2, <1>4
<1>7. Chunks(J, n)[k] = (<<SizeText[b - a], "crlf">> \o SubSeq(J, a + 1, b)) \o <<"crlf">>
  BY <1>2, <1>4, <1>5, <1>6
<1>8. SubSeq(J, a + 1, b) \in Seq(M) /\ Len(SubSeq(J, a + 1, b)) = b - a
  <2>1. a + 1 \in Int /\ b \in Int /\ \A x \in a + 1 .. b : J[x] \in M
    BY <1>1 DEF L
  <2> DEFINE u == SubSeq(J, a + 1, b)
  <2>2. u \in Seq(M) /\ Len(u) = IF a + 1 <= b THEN b - (a + 1) + 1 ELSE 0
    BY <2>1, SubSeqProperties
  <2> HIDE DEF u
  <2>3. (IF a + 1 <= b THEN b - (a + 1) + 1 ELSE 0) = b - a
    BY <1>1
  <2> QED BY <2>2, <2>3 DEF u
<1> QED BY <1>6, <1>7, <1>8 DEF a, b, Holds, Size

(* A part of a text. *)
LEMMA SubSeqType ==
  ASSUME NEW M, NEW s \in Seq(M), NEW a \in Nat, NEW b \in Nat, a >= 1, b <= Len(s), a <= b + 1
  PROVE  /\ SubSeq(s, a, b) \in Seq(M) /\ Len(SubSeq(s, a, b)) = b - a + 1
         /\ \A i \in 1 .. b - a + 1 : SubSeq(s, a, b)[i] = s[a + i - 1]
<1> DEFINE u == SubSeq(s, a, b)
<1>1. a \in Int /\ b \in Int /\ \A x \in a .. b : s[x] \in M
  OBVIOUS
<1>2. /\ u \in Seq(M) /\ Len(u) = IF a <= b THEN b - a + 1 ELSE 0
      /\ \A i \in 1 .. b - a + 1 : u[i] = s[a + i - 1]
  BY <1>1, SubSeqProperties
<1> HIDE DEF u
<1>3. (IF a <= b THEN b - a + 1 ELSE 0) = b - a + 1
  OBVIOUS
<1> QED BY <1>2, <1>3 DEF u

(* The first part and the next make a longer first part. *)
LEMMA SubSeqJoined ==
  ASSUME NEW M, NEW s \in Seq(M), NEW a \in Nat, NEW b \in Nat, a <= b, b <= Len(s)
  PROVE  Cat(SubSeq(s, 1, a), SubSeq(s, a + 1, b)) = SubSeq(s, 1, b)
<1> DEFINE u == SubSeq(s, 1, a)
           v == SubSeq(s, a + 1, b)
           w == SubSeq(s, 1, b)
<1>0. Len(s) \in Nat
  BY Length
<1>1. u \in Seq(M) /\ Len(u) = a /\ \A i \in 1 .. a : u[i] = s[i]
  <2>1. 1 \in Nat /\ 1 >= 1 /\ a <= Len(s) /\ 1 <= a + 1 /\ a - 1 + 1 = a
    BY <1>0
  <2>2. /\ u \in Seq(M) /\ Len(u) = a - 1 + 1
        /\ \A i \in 1 .. a - 1 + 1 : u[i] = s[1 + i - 1]
    BY <2>1, SubSeqType
  <2>3. \A i \in 1 .. a : 1 + i - 1 = i
    OBVIOUS
  <2> HIDE DEF u
  <2> QED BY <2>1, <2>2, <2>3
<1>2. w \in Seq(M) /\ Len(w) = b /\ \A i \in 1 .. b : w[i] = s[i]
  <2>1. 1 \in Nat /\ 1 >= 1 /\ b <= Len(s) /\ 1 <= b + 1 /\ b - 1 + 1 = b
    BY <1>0
  <2>2. /\ w \in Seq(M) /\ Len(w) = b - 1 + 1
        /\ \A i \in 1 .. b - 1 + 1 : w[i] = s[1 + i - 1]
    BY <2>1, SubSeqType
  <2>3. \A i \in 1 .. b : 1 + i - 1 = i
    OBVIOUS
  <2> HIDE DEF w
  <2> QED BY <2>1, <2>2, <2>3
<1>3. v \in Seq(M) /\ Len(v) = b - a /\ \A i \in 1 .. b - a : v[i] = s[a + i]
  <2>1. a + 1 \in Nat /\ a + 1 >= 1 /\ b <= Len(s) /\ a + 1 <= b + 1 /\ b - (a + 1) + 1 = b - a
    BY <1>0
  <2>2. /\ v \in Seq(M) /\ Len(v) = b - (a + 1) + 1
        /\ \A i \in 1 .. b - (a + 1) + 1 : v[i] = s[(a + 1) + i - 1]
    BY <2>1, SubSeqType
  <2>3. \A i \in 1 .. b - a : (a + 1) + i - 1 = a + i
    OBVIOUS
  <2> HIDE DEF v
  <2> QED BY <2>1, <2>2, <2>3
<1> HIDE DEF u, v, w
<1>4. /\ u \o v \in Seq(M) /\ Len(u \o v) = Len(u) + Len(v)
      /\ \A i \in 1 .. Len(u) + Len(v) : (u \o v)[i] = IF i <= Len(u) THEN u[i] ELSE v[i - Len(u)]
  BY <1>1, <1>3, ConcatProperties, ZenonT(60)
<1> DEFINE c == u \o v
<1>5. c \in Seq(M) /\ Len(c) = b
  BY <1>1, <1>3, <1>4
<1>6. \A i \in 1 .. b : c[i] = w[i]
  <2> SUFFICES ASSUME NEW i \in 1 .. b PROVE c[i] = w[i]
    OBVIOUS
  <2>1. c[i] = IF i <= a THEN u[i] ELSE v[i - a]
    BY <1>1, <1>3, <1>4, SMTT(60)
  <2> HIDE DEF c
  <2>2. CASE i <= a
    <3>1. i \in 1 .. a
      BY <2>2
    <3> QED BY <1>1, <1>2, <2>1, <2>2, <3>1
  <2>3. CASE i > a
    <3>1. i - a \in 1 .. b - a /\ a + (i - a) = i /\ ~(i <= a)
      BY <2>3
    <3> QED BY <1>2, <1>3, <2>1, <3>1
  <2> QED BY <2>2, <2>3
<1> HIDE DEF c
<1>7. c = w
  BY <1>2, <1>5, <1>6, SeqEqual
<1> QED BY <1>7 DEF c, u, v, w, Cat

(* The beginning of a text stands at its beginning. *)
LEMMA PrefixAt ==
  ASSUME NEW M, NEW s \in Seq(M), NEW b \in Nat, b <= Len(s)
  PROVE  At(s, 1, SubSeq(s, 1, b))
<1> DEFINE u == SubSeq(s, 1, b)
<1>1. Len(s) \in Nat /\ 1 \in Nat /\ 1 >= 1 /\ 1 <= b + 1 /\ b - 1 + 1 = b
  BY Length
<1>2. u \in Seq(M) /\ Len(u) = b - 1 + 1 /\ \A i \in 1 .. b - 1 + 1 : u[i] = s[1 + i - 1]
  BY <1>1, SubSeqType
<1> HIDE DEF u
<1> QED BY <1>1, <1>2 DEF At, u

(* What dechunk_in_place() makes of a chunk, P, of an answer W of which r   *)
(* has arrived: its letters, or those of them that have arrived.            *)
Dechunked(W, r, i, z, P) ==
  \/ r # W /\ \E x \in 0 .. z : Dechunks(r)[i] = SubSeq(P, 1, x)
  \/ i + z + 3 <= Len(r) + 1 /\ Dechunks(r)[i] = Cat(P, Dechunks(r)[i + z + 3])

(* dechunk_in_place() takes a chunk that has arrived and goes on with the   *)
(* next; of one that has not, it takes what is there.                       *)
LEMMA ChunkStep ==
  ASSUME NEW M, NEW W \in Seq(M), NEW r \in Seq(M), At(W, 1, r), NEW i \in Nat \ {0},
         NEW z \in 1 .. RespBuf, NEW P \in Seq(M), Len(P) = z,
         W[i] = SizeText[z], W[i + 1] = "crlf", At(W, i + 2, P), W[i + 2 + z] = "crlf",
         i + z + 3 <= Len(W), W[i + z + 3] # "crlf", i <= Len(r) + 1
  PROVE  Dechunked(W, r, i, z, P)
<1> DEFINE n == Len(r)
           D == Dechunks(r)
           e == ChunkEnd(r, i)
<1>1. n \in Nat /\ Len(W) \in Nat /\ n <= Len(W) /\ \A j \in 1 .. n : W[j] = r[j]
  BY PrefixFacts
<1>2. i \in 1 .. n + 1 /\ z \in Nat /\ z >= 1 /\ RespBuf \in Nat
  BY <1>1, BufAssumption
<1>3. /\ NoChunk(r, i) => D[i] = <<>>
      /\ ~NoChunk(r, i) /\ e >= n => D[i] = SubSeq(r, i + 2, n)
      /\ ~NoChunk(r, i) /\ e < n => D[i] = SubSeq(r, i + 2, e) \o D[AfterBreaks(r, e + 1)]
  BY <1>2, DechunkFacts, ZenonT(60)
<1> HIDE DEF n, D, e
<1>4. CASE i >= n
  <2>1. D[i] = <<>>
    BY <1>3, <1>4 DEF NoChunk, n
  <2>2. SubSeq(P, 1, 0) = <<>>
    <3>1. SubSeq(P, 1, 0) \in Seq(M) /\ Len(SubSeq(P, 1, 0)) = 0
      <4>1. 1 \in Nat /\ 0 \in Nat /\ 1 >= 1 /\ 0 <= Len(P) /\ 1 <= 0 + 1 /\ 0 - 1 + 1 = 0
        BY <1>2
      <4> QED BY <4>1, SubSeqType
    <3> QED BY <3>1, EmptySeq
  <2>3. r # W
    BY <1>1, <1>2, <1>4 DEF n
  <2>4. 0 \in 0 .. z
    BY <1>2
  <2> QED BY <2>1, <2>2, <2>3, <2>4 DEF D, Dechunked
<1>5. CASE i < n
  <2>1. r[i] = SizeText[z] /\ r[i + 1] = "crlf"
    <3>1. i \in 1 .. n /\ i + 1 \in 1 .. n
      BY <1>1, <1>2, <1>5
    <3> QED BY <1>1, <3>1
  <2>2. SizeOf(r[i]) = z
    <3>1. z \in 0 .. RespBuf
      BY <1>2
    <3> QED BY <2>1, <3>1, SizeOfFacts
  <2>3. ~NoChunk(r, i) /\ e = i + 1 + z
    <3>1. ~(i >= n) /\ z # 0
      BY <1>1, <1>2, <1>5
    <3> QED BY <2>1, <2>2, <3>1 DEF NoChunk, ChunkEnd, e, n
  <2>4. \A j \in 1 .. z : W[(i + 2) + j - 1] = P[j]
    BY DEF At
  <2>5. CASE e >= n
    <3> DEFINE x == n - i - 1
               u == SubSeq(r, i + 2, n)
               v == SubSeq(P, 1, x)
    <3>1. x \in 0 .. z /\ x \in Nat
      BY <1>1, <1>2, <1>5, <2>3, <2>5
    <3>2. u \in Seq(M) /\ Len(u) = x /\ \A j \in 1 .. x : u[j] = r[(i + 2) + j - 1]
      <4>1. i + 2 \in Nat /\ n \in Nat /\ i + 2 >= 1 /\ n <= Len(r) /\ i + 2 <= n + 1 /\ n - (i + 2) + 1 = x
        BY <1>1, <1>2, <1>5 DEF n
      <4>2. u \in Seq(M) /\ Len(u) = n - (i + 2) + 1 /\ \A j \in 1 .. n - (i + 2) + 1 : u[j] = r[(i + 2) + j - 1]
        BY <4>1, SubSeqType, SMTT(60)
      <4> HIDE DEF u, x
      <4> QED BY <4>1, <4>2
    <3>3. v \in Seq(M) /\ Len(v) = x /\ \A j \in 1 .. x : v[j] = P[j]
      <4>1. 1 \in Nat /\ 1 >= 1 /\ x <= Len(P) /\ 1 <= x + 1 /\ x - 1 + 1 = x
        BY <1>2, <3>1, SMTT(60)
      <4> HIDE DEF x
      <4>2. v \in Seq(M) /\ Len(v) = x - 1 + 1 /\ \A j \in 1 .. x - 1 + 1 : v[j] = P[1 + j - 1]
        BY <3>1, <4>1, SubSeqType
      <4>3. \A j \in 1 .. x : 1 + j - 1 = j
        BY <3>1
      <4> HIDE DEF v
      <4> QED BY <4>1, <4>2, <4>3
    <3>4. \A j \in 1 .. x : u[j] = v[j]
      <4> SUFFICES ASSUME NEW j \in 1 .. x PROVE u[j] = v[j]
        OBVIOUS
      <4>1. j \in 1 .. z /\ (i + 2) + j - 1 \in 1 .. n
        BY <1>1, <1>2, <3>1
      <4>2. r[(i + 2) + j - 1] = P[j]
        BY <1>1, <2>4, <4>1
      <4> HIDE DEF u, v, x
      <4> QED BY <3>2, <3>3, <4>2
    <3> HIDE DEF u, v, x
    <3>5. u = v
      BY <3>2, <3>3, <3>4, SeqEqual, SMTT(60)
    <3>6. D[i] = v
      BY <1>3, <2>3, <2>5, <3>5 DEF u
    <3>7. r # W
      BY <1>1, <1>2, <2>3, <2>5 DEF n
    <3> QED BY <3>1, <3>6, <3>7 DEF D, v, Dechunked
  <2>6. CASE e < n
    <3> DEFINE u == SubSeq(r, i + 2, e)
    <3>1. u \in Seq(M) /\ Len(u) = z /\ \A j \in 1 .. z : u[j] = r[(i + 2) + j - 1]
      <4>1. i + 2 \in Nat /\ e \in Nat /\ i + 2 >= 1 /\ e <= Len(r) /\ i + 2 <= e + 1 /\ e - (i + 2) + 1 = z
        BY <1>1, <1>2, <2>3, <2>6 DEF n
      <4>2. u \in Seq(M) /\ Len(u) = e - (i + 2) + 1 /\ \A j \in 1 .. e - (i + 2) + 1 : u[j] = r[(i + 2) + j - 1]
        BY <4>1, SubSeqType
      <4> HIDE DEF u
      <4> QED BY <4>1, <4>2
    <3>2. \A j \in 1 .. z : u[j] = P[j]
      <4> SUFFICES ASSUME NEW j \in 1 .. z PROVE u[j] = P[j]
        OBVIOUS
      <4>1. (i + 2) + j - 1 \in 1 .. n
        BY <1>1, <1>2, <2>3, <2>6
      <4>2. r[(i + 2) + j - 1] = P[j]
        BY <1>1, <2>4, <4>1
      <4> HIDE DEF u
      <4> QED BY <3>1, <4>2
    <3> HIDE DEF u
    <3>3. u = P
      BY <3>1, <3>2, SeqEqual
    <3> DEFINE q == e + 1
    <3>4. q = i + 2 + z /\ q + 1 = i + z + 3 /\ q \in 1 .. n /\ q <= n /\ q \in 1 .. n + 1
      BY <1>1, <1>2, <2>3, <2>6
    <3>5. r[q] = "crlf"
      BY <1>1, <3>4
    <3>6. q = n \/ r[q + 1] # "crlf"
      <4>1. CASE q < n
        <5>1. q + 1 \in 1 .. n
          BY <1>1, <3>4, <4>1, SMTT(60)
        <5>2. W[q + 1] # "crlf"
          BY <3>4
        <5> HIDE DEF q
        <5> QED BY <1>1, <5>1, <5>2
      <4> QED BY <1>1, <3>4, <4>1
    <3> HIDE DEF q
    <3>7. AfterBreaks(r, q) = q + 1
      BY <3>4, <3>5, <3>6, AfterBreaksFacts DEF n
    <3>8. D[i] = u \o D[q + 1]
      BY <1>3, <2>3, <2>6, <3>7 DEF u, q
    <3>9. i + z + 3 <= n + 1
      BY <1>1, <1>2, <2>3, <2>6
    <3> QED BY <3>3, <3>4, <3>8, <3>9 DEF D, n, Cat, Dechunked
  <2> QED BY <1>1, <1>2, <2>3, <2>5, <2>6
<1> QED BY <1>1, <1>2, <1>4, <1>5

(* The letters of an answer on the wire. *)
Wired == Written \cup {SizeText[m] : m \in Nat}

ChunkOf(l, P) == (<<l, "crlf">> \o P) \o <<"crlf">>

(* What is found in a chunk. *)
LEMMA ChunkOfFacts ==
  ASSUME NEW M, "crlf" \in M, NEW l \in M, NEW P \in Seq(M)
  PROVE  /\ ChunkOf(l, P) \in Seq(M) /\ Len(ChunkOf(l, P)) = Len(P) + 3 /\ Len(P) \in Nat
         /\ \A W \in Seq(M) : \A i \in Nat \ {0} : At(W, i, ChunkOf(l, P)) =>
              /\ W[i] = l /\ W[i + 1] = "crlf" /\ At(W, i + 2, P)
              /\ W[i + 2 + Len(P)] = "crlf"
<1> DEFINE h == <<l, "crlf">>
           c == <<"crlf">>
           b == h \o P
           C == ChunkOf(l, P)
<1>1. h \in Seq(M) /\ Len(h) = 2 /\ h[1] = l /\ h[2] = "crlf"
  OBVIOUS
<1>2. c \in Seq(M) /\ Len(c) = 1
  BY OneLetter
<1>3. Len(P) \in Nat
  BY Length
<1>4. C = b \o c
  BY DEF ChunkOf
<1> HIDE DEF h, C
<1>5. b \in Seq(M) /\ Len(b) = 2 + Len(P)
  BY <1>1, TwoParts
<1> HIDE DEF b, c
<1>6. C \in Seq(M) /\ Len(C) = Len(P) + 3
  <2>1. C \in Seq(M) /\ Len(C) = Len(b) + Len(c)
    BY <1>2, <1>4, <1>5, TwoParts
  <2> QED BY <1>2, <1>3, <1>5, <2>1
<1>7. ASSUME NEW W \in Seq(M), NEW i \in Nat \ {0}, At(W, i, C)
      PROVE  W[i] = l /\ W[i + 1] = "crlf" /\ At(W, i + 2, P) /\ W[i + 2 + Len(P)] = "crlf"
  <2>0. Len(W) \in Nat
    BY Length
  <2>1. At(W, i, b) /\ At(W, i + Len(b), c)
    BY <1>2, <1>4, <1>5, <1>7, <2>0, AtConcat
  <2>2. At(W, i, h) /\ At(W, i + Len(h), P)
    <3>1. At(W, i, h \o P)
      BY <2>1 DEF b
    <3> QED BY <1>1, <2>0, <3>1, AtConcat
  <2>3. i + Len(b) = i + 2 + Len(P) /\ i + 2 + Len(P) \in Nat
    BY <1>3, <1>5
  <2>4. W[i + 2 + Len(P)] = "crlf"
    <3> DEFINE x == i + 2 + Len(P)
    <3> HIDE DEF x
    <3>1. At(W, x, <<"crlf">>) /\ x \in Nat
      BY <2>1, <2>3 DEF c, x
    <3>2. W[x] = "crlf"
      BY <3>1, AtLetter
    <3> QED BY <3>2 DEF x
  <2>5. W[i + 1 - 1] = h[1] /\ W[i + 2 - 1] = h[2]
    BY <1>1, <2>2 DEF At
  <2>6. i + 1 - 1 = i /\ i + 2 - 1 = i + 1
    OBVIOUS
  <2> QED BY <1>1, <2>2, <2>4, <2>5, <2>6
<1> QED BY <1>3, <1>6, <1>7 DEF C

ChunkStands(W, i, l, P) ==
  /\ W[i] = l /\ W[i + 1] = "crlf" /\ At(W, i + 2, P)
  /\ W[i + 2 + Len(P)] = "crlf"

(* What is found in a chunk that stands somewhere. *)
LEMMA ChunkAt ==
  ASSUME NEW M, "crlf" \in M, NEW l \in M, NEW P \in Seq(M), NEW W \in Seq(M), NEW i \in Nat \ {0},
         At(W, i, ChunkOf(l, P))
  PROVE  ChunkStands(W, i, l, P)
<1>1. \A V \in Seq(M) : \A j \in Nat \ {0} : At(V, j, ChunkOf(l, P)) =>
              /\ V[j] = l /\ V[j + 1] = "crlf" /\ At(V, j + 2, P)
              /\ V[j + 2 + Len(P)] = "crlf"
  BY ChunkOfFacts
<1> QED BY <1>1 DEF ChunkStands

(* What a chunked body is made of. *)
LEMMA ChunkedFacts ==
  ASSUME NEW J \in Seq(Written), NEW n \in Nat \ {0}
  PROVE  /\ Count(J, n) \in Nat
         /\ Chunks(J, n) \in Seq(Seq(Wired)) /\ Len(Chunks(J, n)) = Count(J, n)
         /\ FlattenSeq(Chunks(J, n)) \in Seq(Wired)
         /\ <<SizeText[0], "crlf", "crlf">> \in Seq(Wired) /\ Len(<<SizeText[0], "crlf", "crlf">>) = 3
         /\ Chunked(J, n) = FlattenSeq(Chunks(J, n)) \o <<SizeText[0], "crlf", "crlf">>
         /\ Chunked(J, n) \in Seq(Wired) /\ Len(Chunked(J, n)) = Len(FlattenSeq(Chunks(J, n))) + 3
         /\ \A k \in 1 .. Count(J, n) :
              /\ Chunks(J, n)[k] = ChunkOf(SizeText[Size(J, n, k)], Holds(J, n, k))
              /\ Holds(J, n, k) \in Seq(Wired) /\ SizeText[Size(J, n, k)] \in Wired
<1> DEFINE E == Chunks(J, n)
           K == Count(J, n)
           F == FlattenSeq(E)
           t == <<SizeText[0], "crlf", "crlf">>
<1>1. K \in Nat
  BY Length, CoverFacts
<1>2. J \in Seq(Wired) /\ "crlf" \in Wired /\ \A m \in Nat : SizeText[m] \in Wired
  <2>1. Written \subseteq Wired
    BY DEF Wired
  <2>2. J \in Seq(Wired)
    BY <2>1
  <2>3. "crlf" \in Written
    BY DEF Written
  <2>4. \A m \in Nat : SizeText[m] \in Wired
    BY DEF Wired
  <2> QED BY <2>1, <2>2, <2>3, <2>4
<1>3. ASSUME NEW k \in 1 .. K
      PROVE  /\ E[k] = ChunkOf(SizeText[Size(J, n, k)], Holds(J, n, k))
             /\ Holds(J, n, k) \in Seq(Wired) /\ SizeText[Size(J, n, k)] \in Wired
             /\ E[k] \in Seq(Wired)
  <2>1. E[k] = ChunkOf(SizeText[Size(J, n, k)], Holds(J, n, k))
    BY ChunkIs DEF ChunkOf
  <2>2. Holds(J, n, k) \in Seq(Wired) /\ Size(J, n, k) \in Nat
    BY <1>2, ChunkIs
  <2>3. SizeText[Size(J, n, k)] \in Wired
    BY <1>2, <2>2
  <2> HIDE DEF E
  <2>4. E[k] \in Seq(Wired)
    <3> DEFINE l == SizeText[Size(J, n, k)]
               P == Holds(J, n, k)
               c == ChunkOf(l, P)
    <3>1. l \in Wired /\ P \in Seq(Wired) /\ E[k] = c
      BY <2>1, <2>2, <2>3
    <3> HIDE DEF l, P
    <3>2. c \in Seq(Wired)
      BY <1>2, <3>1, ChunkOfFacts
    <3> QED BY <3>1, <3>2
  <2> QED BY <2>1, <2>2, <2>3, <2>4
<1>4. E \in Seq(Seq(Wired)) /\ Len(E) = K
  <2>1. E = [k \in 1 .. K |-> E[k]]
    BY DEF Chunks
  <2> HIDE DEF E, K
  <2>2. E \in [1 .. K -> Seq(Wired)]
    BY <1>3, <2>1
  <2> QED BY <1>1, <2>1, <2>2
<1>5. F \in Seq(Wired) /\ Len(F) \in Nat
  <2>1. F \in Seq(Wired)
    BY <1>4, FlattenType
  <2> QED BY <2>1, Length
<1>6. t \in Seq(Wired) /\ Len(t) = 3
  <2>1. SizeText[0] \in Wired
    BY <1>2
  <2> QED BY <1>2, <2>1
<1>7. Chunked(J, n) = F \o t
  BY DEF Chunked, Chunks, Count
<1> HIDE DEF F, t, E
<1>8. Chunked(J, n) \in Seq(Wired) /\ Len(Chunked(J, n)) = Len(F) + 3
  BY <1>5, <1>6, <1>7, TwoParts
<1> QED BY <1>1, <1>3, <1>4, <1>5, <1>6, <1>7, <1>8 DEF F, t, E

(* dechunk_in_place() gives back what was sent in chunks, as far as it has  *)
(* arrived: r is that part of the answer W.                                 *)
LEMMA DechunkReads ==
  ASSUME NEW J \in Seq(Written), NEW n \in Nat \ {0}, NEW W \in Seq(Wired), NEW p,
         At(W, p, Chunked(J, n)), p + Len(Chunked(J, n)) = Len(W) + 1, Len(W) <= RespBuf,
         NEW r \in Seq(Wired), At(W, 1, r), p <= Len(r) + 1
  PROVE  At(J, 1, Dechunk(r, p)) /\ (r = W => Dechunk(r, p) = J)
<1> DEFINE E == Chunks(J, n)
           K == Count(J, n)
           F == FlattenSeq(E)
           t == <<SizeText[0], "crlf", "crlf">>
           D == Dechunks(r)
           L == Len(J)
           C(k) == Cover(J, n, k)
<1>1. /\ K \in Nat /\ E \in Seq(Seq(Wired)) /\ Len(E) = K /\ F \in Seq(Wired)
      /\ t \in Seq(Wired) /\ Len(t) = 3 /\ Chunked(J, n) = F \o t
      /\ Len(Chunked(J, n)) = Len(F) + 3 /\ Chunked(J, n) \in Seq(Wired)
      /\ \A k \in 1 .. K :
              /\ E[k] = ChunkOf(SizeText[Size(J, n, k)], Holds(J, n, k))
              /\ Holds(J, n, k) \in Seq(Wired) /\ SizeText[Size(J, n, k)] \in Wired
  BY ChunkedFacts
<1>2. /\ L \in Nat /\ Len(F) \in Nat /\ Len(W) \in Nat /\ Len(r) \in Nat /\ Len(r) <= Len(W)
      /\ p \in Nat \ {0} /\ RespBuf \in Nat /\ \A j \in 1 .. Len(r) : W[j] = r[j]
  <2>1. L \in Nat /\ Len(F) \in Nat
    BY <1>1, Length
  <2>2. p \in Nat \ {0}
    BY DEF At
  <2> QED BY <2>1, <2>2, PrefixFacts, BufAssumption
<1>3. J \in Seq(Wired) /\ "crlf" \in Wired
  <2>1. Written \subseteq Wired /\ "crlf" \in Written
    BY DEF Wired, Written
  <2> QED BY <2>1
<1> HIDE DEF E, K, F, t, D, L
<1>4. At(W, p, F) /\ At(W, p + Len(F), t)
  <2>1. At(W, p, F \o t)
    BY <1>1
  <2> QED BY <1>1, <1>2, <2>1, AtConcat
<1>5. PICK pre : Joins(pre, E, Wired)
  BY <1>1, FlattenFacts
<1>6. pre[0] = <<>> /\ F = pre[K] /\ \A k \in 0 .. K : pre[k] \in Seq(Wired)
  BY <1>1, <1>5 DEF Joins, F
<1>7. /\ \A k \in 0 .. K : Upto(pre, k) \in Nat
      /\ Upto(pre, 0) = 0 /\ Upto(pre, K) = Len(F)
  <2>1. \A k \in 0 .. K : Upto(pre, k) \in Nat
    BY <1>6, Length DEF Upto
  <2>2. Len(<<>>) = 0
    OBVIOUS
  <2> QED BY <1>6, <2>1, <2>2 DEF Upto
<1>8. /\ C(0) = 0 /\ C(K) = L
      /\ \A k \in 1 .. K : C(k - 1) \in Nat /\ C(k) \in Nat /\ C(k - 1) < C(k) /\ C(k) <= L
  BY <1>2, CoverFacts DEF K, L
<1>9. ASSUME NEW k \in 0 .. K - 1, NEW j, j = k + 1
      PROVE  /\ Size(J, n, j) \in 1 .. RespBuf /\ Len(Holds(J, n, j)) = Size(J, n, j)
             /\ Upto(pre, j) = Upto(pre, k) + Size(J, n, j) + 3
             /\ At(W, p + Upto(pre, k), ChunkOf(SizeText[Size(J, n, j)], Holds(J, n, j)))
             /\ Upto(pre, j) <= Len(F)
  <2>1. j \in 1 .. K /\ k \in 0 .. Len(E) - 1
    BY <1>1, <1>9
  <2>2. Part(W, p, pre, E, Wired, k, j)
    BY <1>1, <1>4, <1>5, <1>9, <2>1, JoinedPart DEF F
  <2> DEFINE z == Size(J, n, j)
             P == Holds(J, n, j)
             l == SizeText[z]
             c == ChunkOf(l, P)
  <2>3. E[j] = c /\ P \in Seq(Wired) /\ l \in Wired
    BY <1>1, <2>1
  <2>4. z \in Nat /\ z >= 1 /\ Len(P) = z
    BY <2>1, ChunkIs DEF K
  <2> HIDE DEF z, P, l
  <2>5. Len(c) = z + 3
    BY <1>3, <2>3, <2>4, ChunkOfFacts
  <2> HIDE DEF c
  <2>6. /\ Upto(pre, k) \in Nat /\ Upto(pre, j) \in Nat
        /\ Upto(pre, j) = Upto(pre, k) + Len(c) /\ At(W, p + Upto(pre, k), c)
        /\ Upto(pre, j) <= Len(F)
    BY <2>2, <2>3 DEF Part, F
  <2>7. z <= RespBuf
    <3>1. p + Len(F) + 3 = Len(W) + 1
      BY <1>1, <1>2
    <3> QED BY <1>2, <2>4, <2>5, <2>6, <3>1, SMTT(60)
  <2>8. z \in 1 .. RespBuf
    BY <1>2, <2>4, <2>7
  <2>9. Upto(pre, j) = Upto(pre, k) + z + 3
    BY <2>4, <2>5, <2>6
  <2> QED BY <2>4, <2>6, <2>8, <2>9 DEF c, z, P, l
<1>10. W[p + Len(F)] = SizeText[0]
  <2>1. W[p + Len(F) + 1 - 1] = t[1]
    BY <1>1, <1>4 DEF At
  <2>2. p + Len(F) + 1 - 1 = p + Len(F) /\ t[1] = SizeText[0]
    BY <1>2 DEF t
  <2> QED BY <2>1, <2>2
<1>11. ASSUME NEW k \in 0 .. K PROVE W[p + Upto(pre, k)] # "crlf"
  <2>1. \A m \in 0 .. RespBuf : SizeText[m] # "crlf"
    BY SizeTextAssumption
  <2>2. CASE k = K
    <3>0. Upto(pre, k) = Len(F)
      BY <1>7, <2>2
    <3>1. p + Upto(pre, k) = p + Len(F) /\ 0 \in 0 .. RespBuf
      BY <1>2, <3>0
    <3> QED BY <1>10, <2>1, <3>1
  <2>3. CASE k # K
    <3> DEFINE j == k + 1
               z == Size(J, n, j)
               P == Holds(J, n, j)
               l == SizeText[z]
               i == p + Upto(pre, k)
    <3>1. k \in 0 .. K - 1 /\ j = k + 1 /\ j \in 1 .. K
      BY <1>1, <2>3
    <3>2. z \in 1 .. RespBuf /\ At(W, i, ChunkOf(l, P))
      BY <1>9, <3>1
    <3>a. Upto(pre, k) \in Nat /\ p \in Nat \ {0}
      BY <1>2, <1>7
    <3>b. l \in Wired /\ P \in Seq(Wired)
      BY <1>1, <3>1
    <3>3. l \in Wired /\ P \in Seq(Wired) /\ i \in Nat \ {0}
      BY <3>a, <3>b, SMTT(60)
    <3>4. z \in 0 .. RespBuf
      BY <1>2, <3>2, SMTT(60)
    <3>5. l # "crlf"
      BY <2>1, <3>4
    <3> HIDE DEF z, P, l, i
    <3>6. W[i] = l
      BY <1>3, <3>2, <3>3, ChunkOfFacts, SMTT(60)
    <3> QED BY <3>5, <3>6 DEF i
  <2> QED BY <2>2, <2>3
<1> DEFINE T == {k \in 0 .. K :
                   \/ r # W /\ At(J, 1, D[p])
                   \/ /\ p + Upto(pre, k) <= Len(r) + 1
                      /\ D[p] = Cat(SubSeq(J, 1, C(k)), D[p + Upto(pre, k)])}
<1>12. 0 \in T
  <2>1. p + Upto(pre, 0) = p
    BY <1>2, <1>7
  <2>2. D[p] \in Seq(Wired)
    <3>1. p \in 1 .. Len(r) + 1
      BY <1>2
    <3> QED BY <3>1, DechunkFacts DEF D
  <2>3. SubSeq(J, 1, 0) = <<>>
    <3>1. SubSeq(J, 1, 0) \in Seq(Wired) /\ Len(SubSeq(J, 1, 0)) = 0
      <4>1. 1 \in Nat /\ 0 \in Nat /\ 1 >= 1 /\ 0 <= Len(J) /\ 1 <= 0 + 1 /\ 0 - 1 + 1 = 0
        BY <1>2 DEF L
      <4> QED BY <1>3, <4>1, SubSeqType
    <3> QED BY <3>1, EmptySeq
  <2>4. <<>> \o D[p] = D[p]
    BY <2>2, ConcatEmptySeq
  <2>5. D[p] = Cat(SubSeq(J, 1, C(0)), D[p + Upto(pre, 0)])
    BY <1>8, <2>1, <2>3, <2>4 DEF Cat
  <2>6. 0 \in 0 .. K /\ p + Upto(pre, 0) <= Len(r) + 1
    BY <1>1, <1>2, <2>1
  <2> HIDE DEF C
  <2> QED BY <2>5, <2>6
<1>13. ASSUME NEW k \in 0 .. K - 1, k \in T PROVE k + 1 \in T
  <2> DEFINE j == k + 1
             z == Size(J, n, j)
             P == Holds(J, n, j)
             l == SizeText[z]
             i == p + Upto(pre, k)
             a == C(k)
             b == C(j)
  <2>1. j \in 1 .. K /\ j \in 0 .. K /\ j - 1 = k /\ k \in 0 .. K
    BY <1>1
  <2>2. CASE r # W /\ At(J, 1, D[p])
    BY <2>1, <2>2
  <2>3. CASE i <= Len(r) + 1 /\ D[p] = Cat(SubSeq(J, 1, a), D[i])
    <3>1. /\ z \in 1 .. RespBuf /\ Len(P) = z /\ Upto(pre, j) = Upto(pre, k) + z + 3
          /\ At(W, i, ChunkOf(l, P)) /\ Upto(pre, j) <= Len(F)
      BY <1>9
    <3>b. Upto(pre, k) \in Nat /\ Upto(pre, j) \in Nat /\ p \in Nat \ {0}
      BY <1>2, <1>7, <2>1
    <3>c. l \in Wired /\ P \in Seq(Wired)
      BY <1>1, <2>1
    <3>2. l \in Wired /\ P \in Seq(Wired) /\ i \in Nat \ {0} /\ Upto(pre, k) \in Nat /\ Upto(pre, j) \in Nat
      BY <3>b, <3>c, SMTT(60)
    <3>3. a \in Nat /\ b \in Nat /\ a < b /\ b <= L /\ P = SubSeq(J, a + 1, b) /\ z = b - a
      BY <1>8, <2>1 DEF Holds, Size
    <3>4. W[p + Upto(pre, j)] # "crlf"
      BY <1>11, <2>1
    <3>a. p + Upto(pre, j) = i + z + 3
      <4> DEFINE u == Upto(pre, k)
                 v == Upto(pre, j)
      <4>1. v = u + z + 3 /\ u \in Nat /\ z \in Nat /\ p \in Nat
        BY <1>2, <3>1, <3>b
      <4> HIDE DEF u, v, z
      <4>2. p + v = (p + u) + z + 3
        BY <4>1
      <4> QED BY <4>2 DEF u, v
    <3> DEFINE q == p + Upto(pre, j)
    <3> HIDE DEF j, q
    <3> HIDE DEF z, P, i, a, b
    <3>5. W[i] = l /\ W[i + 1] = "crlf" /\ At(W, i + 2, P) /\ W[i + 2 + z] = "crlf"
      <4> HIDE DEF l
      <4>1. ChunkStands(W, i, l, P)
        BY <1>3, <3>1, <3>2, ChunkAt
      <4>2. Len(P) = z
        BY <3>1
      <4> QED BY <4>1, <4>2 DEF ChunkStands
    <3>6. q = i + z + 3 /\ q <= Len(W) /\ W[q] # "crlf" /\ z \in Nat
      <4>1. q = i + z + 3 /\ W[q] # "crlf"
        BY <3>4, <3>a DEF q
      <4>2. p + Len(F) + 3 = Len(W) + 1
        BY <1>1, <1>2
      <4>3. q <= Len(W)
        <5> DEFINE v == Upto(pre, j)
        <5>1. v \in Nat /\ v <= Len(F) /\ q = p + v
          BY <3>1, <3>2 DEF q
        <5> HIDE DEF v
        <5> QED BY <1>2, <4>2, <5>1, SMTT(60)
      <4> QED BY <1>2, <3>1, <4>1, <4>3
    <3>7. \/ r # W /\ \E x \in 0 .. z : D[i] = SubSeq(P, 1, x)
          \/ i + z + 3 <= Len(r) + 1 /\ D[i] = Cat(P, D[i + z + 3])
      <4>1. W[i] = SizeText[z]
        BY <3>5 DEF l
      <4> HIDE DEF l
      <4>2. i + z + 3 <= Len(W) /\ W[i + z + 3] # "crlf"
        BY <3>6
      <4>3. /\ W[i + 1] = "crlf" /\ At(W, i + 2, P) /\ W[i + 2 + z] = "crlf"
            /\ z \in 1 .. RespBuf /\ Len(P) = z /\ P \in Seq(Wired) /\ i \in Nat \ {0}
            /\ i <= Len(r) + 1
        BY <2>3, <3>1, <3>2, <3>5
      <4>4. Dechunked(W, r, i, z, P)
        BY <4>1, <4>2, <4>3, ChunkStep
      <4> QED BY <4>4 DEF D, Dechunked
    <3>8. CASE r # W /\ \E x \in 0 .. z : D[i] = SubSeq(P, 1, x)
      <4>1. PICK x \in 0 .. z : D[i] = SubSeq(P, 1, x)
        BY <3>8
      <4>2. SubSeq(P, 1, x) = SubSeq(J, a + 1, a + x)
        <5> DEFINE u == SubSeq(P, 1, x)
                   v == SubSeq(J, a + 1, a + x)
        <5>1. u \in Seq(Wired) /\ Len(u) = x /\ \A y \in 1 .. x : u[y] = P[y]
          <6>1. 1 \in Nat /\ x \in Nat /\ 1 >= 1 /\ x <= Len(P) /\ 1 <= x + 1 /\ x - 1 + 1 = x
            BY <3>1, <3>6
          <6>2. u \in Seq(Wired) /\ Len(u) = x - 1 + 1 /\ \A y \in 1 .. x - 1 + 1 : u[y] = P[1 + y - 1]
            BY <3>2, <6>1, SubSeqType
          <6>3. \A y \in 1 .. x : 1 + y - 1 = y
            BY <6>1
          <6> HIDE DEF u
          <6> QED BY <6>1, <6>2, <6>3
        <5>2. v \in Seq(Wired) /\ Len(v) = x /\ \A y \in 1 .. x : v[y] = J[(a + 1) + y - 1]
          <6>1. /\ a + 1 \in Nat /\ a + x \in Nat /\ a + 1 >= 1 /\ a + x <= Len(J) /\ a + 1 <= (a + x) + 1
                /\ (a + x) - (a + 1) + 1 = x
            BY <1>2, <3>3, <3>6, SMTT(60) DEF L
          <6>2. /\ v \in Seq(Wired) /\ Len(v) = (a + x) - (a + 1) + 1
                /\ \A y \in 1 .. (a + x) - (a + 1) + 1 : v[y] = J[(a + 1) + y - 1]
            <7> DEFINE a1 == a + 1
                       b1 == a + x
            <7> HIDE DEF a1, b1
            <7>1. a1 \in Nat /\ b1 \in Nat /\ a1 >= 1 /\ b1 <= Len(J) /\ a1 <= b1 + 1
              BY <6>1 DEF a1, b1
            <7>2. /\ SubSeq(J, a1, b1) \in Seq(Wired) /\ Len(SubSeq(J, a1, b1)) = b1 - a1 + 1
                  /\ \A y \in 1 .. b1 - a1 + 1 : SubSeq(J, a1, b1)[y] = J[a1 + y - 1]
              BY <1>3, <7>1, SubSeqType
            <7> QED BY <7>2 DEF a1, b1
          <6> HIDE DEF v
          <6> QED BY <6>1, <6>2
        <5>3. \A y \in 1 .. x : P[y] = J[(a + 1) + y - 1]
          <6>1. /\ a + 1 \in Nat /\ b \in Nat /\ a + 1 >= 1 /\ b <= Len(J) /\ a + 1 <= b + 1
                /\ b - (a + 1) + 1 = z
            <7>1. a \in Nat /\ b \in Nat /\ a < b /\ b <= Len(J) /\ z = b - a /\ z \in Nat
              BY <3>3, <3>6 DEF L
            <7> QED BY <7>1
          <6>2. \A y \in 1 .. b - (a + 1) + 1 : SubSeq(J, a + 1, b)[y] = J[(a + 1) + y - 1]
            BY <1>3, <6>1, SubSeqType, SMTT(60)
          <6>3. \A y \in 1 .. x : y \in 1 .. z
            BY <3>6
          <6> QED BY <3>3, <6>1, <6>2, <6>3
        <5> HIDE DEF u, v
        <5>4. \A y \in 1 .. x : u[y] = v[y]
          BY <5>1, <5>2, <5>3
        <5>5. u = v
          BY <5>1, <5>2, <5>4, SeqEqual
        <5> QED BY <5>5 DEF u, v
      <4>3. a + x \in Nat /\ a <= a + x /\ a + x <= Len(J)
        BY <1>2, <3>3, <3>6, SMTT(60) DEF L
      <4>4. D[p] = SubSeq(J, 1, a + x)
        <5>1. Cat(SubSeq(J, 1, a), SubSeq(J, a + 1, a + x)) = SubSeq(J, 1, a + x)
          BY <1>3, <3>3, <4>3, SubSeqJoined
        <5> QED BY <2>3, <4>1, <4>2, <5>1
      <4>5. At(J, 1, D[p])
        BY <1>3, <4>3, <4>4, PrefixAt
      <4> QED BY <2>1, <3>8, <4>5 DEF j
    <3>9. CASE i + z + 3 <= Len(r) + 1 /\ D[i] = Cat(P, D[i + z + 3])
      <4>1. D[i] = Cat(P, D[q]) /\ q <= Len(r) + 1
        BY <3>6, <3>9
      <4>2. D[q] \in Seq(Wired)
        <5>1. q \in 1 .. Len(r) + 1
          BY <1>2, <3>2, <3>6, <4>1
        <5> QED BY <5>1, DechunkFacts DEF D
      <4>3. Cat(SubSeq(J, 1, a), P) = SubSeq(J, 1, b)
        <5>1. a \in Nat /\ b \in Nat /\ a <= b /\ b <= Len(J)
          BY <3>3 DEF L
        <5>2. Cat(SubSeq(J, 1, a), SubSeq(J, a + 1, b)) = SubSeq(J, 1, b)
          BY <1>3, <5>1, SubSeqJoined
        <5> QED BY <3>3, <5>2
      <4> DEFINE u == SubSeq(J, 1, a)
                 d == D[q]
      <4>4. u \in Seq(Wired)
        <5>1. 1 \in Nat /\ 1 >= 1 /\ a <= Len(J) /\ 1 <= a + 1
          BY <1>2, <3>3, SMTT(60) DEF L
        <5> QED BY <1>3, <3>3, <5>1, SubSeqType
      <4> HIDE DEF u, d
      <4>5. d \in Seq(Wired) /\ D[p] = Cat(u, Cat(P, d))
        BY <2>3, <4>1, <4>2 DEF u, d
      <4>6. Cat(u, Cat(P, d)) = Cat(Cat(u, P), d)
        BY <3>2, <4>4, <4>5, CatFacts
      <4>7. D[p] = Cat(SubSeq(J, 1, b), d)
        BY <4>3, <4>5, <4>6 DEF u
      <4> QED BY <2>1, <4>1, <4>7 DEF j, q, d, b
    <3> QED BY <3>7, <3>8, <3>9
  <2>4. (r # W /\ At(J, 1, D[p])) \/ (i <= Len(r) + 1 /\ D[p] = Cat(SubSeq(J, 1, a), D[i]))
    BY <1>13
  <2> QED BY <2>2, <2>3, <2>4
<1>14. 0 .. K \subseteq T
  <2> HIDE DEF T
  <2> QED BY <1>1, <1>12, <1>13, NumberInduction
<1>15. Dechunk(r, p) = D[p]
  BY DechunkFacts DEF D
<1>16. \/ r # W /\ At(J, 1, D[p])
       \/ D[p] = J
  <2>1. K \in T
    <3> HIDE DEF T
    <3> QED BY <1>1, <1>14
  <2> DEFINE q == p + Upto(pre, K)
  <2>2. CASE r # W /\ At(J, 1, D[p])
    BY <2>2
  <2>3. CASE q <= Len(r) + 1 /\ D[p] = Cat(SubSeq(J, 1, C(K)), D[q])
    <3>1. q = p + Len(F) /\ q \in 1 .. Len(r) + 1
      BY <1>2, <1>7, <2>3
    <3>2. NoChunk(r, q)
      <4>1. CASE q >= Len(r)
        BY <4>1 DEF NoChunk
      <4>2. CASE q < Len(r)
        <5>1. q \in 1 .. Len(r)
          BY <1>2, <3>1, <4>2
        <5>2. r[q] = SizeText[0]
          BY <1>2, <1>10, <3>1, <5>1
        <5>3. 0 \in 0 .. RespBuf
          BY <1>2
        <5> HIDE DEF q
        <5> QED BY <5>2, <5>3, SizeOfFacts DEF NoChunk
      <4> QED BY <1>2, <3>1, <4>1, <4>2
    <3> HIDE DEF q
    <3>3. D[q] = <<>>
      BY <3>1, <3>2, DechunkFacts DEF D
    <3>4. SubSeq(J, 1, L) = J
      <4>1. At(J, 1, J)
        BY <1>3, AtWhole
      <4>2. SubSeq(J, 1, 1 + Len(J) - 1) = J
        BY <1>3, <4>1, AtSubSeq
      <4>3. 1 + Len(J) - 1 = L
        BY <1>2 DEF L
      <4> QED BY <4>2, <4>3
    <3>5. J \o <<>> = J
      BY <1>3, ConcatEmptySeq
    <3> QED BY <1>8, <2>3, <3>3, <3>4, <3>5 DEF Cat
  <2> QED BY <2>1, <2>2, <2>3
<1>17. At(J, 1, J)
  BY <1>3, AtWhole
<1> QED BY <1>15, <1>16, <1>17

(* Two letters that stand in a text. *)
LEMMA TwoLettersAt ==
  ASSUME NEW M, NEW s \in Seq(M), NEW p \in Nat, NEW a \in M, NEW b \in M, At(s, p, <<a, b>>)
  PROVE  s[p] = a /\ s[p + 1] = b
<1> DEFINE t == <<a, b>>
<1>1. t[1] = a /\ t[2] = b /\ Len(t) = 2
  OBVIOUS
<1>2. \A i \in 1 .. 2 : s[p + i - 1] = t[i]
  BY <1>1 DEF At
<1> HIDE DEF t
<1>3. p + 1 - 1 = p /\ p + 2 - 1 = p + 1
  OBVIOUS
<1>4. s[p + 1 - 1] = a /\ s[p + 2 - 1] = b
  BY <1>1, <1>2
<1> QED BY <1>3, <1>4

(* How an answer is laid out on the wire.                                   *)
LEMMA WireFacts ==
  ASSUME NEW a \in Answers
  PROVE  /\ Wire(a) \in Seq(Wired) /\ AnswerBody(a) \in Seq(Written)
         /\ a.tl \in Seq(Status) /\ a.error \in BOOLEAN
         /\ ~a.error => AnswerBody(a) = JsonAll(a.tl)
         /\ 1 <= Len(Wire(a)) /\ Wire(a)[1] = IF a.error THEN "500" ELSE "200"
         /\ a.chunk = 0 =>
              /\ Wire(a)[2] = "blank" /\ At(Wire(a), 3, AnswerBody(a))
              /\ Len(Wire(a)) = Len(AnswerBody(a)) + 2
         /\ a.chunk # 0 =>
              /\ a.chunk \in Nat \ {0}
              /\ Wire(a)[2] = "chunked" /\ Wire(a)[3] = "blank"
              /\ At(Wire(a), 4, Chunked(AnswerBody(a), a.chunk))
              /\ Len(Wire(a)) = Len(Chunked(AnswerBody(a), a.chunk)) + 3
<1> DEFINE W == Wire(a)
           B == AnswerBody(a)
           c == IF a.error THEN "500" ELSE "200"
           h == <<c>>
           R == IF a.chunk = 0 THEN <<"blank">> \o B
                ELSE <<"chunked", "blank">> \o Chunked(B, a.chunk)
<1>1. /\ a.tl \in Seq(Status) /\ a.error \in BOOLEAN /\ a.chunk \in Nat
      /\ a.chunk # 0 => a.chunk \in Nat \ {0}
  <2>1. a.tl \in Timelines /\ a.error \in BOOLEAN /\ a.chunk \in ChunkSizes \cup {0}
    BY DEF Answers
  <2>2. Timelines \subseteq Seq(Status)
    BY TimelinesAssumption
  <2>3. ChunkSizes \subseteq Nat \ {0}
    BY BufAssumption
  <2>4. a.chunk \in Nat /\ (a.chunk # 0 => a.chunk \in Nat \ {0})
    <3> DEFINE n == a.chunk
               N == Nat \ {0}
    <3>1. n \in ChunkSizes \/ n = 0
      BY <2>1
    <3>2. ChunkSizes \subseteq N
      BY <2>3
    <3> HIDE DEF n, N
    <3>3. n \in N \/ n = 0
      BY <3>1, <3>2
    <3>4. n \in Nat /\ (n # 0 => n \in N)
      BY <3>3 DEF N
    <3> QED BY <3>4 DEF n, N
  <2> QED BY <2>1, <2>2, <2>4
<1>2. "500" \in Written /\ "200" \in Written /\ "blank" \in Written /\ "chunked" \in Written /\ "error" \in Written
  BY DEF Written
<1>3. Written \subseteq Wired
  BY DEF Wired
<1>4. B \in Seq(Written) /\ (~a.error => B = JsonAll(a.tl))
  <2>1. JsonAll(a.tl) \in Seq(Written)
    BY <1>1, JsonAllFacts
  <2>2. <<"error">> \in Seq(Written)
    BY <1>2, OneLetter
  <2> QED BY <2>1, <2>2 DEF AnswerBody
<1>5. W = h \o R
  BY DEF Wire
<1>6. c \in Wired /\ "blank" \in Wired /\ "chunked" \in Wired
  BY <1>2, <1>3
<1> HIDE DEF W, B, c
<1>7. h \in Seq(Wired) /\ Len(h) = 1
  BY <1>6, OneLetter
<1>8. B \in Seq(Wired) /\ Len(B) \in Nat
  <2>1. B \in Seq(Wired)
    BY <1>3, <1>4
  <2> QED BY <2>1, Length
<1>9. ASSUME NEW b \in Seq(Wired), NEW d \in Seq(Wired), R = b \o d
      PROVE  /\ W \in Seq(Wired) /\ Len(W) = 1 + Len(b) + Len(d) /\ W[1] = c
             /\ At(W, 2, b) /\ At(W, 2 + Len(b), d) /\ Len(b) \in Nat /\ Len(d) \in Nat
  <2> HIDE DEF h, R
  <2>1. R \in Seq(Wired) /\ Len(R) = Len(b) + Len(d) /\ Len(b) \in Nat /\ Len(d) \in Nat /\ Len(R) \in Nat
    BY <1>9, TwoParts
  <2>a. h \in Seq(Wired) /\ R \in Seq(Wired) /\ Len(h) = 1 /\ Len(R) \in Nat
    BY <1>7, <2>1
  <2>b. h \o R \in Seq(Wired) /\ Len(h \o R) = Len(h) + Len(R)
    BY <2>a, TwoParts
  <2>2. W \in Seq(Wired) /\ Len(W) = 1 + Len(R)
    BY <1>5, <2>a, <2>b
  <2>3. At(W, 1, h \o R) /\ Len(W) \in Nat
    <3>1. At(W, 1, W) /\ Len(W) \in Nat
      BY <2>2, AtWhole, Length
    <3> QED BY <1>5, <3>1
  <2>4. 1 \in Nat \ {0} /\ 2 \in Nat \ {0}
    OBVIOUS
  <2>5. At(W, 1, h) /\ At(W, 1 + Len(h), R)
    BY <1>7, <2>1, <2>3, <2>4, AtConcat
  <2>6. At(W, 2, b \o d)
    BY <1>7, <1>9, <2>5
  <2>7. At(W, 2, b) /\ At(W, 2 + Len(b), d)
    BY <2>3, <2>4, <2>6, AtConcat
  <2>8. W[1] = c
    <3>1. At(W, 1, <<c>>) /\ 1 \in Nat
      BY <2>5 DEF h
    <3> QED BY <2>2, <3>1, AtLetter
  <2>9. Len(W) = 1 + Len(b) + Len(d)
    BY <2>1, <2>2
  <2> QED BY <2>1, <2>2, <2>7, <2>8, <2>9
<1>10. CASE a.chunk = 0
  <2> DEFINE b == <<"blank">>
  <2>1. b \in Seq(Wired) /\ Len(b) = 1
    BY <1>6, OneLetter
  <2>2. R = b \o B
    BY <1>10
  <2> HIDE DEF b, R
  <2>3. /\ W \in Seq(Wired) /\ Len(W) = 1 + Len(b) + Len(B) /\ W[1] = c
        /\ At(W, 2, b) /\ At(W, 2 + Len(b), B)
    BY <1>8, <1>9, <2>1, <2>2
  <2>4. Len(W) = Len(B) + 2 /\ At(W, 3, B) /\ 1 <= Len(W)
    <3>1. 2 + Len(b) = 3 /\ 1 + Len(b) + Len(B) = Len(B) + 2
      BY <1>8, <2>1
    <3>2. Len(W) = Len(B) + 2
      BY <2>3, <3>1
    <3> QED BY <1>8, <2>3, <3>1, <3>2
  <2>5. W[2] = "blank"
    <3>1. At(W, 2, <<"blank">>) /\ 2 \in Nat
      BY <2>3 DEF b
    <3> QED BY <2>3, <3>1, AtLetter
  <2> QED BY <1>1, <1>4, <1>10, <2>3, <2>4, <2>5 DEF W, B, c
<1>11. CASE a.chunk # 0
  <2> DEFINE b == <<"chunked", "blank">>
             d == Chunked(B, a.chunk)
  <2>1. b \in Seq(Wired) /\ Len(b) = 2
    BY <1>6
  <2>2. R = b \o d
    BY <1>11
  <2>3. d \in Seq(Wired)
    BY <1>1, <1>4, <1>11, ChunkedFacts
  <2> HIDE DEF b, R, d
  <2>4. /\ W \in Seq(Wired) /\ Len(W) = 1 + Len(b) + Len(d) /\ W[1] = c
        /\ At(W, 2, b) /\ At(W, 2 + Len(b), d) /\ Len(d) \in Nat
    BY <1>9, <2>1, <2>2, <2>3
  <2>5. Len(W) = Len(d) + 3 /\ At(W, 4, d) /\ 1 <= Len(W)
    <3>1. 2 + Len(b) = 4 /\ 1 + Len(b) + Len(d) = Len(d) + 3
      BY <2>1, <2>4
    <3>2. Len(W) = Len(d) + 3
      BY <2>4, <3>1
    <3> QED BY <2>4, <3>1, <3>2
  <2>6. W[2] = "chunked" /\ W[3] = "blank"
    <3>1. At(W, 2, <<"chunked", "blank">>) /\ 2 \in Nat
      BY <2>4 DEF b
    <3>2. W[2] = "chunked" /\ W[2 + 1] = "blank"
      BY <1>6, <2>4, <3>1, TwoLettersAt
    <3> QED BY <3>2
  <2> QED BY <1>1, <1>4, <1>11, <2>4, <2>5, <2>6 DEF W, B, c, d
<1> QED BY <1>10, <1>11

(* The beginning of a text has its letters. *)
LEMMA RetypedPrefix ==
  ASSUME NEW M, NEW N, NEW s \in Seq(M), NEW b \in Seq(N), At(s, 1, b)
  PROVE  b \in Seq(M)
<1>1. Len(b) \in Nat /\ Len(s) \in Nat /\ 1 + Len(b) <= Len(s) + 1
  BY Length DEF At
<1>2. \A i \in 1 .. Len(b) : b[i] \in M
  <2> SUFFICES ASSUME NEW i \in 1 .. Len(b) PROVE b[i] \in M
    OBVIOUS
  <2>1. s[1 + i - 1] = b[i] /\ 1 + i - 1 = i
    BY DEF At
  <2>2. i \in 1 .. Len(s)
    BY <1>1
  <2>3. s[i] \in M
    BY <2>2
  <2> QED BY <2>1, <2>3
<1>3. b = [i \in 1 .. Len(b) |-> b[i]]
  OBVIOUS
<1>4. b \in [1 .. Len(b) -> M]
  BY <1>2, <1>3
<1> QED BY <1>1, <1>4

(* What do_timeline() takes for the body: as much of it as has arrived.     *)
BodyOf(r) ==
  LET blank == First(r, 1, {"blank"})
  IN IF First(r, 1, {"chunked"}) < blank THEN Dechunk(r, blank + 1)
     ELSE SubSeq(r, blank + 1, Len(r))

(* Of an answer that has arrived up to some letter, do_timeline() gets as   *)
(* much of the statuses, chunked or not; nothing of an error.               *)
LEMMA BodyReads ==
  ASSUME NEW a \in Answers, NEW r \in Seq(Wired), At(Wire(a), 1, r),
         a.chunk # 0 => Len(Wire(a)) <= RespBuf
  PROVE  /\ First(r, 1, {"blank"}) <= Len(r) /\ r[1] # "500" =>
              /\ ~a.error /\ BodyOf(r) \in Seq(Written) /\ At(JsonAll(a.tl), 1, BodyOf(r))
              /\ r = Wire(a) => BodyOf(r) = JsonAll(a.tl)
         /\ r = Wire(a) /\ ~a.error => First(r, 1, {"blank"}) <= Len(r) /\ r[1] # "500"
<1> DEFINE W == Wire(a)
           B == AnswerBody(a)
           n == Len(r)
           K == {"blank"}
           C == {"chunked"}
           blank == First(r, 1, K)
           chunked == First(r, 1, C)
<1>1. /\ W \in Seq(Wired) /\ B \in Seq(Written) /\ a.tl \in Seq(Status) /\ a.error \in BOOLEAN
      /\ (~a.error => B = JsonAll(a.tl))
      /\ 1 <= Len(W) /\ W[1] = IF a.error THEN "500" ELSE "200"
      /\ Len(B) \in Nat /\ Len(W) \in Nat
  BY WireFacts, Length
<1>2. n \in Nat /\ n <= Len(W) /\ \A i \in 1 .. n : W[i] = r[i]
  BY <1>1, PrefixFacts
<1> HIDE DEF W, B, n, K, C
<1>3. 1 \in 1 .. n + 1 /\ 1 \in Nat
  BY <1>2
<1>4. /\ blank \in 1 .. n + 1 /\ (blank = n + 1 \/ r[blank] \in K)
      /\ \A j \in 1 .. blank - 1 : r[j] \notin K
  BY <1>3, FirstFacts DEF n
<1>5. /\ chunked \in 1 .. n + 1 /\ (chunked = n + 1 \/ r[chunked] \in C)
      /\ \A j \in 1 .. chunked - 1 : r[j] \notin C
  BY <1>3, FirstFacts DEF n
<1> HIDE DEF blank, chunked
<1>6. n >= 1 => r[1] = W[1] /\ r[1] \notin K /\ r[1] \notin C
  <2>1. n >= 1 => r[1] = W[1]
    BY <1>2
  <2>2. W[1] \notin K /\ W[1] \notin C
    BY <1>1 DEF K, C
  <2> QED BY <2>1, <2>2
<1>7. BodyOf(r) = IF chunked < blank THEN Dechunk(r, blank + 1) ELSE SubSeq(r, blank + 1, n)
  BY DEF BodyOf, chunked, blank, n, K, C
<1>8. CASE a.chunk = 0
  <2>1. W[2] = "blank" /\ At(W, 3, B) /\ Len(W) = Len(B) + 2
    BY <1>8, WireFacts DEF W, B
  <2>2. n >= 2 => r[2] \in K /\ r[2] \notin C
    <3>1. n >= 2 => r[2] = "blank"
      BY <1>2, <2>1
    <3> QED BY <3>1 DEF K, C
  <2>3. n >= 2 => blank = 2
    <3>1. SUFFICES ASSUME n >= 2 PROVE blank = 2
      OBVIOUS
    <3>2. blank # 1
      BY <1>2, <1>4, <1>6, <3>1
    <3>3. ~(blank > 2)
      BY <1>2, <1>4, <2>2, <3>1
    <3> QED BY <1>2, <1>4, <3>2, <3>3
  <2>4. n < 2 => blank = n + 1
    BY <1>2, <1>4, <1>6
  <2>5. n >= 2 => ~(chunked < blank)
    <3>1. SUFFICES ASSUME n >= 2, chunked < blank PROVE FALSE
      OBVIOUS
    <3>2. chunked = 1 /\ chunked # n + 1
      BY <1>2, <1>5, <2>3, <3>1
    <3> QED BY <1>2, <1>5, <1>6, <3>1, <3>2
  <2>6. ASSUME blank <= n, r[1] # "500"
        PROVE  /\ ~a.error /\ BodyOf(r) \in Seq(Written) /\ At(B, 1, BodyOf(r))
               /\ (r = W => BodyOf(r) = B)
    <3>1. n >= 2 /\ ~a.error
      BY <1>1, <1>2, <1>6, <2>4, <2>6
    <3>2. BodyOf(r) = SubSeq(r, 3, n)
      <4>1. blank = 2 /\ ~(chunked < blank) /\ blank + 1 = 3
        BY <2>3, <2>5, <3>1
      <4>2. BodyOf(r) = SubSeq(r, blank + 1, n)
        BY <1>7, <4>1
      <4> QED BY <4>1, <4>2
    <3> DEFINE u == SubSeq(r, 3, n)
               m == n - 2
    <3>3. u \in Seq(Wired) /\ Len(u) = m /\ \A i \in 1 .. m : u[i] = r[3 + i - 1]
      <4>1. 3 \in Nat /\ n \in Nat /\ 3 >= 1 /\ n <= Len(r) /\ 3 <= n + 1 /\ n - 3 + 1 = m
        BY <1>2, <3>1 DEF n
      <4>2. u \in Seq(Wired) /\ Len(u) = n - 3 + 1 /\ \A i \in 1 .. n - 3 + 1 : u[i] = r[3 + i - 1]
        BY <4>1, SubSeqType
      <4> HIDE DEF u
      <4> QED BY <4>1, <4>2
    <3>4. \A i \in 1 .. m : u[i] = B[i]
      <4> SUFFICES ASSUME NEW i \in 1 .. m PROVE u[i] = B[i]
        OBVIOUS
      <4>1. 3 + i - 1 \in 1 .. n /\ i \in 1 .. Len(B)
        BY <1>1, <1>2, <2>1, <3>1
      <4>2. W[3 + i - 1] = B[i]
        BY <2>1, <4>1 DEF At
      <4> HIDE DEF u
      <4> QED BY <1>2, <3>3, <4>1, <4>2
    <3> HIDE DEF u
    <3>5. At(B, 1, u)
      <4>1. 1 + Len(u) <= Len(B) + 1
        BY <1>1, <1>2, <2>1, <3>1, <3>3
      <4>2. \A i \in 1 .. Len(u) : 1 + i - 1 = i
        BY <1>2, <3>1, <3>3
      <4> QED BY <3>3, <3>4, <4>1, <4>2 DEF At
    <3>6. u \in Seq(Written)
      BY <1>1, <3>3, <3>5, RetypedPrefix
    <3>7. r = W => u = B
      <4>1. SUFFICES ASSUME r = W PROVE u = B
        OBVIOUS
      <4>2. Len(u) = Len(B)
        BY <1>1, <1>2, <2>1, <3>3, <4>1 DEF n
      <4> QED BY <1>1, <3>3, <3>4, <3>6, <4>2, SeqEqual
    <3> QED BY <3>1, <3>2, <3>5, <3>6, <3>7 DEF u
  <2>7. r = W /\ ~a.error => blank <= n /\ r[1] # "500"
    <3>1. r = W => n >= 2
      BY <1>1, <2>1 DEF n
    <3> QED BY <1>1, <1>2, <1>6, <2>3, <3>1
  <2> QED BY <1>1, <2>6, <2>7 DEF W, B, blank, K, n
<1>9. CASE a.chunk # 0
  <2> DEFINE ch == Chunked(B, a.chunk)
  <2>1. /\ W[2] = "chunked" /\ W[3] = "blank" /\ At(W, 4, ch) /\ Len(W) = Len(ch) + 3
        /\ a.chunk \in Nat \ {0} /\ Len(ch) \in Nat
    <3>1. a.chunk \in Nat \ {0} /\ B \in Seq(Written)
      BY <1>1, <1>9, WireFacts
    <3>2. ch \in Seq(Wired)
      BY <3>1, ChunkedFacts
    <3> QED BY <1>9, <3>1, <3>2, Length, WireFacts DEF W, B
  <2>2. n >= 2 => r[2] \in C /\ r[2] \notin K
    <3>1. n >= 2 => r[2] = "chunked"
      BY <1>2, <2>1
    <3> QED BY <3>1 DEF K, C
  <2>3. n >= 3 => r[3] \in K
    <3>1. n >= 3 => r[3] = "blank"
      BY <1>2, <2>1
    <3> QED BY <3>1 DEF K
  <2>4. n >= 3 => blank = 3 /\ chunked = 2
    <3>1. SUFFICES ASSUME n >= 3 PROVE blank = 3 /\ chunked = 2
      OBVIOUS
    <3>2. blank # 1 /\ blank # 2 /\ ~(blank > 3)
      BY <1>2, <1>4, <1>6, <2>2, <2>3, <3>1
    <3>3. chunked # 1 /\ ~(chunked > 2)
      BY <1>2, <1>5, <1>6, <2>2, <3>1
    <3> QED BY <1>2, <1>4, <1>5, <3>2, <3>3
  <2>5. n < 3 => blank = n + 1
    BY <1>2, <1>4, <1>6, <2>2
  <2> HIDE DEF ch
  <2>6. ASSUME blank <= n, r[1] # "500"
        PROVE  /\ ~a.error /\ BodyOf(r) \in Seq(Written) /\ At(B, 1, BodyOf(r))
               /\ (r = W => BodyOf(r) = B)
    <3>1. n >= 3 /\ ~a.error
      BY <1>1, <1>2, <1>6, <2>5, <2>6
    <3>2. BodyOf(r) = Dechunk(r, 4)
      BY <1>7, <2>4, <3>1
    <3>3. /\ At(W, 4, ch) /\ 4 + Len(ch) = Len(W) + 1 /\ Len(W) <= RespBuf
          /\ At(W, 1, r) /\ 4 <= Len(r) + 1
      BY <1>1, <1>2, <1>9, <2>1, <3>1 DEF W, n
    <3>4. At(B, 1, Dechunk(r, 4)) /\ (r = W => Dechunk(r, 4) = B)
      <4> DEFINE c == a.chunk
                 y == 4
      <4>1. c \in Nat \ {0} /\ ch = Chunked(B, c)
        BY <2>1 DEF ch
      <4> HIDE DEF c, y
      <4>2. At(W, y, Chunked(B, c))
        BY <3>3, <4>1 DEF y
      <4>3. y + Len(Chunked(B, c)) = Len(W) + 1
        BY <3>3, <4>1 DEF y
      <4>4. At(W, 1, r) /\ y <= Len(r) + 1 /\ Len(W) <= RespBuf
        BY <3>3 DEF y
      <4>5. B \in Seq(Written) /\ W \in Seq(Wired) /\ r \in Seq(Wired)
        BY <1>1
      <4>6. At(B, 1, Dechunk(r, y)) /\ (r = W => Dechunk(r, y) = B)
        BY <4>1, <4>2, <4>3, <4>4, <4>5, DechunkReads
      <4> QED BY <4>6 DEF y
    <3>5. Dechunk(r, 4) \in Seq(Wired)
      <4>1. 4 \in 1 .. Len(r) + 1
        BY <1>2, <3>1 DEF n
      <4> QED BY <4>1, DechunkFacts
    <3>6. Dechunk(r, 4) \in Seq(Written)
      BY <1>1, <3>4, <3>5, RetypedPrefix
    <3> QED BY <3>1, <3>2, <3>4, <3>6
  <2>7. r = W /\ ~a.error => blank <= n /\ r[1] # "500"
    <3>1. r = W => n >= 3
      BY <1>1, <2>1 DEF n
    <3> QED BY <1>1, <1>2, <1>6, <2>4, <3>1
  <2> QED BY <1>1, <2>6, <2>7 DEF W, B, blank, K, n
<1> QED BY <1>8, <1>9

-----------------------------------------------------------------------------
(* obj[] held the first statuses of tl, one by one.                         *)
Held(o, tl) ==
  /\ o \in Seq(Seq(Written)) /\ Len(o) <= Len(tl)
  /\ \A i \in 1 .. Len(o) : o[i] = Cut(Json(tl[i]), ObjBuf)

(* One more status. *)
LEMMA HeldFacts ==
  ASSUME NEW tl \in Seq(Status)
  PROVE  /\ Held(<<>>, tl)
         /\ \A o : Held(o, tl) =>
              /\ Len(o) \in 0 .. Len(tl)
              /\ Len(o) < Len(tl) =>
                   /\ Held(Append(o, Cut(Json(tl[Len(o) + 1]), ObjBuf)), tl)
                   /\ Len(Append(o, Cut(Json(tl[Len(o) + 1]), ObjBuf))) = Len(o) + 1
<1>1. Len(tl) \in Nat
  BY Length
<1>2. Held(<<>>, tl)
  BY <1>1 DEF Held
<1>3. ASSUME NEW o, Held(o, tl)
      PROVE  /\ Len(o) \in 0 .. Len(tl)
             /\ Len(o) < Len(tl) =>
                   /\ Held(Append(o, Cut(Json(tl[Len(o) + 1]), ObjBuf)), tl)
                   /\ Len(Append(o, Cut(Json(tl[Len(o) + 1]), ObjBuf))) = Len(o) + 1
  <2>1. o \in Seq(Seq(Written)) /\ Len(o) \in Nat /\ Len(o) <= Len(tl)
    BY <1>3 DEF Held
  <2>2. Len(o) \in 0 .. Len(tl)
    BY <1>1, <2>1
  <2> DEFINE k == Len(o)
             c == Cut(Json(tl[Len(o) + 1]), ObjBuf)
             M == Seq(Written)
             S(i) == Cut(Json(tl[i]), ObjBuf)
  <2>3. ASSUME k < Len(tl) PROVE Held(Append(o, c), tl) /\ Len(Append(o, c)) = k + 1
    <3>1. k + 1 \in 1 .. Len(tl)
      BY <1>1, <2>1, <2>3
    <3>2. tl[k + 1] \in Status
      BY <3>1
    <3>3. c \in M
      <4>1. Text \cup Members \subseteq Written
        BY WrittenFacts
      <4>2. Json(tl[k + 1]) \in Seq(Written)
        BY <3>2, <4>1, JsonParts
      <4> QED BY <4>2, CutFacts, BufAssumption
    <3>4. c = S(k + 1)
      OBVIOUS
    <3>5. \A i \in 1 .. k : o[i] = S(i)
      BY <1>3 DEF Held
    <3>6. o \in Seq(M)
      BY <2>1
    <3> HIDE DEF c, M, S
    <3>7. /\ Append(o, c) \in Seq(M) /\ Len(Append(o, c)) = k + 1
          /\ Append(o, c)[k + 1] = c /\ \A i \in 1 .. k : Append(o, c)[i] = o[i]
      BY <3>3, <3>6
    <3>8. \A i \in 1 .. k + 1 : Append(o, c)[i] = S(i)
      <4> SUFFICES ASSUME NEW i \in 1 .. k + 1 PROVE Append(o, c)[i] = S(i)
        OBVIOUS
      <4>1. i \in 1 .. k \/ i = k + 1
        BY <2>1
      <4> QED BY <3>4, <3>5, <3>7, <4>1
    <3>9. k + 1 <= Len(tl)
      BY <3>1
    <3> QED BY <3>7, <3>8, <3>9 DEF Held, M, S
  <2> QED BY <2>2, <2>3
<1> QED BY <1>2, <1>3

(* r is what has been read of the answer a, w what has not.                 *)
Received(a, r, w) ==
  /\ a \in Answers /\ (a.chunk # 0 => Len(Wire(a)) <= RespBuf)
  /\ r \in Seq(Wired) /\ w \in Seq(Wired) /\ r \o w = Wire(a)

(* b is what has arrived of the statuses tl, and o the objects before p.    *)
Reached(tl, b, o, p) ==
  /\ b \in Seq(Written) /\ At(JsonAll(tl), 1, b)
  /\ \E pre : /\ Joins(pre, Jsons(tl), Written)
              /\ p = Start(pre, Len(o)) /\ p <= Len(b) + 1

(* Reading a letter neither loses nor changes any. *)
LEMMA ReadsOn ==
  ASSUME NEW a, NEW r, NEW w, Received(a, r, w), w # <<>>
  PROVE  Received(a, Append(r, Head(w)), Tail(w))
<1> DEFINE l == Head(w)
           v == Tail(w)
           x == Append(r, l)
           W == Wire(a)
<1>1. r \in Seq(Wired) /\ w \in Seq(Wired) /\ r \o w = W
  BY DEF Received
<1>2. l \in Wired /\ v \in Seq(Wired) /\ Len(w) = Len(v) + 1 /\ w[1] = l
      /\ \A i \in 1 .. Len(v) : v[i] = w[i + 1]
  BY <1>1
<1> HIDE DEF l, v, W
<1>3. x \in Seq(Wired) /\ Len(x) = Len(r) + 1 /\ x[Len(r) + 1] = l
      /\ \A i \in 1 .. Len(r) : x[i] = r[i]
  BY <1>1, <1>2
<1> HIDE DEF x
<1>4. x \o v = r \o w
  <2> DEFINE n == Len(r)
             m == Len(v)
             y == x \o v
             z == r \o w
  <2>1. n \in Nat /\ m \in Nat
    BY <1>1, <1>2, Length
  <2>2. /\ y \in Seq(Wired) /\ Len(y) = Len(x) + Len(v)
        /\ z \in Seq(Wired) /\ Len(z) = Len(r) + Len(w)
    BY <1>1, <1>2, <1>3, TwoParts
  <2>3. \A i \in 1 .. Len(x) + Len(v) : y[i] = IF i <= Len(x) THEN x[i] ELSE v[i - Len(x)]
    BY <1>2, <1>3
  <2>4. \A i \in 1 .. Len(r) + Len(w) : z[i] = IF i <= Len(r) THEN r[i] ELSE w[i - Len(r)]
    BY <1>1
  <2>5. Len(x) = n + 1 /\ Len(w) = m + 1
    BY <1>2, <1>3
  <2> HIDE DEF n, m, y, z
  <2>6. Len(y) = n + 1 + m /\ Len(z) = n + 1 + m
    BY <2>1, <2>2, <2>5 DEF n, m
  <2>7. ASSUME NEW i \in 1 .. n + 1 + m PROVE y[i] = z[i]
    <3>1. CASE i <= n
      <4>1. y[i] = x[i] /\ z[i] = r[i] /\ i \in 1 .. Len(r)
        BY <2>1, <2>3, <2>4, <2>5, <2>7, <3>1 DEF n, m
      <4> QED BY <1>3, <4>1
    <3>2. CASE i = n + 1
      <4>1. y[i] = x[n + 1] /\ z[i] = w[1]
        BY <2>1, <2>3, <2>4, <2>5, <2>7, <3>2 DEF n, m
      <4> QED BY <1>2, <1>3, <4>1 DEF n
    <3>3. CASE i > n + 1
      <4>1. y[i] = v[i - (n + 1)] /\ z[i] = w[i - n]
        BY <2>1, <2>3, <2>4, <2>5, <2>7, <3>3 DEF n, m
      <4>2. i - (n + 1) \in 1 .. Len(v) /\ (i - (n + 1)) + 1 = i - n
        BY <2>1, <2>7, <3>3 DEF m
      <4> QED BY <1>2, <4>1, <4>2
    <3> QED BY <2>1, <2>7, <3>1, <3>2, <3>3
  <2>8. y = z
    BY <2>2, <2>6, <2>7, SeqEqual
  <2> QED BY <2>8 DEF y, z
<1> QED BY <1>1, <1>2, <1>3, <1>4 DEF Received, l, v, x, W

(* Of the answer a, read is what has arrived and nothing is shown yet; then *)
(* its statuses are shown in their order.                                   *)
Showing ==
  /\ pc \in {"open", "read", "parse"} => objs = <<>> /\ at = 1
  /\ pc = "open" => sent = NoAnswer /\ resp = <<>>
  /\ pc \in {"read", "parse"} => Received(sent, resp, wire)
  /\ pc = "show" =>
       /\ ~sent.error /\ Reached(sent.tl, body, objs, at)
       /\ wire = <<>> => body = JsonAll(sent.tl)

Complete ==
  pc \in {"cleanup", "done"} /\ wire = <<>> => sent.error \/ Len(objs) = Len(sent.tl)

SInv ==
  /\ sent.tl \in Seq(Status) /\ Held(objs, sent.tl)
  /\ sent.error => objs = <<>>
  /\ Showing
  /\ Complete

-----------------------------------------------------------------------------
(* Before there is an answer there is no status. *)
LEMMA NoAnswerFacts ==
  NoAnswer.tl = <<>> /\ NoAnswer.error = FALSE /\ NoAnswer.tl \in Seq(Status)
  /\ Len(NoAnswer.tl) = 0
BY DEF NoAnswer

(* The types of an answer. *)
LEMMA AnswerFacts ==
  ASSUME NEW a \in Answers
  PROVE  a.tl \in Seq(Status) /\ Wire(a) \in Seq(Wired)
BY WireFacts

(* resp[] holds the beginning of the answer, in the end all of it. *)
LEMMA ReceivedFacts ==
  ASSUME NEW a, NEW r, NEW w, Received(a, r, w)
  PROVE  /\ a \in Answers /\ r \in Seq(Wired) /\ At(Wire(a), 1, r)
         /\ a.chunk # 0 => Len(Wire(a)) <= RespBuf
         /\ w = <<>> => r = Wire(a)
<1>1. a \in Answers /\ r \in Seq(Wired) /\ w \in Seq(Wired) /\ r \o w = Wire(a)
      /\ (a.chunk # 0 => Len(Wire(a)) <= RespBuf)
  BY DEF Received
<1> DEFINE W == Wire(a)
<1>2. W \in Seq(Wired) /\ Len(W) \in Nat /\ At(W, 1, r \o w)
  <2>1. W \in Seq(Wired)
    BY <1>1, AnswerFacts
  <2> QED BY <1>1, <2>1, AtWhole, Length
<1> HIDE DEF W
<1>3. At(W, 1, r)
  <2>1. r \in Seq(Wired) /\ w \in Seq(Wired) /\ 1 \in Nat \ {0}
    BY <1>1
  <2> QED BY <1>2, <2>1, AtConcat
<1>4. w = <<>> => r \o w = r
  BY <1>1
<1> QED BY <1>1, <1>3, <1>4 DEF W

(* Before anything is shown, json_next_obj() starts at the body's beginning.*)
LEMMA ReachedFirst ==
  ASSUME NEW tl \in Seq(Status), NEW b \in Seq(Written), At(JsonAll(tl), 1, b)
  PROVE  Reached(tl, b, <<>>, 1)
<1>1. PICK pre : Joins(pre, Jsons(tl), Written)
  BY JsonAllFacts, FlattenFacts
<1>2. Start(pre, Len(<<>>)) = 1
  BY DEF Start
<1>3. 1 <= Len(b) + 1
  <2>1. Len(b) \in Nat
    BY Length
  <2> QED BY <2>1
<1> QED BY <1>1, <1>2, <1>3 DEF Reached

(* json_next_obj() gets from each status to the next one.                   *)
LEMMA ReachedNext ==
  ASSUME NEW tl \in Seq(Status), NEW b, NEW o, NEW p, Reached(tl, b, o, p), Held(o, tl)
  PROVE  /\ NextObj(b, p, ObjBuf).found =>
              /\ Len(o) < Len(tl)
              /\ NextObj(b, p, ObjBuf).obj = Cut(Json(tl[Len(o) + 1]), ObjBuf)
              /\ Reached(tl, b, Append(o, NextObj(b, p, ObjBuf).obj), NextObj(b, p, ObjBuf).next)
         /\ ~NextObj(b, p, ObjBuf).found /\ b = JsonAll(tl) => Len(o) = Len(tl)
<1> DEFINE N == NextObj(b, p, ObjBuf)
           k == Len(o)
           L == Len(tl)
           Obj(j) == Cut(Json(tl[j]), ObjBuf)
           A == JsonAll(tl)
<1>1. PICK pre : Joins(pre, Jsons(tl), Written) /\ p = Start(pre, k) /\ p <= Len(b) + 1
  BY DEF Reached
<1>2. b \in Seq(Written) /\ At(A, 1, b)
  BY DEF Reached
<1>3. k \in 0 .. L /\ (k < L => Len(Append(o, Obj(k + 1))) = k + 1)
  BY HeldFacts
<1>4. /\ N.found => /\ k < L /\ N.obj = Obj(k + 1) /\ N.next = Start(pre, k + 1)
                    /\ N.next <= Len(b) + 1
      /\ ~N.found /\ b = A => k = L
  BY <1>1, <1>2, <1>3, NextStatus
<1> HIDE DEF N, L, Obj
<1>5. N.found => Reached(tl, b, Append(o, N.obj), N.next)
  <2> SUFFICES ASSUME N.found PROVE Reached(tl, b, Append(o, N.obj), N.next)
    OBVIOUS
  <2>1. Len(Append(o, N.obj)) = k + 1
    BY <1>3, <1>4
  <2> HIDE DEF k
  <2>2. N.next = Start(pre, Len(Append(o, N.obj))) /\ N.next <= Len(b) + 1
    BY <1>4, <2>1
  <2> QED BY <1>1, <1>2, <2>2 DEF Reached, A
<1> QED BY <1>4, <1>5 DEF N, k, L, Obj, A

-----------------------------------------------------------------------------
(* It holds at the start, *)
LEMMA InitSInv == Init => SInv
<1> SUFFICES ASSUME Init PROVE SInv
  OBVIOUS
<1>1. pc = "open" /\ sent = NoAnswer /\ resp = <<>> /\ at = 1 /\ objs = <<>>
  BY DEF Init
<1>2. Held(<<>>, sent.tl) /\ sent.tl \in Seq(Status)
  BY <1>1, NoAnswerFacts, HeldFacts
<1> QED BY <1>1, <1>2 DEF SInv, Showing, Complete

(* and every step keeps it. *)
LEMMA NextSInv == SInv /\ [Next]_vars => SInv'
<1> SUFFICES ASSUME SInv, [Next]_vars PROVE SInv'
  OBVIOUS
<1>0. /\ sent.tl \in Seq(Status) /\ Held(objs, sent.tl) /\ (sent.error => objs = <<>>)
      /\ Showing /\ Complete
  BY DEF SInv
<1>1. CASE OpensNext \/ Closes \/ UNCHANGED vars
  <2>1. UNCHANGED <<pc, sent, wire, resp, body, at, objs>>
    BY <1>1 DEF OpensNext, Closes, vars, netVars, textVars
  <2> QED BY <1>0, <2>1 DEF SInv, Showing, Complete
<1>2. CASE OpenFails
  <2>1. pc = "open" /\ pc' = "cleanup" /\ UNCHANGED <<sent, wire, resp, body, at, objs>>
    BY <1>2 DEF OpenFails, netVars, textVars
  <2>2. Len(objs) = Len(sent.tl)
    <3>1. sent.tl = <<>> /\ objs = <<>>
      BY <1>0, <2>1, NoAnswerFacts DEF Showing
    <3> QED BY <3>1
  <2>3. Complete'
    BY <2>1, <2>2 DEF Complete
  <2> QED BY <1>0, <2>1, <2>3 DEF SInv, Showing
<1>3. CASE Requests
  <2>1. /\ pc = "open" /\ pc' = "read" /\ UNCHANGED <<resp, body, at, objs>>
        /\ sent' \in Answers /\ (sent'.chunk # 0 => Len(Wire(sent')) <= RespBuf)
        /\ wire' = Wire(sent')
    <3> DEFINE Fits(a) == (proxy => a.chunk = 0) /\ (a.chunk # 0 => Len(Wire(a)) <= RespBuf)
    <3>1. sent' \in {a \in Answers : Fits(a)}
      BY <1>3 DEF Requests
    <3>2. sent' \in Answers /\ Fits(sent')
      <4> HIDE DEF Fits
      <4> QED BY <3>1
    <3>3. /\ pc = "open" /\ pc' = "read" /\ UNCHANGED <<resp, body, at, objs>>
          /\ wire' = Wire(sent')
      BY <1>3 DEF Requests, textVars
    <3> QED BY <3>2, <3>3
  <2>2. resp = <<>> /\ objs = <<>> /\ at = 1
    BY <1>0, <2>1 DEF Showing
  <2>3. sent'.tl \in Seq(Status) /\ Wire(sent') \in Seq(Wired)
    BY <2>1, AnswerFacts
  <2>4. Held(objs', sent'.tl)
    BY <2>1, <2>2, <2>3, HeldFacts
  <2>5. Received(sent', resp', wire')
    <3>1. resp' = <<>> /\ resp' \in Seq(Wired) /\ wire' \in Seq(Wired)
      BY <2>1, <2>2, <2>3
    <3>2. resp' \o wire' = Wire(sent')
      BY <2>1, <3>1
    <3> QED BY <2>1, <3>1, <3>2 DEF Received
  <2> QED BY <2>1, <2>2, <2>3, <2>4, <2>5 DEF SInv, Showing, Complete
<1>4. CASE Reads
  <2>1. /\ pc = "read" /\ wire # <<>> /\ resp' = Append(resp, Head(wire)) /\ wire' = Tail(wire)
        /\ UNCHANGED <<pc, sent, body, at, objs>>
    BY <1>4 DEF Reads, textVars
  <2>2. Received(sent, resp, wire)
    BY <1>0, <2>1 DEF Showing
  <2>3. Received(sent', resp', wire')
    BY <2>1, <2>2, ReadsOn
  <2> QED BY <1>0, <2>1, <2>3 DEF SInv, Showing, Complete
<1>5. CASE ReadEnds
  <2>1. pc = "read" /\ pc' = "parse" /\ UNCHANGED <<sent, wire, resp, body, at, objs>>
    BY <1>5 DEF ReadEnds, netVars, textVars
  <2> QED BY <1>0, <2>1 DEF SInv, Showing, Complete
<1>6. CASE Parses
  <2> DEFINE blank == First(resp, 1, {"blank"})
             stops == blank > Len(resp) \/ resp[1] = "500"
  <2>1. pc = "parse" /\ UNCHANGED <<sent, wire, resp, at, objs>>
    BY <1>6 DEF Parses, netVars
  <2>2. /\ stops => pc' = "cleanup"
        /\ ~stops => pc' = "show" /\ body' = BodyOf(resp)
    BY <1>6 DEF Parses, BodyOf
  <2>3. objs = <<>> /\ at = 1 /\ Received(sent, resp, wire)
    BY <1>0, <2>1 DEF Showing
  <2>4. /\ sent \in Answers /\ resp \in Seq(Wired) /\ At(Wire(sent), 1, resp)
        /\ (sent.chunk # 0 => Len(Wire(sent)) <= RespBuf)
        /\ (wire = <<>> => resp = Wire(sent))
    BY <2>3, ReceivedFacts
  <2>5. /\ blank <= Len(resp) /\ resp[1] # "500" =>
             /\ ~sent.error /\ BodyOf(resp) \in Seq(Written)
             /\ At(JsonAll(sent.tl), 1, BodyOf(resp))
             /\ resp = Wire(sent) => BodyOf(resp) = JsonAll(sent.tl)
        /\ resp = Wire(sent) /\ ~sent.error => blank <= Len(resp) /\ resp[1] # "500"
    BY <2>4, BodyReads
  <2>6. stops <=> ~(blank <= Len(resp) /\ resp[1] # "500")
    <3>1. blank \in Nat /\ Len(resp) \in Nat
      <4>1. 1 \in 1 .. Len(resp) + 1 /\ Len(resp) \in Nat
        <5>1. Len(resp) \in Nat
          BY <2>4, Length
        <5> QED BY <5>1
      <4>2. blank \in 1 .. Len(resp) + 1
        BY <2>4, <4>1, FirstFacts
      <4> QED BY <4>1, <4>2
    <3> HIDE DEF blank
    <3> QED BY <3>1
  <2> HIDE DEF blank
  <2>7. CASE stops
    <3>1. wire = <<>> => sent.error
      BY <2>4, <2>5, <2>6, <2>7
    <3>2. pc' = "cleanup"
      BY <2>2, <2>7
    <3> QED BY <1>0, <2>1, <3>1, <3>2 DEF SInv, Showing, Complete
  <2>8. CASE ~stops
    <3>1. pc' = "show" /\ body' = BodyOf(resp) /\ ~sent.error
      BY <2>2, <2>5, <2>6, <2>8
    <3>2. Reached(sent.tl, BodyOf(resp), <<>>, 1)
      BY <1>0, <2>5, <2>6, <2>8, ReachedFirst
    <3>3. wire = <<>> => BodyOf(resp) = JsonAll(sent.tl)
      BY <2>4, <2>5, <2>6, <2>8
    <3> QED BY <1>0, <2>1, <2>3, <3>1, <3>2, <3>3 DEF SInv, Showing, Complete
  <2> QED BY <2>7, <2>8
<1>7. CASE Shows
  <2> DEFINE N == NextObj(body, at, ObjBuf)
  <2>1. /\ pc = "show" /\ N.found /\ objs' = Append(objs, N.obj) /\ at' = N.next
        /\ UNCHANGED <<pc, sent, wire, resp, body>>
    BY <1>7 DEF Shows, netVars
  <2>2. /\ ~sent.error /\ Reached(sent.tl, body, objs, at)
        /\ (wire = <<>> => body = JsonAll(sent.tl))
    BY <1>0, <2>1 DEF Showing
  <2>3. /\ Len(objs) < Len(sent.tl) /\ N.obj = Cut(Json(sent.tl[Len(objs) + 1]), ObjBuf)
        /\ Reached(sent.tl, body, Append(objs, N.obj), N.next)
    BY <1>0, <2>1, <2>2, ReachedNext
  <2> HIDE DEF N
  <2>4. Held(Append(objs, N.obj), sent.tl)
    BY <1>0, <2>3, HeldFacts
  <2> QED BY <1>0, <2>1, <2>2, <2>3, <2>4 DEF SInv, Showing, Complete
<1>8. CASE EndsShow
  <2>1. /\ pc = "show" /\ pc' = "cleanup" /\ ~NextObj(body, at, ObjBuf).found
        /\ UNCHANGED <<sent, wire, resp, body, at, objs>>
    BY <1>8 DEF EndsShow, netVars, textVars
  <2>2. /\ ~sent.error /\ Reached(sent.tl, body, objs, at)
        /\ (wire = <<>> => body = JsonAll(sent.tl))
    BY <1>0, <2>1 DEF Showing
  <2>3. wire = <<>> => Len(objs) = Len(sent.tl)
    BY <1>0, <2>1, <2>2, ReachedNext
  <2> QED BY <1>0, <2>1, <2>3 DEF SInv, Showing, Complete
<1>9. CASE CleansUp
  <2>1. pc = "cleanup" /\ pc' = "done" /\ UNCHANGED <<sent, wire, resp, body, at, objs>>
    BY <1>9 DEF CleansUp, netVars, textVars
  <2> QED BY <1>0, <2>1 DEF SInv, Showing, Complete
<1> QED BY <1>1, <1>2, <1>3, <1>4, <1>5, <1>6, <1>7, <1>8, <1>9 DEF Next, Client

-----------------------------------------------------------------------------
(* What is printed are the first statuses of the timeline, each under its   *)
(* author and with its text: for every timeline, whatever its brackets,     *)
(* quotation marks and tags, every length of chunk and every buffer, and    *)
(* wherever the answer ends.                                                *)
THEOREM ShowsTrue == Spec => []ShownTrue
<1>1. SInv => ShownTrue
  <2> SUFFICES ASSUME SInv PROVE ShownTrue
    OBVIOUS
  <2>1. sent.tl \in Seq(Status) /\ Held(objs, sent.tl)
    BY DEF SInv
  <2>2. Len(objs) <= Len(sent.tl) /\ Len(objs) \in 0 .. Len(sent.tl)
    BY <2>1, HeldFacts DEF Held
  <2>3. ASSUME NEW i \in 1 .. Len(objs), Len(Json(sent.tl[i])) <= ObjBuf
        PROVE  PrintsTrue(objs[i], sent.tl[i])
    <3>1. objs[i] = Cut(Json(sent.tl[i]), ObjBuf)
      BY <2>1 DEF Held
    <3>2. sent.tl[i] \in Status
      <4>1. i \in 1 .. Len(sent.tl)
        BY <2>1, <2>2, Length
      <4> QED BY <2>1, <4>1
    <3> QED BY <2>3, <3>1, <3>2, StatusPrints
  <2>4. /\ sent.error => objs = <<>>
        /\ pc = "done" /\ wire = <<>> => sent.error \/ Len(objs) = Len(sent.tl)
    BY DEF SInv, Complete
  <2> QED BY <2>2, <2>3, <2>4 DEF ShownTrue, PrintsTrue
<1> QED BY <1>1, InitSInv, NextSInv, PTL DEF Spec
=============================================================================
