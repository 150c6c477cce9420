------------------------ MODULE AmigaResourcesProofs ------------------------
(***************************************************************************)
(* TypeOK, Released and LostOnly hold of AmigaResources however often the   *)
(* user asks again.                                                         *)
(*                                                                         *)
(* Nothing is closed before what needs it because whatever needs something  *)
(* that is being closed is being closed as well (Whole), and CloseOrder has *)
(* what is needed later.  Nothing is opened twice because the libraries are *)
(* either all open, and then skipped, or have been opened in this request   *)
(* (InSteps): an amissl_init() that fails leaves none of them (Staged).     *)
(***************************************************************************)
EXTENDS AmigaResources, TLAPS

Network == Libraries \cup Objects \cup {"bsdsocket"}

Opened == {Steps[i] : i \in 1 .. step}

InSteps ==
  pc = "open" =>
    /\ prog # "boing" => \A i \in 1 .. step : Steps[i] \notin Calls => Steps[i] \in held
    /\ \A x \in held : x \in Libraries \cup {"bsdsocket"} \/ x \in Opened
    /\ "ready" \notin held => \A x \in held \cap Libraries : x \in Opened

Whole == \A x \in held : \A y \in Needs(x) : y \in held /\ (y \in closing => x \in closing)

LibrariesWhole == "ready" \in held \/ held \cap Libraries = {}

Staged ==
  /\ prog \notin Local => held \subseteq Network
  /\ prog \in Local => held \cap Network = {}
  /\ pc \in {"open", "use"} => closing = {} /\ lost = {}
  /\ pc = "use" /\ prog \notin Local => LibrariesWhole
  /\ pc = "rest" =>
       /\ prog \notin Local
       /\ held \cap Objects \subseteq closing
       /\ "ready" \notin held => held \cap Libraries \subseteq closing
       /\ "ready" \in held => closing \cap Libraries = {}
  /\ pc = "exit" => held = closing

IInv == TypeOK /\ InSteps /\ Whole /\ Staged /\ LostOnly

-----------------------------------------------------------------------------
(* The tables of Steps. *)
ClaudeTable ==
  /\ Len(Steps) = 13
  /\ Steps[1] = "key" /\ Steps[2] = "bsdsocket" /\ Steps[3] = "utility"
  /\ Steps[4] = "master" /\ Steps[5] = "version" /\ Steps[6] = "amissl"
  /\ Steps[7] = "ready" /\ Steps[8] = "fits" /\ Steps[9] = "ctx"
  /\ Steps[10] = "ssl" /\ Steps[11] = "sock" /\ Steps[12] = "session"
  /\ Steps[13] = "send"

TlsTable ==
  /\ Len(Steps) = 11
  /\ Steps[1] = "bsdsocket" /\ Steps[2] = "utility" /\ Steps[3] = "master"
  /\ Steps[4] = "version" /\ Steps[5] = "amissl" /\ Steps[6] = "ready"
  /\ Steps[7] = "ctx" /\ Steps[8] = "ssl" /\ Steps[9] = "sock"
  /\ Steps[10] = "session" /\ Steps[11] = "send"

ProxyTable ==
  /\ Len(Steps) = 4
  /\ Steps[1] = "bsdsocket" /\ Steps[2] = "fits" /\ Steps[3] = "sock"
  /\ Steps[4] = "send"

WsTable ==
  /\ Len(Steps) = 3
  /\ Steps[1] = "bsdsocket" /\ Steps[2] = "sock" /\ Steps[3] = "send"

BoingTable ==
  /\ Len(Steps) = 3
  /\ Steps[1] = "intuition" /\ Steps[2] = "graphics" /\ Steps[3] = "screen"

SayTable ==
  /\ Len(Steps) = 6
  /\ Steps[1] = "translator" /\ Steps[2] = "translate" /\ Steps[3] = "port"
  /\ Steps[4] = "nrb" /\ Steps[5] = "device" /\ Steps[6] = "io"

LEMMA Tables ==
  /\ prog = "claude" => ClaudeTable
  /\ prog \in {"gemini", "nostr_wss"} => TlsTable
  /\ prog \in {"claude_proxy", "gemini_proxy"} => ProxyTable
  /\ prog = "nostr_ws" => WsTable
  /\ prog = "boing" => BoingTable
  /\ prog = "say" => SayTable
<1>1. prog = "claude" => ClaudeTable
  BY DEF Steps, ClaudeTable
<1>2. prog \in {"gemini", "nostr_wss"} => TlsTable
  BY DEF Steps, TlsTable
<1>3. prog \in {"claude_proxy", "gemini_proxy"} => ProxyTable
  BY DEF Steps, ProxyTable
<1>4. prog = "nostr_ws" => WsTable
  BY DEF Steps, WsTable
<1>5. prog = "boing" => BoingTable
  BY DEF Steps, BoingTable
<1>6. prog = "say" => SayTable
  BY DEF Steps, SayTable
<1> QED BY <1>1, <1>2, <1>3, <1>4, <1>5, <1>6

LEMMA StepsFinite ==
  ASSUME prog \in Programs
  PROVE  Len(Steps) \in Nat
<1>1. CASE ClaudeTable
  BY <1>1 DEF ClaudeTable
<1>2. CASE TlsTable
  BY <1>2 DEF TlsTable
<1>3. CASE ProxyTable
  BY <1>3 DEF ProxyTable
<1>4. CASE WsTable
  BY <1>4 DEF WsTable
<1>5. CASE BoingTable
  BY <1>5 DEF BoingTable
<1>6. CASE SayTable
  BY <1>6 DEF SayTable
<1> QED BY <1>1, <1>2, <1>3, <1>4, <1>5, <1>6, Tables DEF Programs, Asking, Subscribing, Local

(* No program does anything twice. *)
LEMMA Distinct ==
  ASSUME prog \in Programs, NEW i \in 1 .. Len(Steps), NEW j \in 1 .. Len(Steps),
         Steps[i] = Steps[j]
  PROVE  i = j
<1>1. CASE ClaudeTable
  BY <1>1 DEF ClaudeTable
<1>2. CASE TlsTable
  BY <1>2 DEF TlsTable
<1>3. CASE ProxyTable
  BY <1>3 DEF ProxyTable
<1>4. CASE WsTable
  BY <1>4 DEF WsTable
<1>5. CASE BoingTable
  BY <1>5 DEF BoingTable
<1>6. CASE SayTable
  BY <1>6 DEF SayTable
<1> QED BY <1>1, <1>2, <1>3, <1>4, <1>5, <1>6, Tables DEF Programs, Asking, Subscribing, Local

(* Each library or object is opened after what it needs. *)
LEMMA OpensInOrder ==
  ASSUME prog \in Programs, prog # "boing", NEW k \in 0 .. Len(Steps) - 1,
         NEW y \in Needs(Steps[k + 1])
  PROVE  y \notin Calls /\ \E i \in 1 .. k : y = Steps[i]
<1>1. CASE ClaudeTable
  BY <1>1 DEF ClaudeTable, Needs, Calls
<1>2. CASE TlsTable
  BY <1>2 DEF TlsTable, Needs, Calls
<1>3. CASE ProxyTable
  BY <1>3 DEF ProxyTable, Needs, Calls
<1>4. CASE WsTable
  BY <1>4 DEF WsTable, Needs, Calls
<1>5. CASE SayTable
  BY <1>5 DEF SayTable, Needs, Calls
<1> QED BY <1>1, <1>2, <1>3, <1>4, <1>5, Tables DEF Programs, Asking, Subscribing, Local

(* What the steps of each kind of program are. *)
LEMMA StepKinds ==
  ASSUME prog \in Programs, NEW k \in 1 .. Len(Steps)
  PROVE  /\ Steps[k] \in Calls \cup Resources
         /\ prog \notin Local => Steps[k] \in Calls \cup Network
         /\ prog \in Local => Steps[k] \notin Network
         /\ prog = "boing" => Steps[k] \notin Calls
         /\ Steps[k] \in {"intuition", "graphics"} => prog = "boing"
<1>1. ClaudeTable => Steps[k] \in Calls \cup Network
  BY DEF ClaudeTable, Calls, Network, Libraries, Objects
<1>2. TlsTable => Steps[k] \in Calls \cup Network
  BY DEF TlsTable, Calls, Network, Libraries, Objects
<1>3. ProxyTable => Steps[k] \in Calls \cup Network
  BY DEF ProxyTable, Calls, Network, Libraries, Objects
<1>4. WsTable => Steps[k] \in Calls \cup Network
  BY DEF WsTable, Calls, Network, Libraries, Objects
<1>5. BoingTable => /\ Steps[k] \in Resources
                     /\ Steps[k] \notin Network /\ Steps[k] \notin Calls
  BY DEF BoingTable, Calls, Resources, Network, Libraries, Objects
<1>6. SayTable => /\ Steps[k] \in Calls \cup Resources
                   /\ Steps[k] \notin Network /\ Steps[k] \notin {"intuition", "graphics"}
  BY DEF SayTable, Calls, Resources, Network, Libraries, Objects
<1>7. Network \subseteq Resources
  BY DEF Network, Resources
<1>8. CASE prog \notin Local
  <2>1. Steps[k] \in Calls \cup Network
    BY <1>1, <1>2, <1>3, <1>4, <1>8, Tables DEF Programs, Asking, Subscribing
  <2>2. Steps[k] \notin {"intuition", "graphics"}
    BY <2>1 DEF Calls, Network, Libraries, Objects
  <2> QED BY <1>7, <1>8, <2>1, <2>2 DEF Local
<1>9. CASE prog \in Local
  BY <1>5, <1>6, <1>9, Tables DEF Local
<1> QED BY <1>8, <1>9

(* The steps of amissl_init() come before all objects ... *)
LEMMA InitFirst ==
  ASSUME prog \in Programs, NEW k \in 1 .. Len(Steps), NEW i \in 1 .. k,
         Steps[k] \in SslSteps
  PROVE  Steps[i] \notin Objects
<1>1. CASE ClaudeTable
  BY <1>1 DEF ClaudeTable, SslSteps, Libraries, Objects
<1>2. CASE TlsTable
  BY <1>2 DEF TlsTable, SslSteps, Libraries, Objects
<1>3. CASE ProxyTable
  BY <1>3 DEF ProxyTable, SslSteps, Libraries, Objects
<1>4. CASE WsTable
  BY <1>4 DEF WsTable, SslSteps, Libraries, Objects
<1>5. CASE BoingTable
  BY <1>5 DEF BoingTable, SslSteps, Libraries, Objects
<1>6. CASE SayTable
  BY <1>6 DEF SayTable, SslSteps, Libraries, Objects
<1> QED BY <1>1, <1>2, <1>3, <1>4, <1>5, <1>6, Tables DEF Programs, Asking, Subscribing, Local

(* ... and before anything but them is done, all of them are. *)
LEMMA InitWhole ==
  ASSUME prog \in Programs, NEW k \in 0 .. Len(Steps),
         k < Len(Steps) => Steps[k + 1] \notin SslSteps,
         NEW i \in 1 .. k, Steps[i] \in Libraries
  PROVE  \E j \in 1 .. k : Steps[j] = "ready"
<1>1. CASE ClaudeTable
  BY <1>1 DEF ClaudeTable, SslSteps, Libraries
<1>2. CASE TlsTable
  BY <1>2 DEF TlsTable, SslSteps, Libraries
<1>3. CASE ProxyTable
  BY <1>3 DEF ProxyTable, SslSteps, Libraries
<1>4. CASE WsTable
  BY <1>4 DEF WsTable, SslSteps, Libraries
<1>5. CASE BoingTable
  BY <1>5 DEF BoingTable, SslSteps, Libraries
<1>6. CASE SayTable
  BY <1>6 DEF SayTable, SslSteps, Libraries
<1> QED BY <1>1, <1>2, <1>3, <1>4, <1>5, <1>6, Tables DEF Programs, Asking, Subscribing, Local

(* What an object needs is an object, a library or a socket library, and    *)
(* nothing but an object needs an object.                                   *)
LEMMA NeedsKinds ==
  ASSUME NEW x, NEW y \in Needs(x)
  PROVE  /\ y \in Objects => x \in Objects
         /\ y \in Libraries => x \in Libraries \cup Objects
BY DEF Needs, Objects, Libraries

(* CloseOrder has everything, and nothing before what needs it. *)
LEMMA Order ==
  /\ Len(CloseOrder) = 17
  /\ \A x \in Resources : \E i \in 1 .. 17 : CloseOrder[i] = x
  /\ \A i, j \in 1 .. 17 : CloseOrder[i] \in Needs(CloseOrder[j]) => j < i
<1>1. /\ Len(CloseOrder) = 17
      /\ CloseOrder[1] = "session" /\ CloseOrder[2] = "sock" /\ CloseOrder[3] = "ssl"
      /\ CloseOrder[4] = "ctx" /\ CloseOrder[5] = "ready" /\ CloseOrder[6] = "amissl"
      /\ CloseOrder[7] = "master" /\ CloseOrder[8] = "utility"
      /\ CloseOrder[9] = "bsdsocket"
  BY DEF CloseOrder
<1>2. /\ CloseOrder[10] = "io" /\ CloseOrder[11] = "device" /\ CloseOrder[12] = "nrb"
      /\ CloseOrder[13] = "port" /\ CloseOrder[14] = "translator"
      /\ CloseOrder[15] = "screen" /\ CloseOrder[16] = "graphics"
      /\ CloseOrder[17] = "intuition"
  BY DEF CloseOrder
<1>3. \A x \in Resources : \E i \in 1 .. 17 : CloseOrder[i] = x
  BY <1>1, <1>2 DEF Resources, Objects, Libraries
<1>4. ASSUME NEW i \in 1 .. 17, NEW j \in 1 .. 17, CloseOrder[i] \in Needs(CloseOrder[j])
      PROVE  j < i
  <2>1. CASE j \in 1 .. 4
    BY <1>1, <1>2, <1>4, <2>1 DEF Needs
  <2>2. CASE j \in 5 .. 9
    BY <1>1, <1>2, <1>4, <2>2 DEF Needs
  <2>3. CASE j \in 10 .. 17
    BY <1>1, <1>2, <1>4, <2>3 DEF Needs
  <2> QED BY <2>1, <2>2, <2>3
<1> QED BY <1>1, <1>3, <1>4

-----------------------------------------------------------------------------
LEMMA InitIInv == Init => IInv
<1> SUFFICES ASSUME Init PROVE IInv
  OBVIOUS
<1>1. prog \in Programs
  BY DEF Init
<1>2. step \in 0 .. Len(Steps)
  BY <1>1, StepsFinite DEF Init
<1>3. TypeOK
  BY <1>2 DEF Init, TypeOK
<1>4. InSteps /\ Whole
  BY DEF Init, InSteps, Whole
<1>5. Staged
  BY DEF Init, Staged
<1>6. LostOnly
  BY DEF Init, LostOnly
<1> QED BY <1>3, <1>4, <1>5, <1>6 DEF IInv

(* Steps depends on prog alone. *)
LEMMA SameSteps == prog' = prog => Steps' = Steps
BY DEF Steps

(* A library that is open while nothing but amissl_init() can be left to    *)
(* do has AmiSSL above it.                                                  *)
LEMMA AllInitialised ==
  ASSUME IInv, pc = "open", prog \notin Local,
         step < Len(Steps) => Upcoming \notin SslSteps
  PROVE  LibrariesWhole
<1> SUFFICES ASSUME NEW x \in held, x \in Libraries PROVE "ready" \in held
  BY DEF LibrariesWhole
<1> SUFFICES ASSUME "ready" \notin held PROVE FALSE
  OBVIOUS
<1>1. PICK i \in 1 .. step : x = Steps[i]
  BY DEF IInv, InSteps, Opened
<1>2. prog \in Programs /\ step \in 0 .. Len(Steps)
  BY DEF IInv, TypeOK
<1>3. PICK j \in 1 .. step : Steps[j] = "ready"
  BY <1>1, <1>2, InitWhole DEF Upcoming
<1>4. prog # "boing"
  BY DEF Local
<1>5. "ready" \notin Calls
  BY DEF Calls
<1> QED BY <1>3, <1>4, <1>5 DEF IInv, InSteps

LEMMA SkipsKeeps == IInv /\ SkipsNext => IInv'
<1> SUFFICES ASSUME IInv, SkipsNext PROVE IInv'
  OBVIOUS
<1> USE DEF IInv
<1>1. /\ pc = "open" /\ step < Len(Steps) /\ step' = step + 1 /\ Skips
      /\ UNCHANGED <<prog, pc, held, closing, lost, requests>> /\ Steps' = Steps
  BY SameSteps DEF SkipsNext
<1>2. step \in Nat /\ Len(Steps) \in Nat /\ step + 1 \in 1 .. Len(Steps) /\ prog \in Programs
  BY <1>1, StepsFinite DEF TypeOK
<1>3. TypeOK'
  BY <1>1, <1>2 DEF TypeOK
<1>4. Upcoming \in Calls \/ Upcoming \in held
  <2>1. CASE "ready" \in held /\ Upcoming \in SslSteps
    <3>0. /\ "amissl" \in Needs("ready") /\ "master" \in Needs("amissl")
          /\ "utility" \in Needs("master")
      BY DEF Needs
    <3>1. "amissl" \in held
      BY <2>1, <3>0 DEF Whole
    <3>2. "master" \in held
      BY <3>0, <3>1 DEF Whole
    <3>3. "utility" \in held
      BY <3>0, <3>2 DEF Whole
    <3> QED BY <2>1, <3>1, <3>2, <3>3 DEF SslSteps, Libraries, Calls
  <2> QED BY <1>1, <2>1 DEF Skips
<1>5. \A i \in 1 .. step + 1 : i \in 1 .. step \/ i = step + 1
  BY <1>2
<1>6. \A i \in 1 .. step : i \in 1 .. step + 1
  BY <1>2
<1>7. InSteps'
  BY <1>1, <1>4, <1>5, <1>6 DEF InSteps, Opened, Upcoming
<1>8. Whole' /\ Staged' /\ LostOnly'
  BY <1>1 DEF Whole, Staged, LibrariesWhole, LostOnly
<1> QED BY <1>3, <1>7, <1>8

LEMMA OpensKeeps == IInv /\ OpensNext => IInv'
<1> SUFFICES ASSUME IInv, OpensNext PROVE IInv'
  OBVIOUS
<1> USE DEF IInv
<1>1. /\ pc = "open" /\ step < Len(Steps) /\ step' = step + 1 /\ ~Skips
      /\ Upcoming = "screen" => {"intuition", "graphics"} \subseteq held
      /\ UNCHANGED <<prog, pc, closing, requests>> /\ Steps' = Steps
  BY SameSteps DEF OpensNext, Proceeds
<1>2. step \in Nat /\ Len(Steps) \in Nat /\ step + 1 \in 1 .. Len(Steps) /\ prog \in Programs
  BY <1>1, StepsFinite DEF TypeOK
<1>3. /\ Upcoming \in Calls \cup Resources
      /\ prog \notin Local => Upcoming \in Calls \cup Network
      /\ prog \in Local => Upcoming \notin Network
      /\ prog = "boing" => Upcoming \notin Calls
  BY <1>2, StepKinds DEF Upcoming
<1>4. Upcoming \notin held
  <2> SUFFICES ASSUME Upcoming \in held PROVE FALSE
    OBVIOUS
  <2>1. Upcoming \notin Opened
    <3> SUFFICES ASSUME NEW i \in 1 .. step, Steps[step + 1] = Steps[i] PROVE FALSE
      BY DEF Opened, Upcoming
    <3>1. i \in 1 .. Len(Steps) /\ i # step + 1
      BY <1>2
    <3> QED BY <1>2, <3>1, Distinct
  <2>2. Upcoming # "bsdsocket"
    BY <1>1 DEF Skips
  <2>3. Upcoming \in Libraries
    BY <1>1, <2>1, <2>2 DEF InSteps
  <2>4. "ready" \notin held
    BY <1>1, <2>3 DEF Skips, SslSteps
  <2> QED BY <1>1, <2>1, <2>3, <2>4 DEF InSteps
<1>5. /\ Upcoming \in Calls => held' = held
      /\ Upcoming \notin Calls => held' = held \cup {Upcoming}
      /\ lost' = lost
  BY <1>4 DEF OpensNext
<1>6. TypeOK'
  BY <1>1, <1>2, <1>3, <1>5 DEF TypeOK
<1>7. \A i \in 1 .. step + 1 : i \in 1 .. step \/ i = step + 1
  BY <1>2
<1>8. \A i \in 1 .. step : i \in 1 .. step + 1
  BY <1>2
<1>9. InSteps'
  <2>1. step + 1 \in 1 .. step + 1
    BY <1>2
  <2>2. held \subseteq held'
    BY <1>5
  <2>3. prog # "boing" => \A i \in 1 .. step + 1 : Steps[i] \notin Calls => Steps[i] \in held'
    BY <1>1, <1>5, <1>7, <2>2 DEF InSteps, Upcoming
  <2>4. \A x \in held' : x \in held \/ x = Steps[step + 1]
    BY <1>5 DEF Upcoming
  <2>5. Opened \subseteq Opened'
    BY <1>1, <1>8 DEF Opened
  <2>6. Steps[step + 1] \in Opened'
    BY <1>1, <2>1 DEF Opened
  <2>7. \A x \in held' : x \in Libraries \cup {"bsdsocket"} \/ x \in Opened'
    BY <1>1, <2>4, <2>5, <2>6 DEF InSteps
  <2>8. "ready" \notin held' => \A x \in held' \cap Libraries : x \in Opened'
    BY <1>1, <2>2, <2>4, <2>5, <2>6 DEF InSteps
  <2> QED BY <1>1, <2>3, <2>7, <2>8 DEF InSteps
<1>10. Whole'
  <2>1. closing = {} /\ closing' = {}
    BY <1>1 DEF Staged
  <2>2. ASSUME Upcoming \notin Calls, NEW y \in Needs(Upcoming) PROVE y \in held
    <3>1. CASE prog = "boing"
      <4>1. Upcoming \in {"intuition", "graphics", "screen"}
        <5>1. BoingTable
          BY <3>1, Tables
        <5> QED BY <1>2, <5>1 DEF BoingTable, Upcoming
      <4>2. Upcoming = "screen"
        BY <2>2, <4>1 DEF Needs
      <4>3. y \in {"intuition", "graphics"}
        BY <2>2, <4>2 DEF Needs
      <4> QED BY <1>1, <4>2, <4>3
    <3>2. CASE prog # "boing"
      <4>1. step \in 0 .. Len(Steps) - 1
        BY <1>2
      <4>2. y \notin Calls /\ \E i \in 1 .. step : y = Steps[i]
        BY <1>2, <2>2, <3>2, <4>1, OpensInOrder DEF Upcoming
      <4> QED BY <1>1, <3>2, <4>2 DEF InSteps
    <3> QED BY <3>1, <3>2
  <2>3. CASE Upcoming \in Calls
    BY <1>5, <2>1, <2>3 DEF Whole, Needs
  <2>4. CASE Upcoming \notin Calls
    <3>1. held' = held \cup {Upcoming}
      BY <1>5, <2>4
    <3> QED BY <2>1, <2>2, <2>4, <3>1 DEF Whole
  <2> QED BY <2>3, <2>4
<1>11. Staged'
  BY <1>1, <1>3, <1>5 DEF Staged, LibrariesWhole
<1>12. LostOnly'
  BY <1>1, <1>5 DEF LostOnly
<1> QED BY <1>6, <1>9, <1>10, <1>11, <1>12

(* What conn_open() forgets: at most the context, the SSL and the socket.   *)
LEMMA Forgotten ==
  ASSUME IInv, pc = "open", prog \in Subscribing, step < Len(Steps), Upcoming \in Objects
  PROVE  /\ prog = "nostr_ws" => held \cap Objects = {}
         /\ held \cap Objects \in {{}, {"ctx"}, {"ctx", "ssl"}, {"ctx", "ssl", "sock"}}
<1> USE DEF IInv
<1>1. /\ step \in Nat /\ prog # "boing"
      /\ \A x \in held \cap Objects : \E i \in 1 .. step : x = Steps[i]
  BY DEF TypeOK, InSteps, Opened, Objects, Libraries, Subscribing
<1>2. \A i \in 1 .. step : Steps[i] \notin Calls => Steps[i] \in held
  BY <1>1 DEF InSteps
<1>3. CASE prog = "nostr_ws"
  <2>1. WsTable
    BY <1>3, Tables
  <2>2. step = 1
    BY <1>1, <2>1 DEF WsTable, Upcoming, Objects
  <2>3. \A x \in held \cap Objects : x = "bsdsocket"
    BY <1>1, <2>1, <2>2 DEF WsTable
  <2>4. held \cap Objects = {}
    BY <2>3 DEF Objects
  <2> QED BY <2>4
<1>4. CASE prog = "nostr_wss"
  <2>1. TlsTable
    BY <1>4, Tables
  <2>2. step \in {6, 7, 8, 9}
    BY <1>1, <2>1 DEF TlsTable, Upcoming, Objects
  <2>3. \A x \in held \cap Objects : x \in {Steps[i] : i \in 7 .. step}
    <3> SUFFICES ASSUME NEW x \in held \cap Objects PROVE x \in {Steps[i] : i \in 7 .. step}
      OBVIOUS
    <3>1. PICK i \in 1 .. step : x = Steps[i]
      BY <1>1
    <3>2. i \notin 1 .. 6
      BY <2>1, <3>1 DEF TlsTable, Objects
    <3>3. i \in 7 .. step
      BY <2>2, <3>1, <3>2
    <3> QED BY <3>1, <3>3
  <2>4. CASE step = 6
    BY <2>3, <2>4
  <2>5. CASE step = 7
    <3>1. held \cap Objects \subseteq {"ctx"}
      BY <2>1, <2>3, <2>5 DEF TlsTable
    <3> QED BY <1>4, <3>1
  <2>6. CASE step = 8
    <3>1. held \cap Objects \subseteq {"ctx", "ssl"}
      BY <2>1, <2>3, <2>6 DEF TlsTable
    <3>2. 7 \in 1 .. step /\ 8 \in 1 .. step
      BY <2>6
    <3>3. {"ctx", "ssl"} \subseteq held \cap Objects
      BY <1>2, <2>1, <3>2 DEF TlsTable, Calls, Objects
    <3> QED BY <1>4, <3>1, <3>3
  <2>7. CASE step = 9
    <3>1. held \cap Objects \subseteq {"ctx", "ssl", "sock"}
      BY <2>1, <2>3, <2>7 DEF TlsTable
    <3>2. 7 \in 1 .. step /\ 8 \in 1 .. step /\ 9 \in 1 .. step
      BY <2>7
    <3>3. {"ctx", "ssl", "sock"} \subseteq held \cap Objects
      BY <1>2, <2>1, <3>2 DEF TlsTable, Calls, Objects
    <3> QED BY <1>4, <3>1, <3>3
  <2> QED BY <1>4, <2>2, <2>4, <2>5, <2>6, <2>7
<1> QED BY <1>3, <1>4 DEF Subscribing

LEMMA FailsKeeps == IInv /\ Fails => IInv'
<1> SUFFICES ASSUME IInv, Fails PROVE IInv'
  OBVIOUS
<1> USE DEF IInv
<1>1. /\ pc = "open" /\ step < Len(Steps) /\ ~Skips /\ closing = {} /\ lost = {}
      /\ UNCHANGED <<prog, step, requests>> /\ Steps' = Steps
      /\ closing' = IF Forgets THEN {} ELSE ClosedOnFailure
      /\ held' = IF Forgets THEN held \ Objects ELSE held
      /\ lost' = IF Forgets THEN lost \cup (held \cap Objects) ELSE lost
      /\ pc' = IF prog \in Local THEN "exit" ELSE "rest"
  BY SameSteps DEF Fails, Proceeds, Staged
<1>2. step \in Nat /\ Len(Steps) \in Nat /\ step + 1 \in 1 .. Len(Steps) /\ prog \in Programs
  BY <1>1, StepsFinite DEF TypeOK
<1>3. Local \cap Subscribing = {}
  BY DEF Local, Subscribing
<1>4. CASE prog \in Local
  <2>1. closing' = held /\ held' = held /\ lost' = lost /\ pc' = "exit"
    BY <1>1, <1>3, <1>4 DEF Forgets, ClosedOnFailure
  <2>2. TypeOK'
    BY <1>1, <2>1 DEF TypeOK
  <2>3. Whole'
    BY <2>1 DEF Whole
  <2>4. InSteps' /\ Staged'
    BY <1>1, <1>4, <2>1 DEF InSteps, Staged
  <2>5. LostOnly'
    BY <1>1, <2>1 DEF LostOnly
  <2> QED BY <2>2, <2>3, <2>4, <2>5
<1>5. CASE prog \notin Local /\ Forgets
  <2>1. /\ closing' = {} /\ held' = held \ Objects /\ lost' = held \cap Objects
        /\ pc' = "rest" /\ prog \in Subscribing /\ Upcoming \in Objects
    BY <1>1, <1>5 DEF Forgets
  <2>2. TypeOK'
    BY <1>1, <2>1 DEF TypeOK
  <2>3. Whole'
    <3> SUFFICES ASSUME NEW x \in held, x \notin Objects, NEW y \in Needs(x)
                 PROVE  y \in held \ Objects
      BY <2>1 DEF Whole
    <3> QED BY NeedsKinds DEF Whole
  <2>4. Upcoming \notin SslSteps
    BY <2>1 DEF SslSteps, Libraries, Objects
  <2>5. LibrariesWhole
    BY <1>1, <1>5, <2>4, AllInitialised
  <2>6. "ready" \notin held' => held' \cap Libraries = {}
    BY <2>1, <2>5 DEF LibrariesWhole, Libraries, Objects
  <2>7. InSteps' /\ Staged'
    BY <1>1, <1>5, <2>1, <2>6 DEF InSteps, Staged
  <2>8. LostOnly'
    <3>1. /\ prog = "nostr_ws" => held \cap Objects = {}
          /\ held \cap Objects \in {{}, {"ctx"}, {"ctx", "ssl"}, {"ctx", "ssl", "sock"}}
      BY <1>1, <2>1, Forgotten
    <3>2. CASE prog = "nostr_ws"
      <4>1. lost' = {}
        BY <2>1, <3>1, <3>2
      <4> QED BY <1>1, <3>2, <4>1 DEF LostOnly
    <3>3. CASE prog = "nostr_wss"
      <4>1. lost' \in {{}, {"ctx"}, {"ctx", "ssl"}, {"ctx", "ssl", "sock"}}
        BY <2>1, <3>1
      <4> QED BY <1>1, <2>1, <3>3, <4>1 DEF LostOnly
    <3> QED BY <2>1, <3>2, <3>3 DEF Subscribing
  <2> QED BY <2>2, <2>3, <2>7, <2>8
<1>6. CASE prog \notin Local /\ ~Forgets /\ Upcoming \in SslSteps
  <2>1. closing' = held \cap Libraries /\ held' = held /\ lost' = {} /\ pc' = "rest"
    BY <1>1, <1>6 DEF ClosedOnFailure
  <2>2. held \cap Objects = {}
    <3> SUFFICES ASSUME NEW x \in held, x \in Objects PROVE FALSE
      OBVIOUS
    <3>1. x \in Opened
      BY <1>1 DEF InSteps, Objects, Libraries
    <3>2. PICK i \in 1 .. step : x = Steps[i]
      BY <3>1 DEF Opened
    <3>3. i \in 1 .. step + 1
      BY <1>2
    <3> QED BY <1>2, <1>6, <3>2, <3>3, InitFirst DEF Upcoming
  <2>3. TypeOK'
    BY <1>1, <2>1 DEF TypeOK
  <2>4. Whole'
    BY <2>1, <2>2, NeedsKinds DEF Whole
  <2>5. "ready" \notin held
    BY <1>1, <1>6 DEF Skips
  <2>6. InSteps' /\ Staged'
    BY <1>1, <1>6, <2>1, <2>2, <2>5 DEF InSteps, Staged
  <2>7. LostOnly'
    BY <2>1 DEF LostOnly
  <2> QED BY <2>3, <2>4, <2>6, <2>7
<1>7. CASE prog \notin Local /\ ~Forgets /\ Upcoming \notin SslSteps
  <2>1. closing' = held \cap Objects /\ held' = held /\ lost' = {} /\ pc' = "rest"
    BY <1>1, <1>7 DEF ClosedOnFailure
  <2>2. TypeOK'
    BY <1>1, <2>1 DEF TypeOK
  <2>3. Whole'
    BY <2>1, NeedsKinds DEF Whole
  <2>4. LibrariesWhole
    BY <1>1, <1>7, AllInitialised
  <2>5. Objects \cap Libraries = {}
    BY DEF Objects, Libraries
  <2>6. InSteps' /\ Staged'
    BY <1>1, <1>7, <2>1, <2>4, <2>5 DEF InSteps, Staged, LibrariesWhole
  <2>7. LostOnly'
    BY <2>1 DEF LostOnly
  <2> QED BY <2>2, <2>3, <2>6, <2>7
<1> QED BY <1>4, <1>5, <1>6, <1>7

LEMMA ClosesKeeps == IInv /\ Closes => IInv'
<1> SUFFICES ASSUME IInv, Closes PROVE IInv'
  OBVIOUS
<1> USE DEF IInv
<1>1. PICK i \in 1 .. Len(CloseOrder) :
        /\ CloseOrder[i] \in closing
        /\ \A j \in 1 .. i - 1 : CloseOrder[j] \notin closing
        /\ held' = held \ {CloseOrder[i]}
        /\ closing' = closing \ {CloseOrder[i]}
  BY DEF Closes
<1>2. UNCHANGED <<prog, pc, step, lost, requests>> /\ i \in 1 .. 17 /\ Steps' = Steps
  BY <1>1, Order, SameSteps DEF Closes
<1>3. ASSUME NEW x \in held, CloseOrder[i] \in Needs(x) PROVE x = CloseOrder[i]
  <2>1. x \in closing
    BY <1>1, <1>3 DEF Whole
  <2>2. PICK j \in 1 .. 17 : CloseOrder[j] = x
    BY Order DEF TypeOK
  <2>3. j < i
    BY <1>2, <1>3, <2>2, Order
  <2>4. j \in 1 .. i - 1
    BY <1>2, <2>2, <2>3
  <2> QED BY <1>1, <2>1, <2>2, <2>4
<1>4. Whole'
  BY <1>1, <1>3 DEF Whole
<1>5. TypeOK'
  BY <1>1, <1>2 DEF TypeOK
<1>6. pc \in {"rest", "exit"}
  BY <1>1 DEF Staged, TypeOK
<1>7. InSteps'
  BY <1>2, <1>6 DEF InSteps
<1>8. LostOnly'
  BY <1>2 DEF LostOnly
<1>9. Staged'
  <2>1. \A x \in held' : x \in held /\ (x \in closing => x \in closing')
    BY <1>1
  <2>2. closing' \subseteq closing /\ ("ready" \in held => "ready" \in held' \/ "ready" \in closing)
    BY <1>1
  <2>3. CASE pc = "rest"
    <3>1. /\ prog \notin Local /\ held' \cap Objects \subseteq closing'
          /\ held' \subseteq Network
      BY <2>1, <2>3 DEF Staged
    <3>2. "ready" \notin held' => "ready" \notin held
      BY <2>2, <2>3 DEF Staged, Libraries
    <3>3. /\ "ready" \notin held' => held' \cap Libraries \subseteq closing'
          /\ "ready" \in held' => closing' \cap Libraries = {}
      BY <2>1, <2>2, <2>3, <3>2 DEF Staged
    <3> QED BY <1>2, <2>3, <3>1, <3>3 DEF Staged
  <2>4. CASE pc = "exit"
    <3>1. held' = closing'
      BY <1>1, <2>4 DEF Staged
    <3> QED BY <1>2, <2>1, <2>4, <3>1 DEF Staged
  <2> QED BY <1>6, <2>3, <2>4
<1> QED BY <1>4, <1>5, <1>7, <1>8, <1>9

LEMMA NextIInv == IInv /\ [Next]_vars => IInv'
<1> SUFFICES ASSUME IInv, [Next]_vars PROVE IInv'
  OBVIOUS
<1> USE DEF IInv
<1>1. CASE SkipsNext \/ OpensNext \/ Fails \/ Closes
  BY <1>1, SkipsKeeps, OpensKeeps, FailsKeeps, ClosesKeeps
<1>2. CASE Misses
  <2>1. /\ pc = "open" /\ step < Len(Steps) /\ step' = step + 1
        /\ Steps[step + 1] \in {"intuition", "graphics"}
        /\ UNCHANGED <<prog, pc, held, closing, lost, requests>> /\ Steps' = Steps
    BY <1>2, SameSteps DEF Misses, Proceeds, Upcoming
  <2>2. step \in Nat /\ Len(Steps) \in Nat /\ step + 1 \in 1 .. Len(Steps)
    BY <2>1, StepsFinite DEF TypeOK
  <2>3. prog = "boing"
    BY <2>1, <2>2, StepKinds DEF TypeOK
  <2>4. TypeOK'
    BY <2>1, <2>2 DEF TypeOK
  <2>5. Opened \subseteq Opened'
    BY <2>1, <2>2 DEF Opened
  <2>6. InSteps'
    BY <2>1, <2>3, <2>5 DEF InSteps
  <2>7. Whole' /\ Staged' /\ LostOnly'
    BY <2>1 DEF Whole, Staged, LibrariesWhole, LostOnly
  <2> QED BY <2>4, <2>6, <2>7
<1>3. CASE GivesUp
  <2>1. /\ pc = "open" /\ prog = "boing" /\ step = 2 /\ lost = {} /\ closing = {}
        /\ ~({"intuition", "graphics"} \subseteq held)
        /\ lost' = held /\ held' = {} /\ closing' = {} /\ pc' = "exit"
        /\ UNCHANGED <<prog, step, requests>> /\ Steps' = Steps
    BY <1>3, SameSteps DEF GivesUp, Staged
  <2>2. \A x \in held : x \in Opened
    BY <2>1 DEF InSteps, Staged, Network, Local
  <2>3. Opened = {"intuition", "graphics"}
    <3>1. BoingTable
      BY <2>1, Tables
    <3> QED BY <2>1, <3>1 DEF BoingTable, Opened
  <2>4. held \in {{}, {"intuition"}, {"graphics"}}
    BY <2>1, <2>2, <2>3
  <2>5. TypeOK'
    BY <2>1 DEF TypeOK
  <2>6. InSteps' /\ Whole' /\ Staged'
    BY <2>1 DEF InSteps, Whole, Staged
  <2>7. LostOnly'
    BY <2>1, <2>4 DEF LostOnly
  <2> QED BY <2>5, <2>6, <2>7
<1>4. CASE Uses
  <2>1. /\ pc = "open" /\ step = Len(Steps) /\ pc' = "use" /\ closing = {} /\ lost = {}
        /\ UNCHANGED <<prog, step, held, closing, lost, requests>> /\ Steps' = Steps
    BY <1>4, SameSteps DEF Uses, Staged
  <2>2. prog \notin Local => LibrariesWhole
    BY <2>1, StepsFinite, AllInitialised DEF TypeOK
  <2>3. TypeOK'
    BY <2>1 DEF TypeOK
  <2>4. InSteps' /\ Whole' /\ Staged'
    BY <2>1, <2>2 DEF InSteps, Whole, Staged, LibrariesWhole
  <2>5. LostOnly'
    BY <2>1 DEF LostOnly
  <2> QED BY <2>3, <2>4, <2>5
<1>5. CASE Ends
  <2>1. /\ pc = "use" /\ closing = {} /\ lost = {}
        /\ closing' = IF prog \in Local THEN held ELSE held \cap Objects
        /\ pc' = IF prog \in Local THEN "exit" ELSE "rest"
        /\ UNCHANGED <<prog, step, held, lost, requests>> /\ Steps' = Steps
    BY <1>5, SameSteps DEF Ends, Staged
  <2>2. TypeOK'
    BY <2>1 DEF TypeOK
  <2>3. Whole'
    <3>1. CASE prog \in Local
      BY <2>1, <3>1 DEF Whole
    <3>2. CASE prog \notin Local
      <4>1. closing' = held \cap Objects /\ held' = held
        BY <2>1, <3>2
      <4> QED BY <4>1, NeedsKinds DEF Whole
    <3> QED BY <3>1, <3>2
  <2>4. Objects \cap Libraries = {}
    BY DEF Objects, Libraries
  <2>5. InSteps' /\ Staged'
    BY <2>1, <2>4 DEF InSteps, Staged, LibrariesWhole
  <2>6. LostOnly'
    BY <2>1 DEF LostOnly
  <2> QED BY <2>2, <2>3, <2>5, <2>6
<1>6. CASE AsksAgain
  <2>1. /\ pc = "rest" /\ closing = {} /\ prog \in Asking /\ pc' = "open" /\ step' = 0
        /\ requests' = requests + 1
        /\ UNCHANGED <<prog, held, closing, lost>> /\ Steps' = Steps
    BY <1>6, SameSteps DEF AsksAgain
  <2>2. held \cap Objects = {} /\ held \subseteq Network /\ prog \notin Local
    BY <2>1 DEF Staged
  <2>3. "ready" \notin held => held \cap Libraries = {}
    BY <2>1 DEF Staged
  <2>4. lost = {}
    BY <2>1 DEF LostOnly, Asking
  <2>5. TypeOK'
    BY <2>1, StepsFinite DEF TypeOK
  <2>6. InSteps'
    BY <2>1, <2>2, <2>3 DEF InSteps, Network
  <2>7. Whole' /\ Staged' /\ LostOnly'
    BY <2>1, <2>2, <2>4 DEF Whole, Staged, LostOnly
  <2> QED BY <2>5, <2>6, <2>7
<1>7. CASE Leaves
  <2>1. /\ pc = "rest" /\ pc' = "exit" /\ closing = {}
        /\ closing' = held \cap (Libraries \cup {"bsdsocket"})
        /\ UNCHANGED <<prog, step, held, lost, requests>> /\ Steps' = Steps
    BY <1>7, SameSteps DEF Leaves
  <2>2. closing' = held
    BY <2>1 DEF Staged, Network
  <2>3. TypeOK'
    BY <2>1, <2>2 DEF TypeOK
  <2>4. InSteps' /\ Whole' /\ Staged'
    BY <2>1, <2>2 DEF InSteps, Whole, Staged
  <2>5. LostOnly'
    BY <2>1 DEF LostOnly
  <2> QED BY <2>3, <2>4, <2>5
<1>8. CASE UNCHANGED vars
  <2>1. UNCHANGED <<prog, pc, step, held, closing, lost, requests>> /\ Steps' = Steps
    BY <1>8, SameSteps DEF vars
  <2>2. Opened' = Opened
    BY <2>1 DEF Opened
  <2> QED BY <2>1, <2>2 DEF TypeOK, InSteps, Whole, Staged, LibrariesWhole, LostOnly
<1> QED BY <1>1, <1>2, <1>3, <1>4, <1>5, <1>6, <1>7, <1>8 DEF Next

LEMMA Inductive == Spec => []IInv
<1> QED BY InitIInv, NextIInv, PTL DEF Spec

(* What is closing is open, what is open is known to the program: the types *)
(* of every program and every session.                                      *)
THEOREM TypeCorrect == Spec => []TypeOK
<1>1. IInv => TypeOK
  BY DEF IInv
<1> QED BY <1>1, Inductive, PTL

(* Whichever step fails and however often the user asks again: nothing is   *)
(* closed before what needs it, no object outlives its request, a program   *)
(* that ends leaves nothing open but what it has lost (amissl_init(),       *)
(* amissl_post(), amissl_fetch(), conn_close(), cleanup(), main()).         *)
THEOREM AllReleased == Spec => []Released
<1>1. IInv => Released
  <2> SUFFICES ASSUME IInv PROVE Released
    OBVIOUS
  <2>1. \A x \in held : Needs(x) \subseteq held
    BY DEF IInv, Whole
  <2> QED BY <2>1 DEF IInv, Staged, Released
<1> QED BY <1>1, Inductive, PTL

(* claude, gemini, say and nostr without TLS lose nothing and open nothing  *)
(* twice; nostr loses at most one connection's objects, boing one library.  *)
THEOREM NothingElseLost == Spec => []LostOnly
<1>1. IInv => LostOnly
  BY DEF IInv
<1> QED BY <1>1, Inductive, PTL
=============================================================================
