--------------------------- MODULE AmigaResources ---------------------------
(***************************************************************************)
(* What the programs for the Amiga open and close: the transports of        *)
(* claude/client/claude.c and gemini/gemini.c, conn_open() and conn_close() *)
(* of nostr/nostr.c with its amissl_init() and main(), boing/boing.c and    *)
(* narrator/say.c.  (mastodon.c is in MastodonTimeline.)                    *)
(*                                                                         *)
(* AmigaOS closes nothing for a program that ends: what a program has open  *)
(* and no longer knows of is lost until the machine is reset.  Any call may *)
(* fail, and the user may ask again after a request that failed.            *)
(*                                                                         *)
(* An operator named Slip... is a variant that an editing slip in the code  *)
(* could produce; no action uses it.                                        *)
(***************************************************************************)
EXTENDS Integers, Sequences

CONSTANT MaxRequests   \* bound of the model: requests in one session

ASSUME RequestsAssumption == MaxRequests \in Nat

VARIABLES
  prog,      \* the program and its transport
  pc,        \* "open", "use", "rest" or "exit"
  step,      \* how many of the steps of Steps are done
  held,      \* what is open and has a variable that says so
  closing,   \* what is closed before the program goes on
  lost,      \* what is open although no variable refers to it any more
  requests   \* requests so far

vars == <<prog, pc, step, held, closing, lost, requests>>

-----------------------------------------------------------------------------
Asking == {"claude", "claude_proxy", "gemini", "gemini_proxy"}
Subscribing == {"nostr_wss", "nostr_ws"}
Local == {"boing", "say"}
Programs == Asking \cup Subscribing \cup Local

(* What each program does, in its order, before it can read an answer, draw *)
(* or listen to itself.                                                     *)
Steps ==
  CASE prog = "claude" ->
         <<"key", "bsdsocket", "utility", "master", "version", "amissl", "ready",
           "fits", "ctx", "ssl", "sock", "session", "send">>
    [] prog = "gemini" ->
         <<"bsdsocket", "utility", "master", "version", "amissl", "ready",
           "ctx", "ssl", "sock", "session", "send">>
    [] prog = "nostr_wss" ->
         <<"bsdsocket", "utility", "master", "version", "amissl", "ready",
           "ctx", "ssl", "sock", "session", "send">>
    [] prog \in {"claude_proxy", "gemini_proxy"} ->
         <<"bsdsocket", "fits", "sock", "send">>
    [] prog = "nostr_ws" -> <<"bsdsocket", "sock", "send">>
    [] prog = "boing" -> <<"intuition", "graphics", "screen">>
    [] prog = "say" -> <<"translator", "translate", "port", "nrb", "device", "io">>

(* Steps that open nothing but may fail: the API key, the size of the       *)
(* request, InitAmiSSLMaster(), what is sent once connected (for Nostr the  *)
(* WebSocket handshake too), an empty translation.                          *)
Calls == {"key", "fits", "version", "send", "translate"}

Libraries == {"utility", "master", "amissl", "ready"}
Objects == {"ctx", "ssl", "sock", "session"}

(* amissl_init() *)
SslSteps == Libraries \cup {"version"}

(* What each needs for as long as it is open: "ready" is AmiSSL that has    *)
(* been given SocketBase, "session" a TLS connection that SSL_shutdown()    *)
(* ends, "io" a request that the narrator has not answered.                 *)
Needs(x) ==
  CASE x = "master" -> {"utility"}
    [] x = "amissl" -> {"master"}
    [] x = "ready" -> {"amissl", "bsdsocket"}
    [] x = "ctx" -> {"ready"}
    [] x = "ssl" -> {"ctx"}
    [] x = "sock" -> {"bsdsocket"}
    [] x = "session" -> {"ssl", "sock"}
    [] x = "screen" -> {"intuition", "graphics"}
    [] x = "nrb" -> {"port"}
    [] x = "device" -> {"nrb"}
    [] x = "io" -> {"device", "nrb"}
    [] OTHER -> {}

-----------------------------------------------------------------------------
Upcoming == Steps[step + 1]

SlipSkipsNothing == Upcoming = "bsdsocket" /\ Upcoming \in held

(* "if (g_amissl_ready) return 1", "if (SocketBase) return 1" *)
Skips ==
  \/ Upcoming \in SslSteps /\ "ready" \in held
  \/ Upcoming = "bsdsocket" /\ Upcoming \in held

SkipsNext ==
  /\ pc = "open" /\ step < Len(Steps) /\ Skips
  /\ step' = step + 1
  /\ UNCHANGED <<prog, pc, held, closing, lost, requests>>

(* "if (!IntuitionBase || !GfxBase) return 20": boing tries both. *)
GivesUp ==
  /\ pc = "open" /\ prog = "boing" /\ step = 2 /\ ~({"intuition", "graphics"} \subseteq held)
  /\ lost' = lost \cup held
  /\ held' = {}
  /\ pc' = "exit"
  /\ UNCHANGED <<prog, step, closing, requests>>

Proceeds ==
  /\ pc = "open" /\ step < Len(Steps) /\ ~Skips
  /\ Upcoming = "screen" => {"intuition", "graphics"} \subseteq held

(* A step that succeeds.  What was open under the same name is lost.        *)
OpensNext ==
  /\ Proceeds
  /\ step' = step + 1
  /\ held' = IF Upcoming \in Calls THEN held ELSE held \cup {Upcoming}
  /\ lost' = IF Upcoming \in held THEN lost \cup {Upcoming} ELSE lost
  /\ UNCHANGED <<prog, pc, closing, requests>>

Misses ==
  /\ Proceeds /\ Upcoming \in {"intuition", "graphics"}
  /\ step' = step + 1
  /\ UNCHANGED <<prog, pc, held, closing, lost, requests>>

SlipClosedOnFailure ==
  IF prog \in Local THEN held ELSE IF Upcoming \in SslSteps THEN Libraries ELSE held \cap Objects

(* What a step that fails closes before it returns: amissl_init() what it   *)
(* has opened, a transport its objects, boing and say everything.           *)
ClosedOnFailure ==
  IF prog \in Local THEN held
  ELSE held \cap IF Upcoming \in SslSteps THEN Libraries ELSE Objects

(* conn_open() returns without closing what the connection already has, and *)
(* its caller forgets it.                                                   *)
Forgets == prog \in Subscribing /\ Upcoming \in Objects

Fails ==
  /\ Proceeds /\ Upcoming \notin {"intuition", "graphics", "io"}
  /\ closing' = IF Forgets THEN {} ELSE ClosedOnFailure
  /\ held' = IF Forgets THEN held \ Objects ELSE held
  /\ lost' = IF Forgets THEN lost \cup (held \cap Objects) ELSE lost
  /\ pc' = IF prog \in Local THEN "exit" ELSE "rest"
  /\ UNCHANGED <<prog, step, requests>>

(* Everything is open: the answer, the events, the picture, the speech. *)
Uses ==
  /\ pc = "open" /\ step = Len(Steps)
  /\ pc' = "use"
  /\ UNCHANGED <<prog, step, held, closing, lost, requests>>

(* The peer has closed, the buffer is full, Ctrl-C; the time is over; the   *)
(* narrator has answered.                                                   *)
Ends ==
  /\ pc = "use"
  /\ closing' = IF prog \in Local THEN held ELSE held \cap Objects
  /\ pc' = IF prog \in Local THEN "exit" ELSE "rest"
  /\ UNCHANGED <<prog, step, held, lost, requests>>

SlipCloseOrder ==
  <<"session", "sock", "ssl", "ctx", "ready", "amissl", "master", "utility", "bsdsocket",
    "io", "nrb", "device", "port", "translator", "screen", "graphics", "intuition">>

(* The order in which everything is closed: each function closes what is    *)
(* open of its part of it.                                                  *)
CloseOrder ==
  <<"session", "sock", "ssl", "ctx", "ready", "amissl", "master", "utility", "bsdsocket",
    "io", "device", "nrb", "port", "translator", "screen", "graphics", "intuition">>

Closes ==
  /\ \E i \in 1 .. Len(CloseOrder) :
       /\ CloseOrder[i] \in closing
       /\ \A j \in 1 .. i - 1 : CloseOrder[j] \notin closing
       /\ held' = held \ {CloseOrder[i]}
       /\ closing' = closing \ {CloseOrder[i]}
  /\ UNCHANGED <<prog, pc, step, lost, requests>>

(* The next line at the prompt of claude -i, the next page of gemini; its   *)
(* main() has opened bsdsocket.library.                                     *)
AsksAgain ==
  /\ pc = "rest" /\ closing = {} /\ prog \in Asking /\ requests < MaxRequests
  /\ prog \in {"gemini", "gemini_proxy"} => "bsdsocket" \in held
  /\ pc' = "open" /\ step' = 0
  /\ requests' = requests + 1
  /\ UNCHANGED <<prog, held, closing, lost>>

(* The end of main(): amissl_cleanup(), rtc_net_close(). *)
Leaves ==
  /\ pc = "rest" /\ closing = {}
  /\ closing' = held \cap (Libraries \cup {"bsdsocket"})
  /\ pc' = "exit"
  /\ UNCHANGED <<prog, step, held, lost, requests>>

-----------------------------------------------------------------------------
Init ==
  /\ prog \in Programs
  /\ pc = "open" /\ step = 0
  /\ held = {} /\ closing = {} /\ lost = {}
  /\ requests = 1

Next ==
  \/ SkipsNext \/ OpensNext \/ Misses \/ GivesUp \/ Fails
  \/ Uses \/ Ends \/ Closes \/ AsksAgain \/ Leaves

Spec == Init /\ [][Next]_vars

-----------------------------------------------------------------------------
Resources ==
  Libraries \cup Objects \cup
  {"bsdsocket", "intuition", "graphics", "screen", "translator", "port", "nrb", "device", "io"}

TypeOK ==
  /\ prog \in Programs
  /\ pc \in {"open", "use", "rest", "exit"}
  /\ step \in 0 .. Len(Steps)
  /\ held \subseteq Resources /\ closing \subseteq held /\ lost \subseteq Resources
  /\ requests \in Nat

(* Whichever step fails and however often the user asks again: nothing is   *)
(* closed before what needs it (say.c: "Order matters"), no object of a     *)
(* request outlives it, and a program that ends leaves open only what it    *)
(* has lost (amissl_init(), amissl_post(), amissl_fetch(), proxy_post(),    *)
(* proxy_fetch(), conn_close(), cleanup(), main()).                         *)
Released ==
  /\ \A x \in held : Needs(x) \subseteq held
  /\ pc = "rest" /\ closing = {} => held \cap Objects = {}
  /\ pc = "exit" /\ closing = {} => held = {}

(* What is lost: nothing by claude, gemini, say or nostr without TLS, which *)
(* also never open again what they have open; by nostr, at most the objects *)
(* of one connection that could not be made; by boing, the one library that *)
(* could be opened.                                                         *)
LostOnly ==
  CASE prog = "nostr_wss" ->
         lost # {} => pc \in {"rest", "exit"} /\ lost \in {{"ctx"}, {"ctx", "ssl"}, {"ctx", "ssl", "sock"}}
    [] prog = "boing" -> lost \in {{}, {"intuition"}, {"graphics"}}
    [] OTHER -> lost = {}
=============================================================================
