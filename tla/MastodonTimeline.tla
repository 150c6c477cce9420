-------------------------- MODULE MastodonTimeline --------------------------
(***************************************************************************)
(* "mastodon timeline" (mastodon/mastodon.c): main(), do_timeline() and the*)
(* two transports, from the libraries that are opened to the statuses that *)
(* are printed.                                                            *)
(*                                                                         *)
(* Any library, object or call may fail, and the answer may end at any     *)
(* byte.  The instance answers with statuses or an error; its answer may be*)
(* chunked.  Dechunk() reads past the end of resp[] when a chunked answer  *)
(* is longer than that; what it finds there the model cannot say, and such *)
(* answers are left out.                                                   *)
(*                                                                         *)
(* An operator named Slip... is a variant that an editing slip in the code *)
(* could produce; no action uses it.                                       *)
(***************************************************************************)
EXTENDS MastodonText, FiniteSets

CONSTANTS
  Alphabet,     \* letters of texts and names
  Timelines,    \* sequences of statuses that the instance may send
  ChunkSizes,   \* lengths of chunks; the last chunk may be shorter
  SizeText,     \* how a length is written on the wire
  RespBuf,      \* RESPBUF - 1
  ObjBuf,       \* OBJBUF - 1
  AccObjBuf,    \* ACCOBJBUF - 1
  ContentBuf,   \* CONTENTBUF - 4
  StripBuf      \* STRIPBUF - 1

ASSUME BufAssumption ==
  /\ {RespBuf, ObjBuf, AccObjBuf, ContentBuf, StripBuf} \subseteq Nat
  /\ ChunkSizes \subseteq Nat \ {0}

Members == {"content:", "reblog:", "account:", "acct:", "fields:"}

Status ==
  [by : Alphabet, boosts : BOOLEAN, author : Alphabet, text : Seq(Alphabet),
   accountFirst : BOOLEAN]

ASSUME TimelinesAssumption ==
  /\ Timelines \subseteq Seq(Status)
  /\ Alphabet \cap Members = {}

(* Two lengths are written differently, and not as the end of a line. *)
ASSUME SizeTextAssumption ==
  /\ \A m, n \in 0 .. RespBuf : SizeText[m] = SizeText[n] => m = n
  /\ \A n \in 0 .. RespBuf : SizeText[n] # "crlf"

(* accobj[] holds a name, and text[] all of what raw_content[] decodes to.  *)
ASSUME FitsAssumption ==
  AccObjBuf >= 6 /\ ContentBuf >= 1 /\ StripBuf >= ContentBuf

VARIABLES
  pc,       \* "open", "read", "parse", "show", "cleanup" or "done"
  proxy,    \* g_use_proxy
  step,     \* how many of the steps of Opens are done
  held,     \* libraries and objects that are open
  closing,  \* what is closed before the client goes on
  sent,     \* what the instance sends
  wire,     \* the letters of it that have not been read
  resp,     \* resp[]
  body,     \* the body, without chunks
  at,       \* p of do_timeline()
  objs      \* what obj[] held for each status that was printed

netVars == <<sent, wire, resp>>
textVars == <<body, at, objs>>
vars == <<pc, proxy, step, held, closing, netVars, textVars>>

-----------------------------------------------------------------------------
(* The instance.                                                            *)

Escaped(l) == IF l \in {"q", "bs"} THEN <<"bs", l>> ELSE <<l>>

Quoted(s) ==
  <<"q">> \o FlattenSeq([i \in 1 .. Len(s) |-> Escaped(s[i])]) \o <<"q">>

Marked(l) ==
  CASE l = "<" -> <<"&", "lt">>
    [] l = "&" -> <<"&", "amp">>
    [] l = "nl" -> <<"<", "br", ">">>
    [] OTHER -> <<l>>

Html(s) ==
  <<"<", "p", ">">> \o FlattenSeq([i \in 1 .. Len(s) |-> Marked(s[i])])
  \o <<"<", "/p", ">">>

Object(members) == <<"ob">> \o members \o <<"cb">>

Account(name) ==
  <<"account:">> \o
  Object(<<"acct:">> \o Quoted(<<name>>) \o <<"fields:", "[">> \o Object(<<>>) \o <<"]">>)

(* A status; a boost has a status within, and members in either order.      *)
Content(s) == <<"content:">> \o Quoted(IF s.boosts THEN <<>> ELSE Html(s.text))

Boosted(s) ==
  Object(<<"content:">> \o Quoted(Html(s.text)) \o <<"reblog:", "null">> \o Account(s.author))

Reblog(s) == <<"reblog:">> \o (IF s.boosts THEN Boosted(s) ELSE <<"null">>)

Json(s) ==
  Object(Content(s) \o IF s.accountFirst THEN Account(s.by) \o Reblog(s)
                       ELSE Reblog(s) \o Account(s.by))

JsonAll(tl) == <<"[">> \o FlattenSeq([i \in 1 .. Len(tl) |-> Json(tl[i])]) \o <<"]">>

(* A chunk is its size, the end of that line, its letters, the end of line; *)
(* this is the chunk that begins with the i-th letter.                      *)
Chunk(s, n, i) ==
  LET last == IF i + n - 1 <= Len(s) THEN i + n - 1 ELSE Len(s)
  IN <<SizeText[last - i + 1], "crlf">> \o SubSeq(s, i, last) \o <<"crlf">>

Chunked(s, n) ==
  FlattenSeq([k \in 1 .. (Len(s) + n - 1) \div n |-> Chunk(s, n, (k - 1) * n + 1)])
  \o <<SizeText[0], "crlf", "crlf">>

(* The answer on the wire: status line, header, blank line, body.  The      *)
(* bridge sends no chunks.                                                  *)
Answers ==
  [tl : Timelines, error : BOOLEAN, chunk : ChunkSizes \cup {0}]

AnswerBody(a) == IF a.error THEN <<"error">> ELSE JsonAll(a.tl)

Wire(a) ==
  <<IF a.error THEN "500" ELSE "200">> \o
  (IF a.chunk = 0 THEN <<"blank">> \o AnswerBody(a)
   ELSE <<"chunked", "blank">> \o Chunked(AnswerBody(a), a.chunk))

-----------------------------------------------------------------------------
(* The client: transports.                                                  *)

(* What a transport opens, in its order: net_open(), and for AmiSSL the     *)
(* steps of amissl_init() and amissl_request().  "call" is a call that      *)
(* opens nothing but may fail.                                              *)
Opens ==
  IF proxy THEN <<"bsdsocket", "sock", "call">>
  ELSE <<"bsdsocket", "utility", "master", "call", "amissl", "ready", "ctx", "ssl",
         "sock", "call", "call">>

(* What each needs for as long as it is open. *)
Needs(x) ==
  CASE x \in {"bsdsocket", "utility"} -> {}
    [] x = "master" -> {"utility"}
    [] x = "amissl" -> {"master"}
    [] x = "ready" -> {"amissl", "bsdsocket"}
    [] x = "ctx" -> {"ready"}
    [] x = "ssl" -> {"ctx"}
    [] x = "sock" -> {"bsdsocket"}

Objects == {"ctx", "ssl", "sock"}
Libraries == {"utility", "master", "amissl", "ready"}

OpensNext ==
  /\ pc = "open" /\ step < Len(Opens)
  /\ step' = step + 1
  /\ held' = IF Opens[step'] = "call" THEN held ELSE held \cup {Opens[step']}
  /\ UNCHANGED <<pc, proxy, closing, netVars, textVars>>

SlipCloseOrder ==
  <<"sock", "ssl", "ctx", "ready", "master", "amissl", "utility", "bsdsocket">>

(* The order in which everything is closed; each function closes what is    *)
(* open of its part of it.                                                  *)
CloseOrder ==
  <<"sock", "ssl", "ctx", "ready", "amissl", "master", "utility", "bsdsocket">>

(* The request, or a buffer for it, is too long, or a step fails: "request  *)
(* failed".  A transport closes its own objects; amissl_init() also closes  *)
(* what it has opened, unless utility.library is what fails.                *)
OpenFails ==
  /\ pc = "open" /\ step < Len(Opens)
  /\ closing' = held \cap IF ~proxy /\ step \in 2 .. 5 THEN Libraries ELSE Objects
  /\ pc' = "cleanup"
  /\ UNCHANGED <<proxy, step, held, netVars, textVars>>

(* The request is sent, and the instance chooses its answer. *)
Requests ==
  /\ pc = "open" /\ step = Len(Opens)
  /\ sent' \in {a \in Answers : /\ proxy => a.chunk = 0
                                /\ a.chunk # 0 => Len(Wire(a)) <= RespBuf}
  /\ wire' = Wire(sent')
  /\ pc' = "read"
  /\ UNCHANGED <<proxy, step, held, closing, resp, textVars>>

SlipReads ==
  /\ pc = "read" /\ wire # <<>> /\ Len(resp) <= RespBuf
  /\ resp' = Append(resp, Head(wire))
  /\ wire' = Tail(wire)
  /\ UNCHANGED <<pc, proxy, step, held, closing, sent, textVars>>

(* recv() or SSL_read(), up to the size of resp[].  (A read of several      *)
(* letters is several of these.)                                            *)
Reads ==
  /\ pc = "read" /\ wire # <<>> /\ Len(resp) < RespBuf
  /\ resp' = Append(resp, Head(wire))
  /\ wire' = Tail(wire)
  /\ UNCHANGED <<pc, proxy, step, held, closing, sent, textVars>>

SlipReadEnds ==
  /\ pc = "read" /\ Len(resp) = RespBuf
  /\ closing' = held \cap Objects
  /\ pc' = "parse"
  /\ UNCHANGED <<proxy, step, held, netVars, textVars>>

(* The buffer is full, or the answer or the connection has ended. *)
ReadEnds ==
  /\ pc = "read"
  /\ closing' = held \cap Objects
  /\ pc' = "parse"
  /\ UNCHANGED <<proxy, step, held, netVars, textVars>>

(* One of the calls that close something. *)
Closes ==
  /\ \E i \in 1 .. Len(CloseOrder) :
       /\ CloseOrder[i] \in closing
       /\ \A j \in 1 .. i - 1 : CloseOrder[j] \notin closing
       /\ held' = held \ {CloseOrder[i]}
       /\ closing' = closing \ {CloseOrder[i]}
  /\ UNCHANGED <<pc, proxy, step, netVars, textVars>>

-----------------------------------------------------------------------------
(* The client: do_timeline().                                               *)

AfterBreaks(s, p) ==
  CHOOSE i \in p .. Len(s) + 1 :
    /\ i = Len(s) + 1 \/ s[i] # "crlf"
    /\ \A j \in p .. i - 1 : s[j] = "crlf"

(* rc_strtoul(): 0 for what is no size. *)
SizeOf(l) ==
  IF \E n \in 1 .. RespBuf : SizeText[n] = l
  THEN CHOOSE n \in 1 .. RespBuf : SizeText[n] = l ELSE 0

(* dechunk_in_place(), from p on: a size that is 0, or whose line is not    *)
(* complete, ends the body; so does the NUL at the end of a chunk that is   *)
(* not.                                                                     *)
Dechunk(s, p) ==
  LET from[i \in 1 .. Len(s) + 1] ==
        IF i >= Len(s) \/ s[i + 1] # "crlf" \/ SizeOf(s[i]) = 0 THEN <<>>
        ELSE LET end == i + 1 + SizeOf(s[i])
             IN IF end >= Len(s) THEN SubSeq(s, i + 2, Len(s))
                ELSE SubSeq(s, i + 2, end) \o from[AfterBreaks(s, end + 1)]
  IN from[p]

(* http_body(), http_status(), header_has_chunked().  Without a body, or    *)
(* with an error, a message is all there is.                                *)
Parses ==
  /\ pc = "parse" /\ closing = {}
  /\ LET blank == First(resp, 1, {"blank"})
     IN IF blank > Len(resp) \/ resp[1] = "500"
        THEN pc' = "cleanup" /\ UNCHANGED body
        ELSE /\ pc' = "show"
             /\ body' = IF First(resp, 1, {"chunked"}) < blank
                        THEN Dechunk(resp, blank + 1)
                        ELSE SubSeq(resp, blank + 1, Len(resp))
  /\ UNCHANGED <<proxy, step, held, closing, netVars, at, objs>>

(* parse_status(): a boost is read through to the status within.            *)
ParseStatus(obj) ==
  LET inner == Cut(RawSpan(obj, "reblog:"), ObjBuf)
      target == IF inner # <<>> THEN inner ELSE obj
      account == Cut(RawSpan(target, "account:"), AccObjBuf)
  IN [acct |-> JsonString(account, "acct:", ContentBuf),
      text |-> HtmlStrip(JsonString(target, "content:", ContentBuf), StripBuf),
      boost |-> inner # <<>>]

Shows ==
  /\ pc = "show"
  /\ LET o == NextObj(body, at, ObjBuf)
     IN /\ o.found
        /\ objs' = Append(objs, o.obj)
        /\ at' = o.next
  /\ UNCHANGED <<pc, proxy, step, held, closing, netVars, body>>

EndsShow ==
  /\ pc = "show" /\ ~NextObj(body, at, ObjBuf).found
  /\ pc' = "cleanup"
  /\ UNCHANGED <<proxy, step, held, closing, netVars, textVars>>

(* The end of main(): amissl_cleanup(), then net_close(). *)
CleansUp ==
  /\ pc = "cleanup" /\ closing = {}
  /\ closing' = held \cap (Libraries \cup {"bsdsocket"})
  /\ pc' = "done"
  /\ UNCHANGED <<proxy, step, held, netVars, textVars>>

-----------------------------------------------------------------------------
NoAnswer == [tl |-> <<>>, error |-> FALSE, chunk |-> 0]

Init ==
  /\ pc = "open" /\ proxy \in BOOLEAN /\ step = 0
  /\ held = {} /\ closing = {}
  /\ sent = NoAnswer /\ wire = <<>> /\ resp = <<>>
  /\ body = <<>> /\ at = 1 /\ objs = <<>>

Client ==
  OpensNext \/ OpenFails \/ Requests \/ ReadEnds \/ Closes \/ Parses \/ Shows
  \/ EndsShow \/ CleansUp

Next == Client \/ Reads

Spec == Init /\ [][Next]_vars

(* The program does not stop by itself, and an answer ends: the instance    *)
(* closes the connection, as "Connection: close" asks.                      *)
FairSpec == Spec /\ WF_vars(Client)

-----------------------------------------------------------------------------
TypeOK ==
  /\ pc \in {"open", "read", "parse", "show", "cleanup", "done"}
  /\ proxy \in BOOLEAN
  /\ step \in 0 .. Len(Opens)
  /\ held \subseteq Objects \cup Libraries \cup {"bsdsocket"}
  /\ closing \subseteq held
  /\ sent \in Answers \cup {NoAnswer}
  /\ Len(resp) <= RespBuf

(* What a reader of the status should see: its text without empty lines.    *)
Reading(s) ==
  Trimmed(FlattenSeq([i \in 1 .. Len(s) |->
            IF i > 1 /\ s[i] = "nl" /\ s[i - 1] = "nl" THEN <<>> ELSE <<s[i]>>]))

Author(s) == <<IF s.boosts THEN s.author ELSE s.by>>

(* What is printed are the first statuses of the timeline, each under its   *)
(* author and with its text, wherever the answer ends and whatever brackets,*)
(* quotation marks and tags are in it (do_timeline(), parse_status(),       *)
(* json_next_obj(), html_strip(), dechunk_in_place()), as far as obj[] and  *)
(* raw_content[] hold it.  Nothing is printed of an error, and everything   *)
(* when all of the answer has arrived.                                      *)
ShownTrue ==
  /\ Len(objs) <= Len(sent.tl)
  /\ \A i \in 1 .. Len(objs) :
       LET status == sent.tl[i]
           printed == ParseStatus(objs[i])
       IN Len(Json(status)) <= ObjBuf =>
            /\ printed.acct = Author(status) /\ printed.boost = status.boosts
            /\ Len(Html(status.text)) <= ContentBuf => printed.text = Reading(status.text)
  /\ sent.error => objs = <<>>
  /\ pc = "done" /\ wire = <<>> => sent.error \/ Len(objs) = Len(sent.tl)

(* Nothing is closed before what needs it, whichever step fails, and the    *)
(* program holds nothing when it ends (amissl_init(), amissl_request(),     *)
(* proxy_request(), amissl_cleanup(), net_close()).                         *)
Released ==
  /\ \A x \in held : Needs(x) \subseteq held
  /\ pc \in {"parse", "show", "cleanup"} /\ closing = {} => held \cap Objects = {}
  /\ pc = "done" /\ closing = {} => held = {}

(* The program ends: json_next_obj() always gets on. *)
Ends == <>(pc = "done" /\ closing = {})
=============================================================================
