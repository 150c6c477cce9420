---------------------------- MODULE NostrSocket ----------------------------
(***************************************************************************)
(* The Nostr client's WebSocket connection (nostr/nostr.c): ws_handshake(), *)
(* the receive buffer of ws_ensure(), the frames of ws_parse_frame(), the   *)
(* messages of ws_read_message() and the loop of run_subscribe().           *)
(*                                                                         *)
(* A byte is its position in the relay's stream, 1, 2, ...  Every read may *)
(* return any part of what has arrived, the connection may end at any byte, *)
(* and Ctrl-C may come at any moment.                                       *)
(*                                                                         *)
(* An operator named Slip... is a variant that an editing slip in the code *)
(* could produce; no action uses it.                                        *)
(***************************************************************************)
EXTENDS Integers, Sequences, FiniteSets

CONSTANTS
  InBuf,      \* INBUF: sizeof(g_inbuf)
  PayBuf,     \* PAYBUF: sizeof(pay)
  MsgBuf,     \* MSGBUF: sizeof(msg)
  MaxHdr,     \* longest frame header: 2 + 8 + 4
  LongMax,    \* 2^31: a long has 32 bits on the Amiga
  HeadLens,   \* lengths of the relay's HTTP reply
  Shapes,     \* frames the relay may send
  EoseExit,   \* g_eose_exit: --eose-exit was given
  Interrupts, \* may the user press Ctrl-C?
  MaxFrames,  \* bounds of the model: frames the relay sends, and bytes
  MaxBytes    \* after which it begins no other

Tags == {"EVENT", "EOSE", "CLOSED", "other", "none"}

(* hdr counts the two fixed bytes, the extended length and a mask key; tag  *)
(* is what first_array_string() finds when the frame begins a message.      *)
Shape == [op  : {"text", "binary", "cont", "ping", "pong", "close"},
          fin : BOOLEAN, hdr : 2 .. MaxHdr, len : Nat, tag : Tags]

ASSUME BuffersAssumption ==
  /\ {InBuf, PayBuf, MsgBuf, MaxHdr, MaxFrames, MaxBytes} \subseteq Nat
  /\ HeadLens \subseteq Nat \ {0}
  /\ Shapes \subseteq Shape
  /\ EoseExit \in BOOLEAN /\ Interrupts \in BOOLEAN

(* Two fixed bytes, eight of extended length, four of mask key: 14.         *)
ASSUME HeaderAssumption == MaxHdr >= 2

(* "raw receive buffer (must hold one full frame)": 72000 >= 66000 + 14.    *)
ASSUME RoomAssumption == InBuf >= PayBuf + MaxHdr

(* 2^31 > 72000. *)
ASSUME LongAssumption == LongMax \in Nat /\ LongMax >= InBuf

(* ws_read_message() ends msg[] with a zero: it has a byte for it.          *)
ASSUME MessageAssumption == MsgBuf > 0

VARIABLES
  pc,       \* "handshake", "subscribe", "parse", "ensure", "deliver", "done",
            \* or "astray": parsing goes on in the middle of a frame
  head,     \* length of the relay's HTTP reply, 0 while it has not answered
  accept,   \* does the reply accept the upgrade, with the right key?
  sent,     \* frames of the relay: their shape and the byte they start after
  written,  \* bytes the relay has sent
  rx,       \* bytes the client has received
  closed,   \* the relay has closed the connection
  inbuf,    \* g_inbuf[0 .. g_in_len - 1]
  inpos,    \* g_in_pos
  msg,      \* msg[0 .. total - 1], first_opcode, and the frames joined in it
  shown,    \* messages handed to run_subscribe(), oldest first
  pongs,    \* pings for which a pong was written
  brk,      \* SIGBREAKF_CTRL_C is set
  ended     \* why the session ended

vars == <<pc, head, accept, sent, written, rx, closed, inbuf, inpos, msg,
          shown, pongs, brk, ended>>

client == <<pc, rx, inbuf, inpos, msg, shown, pongs, ended>>
relay == <<head, accept, sent, written, closed>>

NoMsg == [bytes |-> <<>>, op |-> "none", tag |-> "none", frames |-> <<>>]

End(f) == f.start + f.shape.hdr + f.shape.len

Payload(f) == (f.start + f.shape.hdr + 1) .. End(f)

Data == {"text", "binary", "cont"}

Avail == Len(inbuf) - inpos

Consumed == rx - Avail

-----------------------------------------------------------------------------
(* The relay: an HTTP reply, then frames.  Fragments follow RFC 6455: after *)
(* a data frame that is not final only its continuation or control frames.  *)
Fragmented ==
  \E n \in 1 .. Len(sent) :
    /\ sent[n].shape.op \in Data /\ ~sent[n].shape.fin
    /\ \A m \in n + 1 .. Len(sent) : sent[m].shape.op \notin Data

RelayReplies ==
  /\ head = 0 /\ ~closed /\ pc # "done"
  /\ head' \in HeadLens
  /\ accept' \in BOOLEAN
  /\ written' = head'
  /\ UNCHANGED <<sent, closed, brk, client>>

RelaySends ==
  /\ head > 0 /\ accept /\ ~closed /\ pc # "done"
  /\ Len(sent) < MaxFrames /\ written <= MaxBytes
  /\ \E s \in Shapes :
       /\ s.op \in Data => (s.op = "cont" <=> Fragmented)
       /\ sent' = Append(sent, [shape |-> s, start |-> written])
       /\ written' = written + s.hdr + s.len
  /\ UNCHANGED <<head, accept, closed, brk, client>>

(* The connection ends: at a frame's end, or with bytes that never arrive.  *)
RelayCloses ==
  /\ ~closed /\ pc # "done"
  /\ closed' = TRUE
  /\ \E w \in rx .. written : written' = w
  /\ UNCHANGED <<head, accept, sent, brk, client>>

(* Ctrl-C at the console. *)
Break ==
  /\ Interrupts /\ ~brk /\ pc # "done"
  /\ brk' = TRUE
  /\ UNCHANGED <<relay, client>>

-----------------------------------------------------------------------------
(* conn_read() of at most room bytes.                                       *)
Arrived(room) == {k \in 1 .. room : rx + k <= written}

New(k) == [i \in 1 .. k |-> rx + i]

Ends(why) == pc' = "done" /\ ended' = why

(* ws_handshake(): read until the blank line is in the buffer, then check   *)
(* the status and the accept key.  What is left are the first frames.       *)
HandshakeRead ==
  /\ pc = "handshake" /\ Len(inbuf) < InBuf - 1
  /\ \E k \in Arrived(InBuf - Len(inbuf)) :
       /\ inbuf' = inbuf \o New(k)
       /\ rx' = rx + k
       /\ CASE rx' < head -> UNCHANGED <<pc, inpos, ended>>
            [] rx' >= head /\ accept ->
                 pc' = "subscribe" /\ inpos' = head /\ ended' = ended
            [] OTHER -> Ends("refused") /\ inpos' = inpos
  /\ UNCHANGED <<relay, brk, msg, shown, pongs>>

(* The reply is too large, or the relay hangs up. *)
HandshakeFails ==
  /\ pc = "handshake"
  /\ Len(inbuf) >= InBuf - 1 \/ (closed /\ rx = written)
  /\ Ends("refused")
  /\ UNCHANGED <<relay, brk, rx, inbuf, inpos, msg, shown, pongs>>

(* run_subscribe() sends the REQ; a failed send ends the session.           *)
Subscribe ==
  /\ pc = "subscribe"
  /\ \/ pc' = "parse" /\ ended' = ended
     \/ closed /\ Ends("refused")
  /\ UNCHANGED <<relay, brk, rx, inbuf, inpos, msg, shown, pongs>>

-----------------------------------------------------------------------------
(* ws_parse_frame(): the frame that begins at g_in_pos.                     *)
Here(f) == Avail >= 2 /\ inbuf[inpos + 1] = f.start + 1

(* The length as the signed long that holds it.  Only lengths of more than  *)
(* 32 bits are refused before, so one with bit 31 set becomes negative.     *)
Signed(s) == IF s.len < LongMax THEN s.len ELSE s.len - 2 * LongMax

Negative(s) == Signed(s) < 0

(* What ws_parse_frame() returns for a frame that it does not refuse.       *)
Takes(s) == s.hdr + Signed(s)

SlipTooLong(f) == f.shape.len > MsgBuf

TooLong(f) == f.shape.len >= 2 * LongMax \/ Signed(f.shape) > PayBuf

SlipWhole(f) ==
  /\ Avail >= f.shape.hdr /\ ~TooLong(f) /\ ~Negative(f.shape)
  /\ Avail > f.shape.hdr + f.shape.len

Whole(f) ==
  /\ Avail >= f.shape.hdr /\ ~TooLong(f) /\ ~Negative(f.shape)
  /\ Avail >= f.shape.hdr + f.shape.len

(* A negative length leaves a part of the header to be taken as the frame,  *)
(* or nothing, as if the frame were incomplete, or is taken for an error.   *)
Misread(f) == Avail >= f.shape.hdr /\ Negative(f.shape) /\ Takes(f.shape) > 0

Bad(f) == Avail >= f.shape.hdr /\ (TooLong(f) \/ Takes(f.shape) < 0)

Incomplete ==
  /\ pc = "parse"
  /\ \/ Avail < 2
     \/ \E n \in 1 .. Len(sent) :
          Here(sent[n]) /\ ~Whole(sent[n]) /\ ~Misread(sent[n]) /\ ~Bad(sent[n])
  /\ pc' = "ensure"
  /\ UNCHANGED <<relay, brk, rx, inbuf, inpos, msg, shown, pongs, ended>>

BadFrame ==
  /\ pc = "parse"
  /\ \E n \in 1 .. Len(sent) : Here(sent[n]) /\ Bad(sent[n])
  /\ Ends("stopped")
  /\ UNCHANGED <<relay, brk, rx, inbuf, inpos, msg, shown, pongs>>

(* pay[]: the bytes after the header, wherever the frame is in g_inbuf.     *)
Pay(f) == SubSeq(inbuf, inpos + f.shape.hdr + 1,
                 inpos + f.shape.hdr + f.shape.len)

Consume(f) == inpos' = inpos + f.shape.hdr + f.shape.len

TakeClose ==
  /\ pc = "parse"
  /\ \E n \in 1 .. Len(sent) :
       /\ Here(sent[n]) /\ Whole(sent[n]) /\ sent[n].shape.op = "close"
       /\ Consume(sent[n])
  /\ Ends("closed")
  /\ UNCHANGED <<relay, brk, rx, inbuf, msg, shown, pongs>>

SlipTakePing ==
  /\ pc = "parse"
  /\ \E n \in 1 .. Len(sent) :
       /\ Here(sent[n]) /\ Whole(sent[n]) /\ sent[n].shape.op = "ping"
       /\ Consume(sent[n])
       /\ pongs' = Append(pongs, n)
  /\ msg' = NoMsg
  /\ UNCHANGED <<relay, brk, pc, rx, inbuf, shown, ended>>

(* A ping is answered at once, in the middle of a message too; whether the  *)
(* pong could be written does not matter.                                   *)
TakePing ==
  /\ pc = "parse"
  /\ \E n \in 1 .. Len(sent) :
       /\ Here(sent[n]) /\ Whole(sent[n]) /\ sent[n].shape.op = "ping"
       /\ Consume(sent[n])
       /\ pongs' = Append(pongs, n)
  /\ UNCHANGED <<relay, brk, pc, rx, inbuf, msg, shown, ended>>

TakePong ==
  /\ pc = "parse"
  /\ \E n \in 1 .. Len(sent) :
       /\ Here(sent[n]) /\ Whole(sent[n]) /\ sent[n].shape.op = "pong"
       /\ Consume(sent[n])
  /\ UNCHANGED <<relay, brk, pc, rx, inbuf, msg, shown, pongs, ended>>

SlipFits(f) == Len(msg.bytes) + f.shape.len <= MsgBuf

(* A data frame joins the message, its bytes only if they fit.              *)
Fits(f) == Len(msg.bytes) + f.shape.len < MsgBuf - 1

Join(n) ==
  LET f == sent[n]
  IN  [bytes  |-> IF Fits(f) THEN msg.bytes \o Pay(f) ELSE msg.bytes,
       op     |-> IF msg.op # "none" THEN msg.op
                  ELSE IF f.shape.op = "cont" THEN "text" ELSE f.shape.op,
       tag    |-> IF msg.bytes = <<>> /\ Fits(f) THEN f.shape.tag ELSE msg.tag,
       frames |-> Append(msg.frames, n)]

TakeData ==
  /\ pc = "parse"
  /\ \E n \in 1 .. Len(sent) :
       /\ Here(sent[n]) /\ Whole(sent[n]) /\ sent[n].shape.op \in Data
       /\ Consume(sent[n])
       /\ msg' = Join(n)
       /\ pc' = IF sent[n].shape.fin THEN "deliver" ELSE "parse"
  /\ UNCHANGED <<relay, brk, rx, inbuf, shown, pongs, ended>>

(* A frame of negative length.  A close frame is one whatever its length;   *)
(* the bytes of a data frame fit, and memcpy() is called for almost 4 GB;   *)
(* after a control frame parsing goes on inside the header.  What is sent   *)
(* for such a ping is no pong.                                              *)
Misreads ==
  /\ pc = "parse"
  /\ \E n \in 1 .. Len(sent) :
       /\ Here(sent[n]) /\ Misread(sent[n])
       /\ inpos' = inpos + Takes(sent[n].shape)
       /\ CASE sent[n].shape.op = "close" -> Ends("closed")
            [] sent[n].shape.op \in Data  -> Ends("crashed")
            [] OTHER                      -> pc' = "astray" /\ ended' = ended
  /\ UNCHANGED <<relay, brk, rx, inbuf, msg, shown, pongs>>

(* Frames are read where none begins.  What comes of them is not followed,  *)
(* only that each takes a byte at least, until the connection ends.         *)
Wanders ==
  /\ pc = "astray"
  /\ Ends("astray")
  /\ UNCHANGED <<relay, brk, rx, inbuf, inpos, msg, shown, pongs>>

-----------------------------------------------------------------------------
SlipCompacted == inbuf

(* ws_ensure() with one byte more than there is: compact, then read once.   *)
Compacted == SubSeq(inbuf, inpos + 1, Len(inbuf))

SlipEnsureReadNoMore ==
  /\ pc = "ensure" /\ Avail < InBuf
  /\ pc' = "parse"
  /\ UNCHANGED <<relay, brk, rx, inbuf, inpos, msg, shown, pongs, ended>>

SlipEnsureReadAnyRoom ==
  /\ pc = "ensure" /\ Avail < InBuf
  /\ \E k \in Arrived(InBuf) : inbuf' = Compacted \o New(k) /\ rx' = rx + k
  /\ inpos' = 0
  /\ IF brk THEN Ends("closed on break") ELSE pc' = "parse" /\ ended' = ended
  /\ brk' = FALSE
  /\ UNCHANGED <<relay, msg, shown, pongs>>

(* A break that is set now is taken by ws_ensure(), which then answers 0;   *)
(* ws_read_message() looks for it again and finds none: the session ends as  *)
(* if the relay had closed it.                                              *)
EnsureRead ==
  /\ pc = "ensure" /\ Avail < InBuf
  /\ \E k \in Arrived(InBuf - Avail) :
       inbuf' = Compacted \o New(k) /\ rx' = rx + k
  /\ inpos' = 0
  /\ IF brk THEN Ends("closed on break") ELSE pc' = "parse" /\ ended' = ended
  /\ brk' = FALSE
  /\ UNCHANGED <<relay, msg, shown, pongs>>

(* The buffer is full, or conn_read() ended or failed. *)
EnsureFails ==
  /\ pc = "ensure"
  /\ Avail >= InBuf \/ (closed /\ rx = written)
  /\ inbuf' = Compacted
  /\ inpos' = 0
  /\ Ends(IF brk THEN "stopped" ELSE "closed")
  /\ brk' = FALSE
  /\ UNCHANGED <<relay, rx, msg, shown, pongs>>

(* run_subscribe() on a message: only a text message with a tag reaches the *)
(* look at Ctrl-C at the end of the loop.                                   *)
Leaves ==
  msg.op = "text" /\ (msg.tag = "CLOSED" \/ (msg.tag = "EOSE" /\ EoseExit))

Looks == msg.op = "text" /\ msg.tag # "none" /\ ~Leaves

Deliver ==
  /\ pc = "deliver"
  /\ shown' = Append(shown, msg)
  /\ msg' = NoMsg
  /\ CASE Leaves       -> Ends("left") /\ brk' = brk
       [] Looks /\ brk -> Ends("interrupted") /\ brk' = FALSE
       [] OTHER        -> pc' = "parse" /\ ended' = ended /\ brk' = brk
  /\ UNCHANGED <<relay, rx, inbuf, inpos, pongs>>

-----------------------------------------------------------------------------
Init ==
  /\ pc = "handshake"
  /\ head = 0 /\ accept = FALSE
  /\ sent = <<>> /\ written = 0 /\ rx = 0 /\ closed = FALSE
  /\ inbuf = <<>> /\ inpos = 0
  /\ msg = NoMsg /\ shown = <<>> /\ pongs = <<>>
  /\ brk = FALSE /\ ended = "no"

Program ==
  \/ HandshakeRead \/ HandshakeFails \/ Subscribe
  \/ Incomplete \/ BadFrame
  \/ TakeClose \/ TakePing \/ TakePong \/ TakeData \/ Misreads
  \/ EnsureRead \/ EnsureFails
  \/ Deliver

Relay == RelayReplies \/ RelaySends \/ RelayCloses

Finished == pc = "done" /\ UNCHANGED vars

Next == Program \/ Wanders \/ Relay \/ Break \/ Finished

Spec == Init /\ [][Next]_vars

FairSpec == Spec /\ WF_vars(Program) /\ WF_vars(closed /\ Wanders)

-----------------------------------------------------------------------------
(* Every variable holds a value of its kind, and the buffer its capacity.   *)
(* (Types of the globals of nostr.c and of ws_read_message()'s locals.)     *)
TypeOK ==
  /\ pc \in {"handshake", "subscribe", "parse", "ensure", "deliver", "astray", "done"}
  /\ head \in Nat /\ accept \in BOOLEAN /\ closed \in BOOLEAN
  /\ sent \in Seq([shape : Shapes, start : Nat])
  /\ written \in Nat /\ rx \in Nat /\ rx <= written
  /\ inbuf \in Seq(Nat) /\ Len(inbuf) <= InBuf
  /\ inpos \in 0 .. Len(inbuf)
  /\ msg.bytes \in Seq(Nat) /\ msg.frames \in Seq(Nat)
  /\ pongs \in Seq(Nat)
  /\ brk \in BOOLEAN
  /\ ended \in {"no", "refused", "closed", "closed on break", "stopped", "left",
                "interrupted", "crashed", "astray"}
  /\ pc = "done" <=> ended # "no"

(* Parsing stopped inside the header of a frame of negative length.        *)
Astray ==
  \E n \in 1 .. Len(sent) :
    /\ Negative(sent[n].shape) /\ Takes(sent[n].shape) > 0
    /\ Consumed = sent[n].start + Takes(sent[n].shape)

(* However reads split the stream and ws_ensure() moves what is left to the *)
(* front, the unread part of g_inbuf is what follows the last frame taken:  *)
(* every frame is parsed from its first byte.  The one way to lose it is a  *)
(* frame of 2^31 bytes or more whose length is read as negative: nothing is *)
(* parsed as a frame of the relay after it.                                 *)
StreamIntact ==
  /\ \A i \in inpos + 1 .. Len(inbuf) : inbuf[i] = rx - Len(inbuf) + i
  /\ \/ pc = "handshake" \/ Consumed = head
     \/ ended = "refused"
     \/ \E n \in 1 .. Len(sent) : Consumed = End(sent[n])
     \/ pc \in {"astray", "done"} /\ Astray

(* INBUF holds any frame that ws_parse_frame() does not refuse, so there is *)
(* room to read more of an incomplete one: the "frame too big" exit of      *)
(* ws_ensure() is taken for no frame but one whose negative length cancels  *)
(* its header, which is taken for incomplete for ever.                      *)
RoomToRead ==
  pc = "ensure" =>
    \/ Avail < InBuf
    \/ \E n \in 1 .. Len(sent) : Here(sent[n]) /\ Takes(sent[n].shape) = 0

Framed(m) == UNION {Payload(sent[m.frames[i]]) : i \in 1 .. Len(m.frames)}

(* A message is made of the payload of its data frames and of nothing else, *)
(* in the order of the stream, each frame whole or left out; what fits is   *)
(* there in full.  This holds for all messages before a frame of negative   *)
(* length; what is shown after such a frame is not followed.                *)
MessagesIntact ==
  \A k \in 1 .. Len(shown) :
    LET m == shown[k]
        got == {m.bytes[i] : i \in 1 .. Len(m.bytes)}
    IN  /\ \A i, j \in 1 .. Len(m.bytes) : i < j => m.bytes[i] < m.bytes[j]
        /\ \A i \in 1 .. Len(m.frames) :
             \/ Payload(sent[m.frames[i]]) \subseteq got
             \/ Payload(sent[m.frames[i]]) \cap got = {}
        /\ got \subseteq Framed(m)
        /\ Cardinality(Framed(m)) < MsgBuf - 1 => got = Framed(m)
        /\ Len(m.bytes) < MsgBuf

Left == {n \in 1 .. Len(sent) : End(sent[n]) <= rx /\ End(sent[n]) > Consumed}

(* When the relay hangs up, no frame that has arrived is left untaken but    *)
(* what follows its close frame, whatever Ctrl-C did before.                *)
NothingMissed ==
  ended = "closed" =>
    \/ Left = {}
    \/ \E n \in 1 .. Len(sent) :
         sent[n].shape.op = "close" /\ End(sent[n]) = Consumed

(* When the relay hangs up the session ends: no incomplete frame or reply   *)
(* keeps the client waiting.                                                *)
SessionEnds == closed ~> pc = "done"

-----------------------------------------------------------------------------
(* The client as a taker of whole frames. *)
FeedSent == [n \in 1 .. Len(sent) |-> sent[n].shape]

FeedTaken == Cardinality({n \in 1 .. Len(sent) : End(sent[n]) <= Consumed})

FeedPart == IF pc = "deliver" THEN <<>> ELSE msg.frames

FramesShown == [k \in 1 .. Len(shown) |-> shown[k].frames]

FeedShown ==
  IF pc = "deliver" THEN Append(FramesShown, msg.frames) ELSE FramesShown

FeedLost == pc = "astray" \/ ended \in {"crashed", "astray"}

Feed == INSTANCE RelayFeed WITH
  Shapes  <- Shapes,
  Garbled <- {s \in Shapes : Negative(s)},
  sent    <- FeedSent,
  taken   <- FeedTaken,
  part    <- FeedPart,
  shown   <- FeedShown,
  pongs   <- pongs,
  lost    <- FeedLost,
  over    <- pc = "done"

(* The byte-level client implements the frame-level contract: README.md,    *)
(* "answers ping frames with pong, handles close frames, and joins          *)
(* fragmented messages"; it loses its place only at a frame whose length is *)
(* read as negative.                                                        *)
ImplementsFeed == Feed!Spec

=============================================================================
