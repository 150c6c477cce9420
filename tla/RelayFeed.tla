------------------------------ MODULE RelayFeed ------------------------------
(***************************************************************************)
(* What the Nostr client promises of a relay's feed, without bytes or       *)
(* buffers: frames are taken whole, once and in order; the data frames up   *)
(* to a final one make one message; control frames never become part of     *)
(* one; each ping is answered.  NostrSocket implements it.  At a frame whose *)
(* length it cannot hold the client may lose its place; nothing is promised  *)
(* of what it makes of the feed after that.                                 *)
(***************************************************************************)
EXTENDS Integers, Sequences

CONSTANTS
  Shapes,  \* frames the relay may send
  Garbled  \* those of them whose length the client reads wrongly

VARIABLES
  sent,    \* frames sent by the relay
  taken,   \* how many of them the client has taken
  part,    \* data frames of the message that is not complete yet
  shown,   \* complete messages, each the sequence of its data frames
  pongs,   \* pings answered
  lost,    \* has the client lost its place in the feed?
  over     \* has the client left?

vars == <<sent, taken, part, shown, pongs, lost, over>>

Init ==
  /\ sent = <<>> /\ taken = 0
  /\ part = <<>> /\ shown = <<>> /\ pongs = <<>>
  /\ lost = FALSE /\ over = FALSE

Send ==
  /\ \E s \in Shapes : sent' = Append(sent, s)
  /\ UNCHANGED <<taken, part, shown, pongs, lost, over>>

Take ==
  /\ ~over /\ ~lost /\ taken < Len(sent)
  /\ sent[taken + 1] \notin Garbled
  /\ taken' = taken + 1
  /\ UNCHANGED <<sent, lost, over>>

TakeData ==
  /\ Take
  /\ sent[taken'].op \in {"text", "binary", "cont"}
  /\ LET joined == Append(part, taken')
     IN  IF sent[taken'].fin
         THEN shown' = Append(shown, joined) /\ part' = <<>>
         ELSE part' = joined /\ shown' = shown
  /\ UNCHANGED pongs

TakePing ==
  /\ Take
  /\ sent[taken'].op = "ping"
  /\ pongs' = Append(pongs, taken')
  /\ UNCHANGED <<part, shown>>

TakePong ==
  /\ Take
  /\ sent[taken'].op = "pong"
  /\ UNCHANGED <<part, shown, pongs>>

(* The next frame is garbled: the client is lost in it, and may stop at it. *)
Lose ==
  /\ ~over /\ ~lost /\ taken < Len(sent)
  /\ sent[taken + 1] \in Garbled
  /\ lost' = TRUE /\ over' \in BOOLEAN
  /\ UNCHANGED <<sent, taken, part, shown, pongs>>

(* A close frame, or any other reason to leave; part may be lost.           *)
Leave ==
  /\ ~over
  /\ over' = TRUE
  /\ taken' \in {taken, taken + 1} /\ taken' <= Len(sent)
  /\ UNCHANGED <<sent, part, shown, pongs, lost>>

Next == Send \/ TakeData \/ TakePing \/ TakePong \/ Lose \/ Leave

Spec == Init /\ [][Next]_vars

=============================================================================
