------------------------- MODULE NostrSocketProofs -------------------------
(* Theorems about the Nostr client's connection, for all buffer sizes and   *)
(* frames that the assumptions about the buffers and their room allow.      *)
EXTENDS NostrSocket, SequenceTheorems, FiniteSetTheorems, TLAPS

(* What the handshake leaves to the frames: the buffer has been filled from *)
(* the first byte of the stream, and nothing is parsed before a reply came. *)
Handshaking ==
  /\ pc = "handshake" => Len(inbuf) = rx /\ inpos = 0
  /\ head = 0 => written = 0 /\ (pc = "handshake" \/ ended = "refused")

(* The inductive invariant. *)
Inv == TypeOK /\ StreamIntact /\ RoomToRead /\ Handshaking

(* The numbers of a frame. *)
LEMMA ShapeFacts ==
  ASSUME NEW s \in Shapes
  PROVE  s.hdr \in Nat /\ s.len \in Nat /\ s.hdr >= 2 /\ s.hdr <= MaxHdr
<1>1. MaxHdr \in Nat /\ s \in Shape
  BY BuffersAssumption
<1> QED BY <1>1 DEF Shape

(* A length read as negative is one of 2^31 or more, and leaves less than   *)
(* the header to be taken.                                                  *)
LEMMA SignFacts ==
  ASSUME NEW s \in Shapes
  PROVE  /\ LongMax \in Nat /\ InBuf <= LongMax
         /\ Signed(s) \in Int /\ Takes(s) \in Int
         /\ s.len < LongMax => Signed(s) = s.len /\ ~Negative(s)
         /\ Negative(s) => s.len >= LongMax /\ Takes(s) < s.hdr
<1>1. LongMax \in Nat /\ InBuf \in Nat /\ InBuf <= LongMax
  BY LongAssumption, BuffersAssumption
<1>2. s.hdr \in Nat /\ s.len \in Nat
  BY ShapeFacts
<1>3. CASE s.len < LongMax
  <2>1. Signed(s) = s.len
    BY <1>3 DEF Signed
  <2> QED BY <1>1, <1>2, <1>3, <2>1 DEF Negative, Takes
<1>4. CASE ~(s.len < LongMax)
  <2>1. Signed(s) = s.len - 2 * LongMax
    BY <1>4 DEF Signed
  <2>2. Signed(s) \in Int /\ Takes(s) = s.hdr + Signed(s)
    BY <1>1, <1>2, <2>1 DEF Takes
  <2>3. Takes(s) \in Int /\ (Signed(s) < 0 => Takes(s) < s.hdr)
    BY <1>2, <2>2
  <2> QED BY <1>1, <1>2, <1>4, <2>2, <2>3 DEF Negative
<1> QED BY <1>3, <1>4

(* A frame that is not refused, of a length that is not negative, fits the  *)
(* payload buffer.                                                          *)
LEMMA SizeFacts ==
  ASSUME NEW f, f.shape \in Shapes, ~TooLong(f), ~Negative(f.shape)
  PROVE  f.shape.len <= PayBuf /\ f.shape.len < LongMax
<1>1. PICK l \in Nat : l = f.shape.len
  BY ShapeFacts
<1>2. LongMax \in Nat /\ PayBuf \in Nat
  BY LongAssumption, BuffersAssumption
<1>3. ~(l >= 2 * LongMax) /\ ~(Signed(f.shape) > PayBuf) /\ ~(Signed(f.shape) < 0)
  BY <1>1 DEF TooLong, Negative
<1>4. CASE ~(l < LongMax)
  <2>1. Signed(f.shape) = l - 2 * LongMax
    BY <1>1, <1>4 DEF Signed
  <2> QED BY <1>1, <1>2, <1>3, <2>1
<1>5. CASE l < LongMax
  <2>1. Signed(f.shape) = l
    BY <1>1, <1>5 DEF Signed
  <2> QED BY <1>1, <1>2, <1>3, <1>5, <2>1
<1> QED BY <1>4, <1>5

(* A frame of the relay. *)
LEMMA SentFacts ==
  ASSUME TypeOK, NEW n \in 1 .. Len(sent)
  PROVE  sent[n].shape \in Shapes /\ sent[n].start \in Nat
<1>1. sent \in Seq([shape : Shapes, start : Nat])
  BY DEF TypeOK
<1>2. sent[n] \in [shape : Shapes, start : Nat]
  BY <1>1, ElementOfSeq
<1> QED BY <1>2

(* Compacting keeps the unread bytes and their order.                       *)
LEMMA CompactedFacts ==
  ASSUME inbuf \in Seq(Nat), inpos \in 0 .. Len(inbuf)
  PROVE  /\ Compacted \in Seq(Nat)
         /\ Len(Compacted) = Avail
         /\ Avail \in Nat
         /\ \A i \in 1 .. Avail : Compacted[i] = inbuf[inpos + i]
<1>1. Len(inbuf) \in Nat /\ inpos \in Nat /\ inpos <= Len(inbuf)
  BY LenProperties
<1>2. Avail \in Nat /\ Avail = Len(inbuf) - (inpos + 1) + 1
  BY <1>1 DEF Avail
<1>3. CASE inpos < Len(inbuf)
  <2>1. \A i \in inpos + 1 .. Len(inbuf) : inbuf[i] \in Nat
    BY <1>1, ElementOfSeq
  <2>2. /\ SubSeq(inbuf, inpos + 1, Len(inbuf)) \in Seq(Nat)
        /\ Len(SubSeq(inbuf, inpos + 1, Len(inbuf))) = Len(inbuf) - (inpos + 1) + 1
        /\ \A i \in 1 .. Len(inbuf) - (inpos + 1) + 1 :
             SubSeq(inbuf, inpos + 1, Len(inbuf))[i] = inbuf[(inpos + 1) + i - 1]
    BY <1>1, <1>3, <2>1, SubSeqProperties
  <2>3. \A i \in 1 .. Avail : (inpos + 1) + i - 1 = inpos + i
    BY <1>1, <1>2
  <2> QED BY <1>2, <2>2, <2>3 DEF Compacted
<1>4. CASE inpos = Len(inbuf)
  <2>1. Compacted = <<>>
    BY <1>1, <1>4 DEF Compacted
  <2> QED BY <1>1, <1>2, <1>4, <2>1
<1> QED BY <1>1, <1>3, <1>4

(* A read adds the next bytes of the stream. *)
LEMMA NewFacts ==
  ASSUME NEW b \in Seq(Nat), NEW k \in Nat, rx \in Nat
  PROVE  /\ b \o New(k) \in Seq(Nat)
         /\ Len(b \o New(k)) = Len(b) + k
         /\ \A i \in 1 .. Len(b) : (b \o New(k))[i] = b[i]
         /\ \A i \in Len(b) + 1 .. Len(b) + k : (b \o New(k))[i] = rx + i - Len(b)
<1>1. New(k) \in Seq(Nat) /\ Len(New(k)) = k
  BY DEF New
<1>2. \A i \in 1 .. k : New(k)[i] = rx + i
  BY DEF New
<1>3. Len(b) \in Nat
  BY LenProperties
<1>4. /\ b \o New(k) \in Seq(Nat)
      /\ Len(b \o New(k)) = Len(b) + k
      /\ \A i \in 1 .. Len(b) + k :
           (b \o New(k))[i] = IF i <= Len(b) THEN b[i] ELSE New(k)[i - Len(b)]
  BY <1>1, ConcatProperties
<1>5. \A i \in 1 .. Len(b) : (b \o New(k))[i] = b[i]
  BY <1>3, <1>4
<1>6. ASSUME NEW i \in Len(b) + 1 .. Len(b) + k
      PROVE  (b \o New(k))[i] = rx + i - Len(b)
  <2>1. i - Len(b) \in 1 .. k /\ ~(i <= Len(b)) /\ i \in 1 .. Len(b) + k
    BY <1>3
  <2>2. (b \o New(k))[i] = rx + (i - Len(b))
    BY <1>2, <1>4, <2>1
  <2> QED BY <1>3, <2>2
<1> QED BY <1>4, <1>5, <1>6

-----------------------------------------------------------------------------
(* Nothing has been sent, read or parsed yet. *)
LEMMA InvInit == Init => Inv
<1> SUFFICES ASSUME Init PROVE Inv
  OBVIOUS
<1>1. InBuf \in Nat
  BY BuffersAssumption
<1>2. Len(<<>>) = 0 /\ inbuf = <<>> /\ inpos = 0 /\ rx = 0
  BY DEF Init
<1>3. TypeOK
  <2>1. msg.bytes = <<>> /\ msg.frames = <<>>
    BY DEF Init, NoMsg
  <2>2. sent = <<>> /\ pongs = <<>> /\ Len(inbuf) = 0 /\ inpos \in 0 .. Len(inbuf)
    BY <1>2 DEF Init
  <2>3. pc = "handshake" /\ ended = "no" /\ accept = FALSE /\ closed = FALSE /\ brk = FALSE
    BY DEF Init
  <2>4. head = 0 /\ written = 0
    BY DEF Init
  <2>5. sent \in Seq([shape : Shapes, start : Nat])
    BY <2>2
  <2>6. msg.bytes \in Seq(Nat) /\ msg.frames \in Seq(Nat) /\ pongs \in Seq(Nat)
    BY <2>1, <2>2
  <2>7. inbuf \in Seq(Nat) /\ Len(inbuf) <= InBuf
    BY <1>1, <1>2
  <2>8. pc = "done" <=> ended # "no"
    BY <2>3
  <2>9. accept \in BOOLEAN /\ closed \in BOOLEAN /\ brk \in BOOLEAN
    BY <2>3
  <2>10. head \in Nat /\ written \in Nat /\ rx \in Nat /\ rx <= written
    BY <1>2, <2>4
  <2>11. /\ pc \in {"handshake", "subscribe", "parse", "ensure", "deliver", "done"}
         /\ ended \in {"no", "refused", "closed", "closed on break", "stopped", "left", "interrupted"}
    BY <2>3
  <2> QED BY <2>2, <2>5, <2>6, <2>7, <2>8, <2>9, <2>10, <2>11 DEF TypeOK
<1>4. StreamIntact
  BY <1>2 DEF Init, StreamIntact
<1> QED
  BY <1>2, <1>3, <1>4 DEF Inv, Init, RoomToRead, Handshaking

(* What TypeOK says of the numbers and the sequences, each by itself.       *)
LEMMA Numbers ==
  ASSUME TypeOK
  PROVE  /\ inbuf \in Seq(Nat) /\ Len(inbuf) \in Nat /\ Len(inbuf) <= InBuf
         /\ inpos \in Nat /\ inpos <= Len(inbuf)
         /\ rx \in Nat /\ written \in Nat /\ rx <= written /\ head \in Nat
         /\ sent \in Seq([shape : Shapes, start : Nat]) /\ Len(sent) \in Nat
<1>1. inbuf \in Seq(Nat) /\ sent \in Seq([shape : Shapes, start : Nat])
  BY DEF TypeOK
<1>2. Len(inbuf) \in Nat /\ Len(sent) \in Nat
  BY <1>1, LenProperties
<1>3. inpos \in 0 .. Len(inbuf) /\ Len(inbuf) <= InBuf
  BY DEF TypeOK
<1>4. inpos \in Nat /\ inpos <= Len(inbuf)
  BY <1>2, <1>3
<1>5. rx \in Nat /\ written \in Nat /\ rx <= written /\ head \in Nat
  BY DEF TypeOK
<1> QED BY <1>1, <1>2, <1>3, <1>4, <1>5

(* The relay and Ctrl-C touch nothing of the client; frames already sent    *)
(* keep their place in the stream.                                          *)
LEMMA InvOthers ==
  ASSUME Inv, Relay \/ Break
  PROVE  Inv'
<1> USE DEF Inv
<1>1. CASE RelayReplies
  <2>1. head = 0 /\ pc # "done" /\ head' \in Nat \ {0} /\ written' = head'
    BY <1>1, BuffersAssumption DEF RelayReplies
  <2>2. UNCHANGED <<sent, closed, brk, pc, rx, inbuf, inpos, msg, shown, pongs, ended>>
    BY <1>1 DEF RelayReplies, client
  <2>3. pc = "handshake" /\ rx = 0
    <3>1. rx \in Nat /\ written \in Nat /\ rx <= written
      BY Numbers
    <3>2. ended # "refused"
      BY <2>1 DEF TypeOK
    <3>3. pc = "handshake" /\ written = 0
      BY <2>1, <3>2 DEF Handshaking
    <3> QED BY <3>1, <3>3
  <2>4. TypeOK'
    <3>1. accept' \in BOOLEAN
      BY <1>1 DEF RelayReplies
    <3>2. head' \in Nat /\ written' \in Nat /\ rx <= written'
      BY <2>1, <2>3
    <3> QED BY <2>2, <3>1, <3>2 DEF TypeOK
  <2>5. StreamIntact'
    BY <2>2, <2>3 DEF StreamIntact
  <2> QED BY <2>1, <2>2, <2>3, <2>4, <2>5 DEF RoomToRead, Avail, Handshaking
<1>2. CASE RelaySends
  <2>1. UNCHANGED <<head, accept, closed, brk, pc, rx, inbuf, inpos, msg, shown, pongs, ended>>
    BY <1>2 DEF RelaySends, client
  <2>2. PICK s \in Shapes : /\ sent' = Append(sent, [shape |-> s, start |-> written])
                            /\ written' = written + s.hdr + s.len
    BY <1>2 DEF RelaySends
  <2>3. s.hdr \in Nat /\ s.len \in Nat
    BY ShapeFacts
  <2>4. [shape |-> s, start |-> written] \in [shape : Shapes, start : Nat]
    BY Numbers
  <2>5. /\ sent' \in Seq([shape : Shapes, start : Nat])
        /\ Len(sent') = Len(sent) + 1
        /\ \A n \in 1 .. Len(sent) : sent'[n] = sent[n]
    BY <2>2, <2>4, Numbers, AppendProperties
  <2>6. TypeOK'
    <3>1. written' \in Nat /\ rx <= written'
      BY <2>2, <2>3, Numbers
    <3> QED BY <2>1, <2>5, <3>1 DEF TypeOK
  <2>7. Consumed' = Consumed /\ Avail' = Avail
    BY <2>1 DEF Consumed, Avail
  <2>8. ASSUME NEW n \in 1 .. Len(sent), Consumed = End(sent[n])
        PROVE  \E m \in 1 .. Len(sent') : Consumed' = End(sent'[m])
    <3>1. n \in 1 .. Len(sent') /\ sent'[n] = sent[n]
      BY <2>5, Numbers
    <3> QED BY <2>7, <2>8, <3>1
  <2>11. ASSUME Astray PROVE Astray'
    <3>1. PICK n \in 1 .. Len(sent) :
            /\ Negative(sent[n].shape) /\ Takes(sent[n].shape) > 0
            /\ Consumed = sent[n].start + Takes(sent[n].shape)
      BY <2>11 DEF Astray
    <3>2. n \in 1 .. Len(sent') /\ sent'[n] = sent[n]
      BY <2>5, Numbers
    <3> QED BY <2>7, <3>1, <3>2 DEF Astray
  <2>9. StreamIntact'
    BY <2>1, <2>7, <2>8, <2>11 DEF StreamIntact
  <2>10. head > 0
    BY <1>2 DEF RelaySends
  <2>12. ASSUME NEW n \in 1 .. Len(sent), Here(sent[n]), Takes(sent[n].shape) = 0
         PROVE  \E m \in 1 .. Len(sent') : (Here(sent[m]) /\ Takes(sent[m].shape) = 0)'
    <3>1. n \in 1 .. Len(sent') /\ sent'[n] = sent[n]
      BY <2>5, Numbers
    <3>2. (Here(sent[n]) /\ Takes(sent[n].shape) = 0)'
      BY <2>1, <2>7, <2>12, <3>1 DEF Here
    <3> QED BY <3>1, <3>2
  <2>13. RoomToRead'
    BY <2>1, <2>7, <2>12 DEF RoomToRead
  <2> QED BY <2>1, <2>6, <2>7, <2>9, <2>10, <2>13 DEF Handshaking
<1>3. CASE RelayCloses
  <2>1. UNCHANGED <<head, accept, sent, brk, pc, rx, inbuf, inpos, msg, shown, pongs, ended>>
    BY <1>3 DEF RelayCloses, client
  <2>2. written' \in Nat /\ rx <= written' /\ written' <= written /\ closed'
    BY <1>3, Numbers DEF RelayCloses
  <2>3. TypeOK'
    BY <2>1, <2>2 DEF TypeOK
  <2>4. StreamIntact' /\ RoomToRead'
    BY <2>1 DEF StreamIntact, RoomToRead, Consumed, Avail, Astray, Here
  <2>5. head = 0 => written' = 0
    BY <2>2, Numbers DEF Handshaking
  <2> QED BY <2>1, <2>3, <2>4, <2>5 DEF Handshaking
<1>4. CASE Break
  <2>1. brk' = TRUE
        /\ UNCHANGED <<head, accept, sent, written, closed, pc, rx, inbuf, inpos, msg, shown, pongs, ended>>
    BY <1>4 DEF Break, relay, client
  <2> QED
    BY <2>1 DEF TypeOK, StreamIntact, RoomToRead, Handshaking, Consumed, Avail, Astray, Here
<1> QED
  BY <1>1, <1>2, <1>3, <1>4 DEF Relay

-----------------------------------------------------------------------------
(* The handshake reads into an empty buffer, and leaves g_in_pos at the     *)
(* first byte after the reply.                                              *)
LEMMA InvHandshake ==
  ASSUME Inv, HandshakeRead \/ HandshakeFails \/ Subscribe
  PROVE  Inv'
<1> USE DEF Inv
<1>1. CASE HandshakeRead
  <2>1. PICK k \in Arrived(InBuf - Len(inbuf)) :
          /\ inbuf' = inbuf \o New(k)
          /\ rx' = rx + k
          /\ CASE rx' < head -> UNCHANGED <<pc, inpos, ended>>
               [] rx' >= head /\ accept ->
                    pc' = "subscribe" /\ inpos' = head /\ ended' = ended
               [] OTHER -> Ends("refused") /\ inpos' = inpos
    BY <1>1 DEF HandshakeRead
  <2>2. UNCHANGED <<head, accept, sent, written, closed, brk, msg, shown, pongs>>
        /\ pc = "handshake"
    BY <1>1 DEF HandshakeRead, relay
  <2>3. /\ inbuf \in Seq(Nat) /\ Len(inbuf) \in Nat /\ InBuf \in Nat
        /\ rx \in Nat /\ written \in Nat /\ head \in Nat
        /\ Len(inbuf) = rx /\ inpos = 0
    BY <2>2, BuffersAssumption, LenProperties DEF TypeOK, Handshaking
  <2>4. k \in Nat /\ k >= 1 /\ k <= InBuf - Len(inbuf) /\ rx + k <= written
    BY <2>3 DEF Arrived
  <2>0. inbuf' = inbuf \o New(k) /\ rx' = rx + k
    BY <2>1
  <2>5. /\ inbuf' \in Seq(Nat)
        /\ Len(inbuf') = rx'
        /\ \A i \in 1 .. Len(inbuf) : inbuf'[i] = inbuf[i]
        /\ \A i \in Len(inbuf) + 1 .. Len(inbuf) + k : inbuf'[i] = rx + i - Len(inbuf)
    BY <2>0, <2>3, <2>4, NewFacts
  <2>6. \A i \in 1 .. Len(inbuf') : inbuf'[i] = i
    <3>1. \A i \in 1 .. Len(inbuf) : inbuf[i] = i
      BY <2>3 DEF StreamIntact
    <3>2. ASSUME NEW i \in 1 .. Len(inbuf') PROVE inbuf'[i] = i
      <4>1. CASE i <= Len(inbuf)
        BY <2>3, <2>5, <3>1, <4>1
      <4>2. CASE ~(i <= Len(inbuf))
        BY <2>0, <2>3, <2>4, <2>5, <4>2
      <4> QED BY <4>1, <4>2
    <3> QED BY <3>2
  <2>7. head > 0
    BY <2>3, <2>4 DEF Handshaking
  <2>8. CASE rx' < head
    <3>1. UNCHANGED <<pc, inpos, ended>>
      BY <2>0, <2>1, <2>2, <2>3, <2>4, <2>8
    <3>2. TypeOK'
      <4>1. inpos' \in 0 .. Len(inbuf')
        BY <2>2, <2>3, <2>5, <3>1
      <4>2. rx' \in Nat /\ rx' <= written' /\ Len(inbuf') <= InBuf
        BY <2>0, <2>2, <2>3, <2>4, <2>5
      <4> QED BY <2>2, <2>5, <3>1, <4>1, <4>2 DEF TypeOK
    <3>3. StreamIntact'
      BY <2>0, <2>2, <2>3, <2>4, <2>5, <2>6, <3>1 DEF StreamIntact
    <3> QED BY <2>2, <2>3, <2>5, <2>7, <3>1, <3>2, <3>3 DEF RoomToRead, Handshaking
  <2>9. CASE rx' >= head /\ accept
    <3>1. pc' = "subscribe" /\ inpos' = head /\ ended' = ended
      BY <2>1, <2>3, <2>4, <2>9
    <3>2. TypeOK'
      <4>1. inpos' \in 0 .. Len(inbuf')
        BY <2>2, <2>3, <2>5, <2>9, <3>1
      <4>2. rx' \in Nat /\ rx' <= written' /\ Len(inbuf') <= InBuf
        BY <2>0, <2>2, <2>3, <2>4, <2>5
      <4> QED BY <2>2, <2>5, <3>1, <4>1, <4>2 DEF TypeOK
    <3>3. Consumed' = head'
      BY <2>0, <2>2, <2>3, <2>4, <2>5, <3>1 DEF Consumed, Avail
    <3>4. StreamIntact'
      BY <2>0, <2>2, <2>3, <2>4, <2>5, <2>6, <3>1, <3>3 DEF StreamIntact
    <3> QED BY <2>2, <2>7, <3>1, <3>2, <3>4 DEF RoomToRead, Handshaking
  <2>10. CASE ~(rx' < head) /\ ~(rx' >= head /\ accept)
    <3>1. pc' = "done" /\ ended' = "refused" /\ inpos' = inpos
      BY <2>1, <2>10 DEF Ends
    <3>2. TypeOK'
      BY <2>0, <2>2, <2>3, <2>4, <2>5, <3>1 DEF TypeOK
    <3>3. StreamIntact'
      BY <2>0, <2>2, <2>3, <2>4, <2>5, <2>6, <3>1 DEF StreamIntact
    <3> QED BY <2>2, <2>7, <3>1, <3>2, <3>3 DEF RoomToRead, Handshaking
  <2> QED BY <2>8, <2>9, <2>10
<1>2. CASE HandshakeFails
  <2>1. pc' = "done" /\ ended' = "refused" /\ pc = "handshake"
        /\ UNCHANGED <<head, accept, sent, written, closed, brk, rx, inbuf, inpos, msg, shown, pongs>>
    BY <1>2 DEF HandshakeFails, Ends, relay
  <2> QED
    BY <2>1 DEF TypeOK, StreamIntact, RoomToRead, Handshaking
<1>3. CASE Subscribe
  <2>1. \/ pc' = "parse" /\ ended' = ended
        \/ pc' = "done" /\ ended' = "refused"
    BY <1>3 DEF Subscribe, Ends
  <2>2. pc = "subscribe"
        /\ UNCHANGED <<head, accept, sent, written, closed, brk, rx, inbuf, inpos, msg, shown, pongs>>
    BY <1>3 DEF Subscribe, relay
  <2>3. TypeOK'
    BY <2>1, <2>2 DEF TypeOK
  <2>4. StreamIntact'
    BY <2>1, <2>2 DEF StreamIntact, Consumed, Avail, TypeOK
  <2> QED
    BY <2>1, <2>2, <2>3, <2>4 DEF RoomToRead, Handshaking
<1> QED
  BY <1>1, <1>2, <1>3

-----------------------------------------------------------------------------
(* A frame that is neither whole nor refused is shorter than the buffer:    *)
(* this is where INBUF >= PAYBUF + 14 is needed.                            *)
LEMMA InvIncomplete ==
  ASSUME Inv, Incomplete
  PROVE  Inv'
<1> USE DEF Inv
<1>1. /\ pc = "parse" /\ pc' = "ensure"
      /\ UNCHANGED <<head, accept, sent, written, closed, brk, rx, inbuf, inpos, msg, shown, pongs, ended>>
  BY DEF Incomplete, relay
<1>2. /\ InBuf \in Nat /\ PayBuf \in Nat /\ MaxHdr \in Nat
      /\ Len(inbuf) \in Nat /\ inpos \in 0 .. Len(inbuf)
  BY BuffersAssumption, LenProperties DEF TypeOK
<1>3. Avail \in Nat
  BY <1>2 DEF Avail
<1>4. \/ Avail < InBuf
      \/ \E n \in 1 .. Len(sent) : Here(sent[n]) /\ Takes(sent[n].shape) = 0
  <2>1. ASSUME NEW n \in 1 .. Len(sent), Takes(sent[n].shape) # 0,
               Here(sent[n]), ~Whole(sent[n]), ~Misread(sent[n]), ~Bad(sent[n])
        PROVE  Avail < InBuf
    <3>1. sent[n].shape \in Shapes
      BY SentFacts
    <3>2. /\ sent[n].shape.hdr \in Nat /\ sent[n].shape.len \in Nat
          /\ sent[n].shape.hdr <= MaxHdr
      BY <3>1, ShapeFacts
    <3>3. CASE Avail < sent[n].shape.hdr
      BY <1>2, <1>3, <3>2, <3>3, RoomAssumption
    <3>4. CASE ~(Avail < sent[n].shape.hdr)
      <4>1. Avail >= sent[n].shape.hdr /\ Takes(sent[n].shape) \in Int
        BY <1>3, <3>1, <3>2, <3>4, SignFacts
      <4>2. ~TooLong(sent[n]) /\ Takes(sent[n].shape) > 0
        BY <2>1, <4>1 DEF Bad
      <4>3. ~Negative(sent[n].shape)
        BY <2>1, <4>1, <4>2 DEF Misread
      <4>4. sent[n].shape.len <= PayBuf
        BY <3>1, <4>2, <4>3, SizeFacts
      <4>5. Avail < sent[n].shape.hdr + sent[n].shape.len
        BY <1>3, <2>1, <3>2, <4>1, <4>2, <4>3 DEF Whole
      <4> QED BY <1>2, <1>3, <3>2, <4>4, <4>5, RoomAssumption
    <3> QED BY <3>3, <3>4
  <2>2. CASE Avail < 2
    BY <1>2, <1>3, <2>2, RoomAssumption, HeaderAssumption
  <2> QED BY <2>1, <2>2 DEF Incomplete
<1>5. TypeOK'
  BY <1>1 DEF TypeOK
<1>6. StreamIntact'
  BY <1>1 DEF StreamIntact, Consumed, Avail, TypeOK
<1>7. RoomToRead'
  BY <1>1, <1>4 DEF RoomToRead, Avail, Here
<1> QED BY <1>1, <1>5, <1>6, <1>7 DEF Handshaking

(* Taking a whole frame moves g_in_pos to that frame's end.                 *)
LEMMA ConsumeFacts ==
  ASSUME Inv, pc = "parse", UNCHANGED <<sent, rx, inbuf>>,
         NEW n \in 1 .. Len(sent),
         Here(sent[n]), Whole(sent[n]), Consume(sent[n])
  PROVE  /\ inpos' \in inpos + 2 .. Len(inbuf)
         /\ Consumed' = End(sent[n])
         /\ Pay(sent[n]) \in Seq(Nat)
         /\ \A i \in inpos' + 1 .. Len(inbuf) : i \in inpos + 1 .. Len(inbuf)
<1> USE DEF Inv
<1>1. sent[n].shape \in Shapes /\ sent[n].start \in Nat
  BY SentFacts
<1>2. PICK h \in Nat, l \in Nat, st \in Nat :
        /\ h = sent[n].shape.hdr /\ l = sent[n].shape.len /\ st = sent[n].start
        /\ h >= 2
  BY <1>1, ShapeFacts
<1>3. PICK m \in Nat, p \in Nat : m = Len(inbuf) /\ p = inpos /\ p <= m
  BY LenProperties DEF TypeOK
<1>4. inbuf \in Seq(Nat) /\ rx \in Nat
  BY DEF TypeOK
<1>5. p + h + l <= m /\ inpos' = p + h + l
  <2>1. Avail = m - p
    BY <1>3 DEF Avail
  <2>2. m - p >= h + l
    BY <1>2, <2>1 DEF Whole
  <2>3. inpos' = p + h + l
    BY <1>2, <1>3 DEF Consume
  <2>4. h \in Nat /\ l \in Nat /\ p \in Nat /\ m \in Nat
    BY <1>2, <1>3
  <2>5. p + h + l <= m
    BY ONLY <2>2, <2>4
  <2> QED BY <2>3, <2>5
<1>0. h \in Nat /\ l \in Nat /\ p \in Nat /\ m \in Nat /\ h >= 2
  BY <1>2, <1>3
<1>6. inpos' \in inpos + 2 .. Len(inbuf)
  <2>1. p + h + l \in p + 2 .. m
    BY <1>0, <1>5
  <2> QED BY <1>3, <1>5, <2>1
<1>7. inbuf[p + 1] = rx - m + (p + 1)
  <2>1. p + 1 \in p + 1 .. m
    BY <1>0, <1>5
  <2> QED BY <1>3, <1>5, <2>1 DEF StreamIntact
<1>8. inbuf[p + 1] = st + 1
  BY <1>2, <1>3 DEF Here
<1>9. Consumed' = rx - (m - inpos')
  BY <1>3 DEF Consumed, Avail
<1>10. Consumed' = st + h + l
  <2>1. rx - m + (p + 1) = st + 1
    BY <1>7, <1>8
  <2>2. PICK q \in Nat : q = p + h + l
    BY <1>2, <1>3
  <2>3. Consumed' = rx - (m - q)
    BY <1>5, <1>9, <2>2
  <2>4. PICK x \in Nat : x = rx
    BY <1>4
  <2>5. x - m + (p + 1) = st + 1
    BY <2>1, <2>4
  <2>6. x - (m - q) = st + h + l
    BY <2>2, <2>5
  <2> QED BY <2>3, <2>4, <2>6
<1>11. Pay(sent[n]) \in Seq(Nat)
  <2>1. Pay(sent[n]) = SubSeq(inbuf, p + h + 1, p + h + l)
    BY <1>2, <1>3 DEF Pay
  <2>2. \A i \in p + h + 1 .. p + h + l : inbuf[i] \in Nat
    BY <1>3, <1>4, <1>5, ElementOfSeq
  <2>3. PICK x \in Nat, y \in Nat : x = p + h + 1 /\ y = p + h + l
    OBVIOUS
  <2>4. CASE x <= y
    BY <1>3, <1>4, <1>5, <2>1, <2>2, <2>3, <2>4, SubSeqProperties
  <2>5. CASE ~(x <= y)
    BY <1>4, <2>1, <2>3, <2>5
  <2> QED BY <2>3, <2>4, <2>5
<1>12. \A i \in inpos' + 1 .. Len(inbuf) : i \in inpos + 1 .. Len(inbuf)
  <2>1. PICK q \in Nat : q = p + h + l
    BY <1>2, <1>3
  <2>2. q >= p
    <3>1. h \in Nat /\ l \in Nat /\ p \in Nat
      BY <1>2, <1>3
    <3>2. p + h + l >= p
      BY ONLY <3>1
    <3> QED BY <2>1, <3>2
  <2>3. \A i \in q + 1 .. m : i \in p + 1 .. m
    BY <2>1, <2>2, <1>3
  <2>4. inpos' = q
    BY <1>5, <2>1
  <2> QED BY <1>3, <2>3, <2>4
<1> QED BY <1>2, <1>6, <1>10, <1>11, <1>12 DEF End

(* A frame that is misread moves g_in_pos into its own header.              *)
LEMMA MisreadFacts ==
  ASSUME Inv, pc = "parse", UNCHANGED <<sent, rx, inbuf>>,
         NEW n \in 1 .. Len(sent), Here(sent[n]), Misread(sent[n]),
         inpos' = inpos + Takes(sent[n].shape)
  PROVE  /\ inpos' \in inpos + 1 .. Len(inbuf)
         /\ Consumed = sent[n].start
         /\ Consumed' = sent[n].start + Takes(sent[n].shape)
<1>1. sent[n].shape \in Shapes /\ sent[n].start \in Nat
  BY SentFacts DEF Inv
<1>2. PICK h \in Nat, st \in Nat, k \in Int :
        /\ h = sent[n].shape.hdr /\ st = sent[n].start
        /\ k = Takes(sent[n].shape) /\ h >= 2
  BY <1>1, ShapeFacts, SignFacts
<1>3. PICK m \in Nat, p \in Nat : m = Len(inbuf) /\ p = inpos /\ p <= m
  BY Numbers DEF Inv
<1>4. PICK x \in Nat : x = rx
  BY Numbers DEF Inv
<1>5. Negative(sent[n].shape) /\ k > 0 /\ m - p >= h
  BY <1>2, <1>3 DEF Misread, Avail
<1>6. k < h
  BY <1>1, <1>2, <1>5, SignFacts
<1>7. p + 1 \in p + 1 .. m
  BY <1>2, <1>3, <1>5
<1>8. x - m + (p + 1) = st + 1
  BY <1>2, <1>3, <1>4, <1>7 DEF Inv, StreamIntact, Here
<1>9. inpos' = p + k
  BY <1>2, <1>3
<1>10. p + k \in p + 1 .. m
  BY <1>2, <1>3, <1>5, <1>6
<1>11. Consumed = x - (m - p) /\ Consumed' = x - (m - (p + k))
  BY <1>3, <1>4, <1>9 DEF Consumed, Avail
<1>12. x - (m - p) = st /\ x - (m - (p + k)) = st + k
  <2>1. x \in Nat /\ m \in Nat /\ p \in Nat /\ st \in Nat /\ k \in Int
    BY <1>2, <1>3, <1>4
  <2> QED BY ONLY <1>8, <2>1
<1> QED BY <1>2, <1>3, <1>9, <1>10, <1>11, <1>12

(* A frame of negative length loses the place in the stream. *)
LEMMA InvMisreads ==
  ASSUME Inv, Misreads
  PROVE  Inv'
<1>1. PICK n \in 1 .. Len(sent) :
        /\ Here(sent[n]) /\ Misread(sent[n])
        /\ inpos' = inpos + Takes(sent[n].shape)
        /\ CASE sent[n].shape.op = "close" -> Ends("closed")
             [] sent[n].shape.op \in Data  -> Ends("crashed")
             [] OTHER                      -> pc' = "astray" /\ ended' = ended
  BY DEF Misreads
<1>2. /\ pc = "parse"
      /\ UNCHANGED <<head, accept, sent, written, closed, brk, rx, inbuf, msg, shown, pongs>>
  BY DEF Misreads, relay
<1>3. ended = "no"
  BY <1>2 DEF Inv, TypeOK
<1>4. \/ pc' = "done" /\ ended' \in {"closed", "crashed"}
      \/ pc' = "astray" /\ ended' = "no"
  BY <1>1, <1>3 DEF Ends
<1>5. /\ inpos' \in inpos + 1 .. Len(inbuf)
      /\ Consumed' = sent[n].start + Takes(sent[n].shape)
  BY <1>1, <1>2, MisreadFacts
<1>6. inpos \in Nat /\ Len(inbuf) \in Nat
  BY Numbers DEF Inv
<1>7. inpos' \in 0 .. Len(inbuf) /\ \A i \in inpos' + 1 .. Len(inbuf) : i \in inpos + 1 .. Len(inbuf)
  <2>0. PICK a \in Nat, m \in Nat : a = inpos /\ m = Len(inbuf)
    BY <1>6
  <2>1. PICK q \in Nat : q = inpos'
    <3>1. inpos' \in a + 1 .. m
      BY <1>5, <2>0
    <3>2. a + 1 .. m \subseteq Nat
      BY <2>0
    <3> QED BY <3>1, <3>2
  <2>2. q \in a + 1 .. m
    BY <1>5, <2>0, <2>1
  <2>4. a \in Nat /\ q \in Nat /\ m \in Nat
    BY <2>0, <2>1
  <2>3. q \in 0 .. m /\ \A i \in q + 1 .. m : i \in a + 1 .. m
    BY ONLY <2>2, <2>4
  <2> QED BY <2>0, <2>1, <2>3
<1>8. TypeOK'
  BY <1>2, <1>4, <1>7 DEF Inv, TypeOK
<1>9. Astray'
  BY <1>1, <1>2, <1>5 DEF Astray, Misread
<1>10. StreamIntact'
  <2>1. \A i \in inpos' + 1 .. Len(inbuf) : inbuf[i] = rx - Len(inbuf) + i
    BY <1>7 DEF Inv, StreamIntact
  <2> QED BY <1>2, <1>4, <1>9, <2>1 DEF StreamIntact
<1>11. head # 0
  BY <1>2, <1>3 DEF Inv, Handshaking
<1> QED BY <1>2, <1>4, <1>8, <1>10, <1>11 DEF Inv, RoomToRead, Handshaking

(* The frames taken, and the one that is refused. *)
LEMMA InvTake ==
  ASSUME Inv, BadFrame \/ TakeClose \/ TakePing \/ TakePong \/ TakeData
  PROVE  Inv'
<1> USE DEF Inv
<1>1. CASE BadFrame
  <2>1. /\ pc = "parse" /\ pc' = "done" /\ ended' = "stopped"
        /\ UNCHANGED <<head, accept, sent, written, closed, brk, rx, inbuf, inpos, msg, shown, pongs>>
    BY <1>1 DEF BadFrame, Ends, relay
  <2>2. TypeOK'
    BY <2>1 DEF TypeOK
  <2>3. StreamIntact'
    BY <2>1 DEF StreamIntact, Consumed, Avail, TypeOK
  <2> QED BY <2>1, <2>2, <2>3 DEF RoomToRead, Handshaking, TypeOK
<1>2. ASSUME NEW n \in 1 .. Len(sent),
             pc = "parse", Here(sent[n]), Whole(sent[n]), Consume(sent[n]),
             UNCHANGED <<head, accept, sent, written, closed, brk, rx, inbuf, shown>>,
             msg'.bytes \in Seq(Nat), msg'.frames \in Seq(Nat), pongs' \in Seq(Nat),
             \/ pc' \in {"parse", "deliver"} /\ ended' = ended
             \/ pc' = "done" /\ ended' = "closed"
      PROVE  Inv'
  <2>1. inpos' \in inpos + 2 .. Len(inbuf) /\ Consumed' = End(sent[n])
    BY <1>2, ConsumeFacts
  <2>2. inpos \in Nat /\ Len(inbuf) \in Nat
    BY Numbers
  <2>3. inpos' \in 0 .. Len(inbuf)
    BY <2>1, <2>2
  <2>4. ended = "no"
    BY <1>2 DEF TypeOK
  <2>5. TypeOK'
    BY <1>2, <2>3, <2>4 DEF TypeOK
  <2>6. \A i \in inpos' + 1 .. Len(inbuf) : i \in inpos + 1 .. Len(inbuf)
    BY <1>2, ConsumeFacts
  <2>7. \A i \in inpos' + 1 .. Len(inbuf) : inbuf[i] = rx - Len(inbuf) + i
    BY <2>6 DEF StreamIntact
  <2>8. \E m \in 1 .. Len(sent') : Consumed' = End(sent'[m])
    BY <1>2, <2>1
  <2>9. StreamIntact'
    BY <1>2, <2>7, <2>8 DEF StreamIntact
  <2>10. head # 0
    BY <1>2, <2>4 DEF Handshaking
  <2> QED BY <1>2, <2>5, <2>9, <2>10 DEF RoomToRead, Handshaking
<1>3. msg.bytes \in Seq(Nat) /\ msg.frames \in Seq(Nat) /\ pongs \in Seq(Nat)
  BY DEF TypeOK
<1>4. CASE TakeClose
  BY <1>2, <1>3, <1>4 DEF TakeClose, Ends, relay
<1>5. CASE TakePing
  <2>1. PICK n \in 1 .. Len(sent) :
          Here(sent[n]) /\ Whole(sent[n]) /\ Consume(sent[n]) /\ pongs' = Append(pongs, n)
    BY <1>5 DEF TakePing
  <2>2. /\ pc = "parse"
        /\ UNCHANGED <<head, accept, sent, written, closed, brk, pc, rx, inbuf, msg, shown, ended>>
    BY <1>5 DEF TakePing, relay
  <2>3. n \in Nat
    OBVIOUS
  <2>4. pongs' \in Seq(Nat)
    BY <1>3, <2>1, <2>3, AppendProperties
  <2> QED BY <1>2, <1>3, <2>1, <2>2, <2>4
<1>6. CASE TakePong
  BY <1>2, <1>3, <1>6 DEF TakePong, relay
<1>7. CASE TakeData
  <2>1. PICK n \in 1 .. Len(sent) :
          /\ Here(sent[n]) /\ Whole(sent[n]) /\ Consume(sent[n]) /\ msg' = Join(n)
          /\ pc' = IF sent[n].shape.fin THEN "deliver" ELSE "parse"
    BY <1>7 DEF TakeData
  <2>2. /\ pc = "parse"
        /\ UNCHANGED <<head, accept, sent, written, closed, brk, rx, inbuf, shown, pongs, ended>>
    BY <1>7 DEF TakeData, relay
  <2>3. n \in Nat
    OBVIOUS
  <2>4. Pay(sent[n]) \in Seq(Nat)
    BY <2>1, <2>2, ConsumeFacts
  <2>5. msg'.frames \in Seq(Nat)
    BY <1>3, <2>1, <2>3, AppendProperties DEF Join
  <2>6. msg.bytes \o Pay(sent[n]) \in Seq(Nat)
    BY <1>3, <2>4, ConcatProperties
  <2>7. msg'.bytes \in Seq(Nat)
    BY <1>3, <2>1, <2>6 DEF Join
  <2> QED BY <1>2, <1>3, <2>1, <2>2, <2>5, <2>7
<1> QED
  BY <1>1, <1>4, <1>5, <1>6, <1>7

-----------------------------------------------------------------------------
(* Compacting and reading on: the unread bytes stay, the next ones follow.  *)
LEMMA InvEnsure ==
  ASSUME Inv, EnsureRead \/ EnsureFails
  PROVE  Inv'
<1> USE DEF Inv
<1>1. PICK a \in Nat, m \in Nat, p \in Nat :
        m = Len(inbuf) /\ p = inpos /\ p <= m /\ a = Avail /\ a = m - p
  <2>1. Len(inbuf) \in Nat /\ inpos \in Nat /\ inpos <= Len(inbuf)
    BY Numbers
  <2>2. Avail = Len(inbuf) - inpos
    BY DEF Avail
  <2>3. Len(inbuf) - inpos \in Nat
    BY <2>1
  <2> QED BY <2>1, <2>2, <2>3
<1>2. inbuf \in Seq(Nat) /\ rx \in Nat /\ InBuf \in Nat /\ written \in Nat /\ m <= InBuf
  BY <1>1, BuffersAssumption DEF TypeOK
<1>3. /\ Compacted \in Seq(Nat) /\ Len(Compacted) = a
      /\ \A i \in 1 .. a : Compacted[i] = inbuf[p + i]
  BY <1>1, CompactedFacts DEF TypeOK
<1>4. \A i \in 1 .. a : Compacted[i] = rx - a + i
  <2>1. ASSUME NEW i \in 1 .. a PROVE Compacted[i] = rx - a + i
    <3>1. PICK j \in Nat : j = p + i
      BY <1>1
    <3>2. j \in inpos + 1 .. Len(inbuf)
      BY <1>1, <3>1
    <3>3. inbuf[j] = rx - m + j
      BY <1>1, <3>2 DEF StreamIntact
    <3>4. rx - m + j = rx - a + i
      BY <1>1, <1>2, <3>1
    <3> QED BY <1>3, <3>1, <3>3, <3>4
  <2> QED BY <2>1
<1>5. pc = "ensure" /\ ended = "no" /\ head # 0
  BY DEF EnsureRead, EnsureFails, TypeOK, Handshaking
<1>6. \/ Consumed = head
      \/ \E n \in 1 .. Len(sent) : Consumed = End(sent[n])
  BY <1>5 DEF StreamIntact
<1>7. Consumed = rx - a
  BY <1>1 DEF Consumed
<1>8. CASE EnsureRead
  <2>1. PICK k \in Arrived(InBuf - Avail) : inbuf' = Compacted \o New(k) /\ rx' = rx + k
    BY <1>8 DEF EnsureRead
  <2>2. k \in Nat /\ k <= InBuf - a /\ rx + k <= written
    BY <1>1, <1>2, <2>1 DEF Arrived
  <2>3. /\ inpos' = 0 /\ brk' = FALSE
        /\ UNCHANGED <<head, accept, sent, written, closed, msg, shown, pongs>>
        /\ \/ pc' = "done" /\ ended' = "closed on break"
           \/ pc' = "parse" /\ ended' = "no"
    BY <1>5, <1>8 DEF EnsureRead, Ends, relay
  <2>4. /\ inbuf' \in Seq(Nat) /\ Len(inbuf') = a + k
        /\ \A i \in 1 .. a : inbuf'[i] = Compacted[i]
        /\ \A i \in a + 1 .. a + k : inbuf'[i] = rx + i - a
    BY <1>2, <1>3, <2>1, <2>2, NewFacts
  <2>5. \A i \in 1 .. a + k : inbuf'[i] = rx + k - (a + k) + i
    <3>1. ASSUME NEW i \in 1 .. a + k PROVE inbuf'[i] = rx + k - (a + k) + i
      <4>1. CASE i <= a
        <5>1. inbuf'[i] = rx - a + i
          BY <1>1, <1>4, <2>2, <2>4, <4>1
        <5> QED BY <1>1, <1>2, <2>2, <5>1
      <4>2. CASE ~(i <= a)
        <5>1. inbuf'[i] = rx + i - a
          BY <1>1, <2>2, <2>4, <4>2
        <5> QED BY <1>1, <1>2, <2>2, <5>1
      <4> QED BY <4>1, <4>2
    <3> QED BY <3>1
  <2>6. PICK z \in Nat : z = a + k /\ z <= InBuf
    <3>1. a \in Nat /\ k \in Nat /\ InBuf \in Nat /\ k <= InBuf - a
      BY <1>1, <1>2, <2>2
    <3>2. a + k \in Nat /\ a + k <= InBuf
      BY <3>1
    <3> QED BY <3>2
  <2>9. rx' = rx + k /\ inpos' = 0 /\ Len(inbuf') = z /\ written' = written
    BY <2>1, <2>3, <2>4, <2>6
  <2>10. Consumed' = rx - a
    <3>1. Consumed' = rx' - (Len(inbuf') - inpos')
      BY DEF Consumed, Avail
    <3>2. Consumed' = (rx + k) - (z - 0)
      BY <2>9, <3>1
    <3>3. (rx + k) - (z - 0) = rx - a
      BY <1>1, <1>2, <2>2, <2>6
    <3> QED BY <3>2, <3>3
  <2>7. TypeOK'
    <3>1. rx + k \in Nat /\ 0 \in 0 .. z
      BY <1>2, <2>2, <2>6
    <3>2. rx' \in Nat /\ rx' <= written' /\ Len(inbuf') <= InBuf
      BY <2>2, <2>6, <2>9, <3>1
    <3>3. inpos' \in 0 .. Len(inbuf')
      BY <2>9, <3>1
    <3> QED BY <2>3, <2>4, <3>2, <3>3 DEF TypeOK
  <2>8. StreamIntact'
    <3>1. \A i \in inpos' + 1 .. Len(inbuf') : inbuf'[i] = rx' - Len(inbuf') + i
      <4>1. \A i \in 1 .. z : inbuf'[i] = rx + k - z + i
        BY <2>5, <2>6
      <4>2. inpos' = 0 /\ Len(inbuf') = z /\ rx' = rx + k
        BY <2>9
      <4>3. ASSUME NEW i \in inpos' + 1 .. Len(inbuf')
            PROVE  inbuf'[i] = rx' - Len(inbuf') + i
        <5>1. i \in 1 .. z
          BY <4>2
        <5>2. inbuf'[i] = rx + k - z + i
          BY <4>1, <5>1
        <5>3. i \in Nat
          BY <2>6, <5>1
        <5> QED BY <1>2, <2>2, <2>6, <4>2, <5>2, <5>3
      <4> QED BY <4>3
    <3>2. \/ Consumed' = head'
          \/ \E n \in 1 .. Len(sent') : Consumed' = End(sent'[n])
      BY <1>6, <1>7, <2>3, <2>10
    <3> QED BY <3>1, <3>2 DEF StreamIntact
  <2> QED BY <1>5, <2>3, <2>7, <2>8 DEF RoomToRead, Handshaking
<1>9. CASE EnsureFails
  <2>1. /\ inbuf' = Compacted /\ inpos' = 0 /\ brk' = FALSE
        /\ pc' = "done" /\ ended' \in {"stopped", "closed"}
        /\ UNCHANGED <<head, accept, sent, written, closed, rx, msg, shown, pongs>>
    BY <1>9 DEF EnsureFails, Ends, relay
  <2>2. Consumed' = rx - a
    BY <1>1, <1>3, <2>1 DEF Consumed, Avail
  <2>3. TypeOK'
    <3>1. inpos' \in 0 .. Len(inbuf') /\ Len(inbuf') <= InBuf
      BY <1>1, <1>2, <1>3, <2>1
    <3> QED BY <1>3, <2>1, <3>1 DEF TypeOK
  <2>4. StreamIntact'
    <3>1. \A i \in inpos' + 1 .. Len(inbuf') : inbuf'[i] = rx' - Len(inbuf') + i
      BY <1>3, <1>4, <2>1
    <3>2. \/ Consumed' = head'
          \/ \E n \in 1 .. Len(sent') : Consumed' = End(sent'[n])
      BY <1>6, <1>7, <2>1, <2>2
    <3> QED BY <3>1, <3>2 DEF StreamIntact
  <2> QED BY <1>5, <2>1, <2>3, <2>4 DEF RoomToRead, Handshaking
<1> QED BY <1>8, <1>9

(* Handing a message on leaves the stream alone. *)
LEMMA InvDeliver ==
  ASSUME Inv, Deliver
  PROVE  Inv'
<1> USE DEF Inv
<1>1. /\ pc = "deliver" /\ msg' = NoMsg
      /\ UNCHANGED <<head, accept, sent, written, closed, rx, inbuf, inpos, pongs>>
  BY DEF Deliver, relay
<1>2. ended = "no" /\ brk \in BOOLEAN
  BY <1>1 DEF TypeOK
<1>3. /\ brk' \in BOOLEAN
      /\ \/ pc' = "done" /\ ended' \in {"left", "interrupted"}
         \/ pc' = "parse" /\ ended' = "no"
  <2>1. CASE Leaves
    BY <1>2, <2>1 DEF Deliver, Looks, Ends
  <2>2. CASE ~Leaves /\ Looks /\ brk
    BY <1>2, <2>2 DEF Deliver, Ends
  <2>3. CASE ~Leaves /\ ~(Looks /\ brk)
    BY <1>2, <2>3 DEF Deliver
  <2> QED BY <2>1, <2>2, <2>3
<1>4. msg'.bytes \in Seq(Nat) /\ msg'.frames \in Seq(Nat)
  <2>1. msg'.bytes = <<>> /\ msg'.frames = <<>>
    BY <1>1 DEF NoMsg
  <2> QED BY <2>1
<1>5. TypeOK'
  BY <1>1, <1>3, <1>4 DEF TypeOK
<1>6. StreamIntact'
  BY <1>1, <1>2, <1>3 DEF StreamIntact, Consumed, Avail
<1> QED BY <1>1, <1>2, <1>3, <1>5, <1>6 DEF RoomToRead, Handshaking

(* Nothing of a connection that has lost its place is followed. *)
LEMMA InvWanders ==
  ASSUME Inv, Wanders
  PROVE  Inv'
<1>1. /\ pc = "astray" /\ pc' = "done" /\ ended' = "astray"
      /\ UNCHANGED <<head, accept, sent, written, closed, brk, rx, inbuf, inpos, msg, shown, pongs>>
  BY DEF Wanders, Ends, relay
<1>2. TypeOK'
  BY <1>1 DEF Inv, TypeOK
<1>3. StreamIntact'
  BY <1>1 DEF Inv, TypeOK, StreamIntact, Consumed, Avail, Astray
<1>4. head # 0
  BY <1>1 DEF Inv, TypeOK, Handshaking
<1> QED BY <1>1, <1>2, <1>3, <1>4 DEF Inv, RoomToRead, Handshaking

-----------------------------------------------------------------------------
(* Every reachable state satisfies the inductive invariant. *)
LEMMA InvAlways == Spec => []Inv
<1>1. Init => Inv
  BY InvInit
<1>2. Inv /\ [Next]_vars => Inv'
  <2> SUFFICES ASSUME Inv, [Next]_vars PROVE Inv'
    OBVIOUS
  <2>1. CASE Program
    BY <2>1, InvHandshake, InvIncomplete, InvTake, InvMisreads, InvEnsure, InvDeliver DEF Program
  <2>2. CASE Relay \/ Break
    BY <2>2, InvOthers
  <2>3. CASE UNCHANGED vars
    BY <2>3 DEF vars, Inv, TypeOK, StreamIntact, RoomToRead, Handshaking, Consumed, Avail,
                Astray, Here
  <2> QED BY <2>1, <2>2, <2>3, InvWanders DEF Next, Finished
<1> QED BY <1>1, <1>2, PTL DEF Spec

(* Types, and the capacity of g_inbuf, whatever the relay sends and when.   *)
THEOREM TypeCorrect == Spec => []TypeOK
<1>1. Inv => TypeOK
  BY DEF Inv
<1> QED BY <1>1, InvAlways, PTL

(* However reads split the stream, the unread part of g_inbuf continues it  *)
(* from the end of the last frame taken (ws_ensure(), ws_read_message()).   *)
THEOREM StreamStaysIntact == Spec => []StreamIntact
<1>1. Inv => StreamIntact
  BY DEF Inv
<1> QED BY <1>1, InvAlways, PTL

(* INBUF >= PAYBUF + 14 is enough for the "frame too big" exit of           *)
(* ws_ensure() to be dead code.                                             *)
THEOREM RoomAlways == Spec => []RoomToRead
<1>1. Inv => RoomToRead
  BY DEF Inv
<1> QED BY <1>1, InvAlways, PTL

-----------------------------------------------------------------------------
(* How the relay's frames lie in the stream: after the reply, one behind    *)
(* the other, and within what it has written until it hangs up.             *)
Laid ==
  /\ head = 0 => sent = <<>>
  /\ \A n \in 1 .. Len(sent) : head <= sent[n].start
  /\ \A i, j \in 1 .. Len(sent) : i < j => End(sent[i]) <= sent[j].start
  /\ ~closed => head <= written /\ \A n \in 1 .. Len(sent) : End(sent[n]) <= written

(* ws_ensure() is only called when no frame of the buffer is whole. *)
NoneWhole == pc = "ensure" => Left = {}

(* The inductive invariant of NothingMissed. *)
Caught == Laid /\ NoneWhole /\ NothingMissed

(* A frame is at least its two fixed bytes. *)
LEMMA EndFacts ==
  ASSUME TypeOK, NEW n \in 1 .. Len(sent)
  PROVE  /\ sent[n].start \in Nat /\ End(sent[n]) \in Nat
         /\ End(sent[n]) >= sent[n].start + 2
<1>1. sent[n].shape \in Shapes /\ sent[n].start \in Nat
  BY SentFacts
<1>2. PICK s \in Nat, h \in Nat, l \in Nat :
        s = sent[n].start /\ h = sent[n].shape.hdr /\ l = sent[n].shape.len /\ h >= 2
  BY <1>1, ShapeFacts
<1>3. End(sent[n]) = s + h + l
  BY <1>2 DEF End
<1>4. s \in Nat /\ h \in Nat /\ l \in Nat /\ h >= 2
  BY <1>2
<1>5. s + h + l \in Nat /\ s + h + l >= s + 2
  BY ONLY <1>4
<1> QED BY <1>2, <1>3, <1>5

(* A frame that ends after the bytes consumed begins after them too: the    *)
(* client stops at the ends of frames only.                                 *)
LEMMA BeginsAfter ==
  ASSUME Inv, Laid, pc = "parse", NEW n \in 1 .. Len(sent),
         End(sent[n]) > Consumed
  PROVE  sent[n].start >= Consumed
<1> USE DEF Inv
<1>1. \/ Consumed = head
      \/ \E m \in 1 .. Len(sent) : Consumed = End(sent[m])
  BY DEF StreamIntact, TypeOK
<1>2. CASE Consumed = head
  BY <1>2 DEF Laid
<1>3. ASSUME NEW m \in 1 .. Len(sent), Consumed = End(sent[m])
      PROVE  sent[n].start >= Consumed
  <2>1. /\ sent[n].start \in Nat /\ End(sent[n]) \in Nat
        /\ sent[m].start \in Nat /\ End(sent[m]) \in Nat
        /\ End(sent[m]) >= sent[m].start + 2
    BY EndFacts
  <2>2. n \in Nat /\ m \in Nat
    OBVIOUS
  <2>3. CASE n < m
    <3>1. End(sent[n]) <= sent[m].start
      BY <2>3 DEF Laid
    <3> QED BY <1>3, <2>1, <3>1
  <2>4. CASE n = m
    BY <1>3, <2>1, <2>4
  <2>5. CASE m < n
    <3>1. End(sent[m]) <= sent[n].start
      BY <2>5 DEF Laid
    <3> QED BY <1>3, <2>1, <3>1
  <2> QED BY <2>2, <2>3, <2>4, <2>5
<1> QED BY <1>1, <1>2, <1>3

(* The frame to be parsed begins after the bytes consumed.                  *)
LEMMA HereFacts ==
  ASSUME Inv, NEW q \in 1 .. Len(sent), Here(sent[q])
  PROVE  Consumed = sent[q].start /\ Avail \in Nat /\ Avail <= InBuf /\ rx = Consumed + Avail
<1>1. PICK m \in Nat, p \in Nat, x \in Nat, st \in Nat, z \in Nat :
        m = Len(inbuf) /\ p = inpos /\ p <= m /\ x = rx /\ st = sent[q].start
        /\ z = InBuf /\ m <= z
  BY Numbers, SentFacts, BuffersAssumption DEF Inv
<1>2. Avail = m - p /\ Consumed = x - (m - p) /\ m - p >= 2
  BY <1>1 DEF Avail, Consumed, Here
<1>0. x \in Nat /\ m \in Nat /\ p \in Nat /\ st \in Nat /\ z \in Nat /\ m <= z /\ m - p >= 2
  BY <1>1, <1>2
<1>3. p + 1 \in p + 1 .. m
  BY ONLY <1>0
<1>4. x - m + (p + 1) = st + 1
  BY <1>1, <1>3 DEF Inv, StreamIntact, Here
<1>5. x - (m - p) = st /\ m - p \in Nat /\ m - p <= z /\ x = st + (m - p)
  BY ONLY <1>0, <1>4
<1> QED BY <1>1, <1>2, <1>5

(* A frame of negative length does not fit the receive buffer.              *)
LEMMA NegativeIsLong ==
  ASSUME Inv, NEW q \in 1 .. Len(sent), Here(sent[q]), Negative(sent[q].shape)
  PROVE  End(sent[q]) > rx
<1>1. sent[q].shape \in Shapes /\ sent[q].start \in Nat
  BY SentFacts DEF Inv
<1>2. PICK h \in Nat, l \in Nat, st \in Nat :
        h = sent[q].shape.hdr /\ l = sent[q].shape.len /\ st = sent[q].start /\ h >= 2
  BY <1>1, ShapeFacts
<1>3. PICK a \in Nat, z \in Nat, g \in Nat :
        a = Avail /\ z = InBuf /\ g = LongMax /\ a <= z /\ z <= g
  BY HereFacts, LongAssumption, BuffersAssumption
<1>4. l >= g
  BY <1>1, <1>2, <1>3, SignFacts
<1>5. rx = st + a
  BY <1>2, <1>3, HereFacts
<1>0. /\ st \in Nat /\ a \in Nat /\ z \in Nat /\ g \in Nat /\ h \in Nat /\ l \in Nat
      /\ h >= 2 /\ a <= z /\ z <= g
  BY <1>2, <1>3
<1>6. st + h + l > st + a
  BY ONLY <1>0, <1>4
<1> QED BY <1>2, <1>5, <1>6 DEF End

(* A frame that is misread leaves g_in_pos before its end. *)
LEMMA MisreadMoves ==
  ASSUME Inv, Misreads
  PROVE  /\ Consumed \in Int /\ Consumed' \in Int /\ Consumed' >= Consumed
         /\ \E n \in 1 .. Len(sent) :
              /\ Negative(sent[n].shape) /\ Consumed = sent[n].start
              /\ Consumed' < End(sent[n])
<1>1. PICK n \in 1 .. Len(sent) :
        /\ Here(sent[n]) /\ Misread(sent[n])
        /\ inpos' = inpos + Takes(sent[n].shape)
  BY DEF Misreads
<1>2. pc = "parse" /\ UNCHANGED <<sent, rx, inbuf>>
  BY DEF Misreads, relay
<1>3. sent[n].shape \in Shapes /\ sent[n].start \in Nat
  BY SentFacts DEF Inv
<1>4. PICK k \in Int, st \in Nat, h \in Nat, l \in Nat :
        /\ k = Takes(sent[n].shape) /\ st = sent[n].start
        /\ h = sent[n].shape.hdr /\ l = sent[n].shape.len
  BY <1>3, SignFacts, ShapeFacts
<1>5. Negative(sent[n].shape) /\ k > 0 /\ k < h
  BY <1>1, <1>3, <1>4, SignFacts DEF Misread
<1>6. Consumed = st /\ Consumed' = st + k
  BY <1>1, <1>2, <1>4, MisreadFacts
<1>7. End(sent[n]) = st + h + l
  BY <1>4 DEF End
<1>8. k \in Int /\ st \in Nat /\ h \in Nat /\ l \in Nat /\ k > 0 /\ k < h
  BY <1>4, <1>5
<1>9. st \in Int /\ st + k \in Int /\ st + k >= st /\ st + k < st + h + l
  BY ONLY <1>8
<1> QED BY <1>4, <1>5, <1>6, <1>7, <1>9

(* When the frame to be parsed has not arrived whole, none has that is left. *)
LEMMA NoneLeft ==
  ASSUME Inv, Laid, pc = "parse", NEW q \in 1 .. Len(sent),
         Here(sent[q]), End(sent[q]) > rx
  PROVE  Left = {}
<1> SUFFICES ASSUME NEW n \in 1 .. Len(sent),
                    End(sent[n]) <= rx, End(sent[n]) > Consumed
             PROVE  FALSE
  BY DEF Left
<1>1. /\ sent[n].start \in Nat /\ End(sent[n]) \in Nat
      /\ End(sent[n]) >= sent[n].start + 2
      /\ sent[q].start \in Nat /\ End(sent[q]) \in Nat
  BY EndFacts DEF Inv
<1>2. Consumed = sent[q].start /\ rx \in Nat
  BY HereFacts, Numbers DEF Inv
<1>3. sent[n].start >= sent[q].start
  BY <1>2, BeginsAfter
<1>4. n \in Nat /\ q \in Nat
  OBVIOUS
<1>5. CASE n = q
  BY <1>1, <1>2, <1>5
<1>6. CASE n < q
  <2>1. End(sent[n]) <= sent[q].start
    BY <1>6 DEF Laid
  <2> QED BY <1>1, <1>2, <2>1
<1>7. CASE q < n
  <2>1. End(sent[q]) <= sent[n].start
    BY <1>7 DEF Laid
  <2> QED BY <1>1, <1>2, <2>1
<1> QED BY <1>4, <1>5, <1>6, <1>7

(* When ws_parse_frame() asks for more bytes, no frame has arrived whole.   *)
LEMMA IncompleteLeavesNone ==
  ASSUME Inv, Laid, Incomplete
  PROVE  Left = {}
<1>1. pc = "parse"
  BY DEF Incomplete
<1>2. CASE Avail < 2
  <2> SUFFICES ASSUME NEW n \in 1 .. Len(sent),
                      End(sent[n]) <= rx, End(sent[n]) > Consumed
               PROVE  FALSE
    BY DEF Left
  <2>1. PICK m \in Nat, p \in Nat, x \in Nat :
          m = Len(inbuf) /\ p = inpos /\ p <= m /\ x = rx
    BY Numbers DEF Inv
  <2>2. m - p < 2 /\ Consumed = x - (m - p)
    BY <1>2, <2>1 DEF Avail, Consumed
  <2>3. PICK st \in Nat, e \in Nat : st = sent[n].start /\ e = End(sent[n]) /\ e >= st + 2
    BY EndFacts DEF Inv
  <2>4. st >= x - (m - p) /\ e <= x
    BY <1>1, <2>1, <2>2, <2>3, BeginsAfter
  <2>5. m \in Nat /\ p \in Nat /\ x \in Nat /\ st \in Nat /\ e \in Nat
    BY <2>1, <2>3
  <2>6. m - p < 2 /\ e >= st + 2
    BY <2>2, <2>3
  <2> QED BY ONLY <2>4, <2>5, <2>6
<1>3. ASSUME NEW q \in 1 .. Len(sent), Here(sent[q]),
             ~Whole(sent[q]), ~Misread(sent[q]), ~Bad(sent[q])
      PROVE  Left = {}
  <2>1. sent[q].shape \in Shapes /\ sent[q].start \in Nat
    BY SentFacts DEF Inv
  <2>2. CASE Negative(sent[q].shape)
    BY <1>1, <1>3, <2>2, NegativeIsLong, NoneLeft
  <2>3. CASE ~Negative(sent[q].shape)
    <3>1. PICK h \in Nat, l \in Nat, st \in Nat, a \in Nat :
            /\ h = sent[q].shape.hdr /\ l = sent[q].shape.len /\ st = sent[q].start
            /\ a = Avail /\ rx = st + a
      BY <1>3, <2>1, ShapeFacts, HereFacts
    <3>2. a < h + l
      <4>1. CASE TooLong(sent[q])
        BY <1>3, <3>1, <4>1 DEF Bad
      <4>2. CASE ~TooLong(sent[q])
        BY <1>3, <2>3, <3>1, <4>2 DEF Whole
      <4> QED BY <4>1, <4>2
    <3>3. End(sent[q]) = st + h + l
      BY <3>1 DEF End
    <3>4. st + h + l > st + a
      <4>1. h \in Nat /\ l \in Nat /\ st \in Nat /\ a \in Nat
        BY <3>1
      <4> QED BY ONLY <3>2, <4>1
    <3> QED BY <1>1, <1>3, <3>1, <3>3, <3>4, NoneLeft
  <2> QED BY <2>2, <2>3
<1> QED BY <1>2, <1>3 DEF Incomplete

(* The relay lays its frames one behind the other, and what it sends has    *)
(* not arrived yet.                                                         *)
LEMMA CaughtOthers ==
  ASSUME Inv, Caught, Relay \/ Break
  PROVE  Caught'
<1> USE DEF Inv, Caught
<1>0. ended = "no" /\ ended' = ended /\ pc' = pc /\ UNCHANGED <<rx, inbuf, inpos>>
  BY DEF Relay, RelayReplies, RelaySends, RelayCloses, Break, client, TypeOK
<1>1. NothingMissed'
  BY <1>0 DEF NothingMissed
<1>2. Consumed' = Consumed
  BY <1>0 DEF Consumed, Avail
<1>3. CASE RelayReplies
  <2>1. sent = <<>> /\ sent' = sent /\ written' = head' /\ head' \in Nat
    BY <1>3, BuffersAssumption DEF RelayReplies, Laid
  <2>2. 1 .. Len(sent') = {}
    BY <2>1
  <2>3. Laid'
    BY <2>1, <2>2 DEF Laid
  <2>4. NoneWhole'
    BY <2>2 DEF NoneWhole, Left
  <2> QED BY <1>1, <2>3, <2>4
<1>4. CASE RelaySends
  <2>1. head > 0 /\ ~closed /\ head' = head /\ closed' = closed
    BY <1>4 DEF RelaySends
  <2>2. PICK s \in Shapes : /\ sent' = Append(sent, [shape |-> s, start |-> written])
                            /\ written' = written + s.hdr + s.len
    BY <1>4 DEF RelaySends
  <2>3. s.hdr \in Nat /\ s.len \in Nat /\ s.hdr >= 2
    BY ShapeFacts
  <2>4. PICK k \in Nat, w \in Nat, x \in Nat :
          k = Len(sent) /\ w = written /\ x = rx /\ x <= w
    BY Numbers
  <2>5. [shape |-> s, start |-> written] \in [shape : Shapes, start : Nat]
    BY <2>4
  <2>6. /\ Len(sent') = k + 1
        /\ \A n \in 1 .. k : sent'[n] = sent[n]
        /\ sent'[k + 1] = [shape |-> s, start |-> written]
    BY <2>2, <2>4, <2>5, Numbers, AppendProperties
  <2>7. \A n \in 1 .. k : End(sent'[n]) = End(sent[n]) /\ sent'[n].start = sent[n].start
    BY <2>6 DEF End
  <2>8. sent'[k + 1].start = w /\ End(sent'[k + 1]) = written'
    BY <2>2, <2>4, <2>6 DEF End
  <2>9. written' \in Nat /\ written' >= w + 2
    BY <2>2, <2>3, <2>4
  <2>10. \A n \in 1 .. k + 1 : n \in 1 .. k \/ n = k + 1
    BY <2>4
  <2>11. head <= w /\ head \in Nat /\ \A n \in 1 .. k : End(sent[n]) <= w
    BY <2>1, <2>4, Numbers DEF Laid
  <2>12. \A n \in 1 .. k : End(sent[n]) \in Nat
    BY <2>4, EndFacts
  <2>13. \A n \in 1 .. k + 1 : head' <= sent'[n].start
    BY <2>1, <2>4, <2>7, <2>8, <2>10, <2>11 DEF Laid
  <2>14. \A i, j \in 1 .. k + 1 : i < j => End(sent'[i]) <= sent'[j].start
    <3>1. SUFFICES ASSUME NEW i \in 1 .. k + 1, NEW j \in 1 .. k + 1, i < j
                   PROVE  End(sent'[i]) <= sent'[j].start
      OBVIOUS
    <3>2. i \in 1 .. k
      BY <2>4, <3>1
    <3>3. CASE j \in 1 .. k
      BY <2>4, <2>7, <3>1, <3>2, <3>3 DEF Laid
    <3>4. CASE j = k + 1
      BY <2>7, <2>8, <2>11, <3>2, <3>4
    <3> QED BY <2>10, <3>3, <3>4
  <2>15. \A n \in 1 .. k + 1 : End(sent'[n]) <= written'
    BY <2>4, <2>7, <2>8, <2>9, <2>10, <2>11, <2>12
  <2>16. Laid'
    <3>1. head' # 0
      BY <2>1, <2>11
    <3>2. head' <= written'
      BY <2>1, <2>4, <2>9, <2>11
    <3> QED BY <2>6, <2>13, <2>14, <2>15, <3>1, <3>2 DEF Laid
  <2>17. NoneWhole'
    <3>1. SUFFICES ASSUME pc = "ensure", NEW n \in 1 .. k + 1,
                          End(sent'[n]) <= x, End(sent'[n]) > Consumed
                   PROVE  FALSE
      BY <1>0, <1>2, <2>4, <2>6 DEF NoneWhole, Left
    <3>2. CASE n \in 1 .. k
      BY <2>4, <2>7, <3>1, <3>2 DEF NoneWhole, Left
    <3>3. CASE n = k + 1
      BY <2>4, <2>8, <2>9, <3>1, <3>3
    <3> QED BY <2>10, <3>2, <3>3
  <2> QED BY <1>1, <2>16, <2>17
<1>5. CASE RelayCloses
  <2>1. closed' = TRUE /\ UNCHANGED <<head, sent>>
    BY <1>5 DEF RelayCloses
  <2> QED BY <1>0, <1>1, <1>2, <2>1 DEF Laid, NoneWhole, Left, End
<1>6. CASE Break
  <2>1. UNCHANGED <<head, sent, written, closed>>
    BY <1>6 DEF Break, relay
  <2> QED BY <1>0, <1>1, <1>2, <2>1 DEF Laid, NoneWhole, Left, End
<1> QED BY <1>3, <1>4, <1>5, <1>6 DEF Relay

(* The client never touches the relay's side; it stops on "closed" only     *)
(* with a close frame or after ws_ensure() read nothing more.               *)
LEMMA CaughtClient ==
  ASSUME Inv, Caught, Program
  PROVE  Caught'
<1> USE DEF Inv, Caught
<1>1. UNCHANGED <<head, sent, written, closed>>
  BY DEF Program, HandshakeRead, HandshakeFails, Subscribe, Incomplete, BadFrame,
         TakeClose, TakePing, TakePong, TakeData, Misreads, EnsureRead,
         EnsureFails, Deliver, relay
<1>2. Laid'
  BY <1>1 DEF Laid, End
<1>3. pc # "done" /\ ended = "no"
  BY DEF Program, HandshakeRead, HandshakeFails, Subscribe, Incomplete, BadFrame,
         TakeClose, TakePing, TakePong, TakeData, Misreads, EnsureRead,
         EnsureFails, Deliver, TypeOK
<1>4. CASE Incomplete
  <2>1. Left = {}
    BY <1>4, IncompleteLeavesNone
  <2>2. ended' = ended /\ UNCHANGED <<rx, inbuf, inpos>>
    BY <1>4 DEF Incomplete
  <2>3. Left' = Left
    BY <1>1, <2>2 DEF Left, Consumed, Avail, End
  <2> QED BY <1>2, <1>3, <2>1, <2>2, <2>3 DEF NoneWhole, NothingMissed
<1>5. CASE TakeClose
  <2>1. PICK n \in 1 .. Len(sent) :
          /\ Here(sent[n]) /\ Whole(sent[n]) /\ sent[n].shape.op = "close"
          /\ Consume(sent[n])
    BY <1>5 DEF TakeClose
  <2>2. pc = "parse" /\ pc' = "done" /\ UNCHANGED <<sent, rx, inbuf>>
    BY <1>5 DEF TakeClose, Ends, relay
  <2>3. Consumed' = End(sent[n])
    BY <2>1, <2>2, ConsumeFacts
  <2>4. n \in 1 .. Len(sent') /\ sent'[n].shape.op = "close" /\ End(sent'[n]) = Consumed'
    BY <2>1, <2>2, <2>3
  <2> QED BY <1>2, <2>2, <2>4 DEF NoneWhole, NothingMissed
<1>6. CASE EnsureFails
  <2>1. /\ pc = "ensure" /\ inbuf' = Compacted /\ inpos' = 0 /\ rx' = rx
        /\ pc' = "done"
    BY <1>6 DEF EnsureFails, Ends
  <2>2. Len(Compacted) = Avail /\ Avail \in Nat
    BY CompactedFacts DEF TypeOK
  <2>3. Avail' = Avail
    BY <2>1, <2>2 DEF Avail
  <2>4. Left' = Left
    BY <1>1, <2>1, <2>3 DEF Left, Consumed, End
  <2> QED BY <1>2, <2>1, <2>4 DEF NoneWhole, NothingMissed
<1>7. CASE \/ HandshakeRead \/ HandshakeFails \/ Subscribe \/ BadFrame
           \/ TakePing \/ TakePong \/ TakeData \/ EnsureRead \/ Deliver
  <2>1. pc' # "ensure" /\ ended' # "closed"
    <3>1. CASE HandshakeRead
      BY <1>3, <3>1 DEF HandshakeRead, Ends
    <3>2. CASE EnsureRead
      BY <1>3, <3>2 DEF EnsureRead, Ends
    <3>3. CASE Deliver
      BY <1>3, <3>3 DEF Deliver, Ends, Looks
    <3>4. CASE \/ HandshakeFails \/ Subscribe \/ BadFrame
               \/ TakePing \/ TakePong \/ TakeData
      BY <1>3, <3>4 DEF HandshakeFails, Subscribe, BadFrame, TakePing, TakePong,
                        TakeData, Ends
    <3> QED BY <1>7, <3>1, <3>2, <3>3, <3>4
  <2> QED BY <1>2, <2>1 DEF NoneWhole, NothingMissed
<1>8. CASE Misreads
  <2>1. PICK n \in 1 .. Len(sent) : Here(sent[n]) /\ Misread(sent[n])
    BY <1>8 DEF Misreads
  <2>2. pc = "parse" /\ pc' # "ensure" /\ UNCHANGED <<sent, rx, inbuf>>
    BY <1>8 DEF Misreads, Ends, relay
  <2>3. Left = {}
    BY <2>1, <2>2, NegativeIsLong, NoneLeft DEF Misread
  <2>4. Consumed \in Int /\ Consumed' >= Consumed /\ Consumed' \in Int
    BY <1>8, MisreadMoves
  <2>5. ASSUME NEW q \in 1 .. Len(sent), End(sent[q]) > Consumed'
        PROVE  End(sent[q]) > Consumed
    <3>1. End(sent[q]) \in Nat
      BY EndFacts
    <3> QED BY <2>4, <2>5, <3>1
  <2>6. Left' = {}
    BY <2>2, <2>3, <2>5 DEF Left, End
  <2> QED BY <1>2, <2>2, <2>6 DEF NoneWhole, NothingMissed
<1> QED BY <1>4, <1>5, <1>6, <1>7, <1>8 DEF Program

LEMMA CaughtAlways == Spec => []Caught
<1>1. Init => Caught
  <2>1. SUFFICES ASSUME Init PROVE Caught
    OBVIOUS
  <2>2. sent = <<>> /\ head = 0 /\ written = 0 /\ pc = "handshake" /\ ended = "no"
    BY <2>1 DEF Init
  <2>3. 1 .. Len(sent) = {}
    BY <2>2
  <2> QED BY <2>2, <2>3 DEF Caught, Laid, NoneWhole, NothingMissed
<1>2. Inv /\ Caught /\ [Next]_vars => Caught'
  <2> SUFFICES ASSUME Inv, Caught, [Next]_vars PROVE Caught'
    OBVIOUS
  <2>1. CASE Program
    BY <2>1, CaughtClient
  <2>2. CASE Relay \/ Break
    BY <2>2, CaughtOthers
  <2>3. CASE UNCHANGED vars
    BY <2>3 DEF vars, Caught, Laid, NoneWhole, NothingMissed, Left, Consumed, Avail, End
  <2>4. CASE Wanders
    BY <2>4 DEF Wanders, Ends, relay, Caught, Laid, NoneWhole, NothingMissed, End
  <2> QED BY <2>1, <2>2, <2>3, <2>4 DEF Next, Finished
<1> QED BY <1>1, <1>2, InvAlways, PTL DEF Spec

(* When the relay hangs up, whatever it sent and however the reads split    *)
(* it, every whole frame before a close frame has been taken                *)
(* (ws_parse_frame(), ws_ensure(), ws_read_message()).                      *)
THEOREM NoFrameMissed == Spec => []NothingMissed
<1>1. Caught => NothingMissed
  BY DEF Caught
<1> QED BY <1>1, CaughtAlways, PTL

-----------------------------------------------------------------------------
(* Messages, with the frames they are made of as a parameter.               *)
Stored(m) == {m.bytes[i] : i \in 1 .. Len(m.bytes)}

FramesOf(st, m) == UNION {Payload(st[m.frames[i]]) : i \in 1 .. Len(m.frames)}

MsgRec == [bytes : Seq(Nat), op : {"text", "binary", "none"}, tag : Tags,
           frames : Seq(Nat)]

(* What MessagesIntact says of one message, with what makes it inductive:   *)
(* its bytes are as many as the positions they come from.                   *)
Intact(st, m) ==
  /\ \A i \in 1 .. Len(m.frames) : m.frames[i] \in 1 .. Len(st)
  /\ \A i, j \in 1 .. Len(m.bytes) : i < j => m.bytes[i] < m.bytes[j]
  /\ \A i \in 1 .. Len(m.frames) :
       \/ Payload(st[m.frames[i]]) \subseteq Stored(m)
       \/ Payload(st[m.frames[i]]) \cap Stored(m) = {}
  /\ Stored(m) \subseteq FramesOf(st, m)
  /\ Cardinality(FramesOf(st, m)) < MsgBuf - 1 => Stored(m) = FramesOf(st, m)
  /\ Len(m.bytes) < MsgBuf
  /\ IsFiniteSet(Stored(m)) /\ Cardinality(Stored(m)) = Len(m.bytes)
  /\ IsFiniteSet(FramesOf(st, m))

(* The inductive invariant: the message under construction lies before the  *)
(* bytes that are still unread.                                             *)
Joined ==
  /\ msg \in MsgRec /\ Intact(sent, msg)
  /\ \A x \in FramesOf(sent, msg) : x <= Consumed
  /\ pc = "handshake" => msg.frames = <<>>
  /\ shown \in Seq(MsgRec)
  /\ \A k \in 1 .. Len(shown) : Intact(sent, shown[k])

LEMMA NoMsgIntact ==
  ASSUME NEW st
  PROVE  NoMsg \in MsgRec /\ Intact(st, NoMsg) /\ FramesOf(st, NoMsg) = {}
<1>1. NoMsg.bytes = <<>> /\ NoMsg.frames = <<>>
  BY DEF NoMsg
<1>2. NoMsg \in MsgRec
  BY DEF NoMsg, MsgRec, Tags
<1>3. 1 .. Len(NoMsg.bytes) = {} /\ 1 .. Len(NoMsg.frames) = {} /\ Len(NoMsg.bytes) = 0
  BY <1>1
<1>4. Stored(NoMsg) = {} /\ FramesOf(st, NoMsg) = {}
  BY <1>3 DEF Stored, FramesOf
<1>5. MsgBuf > 0
  BY MessageAssumption
<1> QED BY <1>2, <1>3, <1>4, <1>5, FS_EmptySet DEF Intact

(* Frames the relay adds later change nothing of a message.                 *)
LEMMA IntactLater ==
  ASSUME NEW st, NEW st2, NEW m, Len(st) \in Nat, Len(st2) \in Nat, Len(st) <= Len(st2),
         \A n \in 1 .. Len(st) : st2[n] = st[n],
         Intact(st, m)
  PROVE  Intact(st2, m) /\ FramesOf(st2, m) = FramesOf(st, m)
<1>1. \A i \in 1 .. Len(m.frames) :
        m.frames[i] \in 1 .. Len(st2) /\ st2[m.frames[i]] = st[m.frames[i]]
  BY DEF Intact
<1>2. FramesOf(st2, m) = FramesOf(st, m)
  BY <1>1 DEF FramesOf
<1> QED BY <1>1, <1>2 DEF Intact

(* A whole frame at g_in_pos: where it begins, and what its payload is.     *)
LEMMA PayFacts ==
  ASSUME Inv, NEW n \in 1 .. Len(sent), Here(sent[n]), Whole(sent[n])
  PROVE  /\ sent[n].start = Consumed
         /\ sent[n].shape.hdr \in Nat /\ sent[n].shape.len \in Nat
         /\ Pay(sent[n]) \in Seq(Nat)
         /\ Len(Pay(sent[n])) = sent[n].shape.len
         /\ \A i \in 1 .. sent[n].shape.len :
              Pay(sent[n])[i] = Consumed + sent[n].shape.hdr + i
<1> USE DEF Inv
<1>1. sent[n].shape \in Shapes /\ sent[n].start \in Nat
  BY SentFacts
<1>2. PICK h \in Nat, l \in Nat :
        h = sent[n].shape.hdr /\ l = sent[n].shape.len /\ h >= 2
  BY <1>1, ShapeFacts
<1>3. PICK m \in Nat, p \in Nat, x \in Nat :
        m = Len(inbuf) /\ p = inpos /\ p <= m /\ x = rx
  BY Numbers
<1>4. inbuf \in Seq(Nat)
  BY Numbers
<1>5. p + h + l <= m
  <2>1. Avail = m - p
    BY <1>3 DEF Avail
  <2>2. m - p >= h + l
    BY <1>2, <2>1 DEF Whole
  <2>3. h \in Nat /\ l \in Nat /\ p \in Nat /\ m \in Nat
    BY <1>2, <1>3
  <2> QED BY ONLY <2>2, <2>3
<1>6. Consumed = x - (m - p)
  BY <1>3 DEF Consumed, Avail
<1>7. \A i \in p + 1 .. m : inbuf[i] = x - m + i
  BY <1>3 DEF StreamIntact
<1>8. sent[n].start = Consumed
  <2>1. p + 1 \in p + 1 .. m
    BY <1>2, <1>3, <1>5
  <2>2. inbuf[p + 1] = sent[n].start + 1
    BY <1>3 DEF Here
  <2>3. x - m + (p + 1) = sent[n].start + 1
    BY <1>7, <2>1, <2>2
  <2> QED BY <1>1, <1>3, <1>6, <2>3
<1>9. Pay(sent[n]) = SubSeq(inbuf, p + h + 1, p + h + l)
  BY <1>2, <1>3 DEF Pay
<1>10. PICK a \in Nat, b \in Nat : a = p + h + 1 /\ b = p + h + l
  OBVIOUS
<1>11. CASE l = 0
  <2>1. Pay(sent[n]) = <<>>
    BY <1>9, <1>10, <1>11
  <2> QED BY <1>2, <1>8, <1>11, <2>1
<1>12. CASE l > 0
  <2>1. \A i \in a .. b : inbuf[i] \in Nat
    BY <1>3, <1>4, <1>5, <1>10, ElementOfSeq
  <2>2. /\ SubSeq(inbuf, a, b) \in Seq(Nat)
        /\ Len(SubSeq(inbuf, a, b)) = b - a + 1
        /\ \A i \in 1 .. b - a + 1 : SubSeq(inbuf, a, b)[i] = inbuf[a + i - 1]
    BY <1>3, <1>4, <1>5, <1>10, <1>12, <2>1, SubSeqProperties
  <2>3. b - a + 1 = l
    BY <1>10
  <2>4. \A i \in 1 .. l : a + i - 1 \in p + 1 .. m /\ x - m + (a + i - 1) = Consumed + h + i
    BY <1>3, <1>5, <1>6, <1>10
  <2>5. \A i \in 1 .. l : Pay(sent[n])[i] = Consumed + h + i
    BY <1>7, <1>9, <1>10, <2>2, <2>3, <2>4
  <2> QED BY <1>2, <1>8, <1>9, <1>10, <2>2, <2>3, <2>5
<1> QED BY <1>11, <1>12

(* The bytes of frames are positions of the stream. *)
LEMMA FramesNat ==
  ASSUME TypeOK, NEW m, Intact(sent, m)
  PROVE  FramesOf(sent, m) \subseteq Nat
<1> SUFFICES ASSUME NEW x \in FramesOf(sent, m) PROVE x \in Nat
  OBVIOUS
<1>1. PICK i \in 1 .. Len(m.frames) : x \in Payload(sent[m.frames[i]])
  BY DEF FramesOf
<1>2. m.frames[i] \in 1 .. Len(sent)
  BY <1>1 DEF Intact
<1>3. /\ sent[m.frames[i]].shape.hdr \in Nat
      /\ sent[m.frames[i]].start \in Nat
      /\ End(sent[m.frames[i]]) \in Nat
  BY <1>2, SentFacts, ShapeFacts, EndFacts
<1> QED BY <1>1, <1>3 DEF Payload

(* s is a, of length k, followed by b, of length l. *)
Parts(s, a, k, b, l) ==
  /\ Len(s) = k + l
  /\ \A i \in 1 .. k : s[i] = a[i]
  /\ \A q \in 1 .. l : s[k + q] = b[q]
  /\ \A i \in 1 .. k + l : i \in 1 .. k \/ \E q \in 1 .. l : i = k + q

LEMMA ConcatParts ==
  ASSUME NEW a \in Seq(Nat), NEW b \in Seq(Nat), NEW k \in Nat, NEW l \in Nat,
         k = Len(a), l = Len(b)
  PROVE  Parts(a \o b, a, k, b, l)
<1>1. /\ Len(a \o b) = Len(a) + Len(b)
      /\ \A i \in 1 .. Len(a) + Len(b) :
           (a \o b)[i] = IF i <= Len(a) THEN a[i] ELSE b[i - Len(a)]
  BY ConcatProperties
<1>2. \A i \in 1 .. k + l : (a \o b)[i] = IF i <= k THEN a[i] ELSE b[i - k]
  BY <1>1
<1>3. \A q \in 1 .. l : k + q \in 1 .. k + l /\ ~(k + q <= k) /\ (k + q) - k = q
  OBVIOUS
<1>4. \A q \in 1 .. l : (a \o b)[k + q] = b[q]
  BY <1>2, <1>3
<1>5. \A i \in 1 .. k : i \in 1 .. k + l
  OBVIOUS
<1>6. ASSUME NEW i \in 1 .. k + l, ~(i \in 1 .. k)
      PROVE  \E q \in 1 .. l : i = k + q
  <2>1. i - k \in 1 .. l /\ i = k + (i - k)
    BY <1>6
  <2> QED BY <2>1
<1> QED BY <1>1, <1>2, <1>4, <1>5, <1>6 DEF Parts

(* A frame joins the message with all of its payload or with none of it;    *)
(* when it is left out, the message has no room for what came.              *)
LEMMA JoinIntact ==
  ASSUME Inv, Joined, NEW n \in 1 .. Len(sent), Here(sent[n]), Whole(sent[n]),
         sent[n].shape.op \in Data
  PROVE  /\ Join(n) \in MsgRec /\ Intact(sent, Join(n))
         /\ \A x \in FramesOf(sent, Join(n)) : x <= End(sent[n])
<1> DEFINE m2 == Join(n)
           F == FramesOf(sent, msg)
           P == Payload(sent[n])
<1>1. PICK c \in Nat, h \in Nat, l \in Nat :
        /\ c = Consumed /\ h = sent[n].shape.hdr /\ l = sent[n].shape.len
        /\ sent[n].start = c
  <2>1. sent[n].start \in Nat
    BY SentFacts DEF Inv
  <2> QED BY <2>1, PayFacts
<1>0. c \in Nat /\ h \in Nat /\ l \in Nat
  BY <1>1
<1>2. /\ Pay(sent[n]) \in Seq(Nat) /\ Len(Pay(sent[n])) = l
      /\ \A i \in 1 .. l : Pay(sent[n])[i] = c + h + i
  BY <1>1, PayFacts
<1>3. End(sent[n]) = c + h + l /\ P = c + h + 1 .. c + h + l
  BY <1>1 DEF End, Payload
<1>4. msg \in MsgRec /\ Intact(sent, msg) /\ \A x \in F : x <= c
  BY <1>1 DEF Joined
<1>5. /\ msg.bytes \in Seq(Nat) /\ Len(msg.bytes) \in Nat
      /\ msg.frames \in Seq(Nat) /\ Len(msg.frames) \in Nat
      /\ msg.op \in {"text", "binary", "none"} /\ msg.tag \in Tags
  BY <1>4 DEF MsgRec
<1>6. /\ m2.frames = Append(msg.frames, n)
      /\ m2.bytes = IF Fits(sent[n]) THEN msg.bytes \o Pay(sent[n]) ELSE msg.bytes
  BY DEF Join
<1>7. m2 \in MsgRec
  <2>1. Append(msg.frames, n) \in Seq(Nat)
    BY <1>5, AppendProperties
  <2>2. msg.bytes \o Pay(sent[n]) \in Seq(Nat)
    BY <1>2, <1>5, ConcatProperties
  <2>3. sent[n].shape \in Shape
    BY SentFacts, BuffersAssumption DEF Inv
  <2>4. sent[n].shape.tag \in Tags
    BY <2>3 DEF Shape
  <2> QED BY <1>5, <2>1, <2>2, <2>4 DEF Join, MsgRec, Data
<1> HIDE DEF m2
<1>8. /\ Len(m2.frames) = Len(msg.frames) + 1 /\ m2.frames[Len(msg.frames) + 1] = n
      /\ \A i \in 1 .. Len(msg.frames) : m2.frames[i] = msg.frames[i]
  BY <1>5, <1>6, AppendProperties
<1>9. \A i \in 1 .. Len(m2.frames) : i \in 1 .. Len(msg.frames) \/ i = Len(msg.frames) + 1
  BY <1>5, <1>8
<1>10. FramesOf(sent, m2) = F \cup P
  <2>1. \A i \in 1 .. Len(msg.frames) : i \in 1 .. Len(m2.frames)
    BY <1>5, <1>8
  <2>2. Len(msg.frames) + 1 \in 1 .. Len(m2.frames)
    BY <1>5, <1>8
  <2>3. ASSUME NEW x \in FramesOf(sent, m2) PROVE x \in F \cup P
    <3>1. PICK i \in 1 .. Len(m2.frames) : x \in Payload(sent[m2.frames[i]])
      BY DEF FramesOf
    <3> QED BY <1>8, <1>9, <3>1 DEF FramesOf
  <2>4. ASSUME NEW x \in F PROVE x \in FramesOf(sent, m2)
    BY <1>8, <2>1 DEF FramesOf
  <2>5. ASSUME NEW x \in P PROVE x \in FramesOf(sent, m2)
    BY <1>8, <2>2 DEF FramesOf
  <2> QED BY <2>3, <2>4, <2>5
<1>11. F \cap P = {}
  <2> SUFFICES ASSUME NEW x \in F, x \in P PROVE FALSE
    OBVIOUS
  <2>1. x <= c
    BY <1>4
  <2>2. x \in Nat /\ x >= c + h + 1
    BY <1>1, <1>3
  <2> QED BY <1>1, <2>1, <2>2
<1>12. IsFiniteSet(P) /\ Cardinality(P) = l
  <2>1. PICK a \in Int, b \in Int : a = c + h + 1 /\ b = c + h + l
    BY <1>0
  <2>2. IsFiniteSet(a .. b) /\ Cardinality(a .. b) = IF a > b THEN 0 ELSE b - a + 1
    BY FS_Interval
  <2>3. (IF a > b THEN 0 ELSE b - a + 1) = l
    BY ONLY <1>0, <2>1
  <2> QED BY <1>3, <2>1, <2>2, <2>3
<1>13. IsFiniteSet(F) /\ IsFiniteSet(Stored(msg)) /\ Cardinality(Stored(msg)) = Len(msg.bytes)
       /\ Stored(msg) \subseteq F
  BY <1>4 DEF Intact
<1>14. /\ IsFiniteSet(F \cup P) /\ Cardinality(F \cup P) = Cardinality(F) + l
       /\ Cardinality(F) \in Nat
  <2>1. Cardinality(F \cap P) = 0
    BY <1>11, FS_EmptySet
  <2>2. Cardinality(F) \in Nat
    BY <1>13, FS_CardinalityType
  <2>3. /\ IsFiniteSet(F \cup P)
        /\ Cardinality(F \cup P) = Cardinality(F) + Cardinality(P) - Cardinality(F \cap P)
    BY <1>12, <1>13, FS_Union
  <2> QED BY <1>1, <1>12, <2>1, <2>2, <2>3
<1>15. \A x \in FramesOf(sent, m2) : x <= End(sent[n])
  <2>1. ASSUME NEW x \in F \cup P PROVE x <= c + h + l
    <3>1. CASE x \in P
      BY <1>3, <3>1
    <3>2. CASE x \in F
      <4>1. x <= c /\ c <= c + h + l
        BY <1>1, <1>4, <3>2
      <4>2. x \in Nat
        BY <1>4, <3>2, FramesNat DEF Inv
      <4>3. c <= c + h + l
        BY <1>0
      <4> QED BY <1>0, <4>1, <4>2, <4>3
    <3> QED BY <3>1, <3>2
  <2> QED BY <1>3, <1>10, <2>1
<1>16. CASE Fits(sent[n])
  <2>0. PICK k \in Nat : k = Len(msg.bytes)
    BY <1>5
  <2>1. m2.bytes = msg.bytes \o Pay(sent[n]) /\ k + l < MsgBuf - 1
    BY <1>1, <1>6, <1>16, <2>0 DEF Fits
  <2>2. /\ Len(m2.bytes) = k + l
        /\ \A i \in 1 .. k : m2.bytes[i] = msg.bytes[i]
        /\ \A q \in 1 .. l : m2.bytes[k + q] = Pay(sent[n])[q]
        /\ \A i \in 1 .. k + l : i \in 1 .. k \/ \E q \in 1 .. l : i = k + q
    <3>1. /\ msg.bytes \in Seq(Nat) /\ Pay(sent[n]) \in Seq(Nat)
          /\ k = Len(msg.bytes) /\ l = Len(Pay(sent[n]))
          /\ m2.bytes = msg.bytes \o Pay(sent[n])
      BY <1>2, <1>5, <2>0, <2>1
    <3>2. Parts(m2.bytes, msg.bytes, k, Pay(sent[n]), l)
      BY <1>0, <2>0, <3>1, ConcatParts
    <3> QED BY <3>2, Zenon DEF Parts
  <2>3. \A i \in 1 .. k : i \in 1 .. Len(m2.bytes)
    BY <1>0, <2>0, <2>2
  <2>4. \A q \in 1 .. l : m2.bytes[k + q] = c + h + q /\ k + q \in 1 .. Len(m2.bytes)
    <3>1. \A q \in 1 .. l : k + q \in 1 .. k + l
      BY <1>0, <2>0
    <3> QED BY <1>2, <2>2, <3>1
  <2>5. \A i \in 1 .. Len(m2.bytes) : i \in 1 .. k \/ \E q \in 1 .. l : i = k + q
    BY <2>2
  <2>6. Stored(m2) = Stored(msg) \cup P
    <3>1. ASSUME NEW i \in 1 .. Len(m2.bytes) PROVE m2.bytes[i] \in Stored(msg) \cup P
      <4>1. CASE i \in 1 .. k
        BY <2>0, <2>2, <4>1 DEF Stored
      <4>2. ASSUME NEW q \in 1 .. l, i = k + q PROVE m2.bytes[i] \in P
        <5>1. c + h + q \in c + h + 1 .. c + h + l
          BY <1>0
        <5> QED BY <1>3, <2>4, <4>2, <5>1
      <4> QED BY <2>5, <4>1, <4>2
    <3>2. ASSUME NEW x \in P PROVE x \in Stored(m2)
      <4>1. PICK q \in 1 .. l : x = c + h + q
        <5>1. x - (c + h) \in 1 .. l /\ x = c + h + (x - (c + h))
          BY <1>0, <1>3
        <5> QED BY <5>1
      <4> QED BY <2>4, <4>1 DEF Stored
    <3>3. ASSUME NEW x \in Stored(msg) PROVE x \in Stored(m2)
      BY <2>0, <2>2, <2>3 DEF Stored
    <3>4. ASSUME NEW x \in Stored(m2) PROVE x \in Stored(msg) \cup P
      BY <3>1 DEF Stored
    <3> QED BY <3>2, <3>3, <3>4
  <2>7. \A i, j \in 1 .. Len(m2.bytes) : i < j => m2.bytes[i] < m2.bytes[j]
    <3> SUFFICES ASSUME NEW i \in 1 .. Len(m2.bytes), NEW j \in 1 .. Len(m2.bytes), i < j
                 PROVE  m2.bytes[i] < m2.bytes[j]
      OBVIOUS
    <3>1. CASE i \in 1 .. k /\ j \in 1 .. k
      BY <1>4, <2>0, <2>2, <3>1 DEF Intact
    <3>2. ASSUME NEW a \in 1 .. l, NEW b \in 1 .. l, i = k + a, j = k + b
          PROVE  m2.bytes[i] < m2.bytes[j]
      <4>1. k + a < k + b
        BY <3>2
      <4>2. c + h + a < c + h + b
        BY ONLY <1>0, <2>0, <4>1, a \in 1 .. l, b \in 1 .. l
      <4> QED BY <2>4, <3>2, <4>2
    <3>3. ASSUME i \in 1 .. k, NEW b \in 1 .. l, j = k + b
          PROVE  m2.bytes[i] < m2.bytes[j]
      <4>1. m2.bytes[i] \in F
        BY <1>13, <2>0, <2>2, <3>3 DEF Stored
      <4>2. PICK x \in Nat : x = m2.bytes[i] /\ x <= c
        BY <1>4, <1>5, <2>0, <2>2, <3>3, <4>1, ElementOfSeq
      <4>3. x < c + h + b
        BY <1>0, <4>2
      <4> QED BY <2>4, <3>3, <4>2, <4>3
    <3>4. ASSUME NEW a \in 1 .. l, i = k + a, j \in 1 .. k PROVE FALSE
      <4>1. k + a < j /\ j \in 1 .. k
        BY <3>4
      <4> QED BY ONLY <2>0, <4>1, a \in 1 .. l, l \in Nat
    <3> QED BY <2>5, <3>1, <3>2, <3>3, <3>4
  <2>8. ASSUME NEW i \in 1 .. Len(m2.frames)
        PROVE  \/ Payload(sent[m2.frames[i]]) \subseteq Stored(m2)
               \/ Payload(sent[m2.frames[i]]) \cap Stored(m2) = {}
    <3>1. CASE i = Len(msg.frames) + 1
      BY <1>8, <2>6, <3>1
    <3>2. CASE i \in 1 .. Len(msg.frames)
      <4>1. \/ Payload(sent[msg.frames[i]]) \subseteq Stored(msg)
            \/ Payload(sent[msg.frames[i]]) \cap Stored(msg) = {}
        BY <1>4, <3>2 DEF Intact
      <4>2. Payload(sent[msg.frames[i]]) \subseteq F
        BY <3>2 DEF FramesOf
      <4>3. m2.frames[i] = msg.frames[i]
        BY <1>8, <3>2
      <4> HIDE DEF F, P
      <4> QED BY <1>11, <2>6, <4>1, <4>2, <4>3
    <3> QED BY <1>9, <3>1, <3>2
  <2>9. Cardinality(F \cup P) < MsgBuf - 1 => Stored(m2) = F \cup P
    <3> SUFFICES ASSUME Cardinality(F \cup P) < MsgBuf - 1 PROVE Stored(m2) = F \cup P
      OBVIOUS
    <3> HIDE DEF F, P
    <3>0. PICK mb \in Nat, x \in Nat :
            mb = MsgBuf /\ x = Cardinality(F) /\ Cardinality(F \cup P) = x + l
      BY <1>14, BuffersAssumption
    <3>1. Cardinality(F) < MsgBuf - 1
      BY <1>0, <3>0
    <3> USE DEF F, P
    <3>2. Stored(msg) = F
      BY <1>4, <3>1 DEF Intact
    <3> QED BY <2>6, <3>2
  <2>10. Len(m2.bytes) < MsgBuf
    BY <1>0, <2>0, <2>1, <2>2, BuffersAssumption
  <2>11. IsFiniteSet(Stored(m2)) /\ Cardinality(Stored(m2)) = Len(m2.bytes)
    <3>1. Stored(msg) \cap P = {}
      BY <1>11, <1>13
    <3>2. Cardinality(Stored(msg) \cap P) = 0
      BY <3>1, FS_EmptySet
    <3>3. /\ IsFiniteSet(Stored(msg) \cup P)
          /\ Cardinality(Stored(msg) \cup P) =
               Cardinality(Stored(msg)) + Cardinality(P) - Cardinality(Stored(msg) \cap P)
      BY <1>12, <1>13, FS_Union
    <3>4. Cardinality(Stored(msg)) = k /\ Cardinality(P) = l
      BY <1>12, <1>13, <2>0
    <3>5. k + l - 0 = k + l
      BY <1>0
    <3> QED BY <2>2, <2>6, <3>2, <3>3, <3>4, <3>5
  <2>12. \A i \in 1 .. Len(m2.frames) : m2.frames[i] \in 1 .. Len(sent)
    BY <1>4, <1>8, <1>9 DEF Intact
  <2>13. Stored(m2) \subseteq F \cup P
    BY <1>13, <2>6
  <2>14. Intact(sent, m2)
    BY <1>10, <1>14, <2>7, <2>8, <2>9, <2>10, <2>11, <2>12, <2>13 DEF Intact
  <2> QED BY <1>7, <1>15, <2>14 DEF m2
<1>17. CASE ~Fits(sent[n])
  <2>1. m2.bytes = msg.bytes /\ ~(Len(msg.bytes) + l < MsgBuf - 1)
    BY <1>1, <1>6, <1>17 DEF Fits
  <2>2. Stored(m2) = Stored(msg)
    BY <2>1 DEF Stored
  <2>3. ASSUME NEW i \in 1 .. Len(m2.frames)
        PROVE  \/ Payload(sent[m2.frames[i]]) \subseteq Stored(m2)
               \/ Payload(sent[m2.frames[i]]) \cap Stored(m2) = {}
    <3>1. CASE i = Len(msg.frames) + 1
      <4>1. Payload(sent[m2.frames[i]]) = P
        BY <1>8, <3>1
      <4> HIDE DEF F, P
      <4> QED BY <1>11, <1>13, <2>2, <4>1
    <3>2. CASE i \in 1 .. Len(msg.frames)
      BY <1>4, <1>8, <2>2, <3>2 DEF Intact
    <3> QED BY <1>9, <3>1, <3>2
  <2>4. ~(Cardinality(F \cup P) < MsgBuf - 1)
    <3> HIDE DEF F, P
    <3>1. Len(msg.bytes) <= Cardinality(F)
      BY <1>13, FS_Subset
    <3>2. PICK mb \in Nat, x \in Nat, y \in Nat :
            /\ mb = MsgBuf /\ x = Cardinality(F) /\ Cardinality(F \cup P) = x + l
            /\ y = Len(msg.bytes) /\ y <= x
      BY <1>5, <1>14, <3>1, BuffersAssumption
    <3>3. ~(y + l < mb - 1)
      BY <2>1, <3>2
    <3>4. ~(x + l < mb - 1)
      BY <1>0, <3>2, <3>3
    <3> QED BY <3>2, <3>4
  <2>5. \A i \in 1 .. Len(m2.frames) : m2.frames[i] \in 1 .. Len(sent)
    BY <1>4, <1>8, <1>9 DEF Intact
  <2>6. Stored(m2) \subseteq F \cup P
    BY <1>13, <2>2
  <2>7. Intact(sent, m2)
    BY <1>4, <1>10, <1>14, <2>1, <2>2, <2>3, <2>4, <2>5, <2>6 DEF Intact
  <2> QED BY <1>7, <1>15, <2>7 DEF m2
<1> QED BY <1>16, <1>17

-----------------------------------------------------------------------------
(* The relay's later frames and Ctrl-C change nothing of the messages.      *)
LEMMA JoinedOthers ==
  ASSUME Inv, Joined, Relay \/ Break
  PROVE  Joined'
<1>1. UNCHANGED <<pc, rx, inbuf, inpos, msg, shown>>
  BY DEF Relay, RelayReplies, RelaySends, RelayCloses, Break, client
<1>2. Consumed' = Consumed
  BY <1>1 DEF Consumed, Avail
<1>3. /\ Len(sent) \in Nat /\ Len(sent') \in Nat /\ Len(sent) <= Len(sent')
      /\ \A n \in 1 .. Len(sent) : sent'[n] = sent[n]
  <2>0. sent \in Seq([shape : Shapes, start : Nat]) /\ written \in Nat /\ Len(sent) \in Nat
    BY Numbers DEF Inv
  <2>1. CASE sent' = sent
    BY <2>0, <2>1
  <2>2. CASE RelaySends
    <3>1. PICK s \in Shapes : sent' = Append(sent, [shape |-> s, start |-> written])
      BY <2>2 DEF RelaySends
    <3>2. [shape |-> s, start |-> written] \in [shape : Shapes, start : Nat]
      BY <2>0
    <3> QED BY <2>0, <3>1, <3>2, AppendProperties
  <2> QED BY <2>1, <2>2 DEF Relay, RelayReplies, RelayCloses, Break, relay
<1>4. \A m : Intact(sent, m) =>
        Intact(sent', m) /\ FramesOf(sent', m) = FramesOf(sent, m)
  BY <1>3, IntactLater
<1> QED BY <1>1, <1>2, <1>4 DEF Joined

(* ws_ensure() consumes nothing. *)
LEMMA EnsureConsumes ==
  ASSUME Inv, EnsureRead \/ EnsureFails
  PROVE  Consumed' = Consumed
<1> USE DEF Inv
<1>1. PICK a \in Nat, x \in Nat : a = Avail /\ x = rx
  BY Numbers, CompactedFacts DEF TypeOK
<1>2. Compacted \in Seq(Nat) /\ Len(Compacted) = a
  BY <1>1, CompactedFacts DEF TypeOK
<1>3. CASE EnsureRead
  <2>1. PICK k \in Arrived(InBuf - Avail) : inbuf' = Compacted \o New(k) /\ rx' = rx + k
    BY <1>3 DEF EnsureRead
  <2>2. k \in Nat
    <3>1. InBuf - Avail \in Int
      BY <1>1, BuffersAssumption
    <3> QED BY <2>1, <3>1 DEF Arrived
  <2>3. Len(inbuf') = a + k
    BY <1>1, <1>2, <2>1, <2>2, NewFacts
  <2>4. inpos' = 0
    BY <1>3 DEF EnsureRead
  <2>5. Consumed' = (x + k) - ((a + k) - 0)
    BY <1>1, <2>1, <2>3, <2>4 DEF Consumed, Avail
  <2>6. (x + k) - ((a + k) - 0) = x - a
    BY <2>2
  <2> QED BY <1>1, <2>5, <2>6 DEF Consumed
<1>4. CASE EnsureFails
  <2>1. inbuf' = Compacted /\ inpos' = 0 /\ rx' = rx
    BY <1>4 DEF EnsureFails
  <2>2. Consumed' = x - (a - 0)
    BY <1>1, <1>2, <2>1 DEF Consumed, Avail
  <2> QED BY <1>1, <2>2 DEF Consumed
<1> QED BY <1>3, <1>4

(* Every step of the client keeps what it has shown, and what it is joining. *)
LEMMA JoinedClient ==
  ASSUME Inv, Joined, Program
  PROVE  Joined'
<1> USE DEF Inv
<1>1. ASSUME UNCHANGED <<sent, msg, shown>>, pc' # "handshake",
             \/ Consumed' = Consumed
             \/ Consumed' >= Consumed /\ Consumed \in Int /\ Consumed' \in Int
      PROVE  Joined'
  <2>1. \A x \in FramesOf(sent, msg) : x <= Consumed'
    <3>1. CASE Consumed' = Consumed
      BY <3>1 DEF Joined
    <3>2. CASE Consumed' >= Consumed /\ Consumed \in Int /\ Consumed' \in Int
      <4> SUFFICES ASSUME NEW x \in FramesOf(sent, msg) PROVE x <= Consumed'
        OBVIOUS
      <4>1. x \in Nat /\ x <= Consumed
        BY FramesNat DEF Joined
      <4> QED BY <3>2, <4>1
    <3> QED BY <1>1, <3>1, <3>2
  <2> QED BY <1>1, <2>1 DEF Joined
<1>2. CASE HandshakeRead \/ HandshakeFails
  <2>1. UNCHANGED <<sent, msg, shown>> /\ msg.frames = <<>>
    BY <1>2 DEF HandshakeRead, HandshakeFails, relay, Joined
  <2>2. 1 .. Len(msg.frames) = {}
    BY <2>1
  <2>3. FramesOf(sent, msg) = {}
    BY <2>2 DEF FramesOf
  <2> QED BY <2>1, <2>3 DEF Joined
<1>3. CASE Subscribe \/ Incomplete \/ BadFrame
  <2>1. UNCHANGED <<sent, msg, shown, rx, inbuf, inpos>> /\ pc' # "handshake"
    BY <1>3 DEF Subscribe, Incomplete, BadFrame, Ends, relay
  <2>2. Consumed' = Consumed
    BY <2>1 DEF Consumed, Avail
  <2> QED BY <1>1, <2>1, <2>2
<1>4. CASE EnsureRead \/ EnsureFails
  <2>1. UNCHANGED <<sent, msg, shown>> /\ pc' # "handshake"
    BY <1>4 DEF EnsureRead, EnsureFails, Ends, relay
  <2> QED BY <1>1, <1>4, <2>1, EnsureConsumes
<1>5. ASSUME pc = "parse", UNCHANGED <<sent, rx, inbuf>>,
             NEW n \in 1 .. Len(sent),
             Here(sent[n]), Whole(sent[n]), Consume(sent[n])
      PROVE  /\ Consumed' = End(sent[n])
             /\ Consumed' >= Consumed /\ Consumed \in Int /\ Consumed' \in Int
  <2>1. Consumed' = End(sent[n])
    BY <1>5, ConsumeFacts
  <2>2. sent[n].start = Consumed
    BY <1>5, PayFacts
  <2>3. sent[n].start \in Nat /\ End(sent[n]) \in Nat /\ End(sent[n]) >= sent[n].start + 2
    BY EndFacts
  <2> QED BY <2>1, <2>2, <2>3
<1>6. CASE TakeClose \/ TakePing \/ TakePong
  <2>1. /\ pc = "parse" /\ pc' # "handshake"
        /\ UNCHANGED <<sent, rx, inbuf, msg, shown>>
        /\ \E n \in 1 .. Len(sent) :
             Here(sent[n]) /\ Whole(sent[n]) /\ Consume(sent[n])
    BY <1>6 DEF TakeClose, TakePing, TakePong, Ends, relay
  <2> QED BY <1>1, <1>5, <2>1
<1>7. CASE TakeData
  <2>1. PICK n \in 1 .. Len(sent) :
          /\ Here(sent[n]) /\ Whole(sent[n]) /\ sent[n].shape.op \in Data
          /\ Consume(sent[n]) /\ msg' = Join(n)
          /\ pc' = IF sent[n].shape.fin THEN "deliver" ELSE "parse"
    BY <1>7 DEF TakeData
  <2>2. pc = "parse" /\ UNCHANGED <<sent, rx, inbuf, shown>>
    BY <1>7 DEF TakeData, relay
  <2>3. /\ Join(n) \in MsgRec /\ Intact(sent, Join(n))
        /\ \A x \in FramesOf(sent, Join(n)) : x <= End(sent[n])
    BY <2>1, JoinIntact
  <2>4. Consumed' = End(sent[n]) /\ pc' # "handshake"
    BY <1>5, <2>1, <2>2
  <2> QED BY <2>1, <2>2, <2>3, <2>4 DEF Joined
<1>8. CASE Deliver
  <2>1. /\ shown' = Append(shown, msg) /\ msg' = NoMsg /\ sent' = sent
    BY <1>8 DEF Deliver, relay
  <2>2. pc' # "handshake"
    BY <1>8 DEF Deliver, Ends, Looks
  <2>3. shown \in Seq(MsgRec) /\ msg \in MsgRec
    BY DEF Joined
  <2>4. /\ shown' \in Seq(MsgRec) /\ Len(shown') = Len(shown) + 1
        /\ \A k \in 1 .. Len(shown) : shown'[k] = shown[k]
        /\ shown'[Len(shown) + 1] = msg /\ Len(shown) \in Nat
    BY <2>1, <2>3, AppendProperties
  <2>5. \A k \in 1 .. Len(shown') : Intact(sent, shown'[k])
    <3>1. \A k \in 1 .. Len(shown') : k \in 1 .. Len(shown) \/ k = Len(shown) + 1
      BY <2>4
    <3> QED BY <2>4, <3>1 DEF Joined
  <2> QED BY <2>1, <2>2, <2>4, <2>5, NoMsgIntact DEF Joined
<1>9. CASE Misreads
  <2>1. UNCHANGED <<sent, msg, shown>> /\ pc' # "handshake"
    BY <1>9 DEF Misreads, Ends, relay
  <2> QED BY <1>1, <1>9, <2>1, MisreadMoves
<1> QED BY <1>2, <1>3, <1>4, <1>6, <1>7, <1>8, <1>9 DEF Program

LEMMA JoinedAlways == Spec => []Joined
<1>1. Init => Joined
  <2> SUFFICES ASSUME Init PROVE Joined
    OBVIOUS
  <2>1. msg = NoMsg /\ shown = <<>> /\ NoMsg.frames = <<>>
    BY DEF Init, NoMsg
  <2>2. shown \in Seq(MsgRec) /\ 1 .. Len(shown) = {}
    BY <2>1
  <2> QED BY <2>1, <2>2, NoMsgIntact DEF Joined
<1>2. Inv /\ Joined /\ [Next]_vars => Joined'
  <2> SUFFICES ASSUME Inv, Joined, [Next]_vars PROVE Joined'
    OBVIOUS
  <2>1. CASE Program
    BY <2>1, JoinedClient
  <2>2. CASE Relay \/ Break
    BY <2>2, JoinedOthers
  <2>3. CASE UNCHANGED vars
    <3>1. UNCHANGED <<pc, sent, rx, inbuf, inpos, msg, shown>>
      BY <2>3 DEF vars
    <3>2. Consumed' = Consumed
      BY <3>1 DEF Consumed, Avail
    <3> QED BY <3>1, <3>2 DEF Joined
  <2>4. CASE Wanders
    <3>1. UNCHANGED <<sent, rx, inbuf, inpos, msg, shown>> /\ pc' # "handshake"
      BY <2>4 DEF Wanders, Ends, relay
    <3>2. Consumed' = Consumed
      BY <3>1 DEF Consumed, Avail
    <3>3. pc # "handshake"
      BY <2>4 DEF Wanders
    <3> QED BY <3>1, <3>2, <3>3 DEF Joined
  <2> QED BY <2>1, <2>2, <2>3, <2>4 DEF Next, Finished
<1> QED BY <1>1, <1>2, InvAlways, PTL DEF Spec

(* Whatever the relay sends, in however many fragments, and however reads   *)
(* split it: a message handed to run_subscribe() is made of whole payloads  *)
(* in the order of the stream, and lacks one only when msg[] had no room    *)
(* (ws_read_message()).                                                     *)
THEOREM MessagesStayIntact == Spec => []MessagesIntact
<1>1. Joined => MessagesIntact
  <2> SUFFICES ASSUME Joined, NEW k \in 1 .. Len(shown)
               PROVE  LET m == shown[k]
                          got == {m.bytes[i] : i \in 1 .. Len(m.bytes)}
                      IN  /\ \A i, j \in 1 .. Len(m.bytes) : i < j => m.bytes[i] < m.bytes[j]
                          /\ \A i \in 1 .. Len(m.frames) :
                               \/ Payload(sent[m.frames[i]]) \subseteq got
                               \/ Payload(sent[m.frames[i]]) \cap got = {}
                          /\ got \subseteq Framed(m)
                          /\ Cardinality(Framed(m)) < MsgBuf - 1 => got = Framed(m)
                          /\ Len(m.bytes) < MsgBuf
    BY DEF MessagesIntact
  <2>1. Intact(sent, shown[k])
    BY DEF Joined
  <2>2. Framed(shown[k]) = FramesOf(sent, shown[k])
    BY DEF Framed, FramesOf
  <2>3. {shown[k].bytes[i] : i \in 1 .. Len(shown[k].bytes)} = Stored(shown[k])
    BY DEF Stored
  <2> QED BY <2>1, <2>2, <2>3 DEF Intact
<1> QED BY <1>1, JoinedAlways, PTL

-----------------------------------------------------------------------------
(* The connection as a taker of whole frames.  As frames lie end to end,    *)
(* those that end within the first c bytes are the first n, and n of them.  *)
LEMMA EndedUpTo ==
  ASSUME TypeOK, Laid, NEW c \in Int, NEW n \in 0 .. Len(sent),
         n > 0 => End(sent[n]) <= c,
         n < Len(sent) => c <= sent[n + 1].start
  PROVE  Cardinality({m \in 1 .. Len(sent) : End(sent[m]) <= c}) = n
<1>1. PICK k \in Nat : k = Len(sent)
  BY Numbers
<1>2. n \in Nat /\ n <= k
  BY <1>1
<1>3. ASSUME NEW m \in 1 .. k
      PROVE  End(sent[m]) <= c <=> m <= n
  <2>1. /\ sent[m].start \in Nat /\ End(sent[m]) \in Nat
        /\ End(sent[m]) >= sent[m].start + 2
    BY <1>1, EndFacts
  <2>2. CASE m <= n
    <3>1. n \in 1 .. k /\ End(sent[n]) <= c
      BY <1>2, <2>2
    <3>2. /\ sent[n].start \in Nat /\ End(sent[n]) \in Nat
          /\ End(sent[n]) >= sent[n].start + 2
      BY <1>1, <3>1, EndFacts
    <3>3. CASE m = n
      BY <2>2, <3>1, <3>3
    <3>4. CASE m < n
      <4>1. End(sent[m]) <= sent[n].start
        BY <1>1, <3>1, <3>4 DEF Laid
      <4> QED BY <2>1, <2>2, <3>1, <3>2, <4>1
    <3> QED BY <1>2, <2>2, <3>3, <3>4
  <2>3. CASE m > n
    <3>1. n + 1 \in 1 .. k /\ c <= sent[n + 1].start
      BY <1>1, <1>2, <2>3
    <3>2. /\ sent[n + 1].start \in Nat /\ End(sent[n + 1]) \in Nat
          /\ End(sent[n + 1]) >= sent[n + 1].start + 2
      BY <1>1, <3>1, EndFacts
    <3>3. CASE m = n + 1
      BY <2>1, <2>3, <3>1, <3>3
    <3>4. CASE n + 1 < m
      <4>1. End(sent[n + 1]) <= sent[m].start
        BY <1>1, <3>1, <3>4 DEF Laid
      <4> QED BY <2>1, <2>3, <3>1, <3>2, <4>1
    <3> QED BY <1>2, <2>3, <3>3, <3>4
  <2> QED BY <1>2, <2>2, <2>3
<1>4. {m \in 1 .. k : End(sent[m]) <= c} = 1 .. n
  BY <1>2, <1>3
<1>5. Cardinality(1 .. n) = n
  BY <1>2, FS_Interval
<1> QED BY <1>1, <1>4, <1>5

(* The length of a sequence is known from its domain. *)
LEMMA SameEnd ==
  ASSUME NEW a \in Nat, NEW b \in Nat, 1 .. a = 1 .. b
  PROVE  a = b
<1>1. /\ Cardinality(1 .. a) = (IF 1 > a THEN 0 ELSE a - 1 + 1)
      /\ Cardinality(1 .. b) = (IF 1 > b THEN 0 ELSE b - 1 + 1)
  BY FS_Interval
<1> QED BY <1>1

(* The frames sent, as a sequence. *)
LEMMA FeedSentFacts ==
  ASSUME TypeOK
  PROVE  /\ FeedSent \in Seq(Shapes) /\ Len(FeedSent) = Len(sent)
         /\ \A n \in 1 .. Len(sent) : FeedSent[n] = sent[n].shape
<1>1. PICK k \in Nat : k = Len(sent)
  BY Numbers
<1>2. \A n \in 1 .. k : sent[n].shape \in Shapes
  BY <1>1, SentFacts
<1>3. FeedSent \in [1 .. k -> Shapes]
  BY <1>1, <1>2 DEF FeedSent
<1>4. FeedSent \in Seq(Shapes)
  BY <1>3, SeqDef
<1>5. Len(FeedSent) \in Nat /\ DOMAIN FeedSent = 1 .. Len(FeedSent)
  BY <1>4, LenProperties
<1>6. 1 .. Len(FeedSent) = 1 .. k
  BY <1>3, <1>5
<1>7. Len(FeedSent) = k
  BY <1>5, <1>6, SameEnd
<1> QED BY <1>1, <1>4, <1>7 DEF FeedSent

(* One more message shown is one more sequence of frames. *)
LEMMA ShownMore ==
  ASSUME shown \in Seq(MsgRec), msg \in MsgRec, shown' = Append(shown, msg)
  PROVE  FramesShown' = Append(FramesShown, msg.frames)
<1>1. PICK k \in Nat : k = Len(shown)
  BY LenProperties
<1>2. /\ Len(shown') = k + 1 /\ shown'[k + 1] = msg
      /\ \A i \in 1 .. k : shown'[i] = shown[i]
  BY <1>1, AppendProperties
<1>3. \A i \in 1 .. k : shown[i] \in MsgRec
  BY <1>1, ElementOfSeq
<1>4. \A m \in MsgRec : m.frames \in Seq(Nat)
  BY DEF MsgRec
<1>5. FramesShown \in [1 .. k -> Seq(Nat)]
  BY <1>1, <1>3, <1>4 DEF FramesShown
<1>6. FramesShown \in Seq(Seq(Nat))
  BY <1>5, SeqDef
<1>7. Len(FramesShown) \in Nat /\ DOMAIN FramesShown = 1 .. Len(FramesShown)
  BY <1>6, LenProperties
<1>8. Len(FramesShown) = k
  <2>1. 1 .. Len(FramesShown) = 1 .. k
    BY <1>5, <1>7
  <2> QED BY <1>7, <2>1, SameEnd
<1>9. msg.frames \in Seq(Nat)
  BY <1>4
<1>10. /\ Append(FramesShown, msg.frames) \in Seq(Seq(Nat))
       /\ Len(Append(FramesShown, msg.frames)) = k + 1
       /\ \A i \in 1 .. k : Append(FramesShown, msg.frames)[i] = FramesShown[i]
       /\ Append(FramesShown, msg.frames)[k + 1] = msg.frames
  BY <1>6, <1>8, <1>9, AppendProperties
<1>11. FramesShown' = [i \in 1 .. k + 1 |-> shown'[i].frames]
  BY <1>2 DEF FramesShown
<1>12. \A i \in 1 .. k + 1 : i \in 1 .. k \/ i = k + 1
  OBVIOUS
<1>13. \A i \in 1 .. k + 1 : shown'[i].frames = Append(FramesShown, msg.frames)[i]
  BY <1>1, <1>2, <1>10, <1>12 DEF FramesShown
<1>14. \A i \in 1 .. k + 1 : shown'[i].frames \in Seq(Nat)
  BY <1>2, <1>3, <1>4, <1>12
<1>15. FramesShown' \in [1 .. k + 1 -> Seq(Nat)]
  BY <1>11, <1>14
<1>16. FramesShown' \in Seq(Seq(Nat))
  BY <1>15, SeqDef
<1>17. Len(FramesShown') = k + 1
  <2>1. Len(FramesShown') \in Nat /\ DOMAIN FramesShown' = 1 .. Len(FramesShown')
    BY <1>16, LenProperties
  <2>2. 1 .. Len(FramesShown') = 1 .. k + 1
    BY <1>15, <2>1
  <2>3. k + 1 \in Nat
    OBVIOUS
  <2> QED BY <2>1, <2>2, <2>3, SameEnd
<1>18. \A i \in 1 .. Len(FramesShown') : FramesShown'[i] = Append(FramesShown, msg.frames)[i]
  BY <1>11, <1>13, <1>17
<1> HIDE DEF FramesShown
<1> QED BY <1>10, <1>16, <1>17, <1>18, SeqEqual

(* A step that takes nothing and shows nothing is none of the feed's. *)
LEMMA FeedSame ==
  ASSUME UNCHANGED <<sent, msg, shown>>, Consumed' = Consumed,
         pc # "deliver", pc' # "deliver"
  PROVE  UNCHANGED <<FeedSent, FeedTaken, FeedPart, FeedShown>>
<1>1. FeedSent' = FeedSent
  BY DEF FeedSent
<1>2. FeedTaken' = FeedTaken
  BY DEF FeedTaken, End
<1>3. FeedPart' = FeedPart
  BY DEF FeedPart
<1>4. FramesShown' = FramesShown
  BY DEF FramesShown
<1>5. FeedShown' = FeedShown
  BY <1>4 DEF FeedShown
<1> QED BY <1>1, <1>2, <1>3, <1>5

(* ws_parse_frame() takes the frame that follows those taken so far. *)
LEMMA TakesNext ==
  ASSUME Inv, Laid, pc = "parse", UNCHANGED <<sent, rx, inbuf>>,
         NEW n \in 1 .. Len(sent),
         Here(sent[n]), Whole(sent[n]), Consume(sent[n])
  PROVE  /\ FeedTaken = n - 1 /\ FeedTaken' = n
         /\ n <= Len(FeedSent) /\ FeedSent' = FeedSent
         /\ FeedSent[n] = sent[n].shape
<1> USE DEF Inv
<1>1. PICK k \in Nat : k = Len(sent)
  BY Numbers
<1>2. /\ sent[n].start \in Nat /\ End(sent[n]) \in Nat
      /\ End(sent[n]) >= sent[n].start + 2
  BY EndFacts
<1>3. sent[n].start = Consumed /\ Consumed' = End(sent[n])
  BY PayFacts, ConsumeFacts
<1>4. FeedTaken = n - 1
  <2>1. n - 1 > 0 => End(sent[n - 1]) <= Consumed
    <3> SUFFICES ASSUME n - 1 > 0 PROVE End(sent[n - 1]) <= Consumed
      OBVIOUS
    <3>1. n - 1 \in 1 .. Len(sent) /\ n - 1 < n
      BY <1>1
    <3> QED BY <1>3, <3>1 DEF Laid
  <2>2. n - 1 < Len(sent) => Consumed <= sent[n - 1 + 1].start
    <3>1. n - 1 + 1 = n
      OBVIOUS
    <3> QED BY <1>2, <1>3, <3>1
  <2>3. n - 1 \in 0 .. Len(sent) /\ Consumed \in Int
    BY <1>1, <1>2, <1>3
  <2>4. Cardinality({m \in 1 .. Len(sent) : End(sent[m]) <= Consumed}) = n - 1
    BY <2>1, <2>2, <2>3, EndedUpTo
  <2> QED BY <2>4 DEF FeedTaken
<1>5. FeedTaken' = n
  <2>1. n > 0 => End(sent[n]) <= Consumed'
    BY <1>2, <1>3
  <2>2. n < Len(sent) => Consumed' <= sent[n + 1].start
    <3> SUFFICES ASSUME n < Len(sent) PROVE End(sent[n]) <= sent[n + 1].start
      BY <1>3
    <3>1. n + 1 \in 1 .. Len(sent) /\ n < n + 1
      BY <1>1
    <3> QED BY <3>1 DEF Laid
  <2>3. n \in 0 .. Len(sent) /\ Consumed' \in Int
    BY <1>1, <1>2, <1>3
  <2>4. Cardinality({m \in 1 .. Len(sent) : End(sent[m]) <= Consumed'}) = n
    BY <2>1, <2>2, <2>3, EndedUpTo
  <2> QED BY <2>4 DEF FeedTaken, End
<1>6. FeedSent' = FeedSent
  BY DEF FeedSent
<1> QED BY <1>1, <1>4, <1>5, <1>6, FeedSentFacts

(* A frame the relay sends is one the client has not taken. *)
LEMMA FeedSends ==
  ASSUME Inv, Laid, RelaySends
  PROVE  /\ \E s \in Shapes : FeedSent' = Append(FeedSent, s)
         /\ UNCHANGED <<FeedTaken, FeedPart, FeedShown>>
<1> USE DEF Inv
<1>1. UNCHANGED <<pc, rx, inbuf, inpos, msg, shown>>
  BY DEF RelaySends, client
<1>2. Consumed' = Consumed
  BY <1>1 DEF Consumed, Avail
<1>3. UNCHANGED <<FeedPart, FeedShown>>
  BY <1>1 DEF FeedPart, FeedShown, FramesShown
<1>4. PICK s \in Shapes : sent' = Append(sent, [shape |-> s, start |-> written])
  BY DEF RelaySends
<1>5. PICK k \in Nat, w \in Nat, x \in Nat :
        k = Len(sent) /\ w = written /\ x = rx /\ x <= w
  BY Numbers
<1>6. [shape |-> s, start |-> written] \in [shape : Shapes, start : Nat]
  BY <1>5
<1>7. /\ Len(sent') = k + 1
      /\ \A n \in 1 .. k : sent'[n] = sent[n]
      /\ sent'[k + 1] = [shape |-> s, start |-> written]
  BY <1>4, <1>5, <1>6, Numbers, AppendProperties
<1>8. \A n \in 1 .. k + 1 : n \in 1 .. k \/ n = k + 1
  OBVIOUS
<1>9. FeedTaken' = FeedTaken
  <2>1. s.hdr \in Nat /\ s.len \in Nat /\ s.hdr >= 2
    BY ShapeFacts
  <2>2. End(sent'[k + 1]) = w + s.hdr + s.len
    BY <1>5, <1>7 DEF End
  <2>3. PICK a \in Nat : a = Avail
    BY CompactedFacts DEF TypeOK
  <2>4. Consumed \in Int /\ Consumed <= w
    BY <1>5, <2>3 DEF Consumed
  <2>5. ~(End(sent'[k + 1]) <= Consumed)
    BY <1>5, <2>1, <2>2, <2>4
  <2>6. \A n \in 1 .. k : End(sent'[n]) = End(sent[n])
    BY <1>7 DEF End
  <2>7. {n \in 1 .. k + 1 : End(sent'[n]) <= Consumed}
          = {n \in 1 .. k : End(sent[n]) <= Consumed}
    <3>1. 1 .. k \subseteq 1 .. k + 1
      OBVIOUS
    <3> QED BY <1>8, <2>5, <2>6, <3>1
  <2>8. FeedTaken' = Cardinality({n \in 1 .. k + 1 : End(sent'[n]) <= Consumed})
    BY <1>2, <1>7 DEF FeedTaken, End
  <2> QED BY <1>5, <2>7, <2>8 DEF FeedTaken
<1>10. FeedSent' = Append(FeedSent, s)
  <2>1. /\ FeedSent \in Seq(Shapes) /\ Len(FeedSent) = k
        /\ \A n \in 1 .. k : FeedSent[n] = sent[n].shape
    BY <1>5, FeedSentFacts
  <2>2. /\ Append(FeedSent, s) \in Seq(Shapes) /\ Len(Append(FeedSent, s)) = k + 1
        /\ \A n \in 1 .. k : Append(FeedSent, s)[n] = FeedSent[n]
        /\ Append(FeedSent, s)[k + 1] = s
    BY <2>1, AppendProperties
  <2>3. FeedSent' = [n \in 1 .. k + 1 |-> sent'[n].shape]
    BY <1>7 DEF FeedSent
  <2>4. DOMAIN Append(FeedSent, s) = 1 .. k + 1
        /\ Append(FeedSent, s) \in [1 .. k + 1 -> Shapes]
    BY <2>2, LenProperties
  <2>5. \A n \in 1 .. k + 1 : sent'[n].shape = Append(FeedSent, s)[n]
    BY <1>7, <1>8, <2>1, <2>2
  <2> HIDE DEF FeedSent
  <2> QED BY <2>3, <2>4, <2>5
<1> QED BY <1>3, <1>9, <1>10

(* While the relay's reply is awaited, and when it has been read, no frame  *)
(* is taken.                                                                *)
LEMMA FeedHandshake ==
  ASSUME Inv, Laid, HandshakeRead
  PROVE  UNCHANGED <<FeedSent, FeedTaken, FeedPart, FeedShown>>
<1> USE DEF Inv
<1>1. UNCHANGED <<sent, msg, shown>> /\ pc # "deliver" /\ pc' # "deliver"
  BY DEF HandshakeRead, relay, Ends
<1>2. PICK m \in Nat, h \in Nat : m = Len(inbuf) /\ h = head /\ m = rx /\ inpos = 0
  BY Numbers DEF Handshaking, HandshakeRead
<1>3. PICK k \in Arrived(InBuf - Len(inbuf)) : inbuf' = inbuf \o New(k) /\ rx' = rx + k
  BY DEF HandshakeRead
<1>4. k \in Nat
  <2>1. InBuf - Len(inbuf) \in Int
    BY <1>2, BuffersAssumption
  <2> QED BY <1>3, <2>1 DEF Arrived
<1>5. Len(inbuf') = m + k
  BY <1>2, <1>3, <1>4, Numbers, NewFacts
<1>6. inpos' = 0 \/ inpos' = h
  BY <1>2 DEF HandshakeRead
<1>7. Consumed = 0 /\ Consumed' \in {0, h}
  BY <1>2, <1>3, <1>4, <1>5, <1>6 DEF Consumed, Avail
<1>8. \A c \in {0, h} : Cardinality({n \in 1 .. Len(sent) : End(sent[n]) <= c}) = 0
  <2> SUFFICES ASSUME NEW c \in {0, h}
               PROVE  Cardinality({n \in 1 .. Len(sent) : End(sent[n]) <= c}) = 0
    OBVIOUS
  <2>1. 0 < Len(sent) => c <= sent[0 + 1].start
    <3> SUFFICES ASSUME 0 < Len(sent) PROVE c <= sent[1].start
      OBVIOUS
    <3>1. 1 \in 1 .. Len(sent)
      BY Numbers
    <3>2. sent[1].start \in Nat /\ h <= sent[1].start
      BY <1>2, <3>1, EndFacts DEF Laid
    <3> QED BY <1>2, <3>2
  <2>2. 0 \in 0 .. Len(sent) /\ c \in Int
    BY <1>2, Numbers
  <2> QED BY <2>1, <2>2, EndedUpTo
<1>9. FeedTaken = 0 /\ FeedTaken' = 0
  <2>1. FeedTaken' = Cardinality({n \in 1 .. Len(sent) : End(sent[n]) <= Consumed'})
    BY <1>1 DEF FeedTaken, End
  <2> QED BY <1>7, <1>8, <2>1 DEF FeedTaken
<1>10. UNCHANGED <<FeedSent, FeedPart, FeedShown>>
  BY <1>1 DEF FeedSent, FeedPart, FeedShown, FramesShown
<1> QED BY <1>9, <1>10

(* No more frames are taken than were sent. *)
LEMMA FeedBound ==
  ASSUME TypeOK
  PROVE  FeedTaken \in Nat /\ FeedTaken <= Len(FeedSent)
<1>1. {n \in 1 .. Len(sent) : End(sent[n]) <= Consumed} \in SUBSET (1 .. Len(sent))
  OBVIOUS
<1>2. PICK k \in Nat : k = Len(sent) /\ Len(FeedSent) = k
  BY Numbers, FeedSentFacts
<1>3. IsFiniteSet(1 .. k) /\ Cardinality(1 .. k) = k
  <2>1. /\ IsFiniteSet(1 .. k)
        /\ Cardinality(1 .. k) = (IF 1 > k THEN 0 ELSE k - 1 + 1)
    BY FS_Interval
  <2> QED BY <2>1
<1> QED BY <1>1, <1>2, <1>3, FS_Subset, FS_CardinalityType DEF FeedTaken

(* Only a frame that is misread makes the client lose its place.            *)
LEMMA KeepsPlace ==
  ASSUME Inv,
         \/ HandshakeRead \/ HandshakeFails \/ Subscribe \/ Incomplete \/ BadFrame
         \/ TakeClose \/ TakePing \/ TakePong \/ TakeData
         \/ EnsureRead \/ EnsureFails \/ Deliver
  PROVE  FeedLost = FALSE /\ FeedLost' = FeedLost
<1>1. pc \notin {"astray", "done"}
  BY DEF HandshakeRead, HandshakeFails, Subscribe, Incomplete, BadFrame, TakeClose,
         TakePing, TakePong, TakeData, EnsureRead, EnsureFails, Deliver
<1>2. ended = "no" /\ FeedLost = FALSE
  BY <1>1 DEF Inv, TypeOK, FeedLost
<1>3. pc' # "astray" /\ ended' \notin {"crashed", "astray"}
  <2>1. CASE HandshakeRead
    BY <1>2, <2>1 DEF HandshakeRead, Ends
  <2>2. CASE EnsureRead \/ EnsureFails
    BY <1>2, <2>2 DEF EnsureRead, EnsureFails, Ends
  <2>3. CASE Deliver
    <3>1. CASE Leaves
      BY <2>3, <3>1 DEF Deliver, Looks, Ends
    <3>2. CASE ~Leaves /\ Looks /\ brk
      BY <2>3, <3>2 DEF Deliver, Ends
    <3>3. CASE ~Leaves /\ ~(Looks /\ brk)
      BY <1>2, <2>3, <3>3 DEF Deliver
    <3> QED BY <3>1, <3>2, <3>3
  <2>4. CASE HandshakeFails \/ Subscribe \/ Incomplete \/ BadFrame
    BY <1>2, <2>4 DEF HandshakeFails, Subscribe, Incomplete, BadFrame, Ends
  <2>5. CASE TakeClose \/ TakePing \/ TakePong
    BY <1>1, <1>2, <2>5 DEF TakeClose, TakePing, TakePong, Ends
  <2>6. CASE TakeData
    BY <1>2, <2>6 DEF TakeData
  <2> QED BY <2>1, <2>2, <2>3, <2>4, <2>5, <2>6
<1> QED BY <1>2, <1>3 DEF FeedLost

(* A frame that is misread is the one that follows those taken.             *)
LEMMA MisreadsNext ==
  ASSUME Inv, Laid, Misreads
  PROVE  /\ FeedTaken' = FeedTaken /\ FeedSent' = FeedSent
         /\ FeedTaken < Len(FeedSent)
         /\ FeedSent[FeedTaken + 1] \in {s \in Shapes : Negative(s)}
<1> USE DEF Inv
<1>1. PICK n \in 1 .. Len(sent) :
        /\ Negative(sent[n].shape) /\ Consumed = sent[n].start
        /\ Consumed' < End(sent[n])
  BY MisreadMoves
<1>2. PICK k \in Nat : k = Len(sent) /\ n \in Nat
  BY Numbers
<1>3. sent' = sent
  BY DEF Misreads, relay
<1>4. PICK c \in Int, d \in Int : c = Consumed /\ d = Consumed' /\ d >= c
  BY MisreadMoves
<1>5. \A m \in 1 .. Len(sent) : End(sent[m]) <= d <=> End(sent[m]) <= c
  <2> SUFFICES ASSUME NEW m \in 1 .. Len(sent)
               PROVE  End(sent[m]) <= d <=> End(sent[m]) <= c
    OBVIOUS
  <2>1. /\ End(sent[m]) \in Nat /\ End(sent[m]) >= sent[m].start + 2
        /\ End(sent[n]) \in Nat /\ sent[m].start \in Nat /\ m \in Nat
    BY EndFacts
  <2>2. CASE m < n
    <3>1. End(sent[m]) <= c
      BY <1>1, <1>4, <2>2 DEF Laid
    <3> QED BY <1>4, <2>1, <3>1
  <2>3. CASE m = n
    BY <1>1, <1>4, <2>1, <2>3
  <2>4. CASE n < m
    <3>1. End(sent[n]) <= sent[m].start
      BY <2>4 DEF Laid
    <3> QED BY <1>1, <1>4, <2>1, <3>1
  <2> QED BY <1>2, <2>1, <2>2, <2>3, <2>4
<1>6. FeedTaken' = FeedTaken
  <2>1. {m \in 1 .. Len(sent) : End(sent[m]) <= d} = {m \in 1 .. Len(sent) : End(sent[m]) <= c}
    BY <1>5
  <2> QED BY <1>3, <1>4, <2>1 DEF FeedTaken, End
<1>7. FeedTaken = n - 1
  <2>1. n - 1 > 0 => End(sent[n - 1]) <= Consumed
    <3> SUFFICES ASSUME n - 1 > 0 PROVE End(sent[n - 1]) <= Consumed
      OBVIOUS
    <3>1. n - 1 \in 1 .. Len(sent) /\ n - 1 < n
      BY <1>2
    <3> QED BY <1>1, <3>1 DEF Laid
  <2>2. n - 1 < Len(sent) => Consumed <= sent[n - 1 + 1].start
    <3>1. n - 1 + 1 = n
      BY <1>2
    <3> QED BY <1>1, <1>4, <3>1
  <2>3. n - 1 \in 0 .. Len(sent) /\ Consumed \in Int
    BY <1>2, <1>4
  <2>4. Cardinality({m \in 1 .. Len(sent) : End(sent[m]) <= Consumed}) = n - 1
    BY <2>1, <2>2, <2>3, EndedUpTo
  <2> QED BY <2>4 DEF FeedTaken
<1>8. FeedSent' = FeedSent
  BY <1>3 DEF FeedSent
<1>9. Len(FeedSent) = k /\ FeedSent[n] = sent[n].shape /\ sent[n].shape \in Shapes
  BY <1>2, FeedSentFacts, SentFacts
<1>10. FeedTaken + 1 = n /\ FeedTaken < k
  BY <1>2, <1>7
<1> QED BY <1>1, <1>6, <1>8, <1>9, <1>10

(* Every step of the client is a step of the feed, or none of its. *)
LEMMA FeedProgram ==
  ASSUME Inv, Laid, Joined, Program
  PROVE  [Feed!Next]_(Feed!vars)
<1> USE DEF Inv, Feed!vars
<1>1. ASSUME UNCHANGED <<FeedSent, FeedTaken, FeedPart, FeedShown, FeedLost, pongs>>,
             pc # "done"
      PROVE  [Feed!Next]_(Feed!vars)
  <2>1. CASE pc' = "done"
    BY <1>1, <2>1, FeedBound DEF Feed!Next, Feed!Leave
  <2>2. CASE pc' # "done"
    BY <1>1, <2>2
  <2> QED BY <2>1, <2>2
<1>2. CASE HandshakeRead
  <2>1. pongs' = pongs /\ pc # "done" /\ FeedLost' = FeedLost
    BY <1>2, KeepsPlace DEF HandshakeRead
  <2> QED BY <1>1, <1>2, <2>1, FeedHandshake
<1>3. CASE HandshakeFails \/ Subscribe \/ Incomplete \/ BadFrame
  <2>1. /\ UNCHANGED <<sent, rx, inbuf, inpos, msg, shown, pongs>>
        /\ pc \notin {"deliver", "done"} /\ pc' # "deliver"
    BY <1>3 DEF HandshakeFails, Subscribe, Incomplete, BadFrame, Ends, relay
  <2>2. Consumed' = Consumed
    BY <2>1 DEF Consumed, Avail
  <2>3. FeedLost' = FeedLost
    BY <1>3, KeepsPlace
  <2> QED BY <1>1, <2>1, <2>2, <2>3, FeedSame
<1>4. CASE EnsureRead \/ EnsureFails
  <2>1. /\ UNCHANGED <<sent, msg, shown, pongs>>
        /\ pc \notin {"deliver", "done"} /\ pc' # "deliver"
    BY <1>4 DEF EnsureRead, EnsureFails, Ends, relay
  <2>2. FeedLost' = FeedLost
    BY <1>4, KeepsPlace
  <2> QED BY <1>1, <1>4, <2>1, <2>2, EnsureConsumes, FeedSame
<1>5. CASE TakeClose
  <2>1. PICK n \in 1 .. Len(sent) :
          Here(sent[n]) /\ Whole(sent[n]) /\ Consume(sent[n])
    BY <1>5 DEF TakeClose
  <2>2. /\ UNCHANGED <<sent, rx, inbuf, msg, shown, pongs>>
        /\ pc = "parse" /\ pc' = "done"
    BY <1>5 DEF TakeClose, Ends, relay
  <2>3. /\ FeedTaken = n - 1 /\ FeedTaken' = n
        /\ n <= Len(FeedSent) /\ FeedSent' = FeedSent
    BY <2>1, <2>2, TakesNext
  <2>4. UNCHANGED <<FeedPart, FeedShown>>
    BY <2>2 DEF FeedPart, FeedShown, FramesShown
  <2>5. FeedTaken' = FeedTaken + 1
    BY <2>3
  <2>6. FeedLost' = FeedLost
    BY <1>5, KeepsPlace
  <2> QED BY <2>2, <2>3, <2>4, <2>5, <2>6 DEF Feed!Next, Feed!Leave
<1>6. CASE TakePing
  <2>1. PICK n \in 1 .. Len(sent) :
          /\ Here(sent[n]) /\ Whole(sent[n]) /\ sent[n].shape.op = "ping"
          /\ Consume(sent[n]) /\ pongs' = Append(pongs, n)
    BY <1>6 DEF TakePing
  <2>2. /\ UNCHANGED <<pc, sent, rx, inbuf, msg, shown>> /\ pc = "parse"
    BY <1>6 DEF TakePing, relay
  <2>3. /\ FeedTaken = n - 1 /\ FeedTaken' = n
        /\ n <= Len(FeedSent) /\ FeedSent' = FeedSent /\ FeedSent[n] = sent[n].shape
    BY <2>1, <2>2, TakesNext
  <2>4. UNCHANGED <<FeedPart, FeedShown>>
    BY <2>2 DEF FeedPart, FeedShown, FramesShown
  <2>5. FeedTaken' = FeedTaken + 1 /\ FeedTaken < Len(FeedSent)
    BY <2>3, FeedBound
  <2>6. FeedLost = FALSE /\ FeedLost' = FeedLost
    BY <1>6, KeepsPlace
  <2>7. FeedSent[FeedTaken + 1] \notin {s \in Shapes : Negative(s)}
    BY <2>1, <2>3, <2>5 DEF Whole
  <2> QED BY <2>1, <2>2, <2>3, <2>4, <2>5, <2>6, <2>7 DEF Feed!Next, Feed!TakePing, Feed!Take
<1>7. CASE TakePong
  <2>1. PICK n \in 1 .. Len(sent) :
          /\ Here(sent[n]) /\ Whole(sent[n]) /\ sent[n].shape.op = "pong"
          /\ Consume(sent[n])
    BY <1>7 DEF TakePong
  <2>2. UNCHANGED <<pc, sent, rx, inbuf, msg, shown, pongs>> /\ pc = "parse"
    BY <1>7 DEF TakePong, relay
  <2>3. /\ FeedTaken = n - 1 /\ FeedTaken' = n
        /\ n <= Len(FeedSent) /\ FeedSent' = FeedSent /\ FeedSent[n] = sent[n].shape
    BY <2>1, <2>2, TakesNext
  <2>4. UNCHANGED <<FeedPart, FeedShown>>
    BY <2>2 DEF FeedPart, FeedShown, FramesShown
  <2>5. FeedTaken' = FeedTaken + 1 /\ FeedTaken < Len(FeedSent)
    BY <2>3, FeedBound
  <2>6. FeedLost = FALSE /\ FeedLost' = FeedLost
    BY <1>7, KeepsPlace
  <2>7. FeedSent[FeedTaken + 1] \notin {s \in Shapes : Negative(s)}
    BY <2>1, <2>3, <2>5 DEF Whole
  <2> QED BY <2>1, <2>2, <2>3, <2>4, <2>5, <2>6, <2>7 DEF Feed!Next, Feed!TakePong, Feed!Take
<1>8. CASE TakeData
  <2>1. PICK n \in 1 .. Len(sent) :
          /\ Here(sent[n]) /\ Whole(sent[n]) /\ sent[n].shape.op \in Data
          /\ Consume(sent[n]) /\ msg' = Join(n)
          /\ pc' = IF sent[n].shape.fin THEN "deliver" ELSE "parse"
    BY <1>8 DEF TakeData
  <2>2. UNCHANGED <<sent, rx, inbuf, shown, pongs>> /\ pc = "parse"
    BY <1>8 DEF TakeData, relay
  <2>3. /\ FeedTaken = n - 1 /\ FeedTaken' = n
        /\ n <= Len(FeedSent) /\ FeedSent' = FeedSent /\ FeedSent[n] = sent[n].shape
    BY <2>1, <2>2, TakesNext
  <2>4. FeedTaken' = FeedTaken + 1 /\ FeedTaken < Len(FeedSent)
    BY <2>3, FeedBound
  <2>5. FeedPart = msg.frames /\ FeedShown = FramesShown
    BY <2>2 DEF FeedPart, FeedShown
  <2>6. msg'.frames = Append(FeedPart, FeedTaken')
    BY <2>1, <2>3, <2>5 DEF Join
  <2>7. FramesShown' = FramesShown
    BY <2>2 DEF FramesShown
  <2>8. IF FeedSent[FeedTaken'].fin
        THEN FeedShown' = Append(FeedShown, msg'.frames) /\ FeedPart' = <<>>
        ELSE FeedPart' = msg'.frames /\ FeedShown' = FeedShown
    BY <2>1, <2>3, <2>5, <2>7 DEF FeedPart, FeedShown
  <2>9. FeedSent[FeedTaken'].op \in {"text", "binary", "cont"}
    BY <2>1, <2>3 DEF Data
  <2>10. pc # "done" /\ pc' # "done"
    BY <2>1, <2>2
  <2>11. FeedLost = FALSE /\ FeedLost' = FeedLost
    BY <1>8, KeepsPlace
  <2>12. FeedSent[FeedTaken + 1] \notin {s \in Shapes : Negative(s)}
    BY <2>1, <2>3, <2>4 DEF Whole
  <2>13. Feed!TakeData
    BY <2>2, <2>3, <2>4, <2>6, <2>8, <2>9, <2>10, <2>11, <2>12 DEF Feed!TakeData, Feed!Take
  <2> QED BY <2>13 DEF Feed!Next
<1>9. CASE Deliver
  <2>1. /\ pc = "deliver" /\ pc' # "deliver"
        /\ shown' = Append(shown, msg) /\ msg' = NoMsg
        /\ UNCHANGED <<sent, rx, inbuf, inpos, pongs>>
    BY <1>9 DEF Deliver, Ends, relay
  <2>2. FramesShown' = Append(FramesShown, msg.frames)
    BY <2>1, ShownMore DEF Joined
  <2>3. UNCHANGED <<FeedPart, FeedShown>>
    BY <2>1, <2>2 DEF FeedPart, FeedShown, NoMsg
  <2>4. UNCHANGED <<FeedSent, FeedTaken>>
    BY <2>1 DEF FeedSent, FeedTaken, Consumed, Avail, End
  <2>5. FeedLost' = FeedLost
    BY <1>9, KeepsPlace
  <2> QED BY <1>1, <2>1, <2>3, <2>4, <2>5
<1>10. CASE Misreads
  <2>1. /\ pc = "parse" /\ pc' \in {"astray", "done"}
        /\ UNCHANGED <<sent, rx, inbuf, msg, shown, pongs>>
    BY <1>10 DEF Misreads, Ends, relay
  <2>2. /\ FeedTaken' = FeedTaken /\ FeedSent' = FeedSent /\ FeedTaken < Len(FeedSent)
        /\ FeedSent[FeedTaken + 1] \in {s \in Shapes : Negative(s)}
    BY <1>10, MisreadsNext
  <2>3. UNCHANGED <<FeedPart, FeedShown>>
    BY <2>1 DEF FeedPart, FeedShown, FramesShown
  <2>4. ended = "no" /\ FeedLost = FALSE
    BY <2>1 DEF TypeOK, FeedLost
  <2>5. \/ pc' = "done" /\ ended' = "closed"
        \/ FeedLost' = TRUE
    BY <1>10 DEF Misreads, Ends, FeedLost
  <2>6. CASE FeedLost' = TRUE
    <3>1. Feed!Lose
      BY <2>1, <2>2, <2>3, <2>4, <2>6 DEF Feed!Lose
    <3> QED BY <3>1 DEF Feed!Next
  <2>7. CASE pc' = "done" /\ ended' = "closed"
    <3>1. FeedLost' = FeedLost
      BY <2>4, <2>7 DEF FeedLost
    <3> QED BY <1>1, <2>1, <2>2, <2>3, <3>1
  <2> QED BY <2>5, <2>6, <2>7
<1> QED BY <1>2, <1>3, <1>4, <1>5, <1>6, <1>7, <1>8, <1>9, <1>10 DEF Program

(* The byte-level client of ws_ensure(), ws_parse_frame() and               *)
(* ws_read_message() is a taker of whole frames: every frame once and in    *)
(* order, messages of their data frames, a pong for each ping.              *)
THEOREM RefinesFeed == Spec => ImplementsFeed
<1>1. Init => Feed!Init
  <2> SUFFICES ASSUME Init PROVE Feed!Init
    OBVIOUS
  <2>1. sent = <<>> /\ shown = <<>> /\ msg = NoMsg /\ pongs = <<>> /\ pc = "handshake"
    BY DEF Init
  <2>2. FeedSent = <<>> /\ FramesShown = <<>>
    BY <2>1 DEF FeedSent, FramesShown
  <2>3. {n \in 1 .. Len(sent) : End(sent[n]) <= Consumed} = {}
    BY <2>1
  <2>4. FeedTaken = 0
    BY <2>3, FS_EmptySet DEF FeedTaken
  <2>5. FeedLost = FALSE
    BY <2>1 DEF Init, FeedLost
  <2> QED BY <2>1, <2>2, <2>4, <2>5 DEF Feed!Init, FeedPart, FeedShown, NoMsg
<1>2. Inv /\ Caught /\ Joined /\ [Next]_vars => [Feed!Next]_(Feed!vars)
  <2> SUFFICES ASSUME Inv, Caught, Joined, [Next]_vars
               PROVE  [Feed!Next]_(Feed!vars)
    OBVIOUS
  <2> USE DEF Feed!vars
  <2>1. CASE Program
    BY <2>1, FeedProgram DEF Caught
  <2>2. CASE RelaySends
    <3>1. pongs' = pongs /\ (pc' = "done" <=> pc = "done") /\ FeedLost' = FeedLost
      BY <2>2 DEF RelaySends, client, FeedLost
    <3> QED BY <2>2, <3>1, FeedSends DEF Caught, Feed!Next, Feed!Send
  <2>3. CASE RelayReplies \/ RelayCloses \/ Break \/ UNCHANGED vars
    <3>1. UNCHANGED <<pc, sent, rx, inbuf, inpos, msg, shown, pongs>> /\ FeedLost' = FeedLost
      BY <2>3 DEF RelayReplies, RelayCloses, Break, client, relay, vars, FeedLost
    <3>2. UNCHANGED <<FeedSent, FeedTaken, FeedPart, FeedShown>>
      BY <3>1 DEF FeedSent, FeedTaken, FeedPart, FeedShown, FramesShown,
                  Consumed, Avail, End
    <3> QED BY <3>1, <3>2
  <2>4. CASE Wanders
    <3>1. /\ pc = "astray" /\ pc' = "done" /\ FeedLost' = FeedLost
          /\ UNCHANGED <<sent, rx, inbuf, inpos, msg, shown, pongs>>
      BY <2>4 DEF Wanders, Ends, relay, FeedLost
    <3>2. UNCHANGED <<FeedSent, FeedTaken, FeedPart, FeedShown>>
      BY <3>1 DEF FeedSent, FeedTaken, FeedPart, FeedShown, FramesShown,
                  Consumed, Avail, End
    <3>3. FeedTaken \in Nat /\ FeedTaken <= Len(FeedSent)
      BY FeedBound DEF Inv
    <3>4. Feed!Leave
      BY <3>1, <3>2, <3>3 DEF Feed!Leave
    <3> QED BY <3>4 DEF Feed!Next
  <2> QED BY <2>1, <2>2, <2>3, <2>4 DEF Next, Relay, Finished
<1> QED BY <1>1, <1>2, InvAlways, CaughtAlways, JoinedAlways, PTL
        DEF Spec, ImplementsFeed, Feed!Spec

=============================================================================
