--------------------------- MODULE MCNostrSocket ---------------------------
(* Small instances of NostrSocket for TLC. *)
EXTENDS NostrSocket

Frame(op, fin, hdr, len, tag) ==
  [op |-> op, fin |-> fin, hdr |-> hdr, len |-> len, tag |-> tag]

(* PayBuf = 2: of 3 bytes is refused.  LongMax = 5: lengths from 5 to 9     *)
(* become negative, -1 for 9; of 7 there are just as many as of header.     *)
Feeds ==
  {Frame("text", TRUE, 2, 2, "EVENT"), Frame("text", TRUE, 2, 1, "EOSE"),
   Frame("cont", TRUE, 2, 1, "none"),
   Frame("text", FALSE, 2, 1, "CLOSED"), Frame("binary", FALSE, 2, 2, "none"),
   Frame("cont", TRUE, 3, 2, "none"), Frame("ping", TRUE, 2, 1, "none"),
   Frame("pong", TRUE, 2, 0, "none"), Frame("close", TRUE, 2, 0, "none"),
   Frame("text", TRUE, 3, 3, "EVENT"), Frame("ping", TRUE, 3, 9, "none"),
   Frame("text", TRUE, 3, 8, "EVENT"), Frame("close", TRUE, 3, 9, "none"),
   Frame("text", TRUE, 3, 7, "EVENT"), Frame("text", TRUE, 3, 6, "EVENT")}
=============================================================================
