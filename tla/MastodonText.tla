---------------------------- MODULE MastodonText ----------------------------
(***************************************************************************)
(* How the Mastodon client (mastodon/mastodon.c) gets from the text of a   *)
(* JSON answer to what it prints.                                          *)
(*                                                                         *)
(* A text is a sequence of letters.  "q" is a quotation mark, "bs" a       *)
(* backslash, "ob" and "cb" are the braces of an object.  A letter that    *)
(* ends in a colon is a member name with its quotation marks; commas, white*)
(* space and other members are left out, as nothing here depends on them.  *)
(* A tag name and an entity without its "&" and ";" are one letter each.   *)
(* Scanners are defined past the end of a text: there is the NUL that ends *)
(* the C string.                                                           *)
(***************************************************************************)
EXTENDS Naturals, Sequences, SequencesExt

Cut(s, n) == SubSeq(s, 1, IF Len(s) <= n THEN Len(s) ELSE n)

(* The first position from p on that holds one of the letters, or past it.  *)
First(s, p, letters) ==
  CHOOSE i \in p .. Len(s) + 1 :
    /\ i = Len(s) + 1 \/ s[i] \in letters
    /\ \A j \in p .. i - 1 : s[j] \notin letters

(* The position of the quotation mark that closes a string. *)
StringEnd(s, p) ==
  LET end[i \in 1 .. Len(s) + 1] ==
        CASE i > Len(s) \/ s[i] = "q" -> i
          [] i < Len(s) /\ s[i] = "bs" -> end[i + 2]
          [] OTHER -> end[i + 1]
  IN end[p]

SlipSpanEnd(s, p, open, close) ==
  LET end[x \in (1 .. Len(s) + 2) \X (Nat \ {0})] ==
        LET i == x[1]
            depth == x[2]
        IN IF i > Len(s) THEN 0
           ELSE CASE s[i] = open -> end[<<i + 1, depth + 1>>]
                  [] s[i] = close -> IF depth = 1 THEN i ELSE end[<<i + 1, depth - 1>>]
                  [] OTHER -> end[<<i + 1, depth>>]
  IN end[<<p + 1, 1>>]

(* The position of the bracket that closes the one at p, 0 if there is none *)
(* (get_raw_span() and json_next_obj(): brackets within strings are text).  *)
SpanEnd(s, p, open, close) ==
  LET end[x \in (1 .. Len(s) + 2) \X (Nat \ {0})] ==
        LET i == x[1]
            depth == x[2]
        IN IF i > Len(s) THEN 0
           ELSE CASE s[i] = "q" -> end[<<StringEnd(s, i + 1) + 1, depth>>]
                  [] s[i] = open -> end[<<i + 1, depth + 1>>]
                  [] s[i] = close -> IF depth = 1 THEN i ELSE end[<<i + 1, depth - 1>>]
                  [] OTHER -> end[<<i + 1, depth>>]
  IN end[<<p + 1, 1>>]

(* find_key(): where the value of the first member of this name begins, at  *)
(* any depth.                                                               *)
FindKey(s, key) == First(s, 1, {key}) + 1

(* get_raw_span(): the object or array, <<>> for null, a string or a value  *)
(* that is cut off.                                                         *)
RawSpan(s, key) ==
  LET p == FindKey(s, key)
      end == IF p > Len(s) THEN 0
             ELSE CASE s[p] = "[" -> SpanEnd(s, p, "[", "]")
                    [] s[p] = "ob" -> SpanEnd(s, p, "ob", "cb")
                    [] OTHER -> 0
  IN IF end = 0 THEN <<>> ELSE SubSeq(s, p, end)

(* json_unescape() *)
Unescape(s) ==
  LET from[i \in 1 .. Len(s) + 1] ==
        IF i > Len(s) THEN <<>>
        ELSE IF i < Len(s) /\ s[i] = "bs" THEN <<s[i + 1]>> \o from[i + 2]
        ELSE <<s[i]>> \o from[i + 1]
  IN from[1]

(* get_json_string() *)
JsonString(s, key, max) ==
  LET p == FindKey(s, key)
  IN IF p > Len(s) \/ s[p] # "q" THEN <<>>
     ELSE Cut(Unescape(SubSeq(s, p + 1, StringEnd(s, p + 1) - 1)), max)

(* json_next_obj(): the next object from p on, cut to max letters, and the  *)
(* position after it; an array that ends, or an object that does not, is    *)
(* the end.                                                                 *)
NextObj(s, p, max) ==
  LET open == First(s, p, {"ob", "]"})
      end == IF open > Len(s) \/ s[open] = "]" THEN 0 ELSE SpanEnd(s, open, "ob", "cb")
  IN IF end = 0 THEN [found |-> FALSE]
     ELSE [found |-> TRUE, obj |-> Cut(SubSeq(s, open, end), max), next |-> end + 1]

Entity == [l \in {"lt", "amp", "quot", "nbsp"} |->
             CASE l = "lt" -> "<" [] l = "amp" -> "&" [] l = "quot" -> "q" [] OTHER -> "sp"]

Breaks == {<<"br">>, <<"br/">>, <<"/p">>, <<"/blockquote">>}

Trimmed(s) ==
  LET kept == {i \in 1 .. Len(s) : s[i] \notin {"nl", "sp"}}
  IN SubSeq(s, 1, IF kept = {} THEN 0 ELSE CHOOSE i \in kept : \A j \in kept : j <= i)

(* html_strip(): tags are dropped, the end of a line or a paragraph starts  *)
(* a line unless one was just started, entities are decoded.                *)
HtmlStrip(s, max) ==
  LET from[x \in (1 .. Len(s) + 1) \X BOOLEAN] ==
        LET i == x[1]
            after == x[2]
            close == First(s, i, {">"})
            breaks == SubSeq(s, i + 1, close - 1) \in Breaks
        IN CASE i > Len(s) -> <<>>
             [] i <= Len(s) /\ s[i] = "<" ->
                  CASE close > Len(s) -> <<>>
                    [] close <= Len(s) /\ breaks /\ ~after -> <<"nl">> \o from[<<close + 1, TRUE>>]
                    [] OTHER -> from[<<close + 1, after>>]
             [] i < Len(s) /\ s[i] = "&" /\ s[i + 1] \in DOMAIN Entity ->
                  <<Entity[s[i + 1]]>> \o from[<<i + 2, FALSE>>]
             [] OTHER -> <<s[i]>> \o from[<<i + 1, s[i] = "nl">>]
  IN Trimmed(Cut(from[<<1, FALSE>>], max))
=============================================================================
