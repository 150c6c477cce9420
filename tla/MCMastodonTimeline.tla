------------------------- MODULE MCMastodonTimeline -------------------------
(* A small instance of MastodonTimeline for TLC. *)
EXTENDS MastodonTimeline

Plain(text) ==
  [by |-> "ann", boosts |-> FALSE, author |-> "ann", text |-> text, accountFirst |-> TRUE]

Boost(text, accountFirst) ==
  [by |-> "bob", boosts |-> TRUE, author |-> "cyd", text |-> text,
   accountFirst |-> accountFirst]

Letters == {"x", "q", "bs", "<", "&", "nl", "cb", "]"}

Names == {"ann", "bob", "cyd"}

SomeAlphabet == Letters \cup Names \cup {"ob"}

Decimal == [n \in 0 .. RespBuf |-> ToString(n)]

Texts == UNION {[1 .. n -> Letters] : n \in 0 .. 2}

(* Two statuses that fit resp[], and three that do not. *)
SomeTimelines ==
  {<<>>} \cup {<<Plain(t)>> : t \in Texts}
  \cup {<<Boost(<<l>>, FALSE)>> : l \in Letters}
  \cup {<<Boost(<<"q", "cb">>, FALSE), Plain(<<"nl", "x">>)>>,
        <<Plain(<<"bs", "ob">>), Boost(<<"x">>, TRUE), Plain(<<"x">>)>>}
=============================================================================
