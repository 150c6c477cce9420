-------------------------- MODULE MCGeminiBrowser --------------------------
(* Small instances of GeminiBrowser for TLC. *)
EXTENDS GeminiBrowser

Ref(kind, segs, dir, query) ==
  [kind |-> kind, segs |-> segs, dir |-> dir, query |-> query]

UrlRef(u) ==
  [kind |-> "url", url |-> u, segs |-> <<>>, dir |-> FALSE, query |-> NoQuery]

Here == [host |-> "home", segs |-> <<"a", "b">>, dir |-> FALSE, query |-> NoQuery]
There == [host |-> "away", segs |-> <<"b", "", "a">>, dir |-> TRUE, query |-> "q"]

Up == Ref("rel", <<"..", "a">>, FALSE, NoQuery)
Down == Ref("rel", <<"b", "", "..">>, FALSE, NoQuery)
Top == Ref("abs", <<"..", "b">>, FALSE, NoQuery)
Asks == Ref("query", <<>>, FALSE, "q")
Same == Ref("empty", <<>>, FALSE, NoQuery)
Web == Ref("other", <<>>, FALSE, NoQuery)

SomeRefs == {UrlRef(There), Up, Down, Top, Asks, Web, Same}

SomePages == {<<Up, UrlRef(There), Web>>, <<Down>>}

(* All that SomeRefs lead to from Here. *)
AllUrls ==
  {There} \cup
  {u \in [host : {"home", "away"},
          segs : UNION {[1 .. n -> {"a", "b"}] : n \in 0 .. MaxSegs},
          dir : BOOLEAN, query : {NoQuery, "q", "typed"}] :
     u.segs = <<>> => u.dir} \cup
  {[There EXCEPT !.query = "typed"]}
=============================================================================
