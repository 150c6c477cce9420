----------------------------- MODULE GeminiUrl -----------------------------
(***************************************************************************)
(* References and how gem_resolve_url() follows them (gemini/gemini.c).     *)
(*                                                                         *)
(* A path is its segments and whether it ends in a slash; a segment may be  *)
(* empty, between two slashes.  A host includes its port.  The lengths of   *)
(* single names are left out.                                               *)
(***************************************************************************)
EXTENDS Naturals, Sequences, SequencesExt

CONSTANT MaxSegs   \* GEM_MAX_SEGS

(* kind says how the reference begins: "url" a gemini:// or // one, "other" *)
(* one with the :// of another scheme, "abs" a slash, "rel" a name, "query" *)
(* a ?, "empty" nothing that is left of it without its #fragment.           *)
Kinds == {"url", "other", "abs", "rel", "query", "empty"}

NoQuery == "no query"

(* "/" is the path without segments. *)
Root == [segs |-> <<>>, dir |-> TRUE]

-----------------------------------------------------------------------------
(* One step of gem_normalize_path(): ".." takes back a segment if there is  *)
(* one; "." and an empty segment are dropped, and what finds the table full *)
(* is left out.                                                             *)
Pushed(segs, s) ==
  CASE s = ".."        -> IF segs = <<>> THEN segs ELSE Front(segs)
    [] s \in {".", ""} -> segs
    [] OTHER           -> IF Len(segs) < MaxSegs THEN Append(segs, s) ELSE segs

Normal(segs, dir) ==
  LET kept == FoldLeft(Pushed, <<>>, segs)
  IN  [segs |-> kept, dir |-> dir \/ kept = <<>>]

SlipMerged(base, ref) == base.segs \o ref.segs

(* gem_merge_path(): the directory of the base, then the reference.         *)
Merged(base, ref) ==
  (IF base.dir THEN base.segs ELSE Front(base.segs)) \o ref.segs

At(host, path, query) ==
  [host |-> host, segs |-> path.segs, dir |-> path.dir, query |-> query]

(* "cannot follow that link (unsupported scheme)". *)
Follows(ref) == ref.kind # "other"

(* gem_resolve_url(): where a reference found at base leads.                *)
Resolve(base, ref) ==
  CASE ref.kind = "url"   -> ref.url
    [] ref.kind = "empty" -> base
    [] ref.kind = "query" -> [base EXCEPT !.query = ref.query]
    [] ref.kind = "abs"   -> At(base.host, Normal(ref.segs, ref.dir), ref.query)
    [] ref.kind = "rel"   ->
         At(base.host, Normal(Merged(base, ref), ref.dir), ref.query)

-----------------------------------------------------------------------------
(* The segments that name nothing. *)
NoName == {".", "..", ""}

(* RFC 3986, 5.2.4, of a path without its empty segments, and without a     *)
(* step by step account: a name stays unless the ".." that follow it        *)
(* outnumber the names in between.  (The RFC keeps empty segments.)         *)
Ups(segs, i, j) == {k \in i + 1 .. j : segs[k] = ".."}
Names(segs, i, j) == {k \in i + 1 .. j : segs[k] \notin NoName}

Survives(segs, i) ==
  /\ segs[i] \notin NoName
  /\ \A j \in i + 1 .. Len(segs) :
       Cardinality(Ups(segs, i, j)) <= Cardinality(Names(segs, i, j))

RfcSegs(segs) ==
  LET kept == {i \in 1 .. Len(segs) : Survives(segs, i)}
      Nth(k) == CHOOSE i \in kept : Cardinality(kept \cap (1 .. i)) = k
  IN  [k \in 1 .. Cardinality(kept) |-> segs[Nth(k)]]
=============================================================================
