--------------------------- MODULE GeminiBrowser ---------------------------
(***************************************************************************)
(* run_browser() of the Gemini client (gemini/gemini.c): where the browser  *)
(* stands, the link table, redirects and INPUT round trips, the prompt.     *)
(*                                                                         *)
(* The capsule may answer any request with anything, an answer may be cut   *)
(* at any byte (also by Ctrl-C: what has arrived counts as the answer), and *)
(* the user types what he likes.  A line longer than its fgets() buffer     *)
(* counts as several lines.                                                 *)
(*                                                                         *)
(* An operator named Slip... is a variant that an editing slip in the code  *)
(* could produce; no action uses it.                                        *)
(***************************************************************************)
EXTENDS GeminiUrl, FiniteSets

CONSTANTS
  Refs,      \* references in pages and redirects, and typed at the prompt
  Urls,      \* what they lead to
  Start,     \* the URL on the command line
  Pages,     \* text/gemini bodies: their references in order
  Answers,   \* what may be typed at an INPUT question, as a query
  MaxLinks,  \* GEM_MAX_LINKS
  MaxHops,   \* 5: redirects and INPUT round trips of one navigation
  MaxMoves   \* bound of the model: navigations in one session

ASSUME SizesAssumption == {MaxLinks, MaxHops, MaxMoves, MaxSegs} \subseteq Nat

ASSUME UrlsAssumption ==
  /\ Start \in Urls
  /\ \A u \in Urls, r \in Refs : Follows(r) => Resolve(u, r) \in Urls
  /\ \A u \in Urls, a \in Answers : [u EXCEPT !.query = a] \in Urls

ASSUME SegsAssumption ==
  /\ \A u \in Urls : u.segs \in Seq(STRING)
  /\ \A r \in Refs : r.kind \in {"abs", "rel"} => r.segs \in Seq(STRING)

ASSUME PagesAssumption == Pages \subseteq Seq(Refs)

VARIABLES
  pc,     \* "build", "wait", "input", "prompt" or "done"
  opts,   \* -1 and -o of the command line
  at,     \* host, port, path
  req,    \* g_reqbuf: the URL requested last
  hops,   \* redirects
  links,  \* g_links[0 .. g_nlinks - 1]
  page,   \* history variable: the page shown last, its URL and references
  fresh,  \* history variable: is it what the last navigation led to?
  asked,  \* history variable: requests of this navigation, up to MaxHops + 2
  moves   \* history variable: navigations so far

vars == <<pc, opts, at, req, hops, links, page, fresh, asked, moves>>

Page == [url : Urls, refs : Seq(Refs)]

-----------------------------------------------------------------------------
(* The end of the inner loop of run_browser().                              *)
Rests == pc' = IF opts.once THEN "done" ELSE "prompt"

(* Build the URL and send it. *)
Request ==
  /\ pc = "build"
  /\ req' = at
  /\ asked' = IF asked <= MaxHops + 1 THEN asked + 1 ELSE asked
  /\ pc' = "wait"
  /\ UNCHANGED <<opts, at, hops, links, page, fresh, moves>>

(* transport_fetch() fails, the header line is malformed, or the status is  *)
(* none of 10 to 39: a message, and the old page stays as it was.           *)
Fails ==
  /\ pc = "wait"
  /\ Rests
  /\ UNCHANGED <<opts, at, req, hops, links, page, fresh, asked, moves>>

(* 10 to 19: the question is printed ... *)
AsksInput ==
  /\ pc = "wait"
  /\ pc' = "input"
  /\ UNCHANGED <<opts, at, req, hops, links, page, fresh, asked, moves>>

(* ... and the answer replaces the query; the path has changed also when    *)
(* there were too many round trips.                                         *)
Answer ==
  /\ pc = "input"
  /\ \E a \in Answers : at' = [at EXCEPT !.query = a]
  /\ hops' = hops + 1
  /\ IF hops' > MaxHops THEN Rests ELSE pc' = "build"
  /\ UNCHANGED <<opts, req, links, page, fresh, asked, moves>>

NoAnswer ==
  /\ pc = "input"
  /\ Rests
  /\ UNCHANGED <<opts, at, req, hops, links, page, fresh, asked, moves>>

(* 20 to 29 with -o: the body goes to the file, the screen stays.           *)
Saves ==
  /\ pc = "wait" /\ opts.save
  /\ Rests
  /\ UNCHANGED <<opts, at, req, hops, links, page, fresh, asked, moves>>

Shows(refs) == page' = [url |-> req, refs |-> refs] /\ fresh' = TRUE

SlipTabled(refs) ==
  IF Len(refs) <= MaxLinks + 1 THEN refs ELSE SubSeq(refs, 1, MaxLinks + 1)

(* gem_render_gemtext() fills the link table from its start; all further    *)
(* links are shown with the number after the last.                          *)
Tabled(refs) == IF Len(refs) <= MaxLinks THEN refs ELSE SubSeq(refs, 1, MaxLinks)

(* text/gemini: as much of the page as has arrived and fits the output      *)
(* buffer.  A line that does not fit ends the page; a link is in the table  *)
(* before its line is found not to fit.  (A reference that was cut in two   *)
(* is a reference of another page.)                                         *)
Renders ==
  /\ pc = "wait" /\ ~opts.save
  /\ \E p \in Pages : \E k \in 0 .. Len(p) :
       /\ links' = Tabled(SubSeq(p, 1, k))
       /\ \E shown \in {k, k - 1} \cap Nat : Shows(SubSeq(p, 1, shown))
  /\ Rests
  /\ UNCHANGED <<opts, at, req, hops, asked, moves>>

SlipShowsOther ==
  /\ pc = "wait" /\ ~opts.save
  /\ Shows(<<>>)
  /\ Rests
  /\ UNCHANGED <<opts, at, req, hops, links, asked, moves>>

(* Other text, or a note on what is not text: nothing to follow.            *)
ShowsOther ==
  /\ pc = "wait" /\ ~opts.save
  /\ links' = <<>>
  /\ Shows(<<>>)
  /\ Rests
  /\ UNCHANGED <<opts, at, req, hops, asked, moves>>

SlipRedirected ==
  /\ pc = "wait"
  /\ \E r \in Refs :
       IF hops <= MaxHops /\ Follows(r)
       THEN at' = Resolve(at, r) /\ pc' = "build"
       ELSE at' = at /\ Rests
  /\ UNCHANGED <<opts, req, hops, links, page, fresh, asked, moves>>

(* 30 to 39. *)
Redirected ==
  /\ pc = "wait"
  /\ hops' = hops + 1
  /\ \E r \in Refs :
       IF hops' <= MaxHops /\ Follows(r)
       THEN at' = Resolve(at, r) /\ pc' = "build"
       ELSE at' = at /\ Rests
  /\ UNCHANGED <<opts, req, links, page, fresh, asked, moves>>

-----------------------------------------------------------------------------
(* The end of the prompt loop: the outer loop starts over.                  *)
Goes(base, ref) ==
  /\ Follows(ref)
  /\ at' = Resolve(base, ref)
  /\ hops' = 0
  /\ asked' = 0 /\ fresh' = FALSE /\ moves' = moves + 1
  /\ pc' = "build"
  /\ UNCHANGED <<opts, req, links, page>>

SlipPickLink(n) ==
  pc = "prompt" /\ moves < MaxMoves /\ n < Len(links) /\ Goes(at, links[n + 1])

(* A number at the prompt: a link of the table, against where we are now.   *)
PickLink(n) ==
  pc = "prompt" /\ moves < MaxMoves /\ n <= Len(links) /\ Goes(at, links[n])

TypeRef ==
  pc = "prompt" /\ moves < MaxMoves /\ \E r \in Refs : Goes(at, r)

(* No such link, or another scheme: the prompt is printed again.            *)
Declines ==
  /\ pc = "prompt"
  /\ UNCHANGED vars

(* End of file, an empty line, q. *)
Leaves ==
  /\ pc = "prompt"
  /\ pc' = "done"
  /\ UNCHANGED <<opts, at, req, hops, links, page, fresh, asked, moves>>

-----------------------------------------------------------------------------
Init ==
  /\ pc = "build"
  /\ opts \in [once : BOOLEAN, save : BOOLEAN]
  /\ at = Start /\ req = Start
  /\ hops = 0
  /\ links = <<>>
  /\ page = [url |-> Start, refs |-> <<>>]
  /\ fresh = FALSE
  /\ asked = 0 /\ moves = 0

Capsule ==
  Fails \/ AsksInput \/ Saves \/ Renders \/ ShowsOther \/ Redirected

User == Answer \/ NoAnswer

Navigates == (\E n \in 1 .. MaxLinks : PickLink(n)) \/ TypeRef \/ Declines \/ Leaves

Finished == pc = "done" /\ UNCHANGED vars

Next == Request \/ Capsule \/ User \/ Navigates \/ Finished

Spec == Init /\ [][Next]_vars

FairSpec == Spec /\ WF_vars(Request) /\ WF_vars(Capsule) /\ WF_vars(User)

-----------------------------------------------------------------------------
(* Every variable holds a value of its kind, and the link table its size.   *)
(* (Types of the globals of gemini.c and of run_browser()'s locals.)        *)
TypeOK ==
  /\ pc \in {"build", "wait", "input", "prompt", "done"}
  /\ opts \in [once : BOOLEAN, save : BOOLEAN]
  /\ at \in Urls /\ req \in Urls
  /\ hops \in 0 .. MaxHops + 1
  /\ links \in Seq(Refs) /\ Len(links) <= MaxLinks
  /\ page \in Page
  /\ fresh \in BOOLEAN
  /\ asked \in Nat /\ moves \in Nat

(* Whatever failed since the page on the screen was shown, the link table   *)
(* is that page's: the number of a link that is shown means that link,      *)
(* while the table has room, and at most one number more is accepted: that  *)
(* of a link whose line did not fit the output buffer.                      *)
TableOfPage ==
  /\ \A n \in 1 .. Len(page.refs) :
       n <= MaxLinks => n <= Len(links) /\ links[n] = page.refs[n]
  /\ Len(links) <= Len(page.refs) + 1

(* Redirects and INPUT round trips together are at most MaxHops: one        *)
(* navigation sends at most one request more (README.md: "follows it (up to *)
(* 5 hops)").                                                               *)
RequestsBounded == asked <= MaxHops + 1

(* A link that is picked from those on the screen of the page a navigation  *)
(* led to, redirects and questions included, is resolved against the URL    *)
(* that page came from.                                                     *)
FollowsShown ==
  [][\A n \in 1 .. MaxLinks :
       fresh /\ n <= Len(page.refs) /\ PickLink(n) =>
         at' = Resolve(page.url, page.refs[n])]_vars

(* From wherever the browser stands, a path in a page leads to the names    *)
(* RFC 3986 gives for it, up to GEM_MAX_SEGS segments, dot segments and the *)
(* root included, if the path is taken without its empty segments, and with *)
(* the query of the reference.  A slash at the end stays; the one that the  *)
(* RFC adds behind a last dot segment is not there.                         *)
ResolvesRight ==
  \A r \in Refs :
    LET dirs == Len(at.segs) - (IF at.dir THEN 0 ELSE 1)
        segs == IF r.kind = "rel" THEN SubSeq(at.segs, 1, dirs) \o r.segs ELSE r.segs
        path == RfcSegs(segs)
    IN  r.kind \in {"abs", "rel"} /\ Len(segs) <= MaxSegs =>
          Resolve(at, r) = [host |-> at.host, segs |-> path,
                            dir |-> r.dir \/ path = <<>>, query |-> r.query]

(* The prompt always comes back: no capsule can keep the browser going      *)
(* round, as long as it answers or hangs up and the user answers.           *)
PromptReturns == pc \in {"build", "wait", "input"} ~> pc \in {"prompt", "done"}

-----------------------------------------------------------------------------
(* gemini.c: "link table ... for the current page": a number always means   *)
(* the link that the page on the screen shows, as that page means it.       *)
NumbersMeanLinks ==
  [][\A n \in 1 .. MaxLinks :
       n <= Len(page.refs) /\ PickLink(n) => at' = Resolve(page.url, page.refs[n])]_vars

=============================================================================
