------------------------ MODULE GeminiBrowserProofs ------------------------
(* Theorems about the Gemini browser, for every set of references and URLs  *)
(* that resolution stays within, all pages, and all sizes of its tables:    *)
(* the link table, the hops, and where a reference leads.                   *)
EXTENDS GeminiBrowser, SequenceTheorems, FiniteSetTheorems, WellFoundedInduction, TLAPS

Going == {"build", "wait", "input"}

(* Where the browser stands: what was requested while an answer is awaited, *)
(* and the URL of the page while the page that was asked for is shown.      *)
Placed ==
  /\ pc \in {"wait", "input"} => at = req
  /\ pc \in Going => ~fresh
  /\ fresh => at = page.url

(* Every request but the first of a navigation was paid for by a hop.       *)
Counted ==
  /\ pc = "build" => asked = hops /\ hops <= MaxHops
  /\ pc \in {"wait", "input"} => asked = hops + 1 /\ hops <= MaxHops

(* The inductive invariant. *)
Inv == TypeOK /\ TableOfPage /\ Placed /\ Counted /\ RequestsBounded

-----------------------------------------------------------------------------
(* A part of a page is a sequence of references. *)
LEMMA PartOfPage ==
  ASSUME NEW p \in Seq(Refs), NEW k \in 0 .. Len(p)
  PROVE  SubSeq(p, 1, k) \in Seq(Refs)
<1>1. k \in Nat /\ Len(p) \in Nat /\ k <= Len(p)
  BY LenProperties
<1>2. CASE k = 0
  <2>1. SubSeq(p, 1, 0) = <<>>
    BY <1>1, SubSeqEmpty
  <2> QED BY <1>2, <2>1
<1>3. CASE k >= 1
  <2>1. \A i \in 1 .. k : p[i] \in Refs
    BY <1>1, ElementOfSeq
  <2> QED BY <1>1, <1>3, <2>1, SubSeqProperties
<1> QED BY <1>1, <1>2, <1>3

(* gem_render_gemtext() stays within the table and keeps the numbers of the *)
(* links that it takes.                                                     *)
LEMMA TabledFacts ==
  ASSUME NEW refs \in Seq(Refs)
  PROVE  /\ Tabled(refs) \in Seq(Refs)
         /\ Len(Tabled(refs)) <= MaxLinks
         /\ \A n \in 1 .. Len(Tabled(refs)) : Tabled(refs)[n] = refs[n]
<1>1. MaxLinks \in Nat /\ Len(refs) \in Nat
  BY SizesAssumption, LenProperties
<1>2. CASE Len(refs) <= MaxLinks
  BY <1>2 DEF Tabled
<1>3. CASE ~(Len(refs) <= MaxLinks)
  <2>1. Tabled(refs) = SubSeq(refs, 1, MaxLinks)
    BY <1>3 DEF Tabled
  <2>2. MaxLinks \in 0 .. Len(refs)
    BY <1>1, <1>3
  <2>3. SubSeq(refs, 1, MaxLinks) \in Seq(Refs)
    BY <2>2, PartOfPage
  <2>4. CASE MaxLinks = 0
    <3>1. SubSeq(refs, 1, 0) = <<>>
      BY SubSeqEmpty
    <3> QED BY <2>1, <2>3, <2>4, <3>1
  <2>5. CASE MaxLinks >= 1
    <3>1. \A i \in 1 .. MaxLinks : refs[i] \in Refs
      BY <1>1, <2>2, ElementOfSeq
    <3>2. /\ Len(SubSeq(refs, 1, MaxLinks)) = MaxLinks - 1 + 1
          /\ \A i \in 1 .. MaxLinks - 1 + 1 :
               SubSeq(refs, 1, MaxLinks)[i] = refs[1 + i - 1]
      BY <1>1, <2>2, <2>5, <3>1, SubSeqProperties
    <3>3. Len(SubSeq(refs, 1, MaxLinks)) = MaxLinks
      BY <1>1, <3>2
    <3>4. \A i \in 1 .. MaxLinks : SubSeq(refs, 1, MaxLinks)[i] = refs[i]
      BY <1>1, <3>2
    <3> QED BY <1>1, <2>1, <2>3, <3>3, <3>4
  <2> QED BY <1>1, <2>4, <2>5
<1> QED BY <1>2, <1>3

(* What is shown is all of a page, or all but its last link. *)
Begins(seen, refs) ==
  /\ Len(seen) <= Len(refs) /\ Len(refs) <= Len(seen) + 1
  /\ \A n \in 1 .. Len(seen) : seen[n] = refs[n]

LEMMA PartFacts ==
  ASSUME NEW p \in Seq(Refs), NEW k \in 0 .. Len(p)
  PROVE  Len(SubSeq(p, 1, k)) = k /\ \A n \in 1 .. k : SubSeq(p, 1, k)[n] = p[n]
<1>1. k \in Nat /\ Len(p) \in Nat /\ k <= Len(p)
  BY LenProperties
<1>2. CASE k = 0
  <2>1. SubSeq(p, 1, 0) = <<>>
    BY <1>1, SubSeqEmpty
  <2> QED BY <1>2, <2>1
<1>3. CASE k >= 1
  <2>1. \A i \in 1 .. k : p[i] \in Refs
    BY <1>1, ElementOfSeq
  <2>2. /\ Len(SubSeq(p, 1, k)) = k - 1 + 1
        /\ \A i \in 1 .. k - 1 + 1 : SubSeq(p, 1, k)[i] = p[1 + i - 1]
    BY <1>1, <1>3, <2>1, SubSeqProperties
  <2> QED BY <1>1, <2>2
<1> QED BY <1>1, <1>2, <1>3

LEMMA PartsBegin ==
  ASSUME NEW p \in Seq(Refs), NEW k \in 0 .. Len(p), NEW shown \in {k, k - 1} \cap Nat
  PROVE  Begins(SubSeq(p, 1, shown), SubSeq(p, 1, k))
<1>1. Len(p) \in Nat /\ k \in Nat /\ k <= Len(p)
  BY LenProperties
<1>2. shown \in 0 .. Len(p) /\ shown <= k /\ k <= shown + 1
  BY <1>1
<1>3. /\ Len(SubSeq(p, 1, k)) = k /\ \A n \in 1 .. k : SubSeq(p, 1, k)[n] = p[n]
      /\ Len(SubSeq(p, 1, shown)) = shown
      /\ \A n \in 1 .. shown : SubSeq(p, 1, shown)[n] = p[n]
  BY <1>2, PartFacts
<1>4. \A n \in 1 .. shown : n \in 1 .. k
  BY <1>1, <1>2
<1> QED BY <1>2, <1>3, <1>4 DEF Begins

(* The table has the links that are shown, and at most one more.            *)
LEMMA TableBegins ==
  ASSUME NEW refs \in Seq(Refs), NEW seen \in Seq(Refs), Begins(seen, refs)
  PROVE  /\ \A n \in 1 .. Len(seen) :
              n <= MaxLinks => n <= Len(Tabled(refs)) /\ Tabled(refs)[n] = seen[n]
         /\ Len(Tabled(refs)) <= Len(seen) + 1
<1>1. MaxLinks \in Nat /\ Len(refs) \in Nat /\ Len(seen) \in Nat
  BY SizesAssumption, LenProperties
<1>2. /\ Len(seen) <= Len(refs) /\ Len(refs) <= Len(seen) + 1
      /\ \A n \in 1 .. Len(seen) : seen[n] = refs[n]
  BY DEF Begins
<1>3. CASE Len(refs) <= MaxLinks
  BY <1>1, <1>2, <1>3 DEF Tabled
<1>4. CASE ~(Len(refs) <= MaxLinks)
  <2>1. MaxLinks \in 0 .. Len(refs) /\ Tabled(refs) = SubSeq(refs, 1, MaxLinks)
    BY <1>1, <1>4 DEF Tabled
  <2>2. Len(Tabled(refs)) = MaxLinks /\ \A n \in 1 .. MaxLinks : Tabled(refs)[n] = refs[n]
    BY <2>1, PartFacts
  <2> QED BY <1>1, <1>2, <1>4, <2>2
<1> QED BY <1>3, <1>4

(* A page without links empties the table. *)
LEMMA TabledNone == Tabled(<<>>) = <<>>
<1>1. Len(<<>>) = 0 /\ MaxLinks \in Nat
  BY SizesAssumption
<1> QED BY <1>1 DEF Tabled

-----------------------------------------------------------------------------
LEMMA InvInit == Init => Inv
<1> SUFFICES ASSUME Init PROVE Inv
  OBVIOUS
<1>1. Start \in Urls /\ MaxHops \in Nat /\ MaxLinks \in Nat
  BY UrlsAssumption, SizesAssumption
<1>3. TypeOK
  <2>1. links \in Seq(Refs) /\ Len(links) <= MaxLinks
    BY <1>1, EmptySeq DEF Init
  <2>2. page \in Page
    BY <1>1, EmptySeq DEF Init, Page
  <2>3. hops \in 0 .. MaxHops + 1 /\ asked \in Nat /\ moves \in Nat
    BY <1>1 DEF Init
  <2> QED BY <1>1, <2>1, <2>2, <2>3 DEF Init, TypeOK
<1>4. TableOfPage
  <2>1. links = <<>> /\ page.refs = <<>> /\ Len(<<>>) = 0
    BY DEF Init
  <2> QED BY <2>1 DEF TableOfPage
<1>5. Placed
  BY DEF Init, Placed, Going
<1>6. Counted /\ RequestsBounded
  BY <1>1 DEF Init, Counted, RequestsBounded
<1> QED
  BY <1>3, <1>4, <1>5, <1>6 DEF Inv

(* A navigation ends, or goes round once more. *)
LEMMA InvWaiting ==
  ASSUME Inv, Request \/ Fails \/ AsksInput \/ Saves \/ Answer \/ NoAnswer \/ Redirected
  PROVE  Inv'
<1> USE DEF Inv
<1>1. MaxHops \in Nat /\ hops \in Nat /\ asked \in Nat
  BY SizesAssumption DEF TypeOK
<1>2. links' = links /\ page' = page /\ opts' = opts /\ fresh' = fresh /\ moves' = moves
  BY DEF Request, Fails, AsksInput, Saves, Answer, NoAnswer, Redirected
<1>3. TableOfPage'
  BY <1>2 DEF TableOfPage
<1>4. pc \in Going /\ ~fresh
  BY DEF Request, Fails, AsksInput, Saves, Answer, NoAnswer, Redirected, Going, Placed
<1>5. pc' \in {"build", "wait", "input", "prompt", "done"}
  BY DEF Request, Fails, AsksInput, Saves, Answer, NoAnswer, Redirected, Rests
<1>6. CASE Request
  <2>0. pc = "build" /\ asked <= MaxHops + 1
    BY <1>1, <1>6 DEF Request, Counted
  <2>1. req' = at /\ at' = at /\ hops' = hops /\ asked' = asked + 1 /\ pc = "build" /\ pc' = "wait"
    BY <1>6, <2>0 DEF Request
  <2>2. TypeOK'
    BY <1>1, <1>2, <1>5, <2>1 DEF TypeOK
  <2>3. Placed'
    BY <1>2, <1>4, <2>1 DEF Placed, Going
  <2>4. Counted' /\ RequestsBounded'
    BY <1>1, <2>1 DEF Counted, RequestsBounded
  <2> QED BY <1>3, <2>2, <2>3, <2>4
<1>7. CASE Fails \/ AsksInput \/ Saves \/ NoAnswer
  <2>1. /\ req' = req /\ at' = at /\ hops' = hops /\ asked' = asked
        /\ pc \in {"wait", "input"} /\ pc' \in {"input", "prompt", "done"}
    BY <1>7 DEF Fails, AsksInput, Saves, NoAnswer, Rests
  <2>2. TypeOK'
    BY <1>1, <1>2, <1>5, <2>1 DEF TypeOK
  <2>3. Placed'
    BY <1>2, <1>4, <2>1 DEF Placed, Going
  <2>4. Counted' /\ RequestsBounded'
    BY <1>1, <2>1 DEF Counted, RequestsBounded
  <2> QED BY <1>3, <2>2, <2>3, <2>4
<1>8. CASE Answer \/ Redirected
  <2>1. /\ req' = req /\ hops' = hops + 1 /\ asked' = asked
        /\ pc \in {"wait", "input"} /\ pc' \in {"build", "prompt", "done"}
        /\ pc' = "build" => hops' <= MaxHops
    BY <1>1, <1>8 DEF Answer, Redirected, Rests
  <2>2. at' \in Urls
    <3>1. at \in Urls
      BY DEF TypeOK
    <3>2. CASE Answer
      BY <3>1, <3>2, UrlsAssumption DEF Answer
    <3>3. CASE Redirected
      <4>1. PICK r \in Refs :
              IF hops' <= MaxHops /\ Follows(r)
              THEN at' = Resolve(at, r) /\ pc' = "build" ELSE at' = at /\ Rests
        BY <3>3 DEF Redirected
      <4> QED BY <3>1, <4>1, UrlsAssumption
    <3> QED BY <1>8, <3>2, <3>3
  <2>3. asked = hops + 1 /\ hops <= MaxHops
    BY <2>1 DEF Counted
  <2>4. TypeOK'
    <3>1. hops' \in 0 .. MaxHops + 1
      BY <1>1, <2>1, <2>3
    <3> QED BY <1>1, <1>2, <1>5, <2>1, <2>2, <3>1 DEF TypeOK
  <2>5. Placed'
    BY <1>2, <1>4, <2>1 DEF Placed, Going
  <2>6. Counted' /\ RequestsBounded'
    BY <1>1, <2>1, <2>3 DEF Counted, RequestsBounded
  <2> QED BY <1>3, <2>4, <2>5, <2>6
<1> QED BY <1>6, <1>7, <1>8

(* A page is shown. *)
LEMMA InvShown ==
  ASSUME Inv, Renders \/ ShowsOther
  PROVE  Inv'
<1> USE DEF Inv
<1>1. PICK refs \in Seq(Refs), seen \in Seq(Refs) :
        links' = Tabled(refs) /\ Shows(seen) /\ Begins(seen, refs)
  <2>1. CASE Renders
    <3>1. PICK p \in Pages : \E k \in 0 .. Len(p) :
            /\ links' = Tabled(SubSeq(p, 1, k))
            /\ \E shown \in {k, k - 1} \cap Nat : Shows(SubSeq(p, 1, shown))
      BY <2>1 DEF Renders
    <3>2. PICK k \in 0 .. Len(p) :
            /\ links' = Tabled(SubSeq(p, 1, k))
            /\ \E shown \in {k, k - 1} \cap Nat : Shows(SubSeq(p, 1, shown))
      BY <3>1
    <3>3. PICK shown \in {k, k - 1} \cap Nat : Shows(SubSeq(p, 1, shown))
      BY <3>2
    <3>4. p \in Seq(Refs) /\ shown \in 0 .. Len(p)
      <4>1. p \in Seq(Refs)
        BY <3>1, PagesAssumption
      <4> QED BY <4>1, LenProperties
    <3>5. SubSeq(p, 1, k) \in Seq(Refs) /\ SubSeq(p, 1, shown) \in Seq(Refs)
      BY <3>4, PartOfPage
    <3>6. Begins(SubSeq(p, 1, shown), SubSeq(p, 1, k))
      BY <3>4, PartsBegin
    <3> QED BY <3>2, <3>3, <3>5, <3>6
  <2>2. CASE ShowsOther
    <3>1. Tabled(<<>>) = <<>> /\ <<>> \in Seq(Refs) /\ Begins(<<>>, <<>>)
      BY TabledNone DEF Begins
    <3> QED BY <2>2, <3>1 DEF ShowsOther
  <2> QED BY <2>1, <2>2
<1>2. /\ pc = "wait" /\ pc' \in {"prompt", "done"}
      /\ UNCHANGED <<opts, at, req, hops, asked, moves>>
  BY DEF Renders, ShowsOther, Rests
<1>3. page' = [url |-> req, refs |-> seen] /\ fresh' = TRUE
  BY <1>1 DEF Shows
<1>4. TypeOK'
  <2>1. links' \in Seq(Refs) /\ Len(links') <= MaxLinks
    BY <1>1, TabledFacts
  <2>2. page' \in Page
    <3>1. req \in Urls
      BY DEF TypeOK
    <3> QED BY <1>1, <1>3, <3>1 DEF Page
  <2> QED BY <1>2, <1>3, <2>1, <2>2 DEF TypeOK
<1>5. TableOfPage'
  <2>1. page'.refs = seen
    BY <1>3
  <2> QED BY <1>1, <2>1, TableBegins DEF TableOfPage
<1>6. Placed'
  BY <1>2, <1>3 DEF Placed, Going
<1>7. Counted' /\ RequestsBounded'
  BY <1>2 DEF Counted, RequestsBounded
<1> QED BY <1>4, <1>5, <1>6, <1>7

(* The next navigation begins, or the session ends. *)
LEMMA InvPrompt ==
  ASSUME Inv, (\E n \in 1 .. MaxLinks : PickLink(n)) \/ TypeRef \/ Declines \/ Leaves
  PROVE  Inv'
<1> USE DEF Inv
<1>1. CASE \E r \in Refs : pc = "prompt" /\ Goes(at, r)
  <2>1. PICK r \in Refs : Goes(at, r)
    BY <1>1
  <2>2. /\ Follows(r) /\ at' = Resolve(at, r) /\ hops' = 0 /\ asked' = 0
        /\ fresh' = FALSE /\ moves' = moves + 1 /\ pc' = "build"
        /\ UNCHANGED <<opts, req, links, page>>
    BY <2>1 DEF Goes
  <2>3. at' \in Urls
    BY <2>2, UrlsAssumption DEF TypeOK
  <2>4. MaxHops \in Nat
    BY SizesAssumption
  <2>5. TypeOK'
    <3>1. moves' \in Nat /\ 0 \in 0 .. MaxHops + 1 /\ 0 \in Nat
      BY <2>2, <2>4 DEF TypeOK
    <3> QED BY <2>2, <2>3, <3>1 DEF TypeOK
  <2>6. TableOfPage'
    BY <2>2 DEF TableOfPage
  <2>7. Placed'
    BY <2>2 DEF Placed, Going
  <2>8. Counted' /\ RequestsBounded'
    BY <2>2, <2>4 DEF Counted, RequestsBounded
  <2> QED BY <2>5, <2>6, <2>7, <2>8
<1>2. CASE Declines \/ Leaves
  <2>1. /\ UNCHANGED <<opts, at, req, hops, links, page, fresh, asked, moves>>
        /\ pc = "prompt" /\ pc' \in {"prompt", "done"}
    BY <1>2 DEF Declines, Leaves, vars
  <2> QED
    BY <2>1 DEF TypeOK, TableOfPage, Placed, Going, Counted, RequestsBounded
<1>3. CASE \E n \in 1 .. MaxLinks : PickLink(n)
  <2>1. PICK n \in 1 .. MaxLinks : PickLink(n)
    BY <1>3
  <2>2. pc = "prompt" /\ n <= Len(links) /\ Goes(at, links[n])
    BY <2>1 DEF PickLink
  <2>3. links[n] \in Refs
    <3>1. links \in Seq(Refs) /\ MaxLinks \in Nat
      BY SizesAssumption DEF TypeOK
    <3>2. n \in 1 .. Len(links)
      BY <2>2, <3>1, LenProperties
    <3> QED BY <3>1, <3>2, ElementOfSeq
  <2> QED BY <1>1, <2>2, <2>3
<1>4. CASE TypeRef
  BY <1>1, <1>4 DEF TypeRef
<1> QED BY <1>2, <1>3, <1>4

(* The invariant is inductive. *)
LEMMA InvNext == Inv /\ [Next]_vars => Inv'
<1> SUFFICES ASSUME Inv, [Next]_vars PROVE Inv'
  OBVIOUS
<1>1. CASE Request \/ Fails \/ AsksInput \/ Saves \/ Answer \/ NoAnswer \/ Redirected
  BY <1>1, InvWaiting
<1>2. CASE Renders \/ ShowsOther
  BY <1>2, InvShown
<1>3. CASE Navigates
  BY <1>3, InvPrompt DEF Navigates
<1>4. CASE UNCHANGED vars
  BY <1>4
  DEF vars, Inv, TypeOK, TableOfPage, Placed, Counted, RequestsBounded
<1> QED BY <1>1, <1>2, <1>3, <1>4 DEF Next, Capsule, User, Finished

THEOREM Invariance == Spec => []Inv
BY InvInit, InvNext, PTL DEF Spec

-----------------------------------------------------------------------------
(* Every variable of the browser keeps its type, the link table its size.   *)
THEOREM TypeCorrect == Spec => []TypeOK
<1>1. Inv => TypeOK
  BY DEF Inv
<1> QED BY <1>1, Invariance, PTL

(* The link table is always the one of the page on the screen: no failure,  *)
(* redirect or question in between changes what a number that is shown      *)
(* means, and at most one number is accepted that is not shown.             *)
THEOREM TableStays == Spec => []TableOfPage
<1>1. Inv => TableOfPage
  BY DEF Inv
<1> QED BY <1>1, Invariance, PTL

(* No capsule makes one navigation send more than MaxHops + 1 requests.     *)
THEOREM Bounded == Spec => []RequestsBounded
<1>1. Inv => RequestsBounded
  BY DEF Inv
<1> QED BY <1>1, Invariance, PTL

(* A link picked on the page that was asked for leads where that page says. *)
THEOREM LinksLead == Spec => FollowsShown
<1> DEFINE Leads ==
      \A n \in 1 .. MaxLinks :
        fresh /\ n <= Len(page.refs) /\ PickLink(n) => at' = Resolve(page.url, page.refs[n])
<1>1. Inv => Leads
  <2> SUFFICES ASSUME Inv, NEW n \in 1 .. MaxLinks, fresh, n <= Len(page.refs), PickLink(n)
               PROVE  at' = Resolve(page.url, page.refs[n])
    OBVIOUS
  <2>1. n <= Len(links) /\ at' = Resolve(at, links[n])
    BY DEF PickLink, Goes
  <2>2. at = page.url
    BY DEF Inv, Placed
  <2>3. links[n] = page.refs[n]
    <3>1. page.refs \in Seq(Refs) /\ MaxLinks \in Nat
      BY SizesAssumption DEF Inv, TypeOK, Page
    <3>2. Len(page.refs) \in Nat
      BY <3>1, LenProperties
    <3>3. n \in 1 .. Len(page.refs) /\ n <= MaxLinks
      BY <3>1, <3>2
    <3> QED BY <3>3 DEF Inv, TableOfPage
  <2> QED BY <2>1, <2>2, <2>3
<1> QED BY <1>1, Invariance, PTL DEF FollowsShown

-----------------------------------------------------------------------------
(* gem_normalize_path() is a fold over the segments.  The fold of the       *)
(* community module is read off from a function on sets of positions, the   *)
(* last position first.                                                     *)

(* Numbers have no infinite descent.                                        *)
LEMMA NatOrder == IsWellFoundedOn({p \in Nat \X Nat : p[1] < p[2]}, Nat)
<1>1. {p \in Nat \X Nat : p[1] < p[2]} = OpToRel(<, Nat)
  BY DEF OpToRel
<1> QED BY <1>1, NatLessThanWellFounded

(* Induction over a set of numbers.                                         *)
LEMMA SetInduction ==
  ASSUME NEW S, 0 \in S, \A n \in Nat : n \in S => n + 1 \in S
  PROVE  Nat \subseteq S
<1> DEFINE T == Nat \ S
           R == {p \in Nat \X Nat : p[1] < p[2]}
<1> SUFFICES ASSUME T # {} PROVE FALSE
  OBVIOUS
<1>1. T \subseteq Nat
  OBVIOUS
<1> HIDE DEF R
<1>2. PICK x \in T : \A y \in T : ~(<<y, x>> \in R)
  BY <1>1, NatOrder, WFMin DEF R
<1>3. x \in Nat /\ x # 0 /\ x - 1 \in Nat
  OBVIOUS
<1>4. x - 1 \in T
  <2>1. (x - 1) + 1 = x
    BY <1>3
  <2> QED BY <1>3, <2>1
<1>5. <<x - 1, x>> \in R
  BY <1>3 DEF R
<1> QED BY <1>2, <1>4, <1>5

(* A set of positions has a last one.                                       *)
LEMMA LastOne ==
  ASSUME NEW n \in Nat, NEW S, S \subseteq 1 .. n, S # {}
  PROVE  Max(S) \in S /\ \A y \in S : Max(S) >= y
<1> DEFINE T == {n - y : y \in S}
           R == {p \in Nat \X Nat : p[1] < p[2]}
<1>1. T \subseteq Nat /\ T # {}
  <2>1. \A y \in S : y \in Nat /\ y <= n
    OBVIOUS
  <2>2. \A y \in S : n - y \in Nat
    BY <2>1
  <2> QED BY <2>2
<1>r. \A a, b \in Nat : a < b => <<a, b>> \in R
  OBVIOUS
<1> HIDE DEF R
<1>2. PICK t \in T : \A u \in T : ~(<<u, t>> \in R)
  <2> HIDE DEF T
  <2> QED BY <1>1, NatOrder, WFMin DEF R
<1>3. PICK x \in S : t = n - x
  OBVIOUS
<1>4. \A y \in S : x >= y
  <2> SUFFICES ASSUME NEW y \in S, ~(x >= y) PROVE FALSE
    OBVIOUS
  <2>1. n - y \in T /\ n - y \in Nat /\ n - x \in Nat /\ n - y < n - x
    OBVIOUS
  <2> QED BY <1>2, <1>3, <1>r, <2>1
<1> QED BY <1>3, <1>4 DEF Max

(* What the fold comes to at each set of positions.                         *)
Folder(segs) ==
  CHOOSE g : g = [s \in SUBSET DOMAIN segs |->
                    IF s = {} THEN <<>>
                    ELSE LET x == Max(s) IN Pushed(g[s \ {x}], segs[x])]

(* The fold is that of all positions.                                       *)
LEMMA FoldIsFolder ==
  ASSUME NEW segs
  PROVE  FoldLeft(Pushed, <<>>, segs) = Folder(segs)[DOMAIN segs]
BY DEF FoldLeft, MapThenFoldSet, Folder

(* What gem_normalize_path() may keep of the segments so far.               *)
LEMMA PushedType ==
  ASSUME NEW M, NEW segs \in Seq(M), NEW s \in M
  PROVE  Pushed(segs, s) \in Seq(M)
<1>1. segs # <<>> => Front(segs) \in Seq(M)
  <2> SUFFICES ASSUME segs # <<>> PROVE Front(segs) \in Seq(M)
    OBVIOUS
  <2>1. Len(segs) \in Nat /\ Len(segs) >= 1
    BY EmptySeq, LenProperties
  <2> DEFINE m == Len(segs) - 1
  <2>2. m \in Nat /\ m <= Len(segs)
    BY <2>1
  <2>3. SubSeq(segs, 1, m) \in Seq(M)
    <3> HIDE DEF m
    <3>1. CASE m = 0
      <4>1. SubSeq(segs, 1, m) = <<>>
        BY <3>1, SubSeqEmpty
      <4>2. <<>> \in Seq(M)
        OBVIOUS
      <4> QED BY <4>1, <4>2
    <3>2. CASE m >= 1
      <4>1. \A i \in 1 .. m : segs[i] \in M
        BY <2>2, ElementOfSeq
      <4> QED BY <2>2, <3>2, <4>1, SubSeqProperties
    <3> QED BY <2>2, <3>1, <3>2
  <2> QED BY <2>3 DEF Front
<1>2. Append(segs, s) \in Seq(M)
  OBVIOUS
<1> QED BY <1>1, <1>2 DEF Pushed

(* A finite set without one of its elements is smaller.                     *)
LEMMA RemoveOne ==
  ASSUME NEW s, IsFiniteSet(s), NEW x \in s, NEW n \in Nat, Cardinality(s) <= n + 1
  PROVE  IsFiniteSet(s \ {x}) /\ Cardinality(s \ {x}) <= n
<1>1. IsFiniteSet(s \ {x}) /\ Cardinality(s \ {x}) = Cardinality(s) - 1
  BY FS_RemoveElement
<1>2. Cardinality(s) \in Nat
  BY FS_CardinalityType
<1> QED BY <1>1, <1>2

(* The fold is defined: by induction on the size of the sets, from a        *)
(* function on the smaller ones.                                            *)
LEMMA FolderExists ==
  ASSUME NEW M, NEW segs \in Seq(M)
  PROVE  LET g == Folder(segs) IN
         /\ g \in [SUBSET (1 .. Len(segs)) -> Seq(M)]
         /\ g[{}] = <<>>
         /\ \A s \in SUBSET (1 .. Len(segs)) : s # {} =>
              g[s] = Pushed(g[s \ {Max(s)}], segs[Max(s)])
<1> DEFINE S == 1 .. Len(segs)
           Small(n) == {s \in SUBSET S : Cardinality(s) <= n}
           Eq(g, D) == /\ g \in [D -> Seq(M)]
                       /\ \A s \in D : g[s] = IF s = {} THEN <<>>
                            ELSE Pushed(g[s \ {Max(s)}], segs[Max(s)])
           I == {n \in Nat : \E g : Eq(g, Small(n))}
<1>d. DOMAIN segs = S /\ Len(segs) \in Nat /\ \A i \in S : segs[i] \in M
  OBVIOUS
<1>0. IsFiniteSet(S) /\ \A s \in SUBSET S : IsFiniteSet(s) /\ Cardinality(s) \in Nat
  <2>1. IsFiniteSet(S)
    BY <1>d, FS_Interval
  <2> QED BY <2>1, FS_Subset, FS_CardinalityType
<1>a. \A s \in SUBSET S : s # {} => Max(s) \in s
  BY <1>d, LastOne
<1> HIDE DEF S
<1>1. 0 \in I
  <2>1. Small(0) = {{}}
    <3>1. \A s \in Small(0) : s = {}
      BY <1>0, FS_EmptySet
    <3>2. {} \in Small(0)
      BY FS_EmptySet
    <3> QED BY <3>1, <3>2
  <2> DEFINE g0 == [s \in Small(0) |-> <<>>]
  <2>e. <<>> \in Seq(M)
    OBVIOUS
  <2>2. Eq(g0, Small(0))
    BY <2>1, <2>e
  <2> QED BY <2>2
<1>2. ASSUME NEW n \in Nat, n \in I PROVE n + 1 \in I
  <2>1. PICK g : Eq(g, Small(n))
    BY <1>2
  <2> DEFINE h1 == [s \in Small(n + 1) |-> IF s = {} THEN <<>>
                      ELSE Pushed(g[s \ {Max(s)}], segs[Max(s)])]
  <2>2. \A s \in Small(n + 1) : s # {} => Max(s) \in S /\ s \ {Max(s)} \in Small(n)
    <3> SUFFICES ASSUME NEW s \in Small(n + 1), s # {}
                 PROVE  Max(s) \in S /\ s \ {Max(s)} \in Small(n)
      OBVIOUS
    <3>1. Max(s) \in s
      BY <1>a
    <3>2. Cardinality(s \ {Max(s)}) <= n
      BY <1>0, <3>1, RemoveOne
    <3> QED BY <3>1, <3>2
  <2>3. \A t \in Small(n) : t \in Small(n + 1) /\ g[t] \in Seq(M)
    BY <1>0, <2>1
  <2>4. h1 \in [Small(n + 1) -> Seq(M)]
    <3>1. \A s \in Small(n + 1) : s # {} =>
            Pushed(g[s \ {Max(s)}], segs[Max(s)]) \in Seq(M)
      <4> HIDE DEF Small
      <4> QED BY <1>d, <2>2, <2>3, PushedType
    <3>e. <<>> \in Seq(M)
      OBVIOUS
    <3> HIDE DEF Small
    <3> QED BY <3>1, <3>e
  <2>5. \A t \in Small(n) : h1[t] = g[t]
    <3> HIDE DEF Small
    <3> QED BY <2>1, <2>3
  <2>6. Eq(h1, Small(n + 1))
    <3>1. \A s \in Small(n + 1) : h1[s] = IF s = {} THEN <<>>
            ELSE Pushed(h1[s \ {Max(s)}], segs[Max(s)])
      <4> HIDE DEF Small
      <4> QED BY <2>2, <2>5
    <3> HIDE DEF Small, h1
    <3> QED BY <2>4, <3>1
  <2>7. \E f : Eq(f, Small(n + 1))
    <3> HIDE DEF Eq, h1, Small
    <3> QED BY <2>6
  <2> HIDE DEF Eq, Small
  <2> QED BY <2>7
<1>3. \A n \in Nat : n \in I
  <2> HIDE DEF I
  <2> QED BY <1>1, <1>2, SetInduction
<1>4. Cardinality(S) \in Nat /\ Small(Cardinality(S)) = SUBSET S
  BY <1>0, FS_Subset
<1>5. PICK g : Eq(g, SUBSET S)
  <2> HIDE DEF Eq, Small
  <2> QED BY <1>3, <1>4
<1>6. g = [s \in SUBSET S |-> IF s = {} THEN <<>>
                              ELSE LET x == Max(s) IN Pushed(g[s \ {x}], segs[x])]
  BY <1>5
<1> DEFINE w == Folder(segs)
<1>7. w = [s \in SUBSET S |-> IF s = {} THEN <<>>
                              ELSE LET x == Max(s) IN Pushed(w[s \ {x}], segs[x])]
  BY <1>6, <1>d DEF Folder
<1>w. w \in [SUBSET S -> Seq(M)]
  <2> HIDE DEF w
  <2> DEFINE J == {n \in Nat : \A s \in Small(n) : w[s] \in Seq(M)}
  <2>1. 0 \in J
    <3>1. \A s \in Small(0) : s = {}
      BY <1>0, FS_EmptySet
    <3>e. <<>> \in Seq(M)
      OBVIOUS
    <3> QED BY <1>7, <3>1, <3>e
  <2>2. ASSUME NEW n \in Nat, n \in J PROVE n + 1 \in J
    <3>1. ASSUME NEW s \in Small(n + 1), s # {} PROVE w[s] \in Seq(M)
      <4>1. Max(s) \in s /\ Cardinality(s \ {Max(s)}) <= n
        BY <1>a, <1>0, <3>1, RemoveOne
      <4>2. s \ {Max(s)} \in Small(n)
        BY <4>1
      <4>3. w[s \ {Max(s)}] \in Seq(M) /\ segs[Max(s)] \in M
        BY <1>d, <2>2, <4>1, <4>2
      <4>4. w[s] = Pushed(w[s \ {Max(s)}], segs[Max(s)])
        BY <1>7, <3>1
      <4> QED BY <4>3, <4>4, PushedType
    <3>2. <<>> \in Seq(M) /\ w[{}] = <<>>
      BY <1>7
    <3>3. \A s \in Small(n + 1) : w[s] \in Seq(M)
      <4> HIDE DEF Small
      <4> QED BY <3>1, <3>2
    <3> QED BY <3>3
  <2>3. \A n \in Nat : n \in J
    <3> HIDE DEF J
    <3> QED BY <2>1, <2>2, SetInduction
  <2>4. \A s \in SUBSET S : w[s] \in Seq(M)
    BY <1>4, <2>3
  <2> QED BY <1>7, <2>4
<1> QED BY <1>7, <1>w DEF S

(* After m steps gem_normalize_path() has Stack(segs, m).                   *)
Stack(segs, m) == Folder(segs)[1 .. m]

(* gem_normalize_path() takes one segment after the other.                  *)
LEMMA Stacks ==
  ASSUME NEW M, NEW segs \in Seq(M)
  PROVE  /\ Stack(segs, 0) = <<>>
         /\ \A m \in 0 .. Len(segs) : Stack(segs, m) \in Seq(M)
         /\ \A m \in 0 .. Len(segs) - 1 :
              Stack(segs, m + 1) = Pushed(Stack(segs, m), segs[m + 1])
         /\ FoldLeft(Pushed, <<>>, segs) = Stack(segs, Len(segs))
<1> DEFINE n == Len(segs)
           g == Folder(segs)
<1>1. n \in Nat /\ DOMAIN segs = 1 .. n
  OBVIOUS
<1>2. /\ g \in [SUBSET (1 .. n) -> Seq(M)]
      /\ g[{}] = <<>>
      /\ \A s \in SUBSET (1 .. n) : s # {} => g[s] = Pushed(g[s \ {Max(s)}], segs[Max(s)])
  BY FolderExists
<1> HIDE DEF g, n
<1>3. \A m \in 0 .. n : 1 .. m \in SUBSET (1 .. n)
  BY <1>1
<1>4. 1 .. 0 = {}
  OBVIOUS
<1>5. ASSUME NEW m \in 0 .. n - 1
      PROVE  g[1 .. m + 1] = Pushed(g[1 .. m], segs[m + 1])
  <2>1. m \in Nat /\ m + 1 \in 0 .. n
    BY <1>1
  <2>2. 1 .. m + 1 \in SUBSET (1 .. n) /\ m + 1 \in 1 .. m + 1
    BY <1>3, <2>1
  <2>3. /\ Max(1 .. m + 1) \in 1 .. m + 1
        /\ \A y \in 1 .. m + 1 : Max(1 .. m + 1) >= y
    <3> DEFINE T == 1 .. m + 1
    <3>1. T # {} /\ T \subseteq 1 .. m + 1 /\ m + 1 \in Nat
      <4>1. m + 1 \in T
        BY <2>2
      <4>2. m + 1 \in Nat
        BY <2>1
      <4> QED BY <4>1, <4>2
    <3> HIDE DEF T
    <3>2. Max(T) \in T /\ \A y \in T : Max(T) >= y
      BY <3>1, LastOne
    <3> QED BY <3>2 DEF T
  <2>4. Max(1 .. m + 1) = m + 1
    <3>1. PICK k \in 1 .. m + 1 : k = Max(1 .. m + 1)
      BY <2>3
    <3>2. k >= m + 1
      BY <2>2, <2>3, <3>1
    <3> QED BY <2>1, <3>1, <3>2
  <2>5. (1 .. m + 1) \ {m + 1} = 1 .. m
    BY <2>1
  <2> QED BY <1>2, <2>2, <2>4, <2>5
<1>6. FoldLeft(Pushed, <<>>, segs) = g[1 .. n]
  BY <1>1, FoldIsFolder DEF g
<1> QED BY <1>1, <1>2, <1>3, <1>4, <1>5, <1>6 DEF Stack, g, n

-----------------------------------------------------------------------------
(* RFC 3986 by positions.                                                   *)

(* What follows i outnumbers it nowhere up to m.                            *)
Alive(segs, i, m) ==
  /\ segs[i] \notin NoName
  /\ \A j \in i + 1 .. m :
       Cardinality(Ups(segs, i, j)) <= Cardinality(Names(segs, i, j))

(* Names to the right of i up to m, less what takes one back.               *)
Excess(segs, i, m) == Cardinality(Names(segs, i, m)) - Cardinality(Ups(segs, i, m))

(* What one segment more adds or takes.                                     *)
LEMMA ExcessFacts ==
  ASSUME NEW segs, NEW i \in Nat, NEW m \in Nat, i <= m
  PROVE  /\ Excess(segs, i, m) \in Int /\ Excess(segs, i, i) = 0
         /\ Excess(segs, i, m + 1) =
              CASE segs[m + 1] = ".." -> Excess(segs, i, m) - 1
                [] segs[m + 1] \in {".", ""} -> Excess(segs, i, m)
                [] OTHER -> Excess(segs, i, m) + 1
         /\ Cardinality(Ups(segs, i, m)) <= Cardinality(Names(segs, i, m))
              <=> Excess(segs, i, m) >= 0
<1> DEFINE U == Ups(segs, i, m)
           N == Names(segs, i, m)
<1>1. \A a \in Nat, b \in Nat : IsFiniteSet(a .. b)
  BY FS_Interval
<1>2. IsFiniteSet(U) /\ IsFiniteSet(N)
  <2>1. U \subseteq i + 1 .. m /\ N \subseteq i + 1 .. m /\ IsFiniteSet(i + 1 .. m)
    BY <1>1 DEF Ups, Names
  <2> QED BY <2>1, FS_Subset
<1>3. Cardinality(U) \in Nat /\ Cardinality(N) \in Nat
  BY <1>2, FS_CardinalityType
<1>4. m + 1 \notin U /\ m + 1 \notin N
  BY DEF Ups, Names
<1>5. Ups(segs, i, i) = {} /\ Names(segs, i, i) = {}
  BY DEF Ups, Names
<1>6. i + 1 .. m + 1 = (i + 1 .. m) \cup {m + 1}
  OBVIOUS
<1>7. /\ Ups(segs, i, m + 1) = IF segs[m + 1] = ".." THEN U \cup {m + 1} ELSE U
      /\ Names(segs, i, m + 1) = IF segs[m + 1] \notin NoName THEN N \cup {m + 1} ELSE N
  BY <1>6 DEF Ups, Names
<1>8. Cardinality(U \cup {m + 1}) = Cardinality(U) + 1
      /\ Cardinality(N \cup {m + 1}) = Cardinality(N) + 1
  BY <1>2, <1>4, FS_AddElement
<1>9. Cardinality({}) = 0
  BY FS_EmptySet
<1>10. Excess(segs, i, m) = Cardinality(N) - Cardinality(U)
       /\ Excess(segs, i, i) = 0
  BY <1>5, <1>9 DEF Excess
<1> HIDE DEF U, N
<1>11. Excess(segs, i, m + 1) = Cardinality(Names(segs, i, m + 1)) - Cardinality(Ups(segs, i, m + 1))
  BY DEF Excess
<1>12. Excess(segs, i, m) \in Int /\ (Cardinality(U) <= Cardinality(N) <=> Excess(segs, i, m) >= 0)
  BY <1>3, <1>10
<1>13. CASE segs[m + 1] = ".."
  <2>1. Ups(segs, i, m + 1) = U \cup {m + 1} /\ Names(segs, i, m + 1) = N
    BY <1>7, <1>13 DEF NoName
  <2>2. Excess(segs, i, m + 1) = Cardinality(N) - (Cardinality(U) + 1)
    BY <1>8, <1>11, <2>1
  <2>3. Excess(segs, i, m + 1) = Excess(segs, i, m) - 1
    BY <1>3, <1>10, <2>2
  <2> QED BY <1>10, <1>12, <1>13, <2>3 DEF U, N
<1>14. CASE segs[m + 1] \in {".", ""}
  <2>1. Ups(segs, i, m + 1) = U /\ Names(segs, i, m + 1) = N /\ segs[m + 1] # ".."
    BY <1>7, <1>14 DEF NoName
  <2>2. Excess(segs, i, m + 1) = Excess(segs, i, m)
    BY <1>10, <1>11, <2>1
  <2> QED BY <1>10, <1>12, <1>14, <2>1, <2>2 DEF U, N
<1>15. CASE segs[m + 1] \notin NoName
  <2>1. Ups(segs, i, m + 1) = U /\ Names(segs, i, m + 1) = N \cup {m + 1}
        /\ segs[m + 1] # ".." /\ segs[m + 1] \notin {".", ""}
    BY <1>7, <1>15 DEF NoName
  <2>2. Excess(segs, i, m + 1) = (Cardinality(N) + 1) - Cardinality(U)
    BY <1>8, <1>11, <2>1
  <2>3. Excess(segs, i, m + 1) = Excess(segs, i, m) + 1
    BY <1>3, <1>10, <2>2
  <2> QED BY <1>10, <1>12, <2>1, <2>3 DEF U, N
<1> QED BY <1>13, <1>14, <1>15 DEF NoName

(* One segment more: what was not outnumbered stays so, or not.             *)
LEMMA AliveNext ==
  ASSUME NEW segs, NEW m \in Nat, NEW i \in Nat, i <= m
  PROVE  /\ Alive(segs, i, m + 1) <=> Alive(segs, i, m) /\ Excess(segs, i, m + 1) >= 0
         /\ Alive(segs, m + 1, m + 1) <=> segs[m + 1] \notin NoName
<1>1. i + 1 .. m + 1 = (i + 1 .. m) \cup {m + 1}
  OBVIOUS
<1>2. (m + 1) + 1 .. m + 1 = {}
  OBVIOUS
<1>3. Cardinality(Ups(segs, i, m + 1)) <= Cardinality(Names(segs, i, m + 1))
        <=> Excess(segs, i, m + 1) >= 0
  <2>1. m + 1 \in Nat /\ i <= m + 1
    OBVIOUS
  <2> QED BY <2>1, ExcessFacts
<1> QED BY <1>1, <1>2, <1>3 DEF Alive

(* The L positions idx, from the left, are those that are alive after m     *)
(* steps, each outnumbered by as many as stand to its right; their segments *)
(* are what gem_normalize_path() has.                                       *)
IsKept(segs, m, L, idx) ==
  /\ L \in Nat /\ L <= m /\ idx \in [1 .. L -> 1 .. m]
  /\ \A p, q \in 1 .. L : p < q => idx[p] < idx[q]
  /\ \A p \in 1 .. L : Alive(segs, idx[p], m) /\ Excess(segs, idx[p], m) = L - p
  /\ \A i \in 1 .. m : Alive(segs, i, m) => \E p \in 1 .. L : idx[p] = i
  /\ Len(Stack(segs, m)) = L
  /\ \A p \in 1 .. L : Stack(segs, m)[p] = segs[idx[p]]

(* A segment is pushed, takes the last position back, or neither.           *)
LEMMA KeptStep ==
  ASSUME NEW M, NEW segs \in Seq(M), MaxSegs \in Nat, Len(segs) <= MaxSegs,
         NEW m \in Nat, m + 1 <= Len(segs),
         NEW L, NEW idx, IsKept(segs, m, L, idx)
  PROVE  \E K, jdx : IsKept(segs, m + 1, K, jdx)
<1> DEFINE s == segs[m + 1]
           old == Stack(segs, m)
           new == Stack(segs, m + 1)
<1>1. /\ L \in Nat /\ L <= m /\ \A p \in 1 .. L : idx[p] \in Nat /\ idx[p] \in 1 .. m
      /\ \A p, q \in 1 .. L : p < q => idx[p] < idx[q]
      /\ \A p \in 1 .. L : Alive(segs, idx[p], m) /\ Excess(segs, idx[p], m) = L - p
      /\ \A i \in 1 .. m : Alive(segs, i, m) => \E p \in 1 .. L : idx[p] = i
      /\ Len(old) = L /\ \A p \in 1 .. L : old[p] = segs[idx[p]]
      /\ idx \in [1 .. L -> 1 .. m]
  BY DEF IsKept
<1>2. new = Pushed(old, s) /\ old \in Seq(M) /\ s \in M /\ Len(segs) \in Nat
  <2>1. m \in 0 .. Len(segs) - 1 /\ m \in 0 .. Len(segs) /\ Len(segs) \in Nat
    OBVIOUS
  <2>2. new = Pushed(old, s) /\ old \in Seq(M)
    BY <2>1, Stacks
  <2>3. s \in M
    <3>1. m + 1 \in 1 .. Len(segs)
      BY <2>1
    <3> QED BY <3>1, ElementOfSeq
  <2> QED BY <2>1, <2>2, <2>3
<1>3. L < MaxSegs
  BY <1>1, <1>2
<1>4. \A i \in 1 .. m :
        /\ Alive(segs, i, m + 1) <=> Alive(segs, i, m) /\ Excess(segs, i, m + 1) >= 0
        /\ Excess(segs, i, m) \in Int
        /\ s = ".." => Excess(segs, i, m + 1) = Excess(segs, i, m) - 1
        /\ s \in {".", ""} => Excess(segs, i, m + 1) = Excess(segs, i, m)
        /\ s \notin NoName => Excess(segs, i, m + 1) = Excess(segs, i, m) + 1
  <2> SUFFICES ASSUME NEW i \in 1 .. m
               PROVE  /\ Alive(segs, i, m + 1) <=> Alive(segs, i, m) /\ Excess(segs, i, m + 1) >= 0
                      /\ Excess(segs, i, m) \in Int
                      /\ s = ".." => Excess(segs, i, m + 1) = Excess(segs, i, m) - 1
                      /\ s \in {".", ""} => Excess(segs, i, m + 1) = Excess(segs, i, m)
                      /\ s \notin NoName => Excess(segs, i, m + 1) = Excess(segs, i, m) + 1
    OBVIOUS
  <2>1. i \in Nat /\ i <= m
    OBVIOUS
  <2>2. Alive(segs, i, m + 1) <=> Alive(segs, i, m) /\ Excess(segs, i, m + 1) >= 0
    BY <2>1, AliveNext
  <2>3. /\ Excess(segs, i, m) \in Int
        /\ Excess(segs, i, m + 1) =
              CASE s = ".." -> Excess(segs, i, m) - 1
                [] s \in {".", ""} -> Excess(segs, i, m)
                [] OTHER -> Excess(segs, i, m) + 1
    BY <2>1, ExcessFacts
  <2> HIDE DEF s
  <2>4. ".." \notin {".", ""} /\ (s \notin NoName => s \notin {".", ""} /\ s # "..")
    BY DEF NoName
  <2> QED BY <2>2, <2>3, <2>4
<1>5. Alive(segs, m + 1, m + 1) <=> s \notin NoName
  <2>1. m <= m
    OBVIOUS
  <2> QED BY <2>1, AliveNext
<1>6. \A i \in 1 .. m + 1 : i \in 1 .. m \/ i = m + 1
  OBVIOUS
<1> HIDE DEF s, old
<1>7. CASE s \in {".", ""}
  <2>1. new = old
    BY <1>2, <1>7 DEF Pushed
  <2>2. idx \in [1 .. L -> 1 .. m + 1]
    BY <1>1
  <2>3. \A p \in 1 .. L : Alive(segs, idx[p], m + 1) /\ Excess(segs, idx[p], m + 1) = L - p
    <3> SUFFICES ASSUME NEW p \in 1 .. L
                 PROVE  Alive(segs, idx[p], m + 1) /\ Excess(segs, idx[p], m + 1) = L - p
      OBVIOUS
    <3>1. Excess(segs, idx[p], m) = L - p /\ idx[p] \in 1 .. m /\ Alive(segs, idx[p], m)
      BY <1>1
    <3>2. Excess(segs, idx[p], m + 1) = L - p
      BY <1>4, <1>7, <3>1
    <3>3. L - p >= 0
      BY <1>1
    <3> QED BY <1>4, <3>1, <3>2, <3>3
  <2>4. \A i \in 1 .. m + 1 : Alive(segs, i, m + 1) => \E p \in 1 .. L : idx[p] = i
    BY <1>1, <1>4, <1>5, <1>6, <1>7 DEF NoName
  <2>5. IsKept(segs, m + 1, L, idx)
    BY <1>1, <2>1, <2>2, <2>3, <2>4 DEF IsKept
  <2> QED BY <2>5
<1>8. CASE s = ".." /\ L = 0
  <2>1. new = old
    BY <1>1, <1>2, <1>8, EmptySeq DEF Pushed
  <2>2. idx \in [1 .. L -> 1 .. m + 1]
    BY <1>1
  <2>4. \A i \in 1 .. m + 1 : Alive(segs, i, m + 1) => \E p \in 1 .. L : idx[p] = i
    BY <1>1, <1>4, <1>5, <1>6, <1>8 DEF NoName
  <2>5. IsKept(segs, m + 1, L, idx)
    BY <1>1, <1>8, <2>1, <2>2, <2>4 DEF IsKept
  <2> QED BY <2>5
<1>9. CASE s = ".." /\ L # 0
  <2> DEFINE K == L - 1
             jdx == [p \in 1 .. K |-> idx[p]]
  <2>0. K \in Nat /\ K <= L /\ \A p \in 1 .. K : p \in 1 .. L
    BY <1>1, <1>9
  <2>1. new = SubSeq(old, 1, K)
    <3>1. old # <<>>
      BY <1>1, <1>9
    <3>2. new = Front(old)
      BY <1>2, <1>9, <3>1 DEF Pushed
    <3> QED BY <1>1, <3>2 DEF Front
  <2>2. Len(new) = K /\ \A p \in 1 .. K : new[p] = old[p]
    <3>1. CASE K = 0
      <4>1. new = <<>>
        BY <2>1, <3>1, SubSeqEmpty
      <4> QED BY <3>1, <4>1
    <3>2. CASE K >= 1
      <4>1. \A p \in 1 .. K : old[p] \in M
        BY <1>1, <1>2, <2>0, ElementOfSeq
      <4>2. /\ Len(SubSeq(old, 1, K)) = K - 1 + 1
            /\ \A i \in 1 .. K - 1 + 1 : SubSeq(old, 1, K)[i] = old[1 + i - 1]
        BY <1>1, <1>2, <2>0, <3>2, <4>1, SubSeqProperties
      <4>3. K - 1 + 1 = K /\ \A i \in 1 .. K : 1 + i - 1 = i
        BY <2>0
      <4> HIDE DEF K
      <4> QED BY <2>1, <4>2, <4>3
    <3> HIDE DEF K
    <3>3. K = 0 \/ K >= 1
      BY <2>0
    <3> QED BY <3>1, <3>2, <3>3
  <2>3. jdx \in [1 .. K -> 1 .. m + 1] /\ \A p \in 1 .. K : jdx[p] = idx[p]
    BY <1>1, <2>0
  <2>4. \A p \in 1 .. K : Alive(segs, jdx[p], m + 1) /\ Excess(segs, jdx[p], m + 1) = K - p
    <3> SUFFICES ASSUME NEW p \in 1 .. K
                 PROVE  Alive(segs, idx[p], m + 1) /\ Excess(segs, idx[p], m + 1) = K - p
      BY <2>3
    <3>1. p \in 1 .. L /\ Excess(segs, idx[p], m) = L - p /\ idx[p] \in 1 .. m
          /\ Alive(segs, idx[p], m)
      BY <1>1, <2>0
    <3>2. Excess(segs, idx[p], m + 1) = (L - p) - 1
      BY <1>4, <1>9, <3>1
    <3>3. (L - p) - 1 = K - p /\ K - p >= 0
      BY <1>1, <3>1
    <3> QED BY <1>4, <3>1, <3>2, <3>3
  <2>5. \A i \in 1 .. m + 1 : Alive(segs, i, m + 1) => \E p \in 1 .. K : jdx[p] = i
    <3> SUFFICES ASSUME NEW i \in 1 .. m + 1, Alive(segs, i, m + 1)
                 PROVE  \E p \in 1 .. K : idx[p] = i
      BY <2>3
    <3>1. i \in 1 .. m
      BY <1>5, <1>6, <1>9 DEF NoName
    <3>2. PICK p \in 1 .. L : idx[p] = i
      BY <1>1, <1>4, <3>1
    <3>3. Excess(segs, i, m + 1) = (L - p) - 1 /\ Excess(segs, i, m + 1) >= 0
      BY <1>1, <1>4, <1>9, <3>1, <3>2
    <3>4. p \in 1 .. K
      BY <1>1, <3>3
    <3> QED BY <3>2, <3>4
  <2>6. /\ \A p, q \in 1 .. K : p < q => jdx[p] < jdx[q]
        /\ \A p \in 1 .. K : new[p] = segs[jdx[p]]
    BY <1>1, <2>0, <2>2, <2>3
  <2>7. K <= m + 1
    BY <1>1, <2>0
  <2> HIDE DEF K, jdx
  <2>8. IsKept(segs, m + 1, K, jdx)
    BY <2>0, <2>2, <2>3, <2>4, <2>5, <2>6, <2>7 DEF IsKept
  <2> QED BY <2>8
<1>10. CASE s \notin NoName
  <2> DEFINE K == L + 1
             jdx == [p \in 1 .. K |-> IF p = K THEN m + 1 ELSE idx[p]]
  <2>0. K \in Nat /\ K <= m + 1 /\ (\A p \in 1 .. K : p \in 1 .. L \/ p = K) /\ K \in 1 .. K
        /\ (\A p \in 1 .. L : p \in 1 .. K /\ p # K /\ p < K)
    BY <1>1
  <2>1. new = Append(old, s)
    <3>1. s # ".." /\ s \notin {".", ""} /\ Len(old) < MaxSegs
      BY <1>1, <1>3, <1>10 DEF NoName
    <3> QED BY <1>2, <3>1 DEF Pushed
  <2>2. Len(new) = K /\ (\A p \in 1 .. L : new[p] = old[p]) /\ new[K] = s
    <3>1. /\ Len(Append(old, s)) = Len(old) + 1 /\ Append(old, s)[Len(old) + 1] = s
          /\ \A p \in 1 .. Len(old) : Append(old, s)[p] = old[p]
      BY <1>2, AppendProperties
    <3> QED BY <1>1, <2>1, <3>1
  <2>3. /\ jdx \in [1 .. K -> 1 .. m + 1] /\ jdx[K] = m + 1
        /\ \A p \in 1 .. L : jdx[p] = idx[p]
    <3>1. m + 1 \in 1 .. m + 1 /\ \A p \in 1 .. L : idx[p] \in 1 .. m + 1
      BY <1>1
    <3> HIDE DEF K
    <3>2. \A p \in 1 .. K : (IF p = K THEN m + 1 ELSE idx[p]) \in 1 .. m + 1
      BY <2>0, <3>1
    <3> QED BY <2>0, <3>2
  <2>a. Excess(segs, m + 1, m + 1) = 0
    <3>1. m + 1 \in Nat /\ m + 1 <= m + 1
      OBVIOUS
    <3> QED BY <3>1, ExcessFacts
  <2>4. \A p \in 1 .. K : Alive(segs, jdx[p], m + 1) /\ Excess(segs, jdx[p], m + 1) = K - p
    <3>1. ASSUME NEW p \in 1 .. L
          PROVE  Alive(segs, idx[p], m + 1) /\ Excess(segs, idx[p], m + 1) = K - p
      <4>1. Excess(segs, idx[p], m) = L - p /\ idx[p] \in 1 .. m /\ Alive(segs, idx[p], m)
        BY <1>1
      <4>2. Excess(segs, idx[p], m + 1) = (L - p) + 1
        BY <1>4, <1>10, <4>1
      <4>3. (L - p) + 1 = K - p /\ K - p >= 0
        BY <1>1
      <4> QED BY <1>4, <4>1, <4>2, <4>3
    <3>2. K - K = 0
      BY <2>0
    <3> HIDE DEF K, jdx
    <3> QED BY <1>5, <1>10, <2>0, <2>3, <2>a, <3>1, <3>2
  <2>5. \A i \in 1 .. m + 1 : Alive(segs, i, m + 1) => \E p \in 1 .. K : jdx[p] = i
    <3> HIDE DEF K, jdx
    <3> QED BY <1>1, <1>4, <1>6, <2>0, <2>3
  <2>6. /\ \A p, q \in 1 .. K : p < q => jdx[p] < jdx[q]
        /\ \A p \in 1 .. K : new[p] = segs[jdx[p]]
    <3>1. \A p \in 1 .. L : idx[p] < m + 1
      BY <1>1
    <3>2. \A p, q \in 1 .. K : p < q => p \in 1 .. L
      BY <1>1, <2>0
    <3>3. s = segs[m + 1]
      BY DEF s
    <3> HIDE DEF K, jdx, new
    <3>4. ASSUME NEW p \in 1 .. K, NEW q \in 1 .. K, p < q PROVE jdx[p] < jdx[q]
      <4>1. p \in 1 .. L /\ jdx[p] = idx[p] /\ idx[p] < m + 1
        BY <2>3, <3>1, <3>2, <3>4
      <4>2. CASE q = K
        BY <2>3, <4>1, <4>2
      <4>3. CASE q \in 1 .. L
        BY <1>1, <2>3, <3>4, <4>1, <4>3
      <4> QED BY <2>0, <4>2, <4>3
    <3>5. ASSUME NEW p \in 1 .. K PROVE new[p] = segs[jdx[p]]
      <4>1. CASE p = K
        BY <2>2, <2>3, <3>3, <4>1
      <4>2. CASE p \in 1 .. L
        BY <1>1, <2>2, <2>3, <4>2
      <4> QED BY <2>0, <4>1, <4>2
    <3> QED BY <3>4, <3>5
  <2> HIDE DEF K, jdx
  <2>7. IsKept(segs, m + 1, K, jdx)
    BY <2>0, <2>2, <2>3, <2>4, <2>5, <2>6 DEF IsKept
  <2> QED BY <2>7
<1> QED BY <1>7, <1>8, <1>9, <1>10 DEF NoName

(* So it is after every number of segments.                                 *)
LEMMA KeptAlways ==
  ASSUME NEW M, NEW segs \in Seq(M), MaxSegs \in Nat, Len(segs) <= MaxSegs
  PROVE  \E L, idx : IsKept(segs, Len(segs), L, idx)
<1> DEFINE I == {m \in Nat : m <= Len(segs) => \E L, idx : IsKept(segs, m, L, idx)}
<1>0. Len(segs) \in Nat
  OBVIOUS
<1>1. 0 \in I
  <2> DEFINE none == [p \in 1 .. 0 |-> 0]
  <2>1. none \in [1 .. 0 -> 1 .. 0] /\ 1 .. 0 = {}
    OBVIOUS
  <2>2. Len(Stack(segs, 0)) = 0
    BY Stacks, EmptySeq
  <2> HIDE DEF none
  <2>3. IsKept(segs, 0, 0, none)
    BY <2>1, <2>2 DEF IsKept
  <2> QED BY <2>3
<1>2. ASSUME NEW m \in Nat, m \in I PROVE m + 1 \in I
  <2> SUFFICES ASSUME m + 1 <= Len(segs) PROVE \E L, idx : IsKept(segs, m + 1, L, idx)
    OBVIOUS
  <2>1. m <= Len(segs)
    BY <1>0
  <2>2. PICK L, idx : IsKept(segs, m, L, idx)
    BY <1>2, <2>1
  <2> QED BY <2>2, KeptStep
<1>3. \A m \in Nat : m \in I
  <2> HIDE DEF I
  <2> QED BY <1>1, <1>2, SetInduction
<1> QED BY <1>0, <1>3

(* gem_normalize_path() does what RFC 3986 says, for every path that fits   *)
(* its table.                                                               *)
LEMMA NormalIsRfc ==
  ASSUME NEW M, NEW segs \in Seq(M), MaxSegs \in Nat, Len(segs) <= MaxSegs
  PROVE  FoldLeft(Pushed, <<>>, segs) = RfcSegs(segs)
<1> DEFINE n == Len(segs)
           out == FoldLeft(Pushed, <<>>, segs)
           kept == {i \in 1 .. n : Survives(segs, i)}
<1>1. PICK L, idx : IsKept(segs, n, L, idx)
  BY KeptAlways
<1>2. n \in Nat /\ out = Stack(segs, n) /\ out \in Seq(M)
  <2>1. n \in Nat /\ n \in 0 .. n
    OBVIOUS
  <2> QED BY <2>1, Stacks
<1>3. /\ L \in Nat /\ (\A p \in 1 .. L : idx[p] \in 1 .. n)
      /\ \A p, q \in 1 .. L : p < q => idx[p] < idx[q]
      /\ Len(out) = L /\ \A p \in 1 .. L : out[p] = segs[idx[p]]
  BY <1>1, <1>2 DEF IsKept
<1>4. \A i : i \in kept <=> \E p \in 1 .. L : idx[p] = i
  <2>1. \A i : Survives(segs, i) <=> Alive(segs, i, n)
    BY DEF Survives, Alive
  <2>2. \A i \in 1 .. n : Alive(segs, i, n) => \E p \in 1 .. L : idx[p] = i
    BY <1>1 DEF IsKept
  <2>3. \A p \in 1 .. L : idx[p] \in 1 .. n /\ Alive(segs, idx[p], n)
    BY <1>1 DEF IsKept
  <2> QED BY <2>1, <2>2, <2>3
<1> HIDE DEF n, out, kept
<1>5. \A p, q \in 1 .. L : p # q => idx[p] # idx[q]
  <2> SUFFICES ASSUME NEW p \in 1 .. L, NEW q \in 1 .. L, p # q PROVE idx[p] # idx[q]
    OBVIOUS
  <2>1. p < q \/ q < p
    OBVIOUS
  <2>2. idx[p] \in Nat /\ idx[q] \in Nat
    BY <1>2, <1>3
  <2> QED BY <1>3, <2>1, <2>2
<1>6. ASSUME NEW p \in 0 .. L, NEW T, \A i : i \in T <=> \E q \in 1 .. p : idx[q] = i
      PROVE  Cardinality(T) = p
  <2> DEFINE g == [q \in 1 .. p |-> idx[q]]
  <2>0. p \in Nat /\ \A q \in 1 .. p : q \in 1 .. L
    BY <1>3
  <2>1. g \in [1 .. p -> T] /\ \A q \in 1 .. p : g[q] = idx[q]
    BY <1>6
  <2> HIDE DEF g
  <2>2. g \in Bijection(1 .. p, T)
    <3>1. \A a, b \in 1 .. p : g[a] = g[b] => a = b
      BY <1>5, <2>0, <2>1
    <3>2. \A t \in T : \E a \in 1 .. p : g[a] = t
      BY <1>6, <2>1
    <3> QED BY <2>1, <3>1, <3>2 DEF Bijection, Injection, Surjection, IsInjective
  <2>3. IsFiniteSet(1 .. p) /\ Cardinality(1 .. p) = p
    <3>1. 1 \in Int /\ p \in Int
      BY <2>0
    <3> QED BY <2>0, <3>1, FS_Interval
  <2>4. ExistsBijection(1 .. p, T)
    BY <2>2 DEF ExistsBijection
  <2> QED BY <2>3, <2>4, FS_Bijection
<1>7. Cardinality(kept) = L
  <2>1. L \in 0 .. L
    BY <1>3
  <2> QED BY <1>4, <1>6, <2>1
<1>8. \A p \in 1 .. L : Cardinality(kept \cap (1 .. idx[p])) = p
  <2> SUFFICES ASSUME NEW p \in 1 .. L PROVE Cardinality(kept \cap (1 .. idx[p])) = p
    OBVIOUS
  <2> DEFINE T == kept \cap (1 .. idx[p])
  <2>0. p \in 0 .. L
    BY <1>3
  <2>1. \A q \in 1 .. L : idx[q] <= idx[p] <=> q <= p
    <3> SUFFICES ASSUME NEW q \in 1 .. L PROVE idx[q] <= idx[p] <=> q <= p
      OBVIOUS
    <3>1. idx[p] \in Nat /\ idx[q] \in Nat
      BY <1>2, <1>3
    <3>2. CASE q = p
      BY <3>1, <3>2
    <3>3. CASE q < p
      BY <1>3, <3>1, <3>3
    <3>4. CASE p < q
      BY <1>3, <3>1, <3>4
    <3> QED BY <3>2, <3>3, <3>4
  <2>2. \A q \in 1 .. L : idx[q] \in 1 .. idx[p] <=> q \in 1 .. p
    <3>1. \A q \in 1 .. L : idx[q] \in Nat /\ idx[q] >= 1
      BY <1>2, <1>3
    <3> QED BY <2>1, <3>1
  <2>3. \A q \in 1 .. p : q \in 1 .. L
    BY <1>3
  <2>4. \A i : i \in T <=> \E q \in 1 .. p : idx[q] = i
    BY <1>4, <2>2, <2>3
  <2> HIDE DEF T
  <2>5. Cardinality(T) = p
    BY <1>6, <2>0, <2>4
  <2> QED BY <2>5 DEF T
<1>9. \A k \in 1 .. L :
        (CHOOSE i \in kept : Cardinality(kept \cap (1 .. i)) = k) = idx[k]
  <2> SUFFICES ASSUME NEW k \in 1 .. L
               PROVE  (CHOOSE i \in kept : Cardinality(kept \cap (1 .. i)) = k) = idx[k]
    OBVIOUS
  <2>1. idx[k] \in kept /\ Cardinality(kept \cap (1 .. idx[k])) = k
    BY <1>4, <1>8
  <2>2. \A i \in kept : Cardinality(kept \cap (1 .. i)) = k => i = idx[k]
    BY <1>4, <1>8
  <2> QED BY <2>1, <2>2
<1>10. RfcSegs(segs) = [k \in 1 .. L |-> segs[idx[k]]]
  <2> DEFINE nth(k) == CHOOSE i \in kept : Cardinality(kept \cap (1 .. i)) = k
  <2>1. RfcSegs(segs) = [k \in 1 .. Cardinality(kept) |-> segs[nth(k)]]
    BY DEF RfcSegs, kept, n
  <2>2. \A k \in 1 .. L : nth(k) = idx[k]
    BY <1>9
  <2> HIDE DEF nth
  <2> QED BY <1>7, <2>1, <2>2
<1>11. out = [k \in 1 .. L |-> out[k]]
  BY <1>2, <1>3
<1> QED BY <1>3, <1>10, <1>11 DEF out

-----------------------------------------------------------------------------
(* A directory of a path is a path. *)
LEMMA DirType ==
  ASSUME NEW M, NEW segs \in Seq(M), NEW dir
  PROVE  SubSeq(segs, 1, Len(segs) - (IF dir THEN 0 ELSE 1)) \in Seq(M)
<1> DEFINE k == Len(segs) - (IF dir THEN 0 ELSE 1)
<1>1. k \in Int /\ k <= Len(segs) /\ Len(segs) \in Nat
  OBVIOUS
<1> HIDE DEF k
<1>2. CASE k < 1
  <2>1. SubSeq(segs, 1, k) = <<>> /\ <<>> \in Seq(M)
    BY <1>1, <1>2, SubSeqEmpty
  <2> QED BY <2>1 DEF k
<1>3. CASE k >= 1
  <2>1. \A i \in 1 .. k : segs[i] \in M
    BY <1>1, ElementOfSeq
  <2>2. SubSeq(segs, 1, k) \in Seq(M)
    BY <1>1, <1>3, <2>1, SubSeqProperties
  <2> QED BY <2>2 DEF k
<1> QED BY <1>1, <1>2, <1>3

(* gem_merge_path() takes the directory of the page. *)
LEMMA MergedFacts ==
  ASSUME NEW M, NEW base, base.segs \in Seq(M), NEW ref, ref.segs \in Seq(M)
  PROVE  /\ Merged(base, ref) =
              SubSeq(base.segs, 1, Len(base.segs) - (IF base.dir THEN 0 ELSE 1)) \o ref.segs
         /\ Merged(base, ref) \in Seq(M)
<1> DEFINE d == SubSeq(base.segs, 1, Len(base.segs) - (IF base.dir THEN 0 ELSE 1))
<1>1. d \in Seq(M)
  BY DirType
<1>2. Merged(base, ref) = d \o ref.segs
  <2>1. CASE base.dir
    <3>1. Len(base.segs) - 0 = Len(base.segs)
      OBVIOUS
    <3>2. SubSeq(base.segs, 1, Len(base.segs)) = base.segs
      BY SubSeqFull
    <3> QED BY <2>1, <3>1, <3>2 DEF Merged
  <2>2. CASE ~base.dir
    BY <2>2 DEF Merged, Front
  <2> QED BY <2>1, <2>2
<1> HIDE DEF d
<1>3. d \o ref.segs \in Seq(M)
  BY <1>1
<1> QED BY <1>2, <1>3 DEF d

(* Wherever the browser stands, every path that fits the table of segments, *)
(* whatever names, dot segments and empty segments it is made of, leads to  *)
(* the names that RFC 3986 gives for it without its empty segments.         *)
THEOREM LeadsRight == Spec => []ResolvesRight
<1>1. TypeOK => ResolvesRight
  <2> SUFFICES ASSUME TypeOK, NEW r \in Refs, r.kind \in {"abs", "rel"}
               PROVE  LET dirs == Len(at.segs) - (IF at.dir THEN 0 ELSE 1)
                          segs == IF r.kind = "rel" THEN SubSeq(at.segs, 1, dirs) \o r.segs
                                  ELSE r.segs
                          path == RfcSegs(segs)
                      IN  Len(segs) <= MaxSegs =>
                            Resolve(at, r) = [host |-> at.host, segs |-> path,
                                              dir |-> r.dir \/ path = <<>>,
                                              query |-> r.query]
    BY DEF ResolvesRight
  <2> DEFINE dirs == Len(at.segs) - (IF at.dir THEN 0 ELSE 1)
             segs == IF r.kind = "rel" THEN SubSeq(at.segs, 1, dirs) \o r.segs ELSE r.segs
  <2>1. at.segs \in Seq(STRING) /\ r.segs \in Seq(STRING) /\ MaxSegs \in Nat
    BY SegsAssumption, SizesAssumption DEF TypeOK
  <2>2. /\ Merged(at, r) = SubSeq(at.segs, 1, dirs) \o r.segs
        /\ Merged(at, r) \in Seq(STRING)
    BY <2>1, MergedFacts
  <2>3. segs \in Seq(STRING) /\ segs = (IF r.kind = "rel" THEN Merged(at, r) ELSE r.segs)
    BY <2>1, <2>2
  <2> HIDE DEF dirs
  <2>4. Resolve(at, r) = At(at.host, Normal(segs, r.dir), r.query)
    <3>1. CASE r.kind = "rel"
      BY <2>3, <3>1 DEF Resolve
    <3>2. CASE r.kind = "abs"
      BY <2>3, <3>2 DEF Resolve
    <3> QED BY <3>1, <3>2
  <2> HIDE DEF segs
  <2>5. LET kept == FoldLeft(Pushed, <<>>, segs)
        IN  Resolve(at, r) = [host |-> at.host, segs |-> kept,
                              dir |-> r.dir \/ kept = <<>>, query |-> r.query]
    BY <2>4 DEF At, Normal
  <2>6. Len(segs) <= MaxSegs => FoldLeft(Pushed, <<>>, segs) = RfcSegs(segs)
    BY <2>1, <2>3, NormalIsRfc
  <2> QED BY <2>5, <2>6 DEF segs, dirs
<1> QED BY <1>1, TypeCorrect, PTL

=============================================================================
