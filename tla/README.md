# Verification of the Amiga tools

TLA+ modules that model the programs of this repository, the TLC runs that
check them on small instances, and theorems about them that TLAPS proves for
every value of the constants. The modules are translated from the source; where
the documentation and the source disagree, the module says what the source
does, and the disagreement is listed below.

## The system

The repository is a set of small network programs for AmigaOS, with helpers
that run on a Unix host. Each Amiga program is one sequential process: what is
hard about it is what its environment does between and during its calls.

| Component | State it keeps | Operations | What is hard | Correct when |
|---|---|---|---|---|
| Claude client (`claude/client/claude.c`) | `g_hist[]`, `calls[]`, `toolmsg[]`, the unread rest of stdin | `repl()`, `run_conversation()`, `hist_add()`, `hist_join()`, `execute_tool()`, `confirm()` | eviction, trimming, buffers that cut or drop, a `malloc()` that fails, a model that never stops asking, lines typed ahead or longer than the buffer that reads them | turns stay paired and in order, the newest turn is sent, nothing runs without approval or twice, results tell the truth, the prompt returns |
| Nostr client (`nostr/nostr.c`) | `g_inbuf[]`, `g_in_pos`, the message under assembly, Ctrl-C | `ws_handshake()`, `ws_ensure()`, `ws_parse_frame()`, `ws_read_message()`, `run_subscribe()` | reads that end anywhere, fragments, control frames in between, lengths of any size, hang-ups, Ctrl-C at any moment | the stream is taken byte for byte, messages are made of the right payloads, nothing that arrived is missed, the session ends |
| MCP server (`mcp/mcp.c`) | `line[]`, `resp[]`, buffers for params, arguments, values and output | `read_line()`, `handle_request()`, `dispatch_tool_call()`, three tools | lines cut by buffers or by the end of the input, pipelined requests, a scanner that looks for text | one reply per numbered request, in order, under its id; half a request never runs; reports are true |
| Gemini browser (`gemini/gemini.c`) | host, port and path, `g_links[]`, the redirect counter | `run_browser()`, `gem_resolve_url()` | failures between pages, redirects mixed with questions, relative references | the numbers that are shown mean the links they are shown with, dot segments are removed as RFC 3986 says, the prompt returns |
| Mastodon client (`mastodon/mastodon.c`) | the open libraries and objects, `resp[]`, `obj[]` | `do_timeline()`, `do_post()`, two transports, chunked bodies, JSON and HTML to text | any of ten opening steps fails, the answer ends anywhere, brackets and quotation marks in texts | what is printed was sent; what is open is closed, in order |
| Proxies (`*/proxy/*.py`) | `_rate`, shared by the threads | `do_POST()`, `rate_ok()`, upstream calls | a thread per request without locks, calls that time out after they took effect, a POST that is redirected | what the client reports is true, the limit holds as far as it can, each connection ends |
| Claude proxy (`claude/proxy/claude_amiga_proxy.py`) | none of a request | `do_POST()`, `_anthropic_to_openai()`, `_openai_to_anthropic()`, `call_backend()` | two services, requests cut at their old end, results and calls that were dropped, arguments that cannot be parsed | calls and answers keep their pairs through both translations; what happens on the Amiga was asked for |
| Transports (`claude.c`, `gemini.c`, `nostr.c`), shared code (`common/rtc_common.c`) | library bases, `g_amissl_ready`, context, SSL and socket of a request, Ctrl-C flag | `amissl_init()`, `amissl_post()`, `amissl_fetch()`, `proxy_post()`, `proxy_fetch()`, `conn_open()`, `conn_close()`, `rtc_net_open()`, `amissl_cleanup()` | each of a dozen steps may fail, in any request of a session; AmigaOS closes nothing for a program | closed in order, opened once, nothing lost |
| Boing, narrator (`boing/`, `narrator/`) | libraries, screen, port, request, device | open, run, close | clean-up on each error path | all that was opened is closed |

The programs meet at pipes and sockets only: an agent writes lines to the MCP
server, the clients send requests to a proxy or a server, and the proxies hold
one thread per connection. Within a program the components meet through its
global buffers.

## Modules

`X` is the model of a component, `MCX` its instances for TLC, `XProofs` its
theorems. An abstract specification states the promise and the model is shown
to implement it.

**ClaudeAgent** (abstract: **ClaudeTurn**). `pc` is the place in `repl()`,
`run_conversation()` and `confirm()`. `stdin` is the lines that were typed and
not read yet: `fgets()` takes `LineBuf` pieces of one at the `>` prompt and a
single piece (15 bytes) in `confirm()`, and leaves the rest of the line
(`Unread`). `TypePrompt` is a line typed at the prompt, `ReadLeftover` one that
stood on stdin; `AnswerTyped`, `AnswerLeftover` and `AnswerEof` are the same for
a question, and `TypeAhead` may happen at any time. `SendRequest` is the top of
the loop (`hist_join()` included), `ReplyEnds` is every way out of the exchange
without tools and `ReplyAsksTools` the echo of the assistant turn, `RunTool`,
`Ask` and `Answer...` are `execute_tool()` with its gate, `FinishTurn` closes and
records the results. A result says "done", "error" or "doubt": the last is a
command that `Execute()` did not start, which has no effect and is reported
without `is_error`, but with the text that says it may not have run.
`HistAdd`, `HistJoin`, `AddResult` carry the code's own comparisons, so each
buffer can be made to overflow. Calls are records of what their handling
depends on; sizes are small numbers. `log`, `prompts` and `tidy` (each line was
typed when it was asked for, and fit) are history variables.
**ClaudeTurn** says: a prompt leads to at most `MaxIters` requests, each reply
to at most `MaxTools` calls, effects happen only while calls are open, and
control comes back.

**ClaudeBridge** composes ClaudeAgent with what is between it and the model:
AmiSSL and the API, or the bridge and one of its two services (`via`). The
exchange that ClaudeAgent takes in one step becomes `Forwards` (`do_POST()` has
read and, for OpenRouter, translated the request), then `UpstreamEnds` or
`UpstreamAsks`; `TurnsAway` is everything that answers at once, and what is no
JSON goes no further. `Translated` and `FromOpenAI` are the two translations: a
message is its role, the calls it makes and the call it answers, an id is the
prompt, the iteration and the place of the call. `said` is a history variable.
PairedAnthropic and PairedOpenAI state the rules of the two services.

**NostrSocket** (abstract: **RelayFeed**). A byte is its position in the
stream, so that every mistake with the buffer is visible. `HandshakeRead` and
`EnsureRead` take any part of what has arrived; `Incomplete`, `BadFrame` and
`Take...` are the verdicts of `ws_parse_frame()`; `Deliver` is the loop of
`run_subscribe()`. The relay sends any of a set of frame shapes (fragmented as
RFC 6455 allows), may close at any byte, and `Break` is Ctrl-C. A length is the
signed long that holds it (`Signed`): only what needs more than 32 bits is
refused before the test against the buffer, so a length with bit 31 set becomes
negative. `Misreads` is what follows: a part of the header is taken for the
frame, and parsing goes on in the middle of it (`pc` "astray"), or a data frame
is copied with a size of almost 2^32 ("crashed"), or the verdict is taken for a
close; when it is 0 the frame counts as incomplete for ever (`Incomplete`) and
the buffer fills. A client astray is not followed further: it may end, or find
frames that are none, and the properties name it as their one exception.
**RelayFeed** knows frames only: taken whole, once, in order; data frames up to a
final one make one message; at a garbled frame, and only there, the client may
be lost (`Lose`).

**McpServer** (abstract: **RpcContract**). A line is a sequence of JSON tokens;
the scanner (`FindKey`, `StringAt`, `SpanAt`, `TokenAt`) finds members by text
search at any depth, as the code does, and every buffer cuts. `ReadLine`,
`CallTool`, `Inform`, `Ignore`, `NotFound`, `Reply` are the branches of
`run_server()` and `handle_request()`; the client writes several lines ahead
and may hang up inside the last one. Values longer than `path[]`, `cmd[]` or
`text[]` are acted on as the part that fits. A command that `Execute()` did not
start (`NotStarted`) is reported with `isError` false and a text that says so
("doubt"). **RpcContract** is `mcp/README.md` without JSON: a reply to each line
that wants one, and at most the act that the line asks for, its values as far
as their buffers hold them.

**GeminiBrowser** with **GeminiUrl**. `at` is host, port and path, `links` is
`g_links[]`; one action per status category, the two prompts, and the end of
the inner loop (`Rests`). `Renders` shows as much of a page as has arrived and
fits the output buffer; a link is in the table before its line is found not to
fit, so the table may hold one link more than the screen. `page` and `fresh` are
history variables: what is on the screen, and whether it is what the last
navigation led to. `Resolve` is `gem_resolve_url()` over segments, empty ones
included; `RfcSegs` is RFC 3986's dot segment removal stated without an
algorithm, for a path without its empty segments, which the code drops and the
RFC keeps.

**ProxyRelay** (Mastodon bridge and the client's `do_post()`). A run is a
client, its connection and the thread of the bridge that serves it; several
overlap. `thread` is the place in `do_POST()`; reading the time (`TakesTime`),
copying the list (`Counts`) and testing and storing it (`Admits`, `Limits`) are
steps of their own, as a thread may lose the processor between any two.
`Asks` is `urlopen()` sending the POST, `Accepts` and `Declines` are the instance
in its own time, perhaps after the thread gave up; an answer with an error or a
redirect says nothing of whether the status was created. `Unreachable`,
`Passes`, `TimesOut` and `BreaksOff` are how `relay_request()` ends; a POST that
is redirected with 301, 302 or 303 is followed with a GET (`Follows`), whose
answer the client gets (`PassesOther`). `admitted` and `overlap` are history
variables.

**MastodonTimeline** with **MastodonText**. `step` is how far the libraries and
objects of a transport are opened (`Opens`), `closing` what the function that
returns still has to close; `Closes` is one of its calls. `Reads` takes one
letter of the answer, `ReadEnds` may happen anywhere. `Parses`, `Shows` and
`EndsShow` are `do_timeline()`; `objs` holds what `parse_status()` is given for
each status that is printed. MastodonText has the scanners and `html_strip()`
as functions on texts of letters; the instance (`Json`, `Html`, `Chunked`)
writes what they read, so that ShownTrue compares what was printed with what
was meant.

**AmigaResources** is what the programs open and close, one program to a
behaviour (`prog`). `Steps` is the order in which it opens, with the calls in
between that may fail; `OpensNext`, `SkipsNext` ("if (g_amissl_ready) return
1"), `Misses` (boing opens both libraries before it tests them) and `Fails` are
what one step does; `closing` is what the function that returns still has to
close, in `CloseOrder`, one call of `Closes` each. `AsksAgain` is the next
request of a session, with what the last one left in `held`; `lost` holds what
is open and has no variable any more, and `Released` says nothing of that:
AmiSSL is closed beneath the objects that the Nostr client loses. (`mastodon.c`,
which makes one request and opens everything for it, is in MastodonTimeline.)

Operators named `Slip...` are variants with an editing slip; no action uses
them. Each property is tested by putting one of them in the place of a
definition of the model and seeing TLC find the property violated.

## Runs

| Run | Bounds | What it shows |
|---|---|---|
| claude_bridge | 6 history entries, 2 iterations, 2 prompts, a join buffer for three or four turns, results that overflow, four replies of up to 3 calls with good, other and garbled arguments, all three ways to the model | eviction and trimming keep turns paired, keep the prompt and the newest turn; the translation keeps calls and answers; effects were asked for; every conversation ends |
| claude_tools | 1 iteration, 2 prompts, 2 kept calls of up to 3, every kind of call, lines that fit and lines longer than both buffers, one line ahead, `malloc()` may fail | the gate holds; effects happen once and in order; results tell what happened; order of the history; refinement of ClaudeTurn with its liveness |
| nostr_frames | buffers of 5, 2 and 4 bytes, a long that holds less than 5, 3 frames of 15 shapes, no frame begun after byte 11, Ctrl-C, `--eose-exit` | every cut of the stream into reads, every hang-up, lengths that fit, that do not and that become negative; refinement of RelayFeed; the session ends |
| mcp_calls | 3 lines of 8 kinds, lines, params and values longer than their buffers | one reply each, in order; no half request acts; reports are true; refinement of RpcContract; all that arrives is answered |
| gemini_pages | 3 navigations, 2 hops, 7 kinds of reference, tables of 2 links and 3 segments, empty segments, pages cut by the output buffer | numbers shown mean the links shown; links lead right; the prompt returns |
| proxy_posts | 3 overlapping runs from two addresses, one of which is not allowed, a limit of 2, a clock that takes one hit out of the window, one run that may break and be redirected | reports are true whatever is lost, but for a redirected POST; nobody is limited below the limit; the limit holds for threads that take turns; each connection ends |
| mastodon_timeline | plain statuses with every text of up to two of eight letters, boosts, two-status and three-status timelines, chunks of 3 and 20, each buffer too small for some answer | what is printed is what was sent, for each cut; all is closed in order whichever step fails; the program ends |
| amiga_resources | 3 requests, 8 programs with their transports, every step failing in every request | closed before nothing that needs it, nothing outlives its request or the program but what the code forgets; exactly two programs forget |
| claude_entries, claude_tool_msg, gemini_stale, proxy_moved | | a disagreement each, see below |

The bounds are the least at which each branch is taken: histories long enough
to evict twice, joins that trim, frames longer than what is left of a buffer,
pages with more links than the table. All sizes are constants, and the theorems
hold for all of them. Three requests are enough for a failure before, between
and after two that succeed, and two prompts of two iterations fill a history of
6 twice. In proxy_posts one run breaks and is redirected while two others
overlap with it. In nostr_frames a frame of 2^31 bytes, scaled down, may be
begun and nothing is sent after it: the client never gets past one.

**Fairness.** Steps of the program itself are weakly fair: it never waits for
itself. Where the program waits for a peer or for its user (`Exchange`, `Peer`,
`User`, `Capsule`), liveness is stated under the assumption that they answer or hang
up, which is what TCP's end of connection and the end of stdin give; nothing is
assumed about what they answer. The user is never assumed to type a prompt, and
a relay is never assumed to send or to close: `SessionEnds` starts from a
connection that is closed. `Wanders` is fair once the connection is closed: a client astray is
only assumed to come to its end when nothing more arrives. `RunsEnd` assumes
that the threads run and that calls to the instance end. The 30 seconds of
`urlopen()` are for each read, and the bridge's own reads have no limit: a
client that stays silent and an instance that dribbles its answer are assumed to
end. In ClaudeBridge
`Exchange` is fair for the same reason (120 seconds, and a thread for each
connection). AmigaResources states no liveness. MastodonTimeline's
client does not stop by itself, and its reads end: it asks for
`Connection: close`, and has no timeout of its own.

## Proofs

All theorems are checked by `tlapm` for every value of the constants that the
named assumptions allow.

- **ClaudeAgentProofs**: types, `HistBounded`, `GateHeld` (a `y` read by the
  call's own question, typed at it as long as stdin is `tidy`),
  `EffectsInOrder`, `TurnsPaired`, `PromptKept`, `HistInOrder`,
  `ReportsMatchEffects`, and that every step is a step of ClaudeTurn or a
  stutter. The inductive invariant adds which entries a history may end with at
  each `pc` (so that an append keeps pairs and order) and that at most `2 * iter
  + 1` entries were added since the prompt; `PromptKept` then needs
  `RoomAssumption`, `MaxMsgs >= 2 * MaxIters + 2` (48 and 8 in the code).
  `ReportsMatchEffects` follows because any two entries that belong together
  agree with the log of effects, the log is only added to, and the results under
  construction agree with what the calls so far have done. `RequestsCurrent` is
  about `hist_join()`: the copy loop sends a run of the history, which ends at
  its newest entry unless that entry does not fit by itself. The sums of sizes
  are a fold over a set; that it does not depend on the order of the additions,
  and that one entry more adds its size, is proved by induction on the number of
  entries. It needs `JoinAssumption`: an entry that is put on the history, with
  a comma and brackets, fits the join buffer (`JOINBUF` is 90000; the largest
  entry is `toolmsg[]` with its quotes and role, below 36256, and a prompt is at
  most 8192 and 128 bytes).
- **ClaudeBridgeProofs**: `BridgeKeepsClient`, that every behaviour of the
  composition is one of ClaudeAgent, which carries its theorems over
  (`BridgeKeepsPairs` is `TurnsPaired` of the composition), and `EffectsAsked`.
  That one needs that the reply the client works on is the translation of
  `said`, and that every effect on the log is older than a reply that is new.
  `TranslationPairs`: a request that obeys the rules of one service obeys those
  of the other after `_anthropic_to_openai()`, and one that breaks them still
  breaks them. Each turn is laid out as one open message, or as one for each of
  its results (`LaidOut`, over the facts about `FlattenSeq`); what an open
  message answers is what the turn it comes from answers (`TranslationLaidOut`),
  results make no calls, ids name their turn, and two turns of results in a row
  would answer one assistant turn twice (`PairingKept`). The histories it speaks
  of are runs of turns that ClaudeAgentProofs shows well made (`TurnsWellMade`,
  `RequestsAreRuns`). `BridgeTypeCorrect` says that what goes over each wire is
  a request or an answer of its kind; a `malloc()` that fails sends an empty
  one, of which neither theorem says more.
- **AmigaResourcesProofs**: types, `Released`, `LostOnly`, for any number of
  requests. The invariant says what is open at each step of each program, that
  AmiSSL is open as a whole or not at all between requests, and that what needs
  something that is being closed is being closed as well.
- **NostrSocketProofs**: types, `StreamIntact`, `RoomToRead`, `NothingMissed`,
  `MessagesIntact`, each but for a client astray behind a frame whose length
  became negative. The invariant adds what the handshake leaves in the buffer,
  and that a client astray has left the place where such a frame begins
  (`InvMisreads`, `InvWanders`). `LongAssumption` says that `2^31` is not below
  `InBuf`, so that a frame that is taken as it was sent is one that fits.
  `RoomToRead` needs `InBuf >= PayBuf + MaxHdr` (72000, 66000 and 14).
  `NothingMissed` rests on how the frames of the relay lie in the stream, end to
  end, and on no whole frame being left when `ws_ensure()` is called;
  `MessagesIntact` on the message under construction having as many bytes as the
  positions it is taken from, all of them before the unread ones; it needs
  `MessageAssumption`, room for the terminator of `ws_read_message()`. Together
  they give `ImplementsFeed`, that the client is a RelayFeed, for all shapes of
  frames, those of negative length included: as frames lie end
  to end, the frames that end within the bytes consumed are the first n, and the
  next one taken is number n + 1.
- **McpServerProofs**: types, `OncePerLine`, `ReportsMatchActs`, and
  `ServesContract`, that the server implements RpcContract. The hypothesis of
  the last is `PlainLine` for each line the client may write: members are found
  at their places, arguments and id fit their buffers, the id stands before
  `line[]` is full, a tool name is one piece, and the lines that want a reply
  are those with an id. TLC evaluates it (`PlainAssumption`) for the lines of
  mcp_calls. An id that is nested or too long breaks it, and with it the code
  breaks the contract. Nothing is assumed of the sizes, of how long a line, its
  params or a value is, or of where the client hangs up: a text that was cut is
  read as the whole line's call or is refused (`ReadingFacts`), since a span is
  found whole or not at all, and a string of a prefix is a prefix of the string.
  `Link` then ties `line[]` and `resp[]` to the line the server is at.
- **GeminiBrowserProofs**: types, `TableOfPage`, `RequestsBounded`
  (`MaxHops + 1` requests to a navigation), `FollowsShown` and `ResolvesRight`.
  The invariant adds that an answer that is awaited belongs to where the browser
  stands, that no page is fresh while one is fetched, and that each request but
  the first was paid for by a hop. `ResolvesRight` (`LeadsRight`) is proved for
  paths of any length up to the table's: by induction on the segments, what
  `gem_normalize_path()` has kept are the names that RFC 3986 keeps so far, and
  each has as many names to its right, less those taken back, as stand above it
  (`IsKept`); so a `..` takes back exactly the one it outnumbers. It needs
  `SegsAssumption`, that paths are sequences of strings. The statement takes the
  path without its empty segments, and leaves the slash that the RFC adds behind
  a last dot segment aside: of both the code does not do what the RFC says.
  `TableOfPage` is about the numbers that are shown; at most one number more is
  accepted.
- **ProxyRelayProofs**: types, `AsReported`, `LimitedAtLimit`, `LimitHeld`, for
  any number of runs, addresses and any limit. `LimitedAtLimit` rests on each
  stored or copied list being made of different hits, that is of run and time
  pairs; `LimitHeld` on what holds while the threads of an address take turns:
  the list a thread copied is current, and the stored list lacks no hit that is
  within the window.
- **MastodonTimelineProofs**: types (`resp[]` is not overrun), `Released` and
  `ShownTrue`. For `Released` the invariant adds that what needs something that is
  being closed is being closed as well, and what `held` is at each opening step.
  `ShownTrue` (`ShowsTrue`) is proved for every timeline, text, chunk size and
  buffer. Its invariant `SInv` is short: `resp[]` is what was sent without what is
  still on the wire, the body is a beginning of the statuses, `at` is where the
  next status starts, and `objs` are the first ones, each cut to `obj[]`. What
  takes the work is that each scanner reads back what the instance writes:
  a letter of a text does not end its string, however many backslashes and
  quotation marks stand together (`QuotedEnds`, `UnescapeEscapes`); a string, with
  the brackets in it, does not end its object (`ObjectEnds`, over texts that are
  `Inert`); the first member of a name is the one that is meant, in a boost too,
  as the text before it lacks that name (`AccountReads`, `TextReads`,
  `StatusReads`); tags and entities give back the text without empty lines
  (`HtmlReads`); chunks give back the body (`DechunkReads`). And each of them
  does as well on a beginning of the answer, or finds nothing (`NextStatus`,
  `BodyReads`). It needs `FitsAssumption` (6 letters of `accobj[]`, and a
  `text[]` as large as `raw_content[]`), `SizeTextAssumption` (different lengths
  are written differently) and that letters are no member names.

Induction over a sequence, and over the steps of a fold, is carried out with a
set of the numbers for which a fact holds (`SetInduction`, from the library's
theorem that a set of numbers has a least element): no operator is passed to a
theorem.

Every invariant that a passing run checks is stated by a theorem. Only
model-checked: the liveness properties
(`PromptReturns`, `AllAnswered`, `SessionEnds`, `RunsEnd`, `Ends`) and the
fairness part of `ImplementsTurn`, whose steps are proved; liveness under
fairness is out of the prover's reach.

## Disagreements between the code and what is said of it

With a run: results that do not fit leave commas that use up the room for the
closing brackets of `toolmsg[]` (claude_tool_msg); an assistant turn longer than
`content_arr[]` is put on the history cut, so that an entry is not "one complete
JSON message object" and requests that hold it are refused until it is evicted
(claude_entries); after a failed request the numbers of the page on the screen
lead elsewhere (gemini_stale); the Mastodon bridge does not return the
instance's answer "verbatim" when that is a redirect: it follows it with a GET
and returns the answer to that, so that the client may report a status as
posted that was never created (proxy_moved).

Met while modelling, without a run: `hist_add()` does not drop "a
user/assistant pair", since final answers are not recorded, so the oldest entry
may be results whose calls are gone; calls beyond `MAX_TOOLS` and results that do
not fit leave `tool_use` blocks unanswered, which a service refuses as long as
they are on the history (TranslationKeepsPairing compares the rules of the two
services and does not say that they are obeyed); a long `write_file` is cut and
reported as done; a `y/N` question is answered by what was typed ahead of it, or by the rest of a
prompt longer than 4095 bytes; a command that did not start is reported without
`is_error`, and by the MCP server with `isError` false; the MCP id is the first
`"id"` in the text, nested or not, and is cut to `id[]`; a frame longer than
`PAYBUF` is not always refused, as the comment above `ws_parse_frame()` says
("payload exceeds paycap"): a length with bit 31 set is negative and passes the
test, so that a part of the header is consumed as the frame, or `memcpy()` is
called with a size of almost 2^32;
`conn_open()` of the Nostr client, failing after the context was made, leaves
context, SSL and socket open, and main() then closes AmiSSL beneath them; boing
returns with the one library that did open; `rtc_net_open()` says that
`amissl_init()` checks the version of bsdsocket.library again, and it does not; a
Ctrl-C that `ws_ensure()` sees is reported as a clean close; a fragment that
does not fit is left out while a later one is joined, which is not
"truncating"; `ping`, `tools/list` and `tools/call` without an id are answered;
`json_unescape()` and the argument buffers of the MCP server cut a text that is
then reported as written; output of control characters does not fit `ESCBUF`;
`..` at the end of a Gemini reference loses the slash that RFC 3986 keeps, empty
segments are dropped, which changes what a `..` behind them takes back, a page
that fills the output buffer may leave a link in the table that is not shown, a
segment of 256 characters is split, and a reference such as `mailto:x` is taken
for a relative path; threads that overlap in `rate_ok()` overwrite each other's
hits, so that the "simple per-IP rate limit" can be exceeded; the comment above
`net_open()` of the Mastodon client says v4 and the code opens v3; a boost
longer than `obj[]` is shown as the empty status around it, without its mark;
a tag `<br />` starts no line; a chunked answer longer than `resp[]` makes
`dechunk_in_place()` look past its end.

## Not modelled

- The Lua patches: no program logic of their own.
- The vendored AmiSSL headers (nine tenths of the lines of the repository:
  declarations and call stubs without behaviour) and the copies of rtc_common.
- Test servers and scripts: the models let peers do all that the protocols
  allow.
- The Gemini proxy: a thread per connection that copies bytes and shares
  nothing; GeminiBrowser's capsule may send, fail and stop anywhere.
- Of the Nostr client `--publish`, which prints and connects to nothing, with
  SHA-1, base64 and the JSON of events; of the Claude proxy `GET /health` and
  the self-test; of the Mastodon bridge its mock mode; of the Claude client the
  way from HTTP answer to body (its copy in `mastodon.c` is modelled).
- Chunked answers that do not fit `resp[]`: what lies behind it is not defined.
- A reset of a connection whose request the bridge has refused unread: the
  client then reports that there was no answer, which the models allow anyway.
- What a Nostr client astray finds: it reads the middle of a frame as headers,
  which may be anything. That a frame of negative length has a mask key that has
  not arrived yet is awaited, as for all frames.
- Of the MCP server's contract, lines whose arguments are longer than `args[]`:
  the module cuts them as the code does, and the server acts on what is left, but
  neither the run nor `ServesContract` speaks of them (`PlainLine`).
- Wording and layout of output, option parsing.

## Plan

1. Done: the Claude client and its bridge, the Nostr session, the MCP server,
   the Gemini browser, the Mastodon client and its bridge, and the resources of
   all programs, each with theorems.
2. Next: the rest of the text algorithms (URLs, NIP-01 serialisation, events) as
   operators against reference definitions.
3. Theorems for what those modules will say of them, and the functional
   induction of MastodonTimelineProofs (`Recursion`, `RankInduction`) for them.
