----------------------------- MODULE ProxyRelay -----------------------------
(***************************************************************************)
(* Runs of "mastodon post" that go through the host bridge                  *)
(* (mastodon/proxy/mastodon_amiga_proxy.py): do_post() and proxy_request()  *)
(* of the client, one thread of ThreadingHTTPServer per request, and the    *)
(* rate limiter that the threads share without a lock.                      *)
(*                                                                         *)
(* Any connection may break at any byte.  The instance answers in its own   *)
(* time: it accepts a status, refuses it, fails before or after creating    *)
(* it, or sends the bridge elsewhere, and urlopen() goes there with a GET.  *)
(* Each run posts a status of its own.                                      *)
(*                                                                         *)
(* An operator named Slip... is a variant that an editing slip in the code  *)
(* could produce; no action uses it.                                        *)
(***************************************************************************)
EXTENDS Integers, FiniteSets

CONSTANTS
  NumRuns,   \* bound of the model: runs of the client
  Ips,       \* addresses of Amigas
  Allowed,   \* those that ip_allowed() lets in
  Origins,   \* where the runs may come from
  Breaking,  \* bound of the model: runs that may break, or be answered late
  Moving,    \* bound of the model: runs whose POST may be redirected
  RateMax,   \* RATE_MAX
  Window,    \* RATE_WINDOW
  MaxTime    \* bound of the model: the clock

(* Runs are numbered in the order in which they start; they may overlap. *)
Runs == 1 .. NumRuns

ASSUME RelayAssumption ==
  /\ NumRuns \in Nat
  /\ RateMax \in Nat /\ Window \in Nat /\ MaxTime \in Nat
  /\ Origins \subseteq [Runs -> Ips] /\ Allowed \subseteq Ips
  /\ Breaking \subseteq Runs /\ Moving \subseteq Runs

VARIABLES
  from,      \* client_address of each run
  now,       \* time.time()
  rate,      \* _rate: the hits of each address
  run,       \* each run of the client
  request,   \* what of its request reaches the bridge and is not yet read
  thread,    \* the thread that serves it
  at,        \* its local variable now
  hits,      \* its local variable hits
  status,    \* the status it replies, "none" as long as there is none
  answer,    \* the instance's answer to the POST of each run
  created,   \* how many statuses the instance has created for each run
  admitted,  \* history variable: all hits of each address ever
  overlap    \* history variable: addresses two of whose threads were in rate_ok()

client == <<from, run, request>>
limiter == <<rate, at, hits, admitted, overlap>>
instance == <<answer, created>>
vars == <<from, now, rate, run, request, thread, at, hits, status, answer, created,
          admitted, overlap>>

Requests == {"none", "whole", "bad"}
Statuses == {"none", "ok", "forbidden", "limited", "malformed", "error",
             "unreachable"}

(* "asked": the request is with the instance.                               *)
InstanceAnswers == {"none", "asked", "ok", "error", "moved"}

-----------------------------------------------------------------------------
(* The client, do_post().                                                   *)

Starts(r) == run[r] = "new" /\ \A q \in Runs : q < r => run[q] # "new"

(* The connection is not made, or send() is short: "request failed".  The   *)
(* bridge gets a part of the request, or nothing.                           *)
SendFails(r) ==
  /\ Starts(r) /\ r \in Breaking
  /\ run' = [run EXCEPT ![r] = "failed"]
  /\ \/ UNCHANGED <<request, thread>>
     \/ /\ request' = [request EXCEPT ![r] = "bad"]
        /\ thread' = [thread EXCEPT ![r] = "accepted"]
  /\ UNCHANGED <<from, now, limiter, status, instance>>

(* The request is on its way, and recv() waits for the connection to be     *)
(* closed; do_post() prints the status that came, or "no HTTP body" when    *)
(* the answer was lost on the way.                                          *)
(* What send() has taken may yet be lost in part, and programs other than   *)
(* this client send requests without a length or a host or that are longer  *)
(* than MAX_BODY: all of these are "bad".                                   *)
Sends(r) ==
  /\ Starts(r)
  /\ run' = [run EXCEPT ![r] = "waits"]
  /\ \/ request' = [request EXCEPT ![r] = "whole"]
     \/ r \in Breaking /\ request' = [request EXCEPT ![r] = "bad"]
  /\ thread' = [thread EXCEPT ![r] = "accepted"]
  /\ UNCHANGED <<from, now, limiter, status, instance>>

-----------------------------------------------------------------------------
(* The bridge, do_POST().                                                   *)

Goes(r, to) == thread' = [thread EXCEPT ![r] = to]

SlipAnswers(r, s) ==
  status' = [status EXCEPT ![r] = s] /\ Goes(r, "open")

(* _send_raw(); HTTP/1.0 then closes the connection. *)
Answers(r, s) ==
  status' = [status EXCEPT ![r] = s] /\ Goes(r, "closed")

Forbids(r) ==
  /\ thread[r] = "accepted" /\ from[r] \notin Allowed
  /\ Answers(r, "forbidden")
  /\ UNCHANGED <<now, client, limiter, instance>>

InLimiter(q) == thread[q] \in {"timed", "counted"}

(* rate_ok(): the time is taken, ... *)
TakesTime(r) ==
  /\ thread[r] = "accepted" /\ from[r] \in Allowed
  /\ at' = [at EXCEPT ![r] = now]
  /\ Goes(r, "timed")
  /\ overlap' = IF \E q \in Runs : InLimiter(q) /\ from[q] = from[r]
                THEN overlap \cup {from[r]} ELSE overlap
  /\ UNCHANGED <<now, client, rate, hits, status, instance, admitted>>

SlipRecent(list, t) == list

(* A hit is a run and a time: no run hits twice, so that the list of times  *)
(* is a set of hits, in no particular order.                                *)
Recent(list, t) == {h \in list : t - h[2] < Window}

(* ... the hits within the window are copied from the shared table, ... *)
Counts(r) ==
  /\ thread[r] = "timed"
  /\ hits' = [hits EXCEPT ![r] = Recent(rate[from[r]], at[r])]
  /\ Goes(r, "counted")
  /\ UNCHANGED <<now, client, rate, at, status, instance, admitted, overlap>>

SlipFull(list) == Cardinality(list) > RateMax

Full(list) == Cardinality(list) >= RateMax

SlipAdmits(r) ==
  /\ thread[r] = "counted" /\ ~Full(hits[r])
  /\ rate' = [rate EXCEPT ![from[r]] = hits[r]]
  /\ hits' = [hits EXCEPT ![r] = {}]
  /\ admitted' = [admitted EXCEPT ![from[r]] = @ \cup {<<r, at[r]>>}]
  /\ Goes(r, "reads")
  /\ UNCHANGED <<now, client, at, status, instance, overlap>>

(* ... and the copy, with the new hit, replaces the table.                  *)
Admits(r) ==
  /\ thread[r] = "counted" /\ ~Full(hits[r])
  /\ rate' = [rate EXCEPT ![from[r]] = hits[r] \cup {<<r, at[r]>>}]
  /\ hits' = [hits EXCEPT ![r] = {}]
  /\ admitted' = [admitted EXCEPT ![from[r]] = @ \cup {<<r, at[r]>>}]
  /\ Goes(r, "reads")
  /\ UNCHANGED <<now, client, at, status, instance, overlap>>

Limits(r) ==
  /\ thread[r] = "counted" /\ Full(hits[r])
  /\ rate' = [rate EXCEPT ![from[r]] = hits[r]]
  /\ hits' = [hits EXCEPT ![r] = {}]
  /\ Answers(r, "limited")
  /\ UNCHANGED <<now, client, at, instance, admitted, overlap>>

(* No length or too long, no JSON (the start of an object is not), no host; *)
(* JSON that is not an object raises an exception, which ends the thread.   *)
Refuses(r) ==
  /\ thread[r] = "reads" /\ request[r] = "bad"
  /\ request' = [request EXCEPT ![r] = "none"]
  /\ \/ Answers(r, "malformed")
     \/ Goes(r, "closed") /\ UNCHANGED status
  /\ UNCHANGED <<from, now, run, limiter, instance>>

-----------------------------------------------------------------------------
(* relay_request() and the instance.                                        *)

Relays(r) ==
  /\ thread[r] = "reads" /\ request[r] = "whole"
  /\ request' = [request EXCEPT ![r] = "none"]
  /\ UNCHANGED <<from, now, run, limiter, created>>

(* urlopen() has sent the POST. *)
Asks(r) ==
  /\ Relays(r)
  /\ answer' = [answer EXCEPT ![r] = "asked"]
  /\ Goes(r, "asks")
  /\ UNCHANGED status

(* URLError: urllib raises it when it cannot connect or send.               *)
Unreachable(r) ==
  /\ Relays(r) /\ r \in Breaking
  /\ Answers(r, "unreachable")
  /\ UNCHANGED answer

(* Created for this run once more, or not. *)
Perhaps(r) ==
  \/ created' = [created EXCEPT ![r] = @ + 1]
  \/ UNCHANGED created

(* The instance, or a server in front of it, takes its time: the thread may *)
(* have given up.  A status that is accepted is created, one that is        *)
(* answered with an error, or with a 301, 302 or 303, perhaps.              *)
InTime(r) == thread[r] = "asks" \/ r \in Breaking

Accepts(r) ==
  /\ answer[r] = "asked" /\ InTime(r)
  /\ answer' = [answer EXCEPT ![r] = "ok"]
  /\ created' = [created EXCEPT ![r] = @ + 1]
  /\ UNCHANGED <<now, client, limiter, thread, status>>

Declines(r) ==
  /\ answer[r] = "asked" /\ InTime(r)
  /\ \/ answer' = [answer EXCEPT ![r] = "error"]
     \/ r \in Moving /\ answer' = [answer EXCEPT ![r] = "moved"]
  /\ Perhaps(r)
  /\ UNCHANGED <<now, client, limiter, thread, status>>

(* The answer to the POST, also that of an HTTPError, is passed on. *)
Passes(r) ==
  /\ thread[r] = "asks" /\ answer[r] \in {"ok", "error"}
  /\ Answers(r, answer[r])
  /\ UNCHANGED <<now, client, limiter, instance>>

SlipFollows(r) ==
  /\ thread[r] = "asks" /\ answer[r] = "moved"
  /\ answer' = [answer EXCEPT ![r] = "asked"]
  /\ UNCHANGED <<now, client, limiter, thread, status, created>>

(* urllib's redirect handler makes a GET of a redirected POST ...           *)
Follows(r) ==
  /\ thread[r] = "asks" /\ answer[r] = "moved"
  /\ Goes(r, "follows")
  /\ UNCHANGED <<now, client, limiter, status, instance>>

(* ... and it is the answer to this GET that the client gets, or an error   *)
(* of its connection.                                                       *)
PassesOther(r) ==
  /\ thread[r] = "follows"
  /\ \E s \in {"ok", "error", "unreachable"} : Answers(r, s)
  /\ UNCHANGED <<now, client, limiter, instance>>

Waits(r) == thread[r] = "asks" /\ answer[r] = "asked"

SlipTimesOut(r) ==
  /\ Waits(r)
  /\ Answers(r, "unreachable")
  /\ UNCHANGED <<now, client, limiter, instance>>

(* The answer does not come within 30 seconds: an exception that nothing    *)
(* catches ends the thread, and the connection is closed.                   *)
TimesOut(r) ==
  /\ Waits(r)
  /\ Goes(r, "closed")
  /\ UNCHANGED <<now, client, limiter, status, instance>>

(* So does an answer that ends early, or one to the GET that never comes.   *)
BreaksOff(r) ==
  /\ thread[r] \in {"asks", "follows"} /\ ~Waits(r) /\ r \in Breaking
  /\ Goes(r, "closed")
  /\ UNCHANGED <<now, client, limiter, status, instance>>

Tick ==
  /\ now < MaxTime
  /\ now' = now + 1
  /\ UNCHANGED <<client, limiter, thread, status, instance>>

-----------------------------------------------------------------------------
Init ==
  /\ from \in Origins
  /\ now = 0
  /\ rate = [i \in Ips |-> {}]
  /\ run = [r \in Runs |-> "new"]
  /\ request = [r \in Runs |-> "none"]
  /\ thread = [r \in Runs |-> "none"]
  /\ at = [r \in Runs |-> 0]
  /\ hits = [r \in Runs |-> {}]
  /\ status = [r \in Runs |-> "none"]
  /\ answer = [r \in Runs |-> "none"]
  /\ created = [r \in Runs |-> 0]
  /\ admitted = [i \in Ips |-> {}]
  /\ overlap = {}

Limiter(r) == Forbids(r) \/ TakesTime(r) \/ Counts(r) \/ Admits(r) \/ Limits(r)

RelayRequest(r) ==
  Asks(r) \/ Unreachable(r) \/ Passes(r) \/ Follows(r) \/ PassesOther(r)
  \/ TimesOut(r) \/ BreaksOff(r)

Instance(r) == Accepts(r) \/ Declines(r)

Thread(r) == Limiter(r) \/ Refuses(r) \/ RelayRequest(r)

Client(r) == SendFails(r) \/ Sends(r)

Next == Tick \/ \E r \in Runs : Client(r) \/ Thread(r) \/ Instance(r)

Spec == Init /\ [][Next]_vars

(* A thread is never kept waiting for ever: each socket operation towards   *)
(* the instance times out, and a client that is gone makes reads and writes *)
(* return.  Assumed of the others: the client sends what it announced, and  *)
(* the instance does not send its answer byte by byte for ever (the 30      *)
(* seconds are for each read).                                              *)
FairSpec == Spec /\ \A r \in Runs : WF_vars(Thread(r))

-----------------------------------------------------------------------------
Times == 0 .. MaxTime

Hits == Runs \X Times

(* The types of all variables; in particular no list of the limiter ever    *)
(* holds more than RATE_MAX hits, whatever the threads overwrite.           *)
TypeOK ==
  /\ from \in [Runs -> Ips]
  /\ now \in Times
  /\ rate \in [Ips -> SUBSET Hits]
  /\ \A i \in Ips : Cardinality(rate[i]) <= RateMax
  /\ run \in [Runs -> {"new", "waits", "failed"}]
  /\ request \in [Runs -> Requests]
  /\ thread \in [Runs -> {"none", "accepted", "timed", "counted", "reads",
                          "asks", "follows", "closed"}]
  /\ at \in [Runs -> Times]
  /\ hits \in [Runs -> SUBSET Hits]
  /\ status \in [Runs -> Statuses]
  /\ answer \in [Runs -> InstanceAnswers]
  /\ created \in [Runs -> Nat]
  /\ admitted \in [Ips -> SUBSET Hits]
  /\ overlap \subseteq Ips

(* What the client can print is true of the instance (do_post(),            *)
(* relay_request()), then and whatever the instance does later, but for a   *)
(* POST that was redirected: a status that is reported as posted was        *)
(* created, one that was refused by the bridge, could not be relayed or was *)
(* never sent in full is not, and none is created twice, redirected or not. *)
AsReported ==
  \A r \in Runs :
    /\ created[r] <= 1
    /\ status[r] = "ok" => created[r] = 1 \/ answer[r] = "moved"
    /\ status[r] = "unreachable" => created[r] = 0 \/ answer[r] = "moved"
    /\ run[r] = "failed" \/ status[r] \in {"forbidden", "limited", "malformed"}
         => created[r] = 0

(* The bridge's docstring, lines 22-24: it "returns that instance's real    *)
(* status and body verbatim".  (urlopen() in relay_request() follows a      *)
(* redirected POST with a GET and returns the answer to that.)              *)
Verbatim ==
  \A r \in Runs : status[r] \in {"ok", "error"} => answer[r] = status[r]

(* Nobody is turned away below the limit (rate_ok()): whatever the threads  *)
(* overwrite, a 429 means that RATE_MAX requests of this address were       *)
(* admitted within the window.                                              *)
LimitedAtLimit ==
  \A r \in Runs :
    status[r] = "limited" =>
      Cardinality({a \in admitted[from[r]] : at[r] - a[2] < Window}) >= RateMax

(* The limit (rate_ok()): as long as no two threads of an address were in   *)
(* rate_ok() at a time, no window sees more than RATE_MAX admissions.       *)
(* (When two were, one overwrites the hit of the other.)                    *)
LimitHeld ==
  \A i \in Ips \ overlap : \A t \in Times :
    Cardinality({a \in admitted[i] : a[2] <= t /\ t - a[2] < Window}) <= RateMax

(* A client that waits in recv() is let go: the bridge ends every           *)
(* connection ("force per-request close", line 181), also when it fails.    *)
RunsEnd == \A r \in Runs : run[r] = "waits" ~> thread[r] = "closed"
=============================================================================
