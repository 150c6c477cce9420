---------------------------- MODULE RpcContract ----------------------------
(***************************************************************************)
(* What mcp/README.md promises of the MCP server, without JSON: lines are   *)
(* dealt with one by one in the order they were written; a call acts at     *)
(* most once, before its reply; a line with an id gets exactly one reply,   *)
(* with that id, and a line without one gets none.  McpServer implements it *)
(* for the lines whose meaning it can read.                                 *)
(***************************************************************************)
EXTENDS Integers, Sequences

CONSTANTS
  Requests,  \* what a line may ask: [id, act]
  NoId       \* the id of a notification

VARIABLES
  asked,    \* requests written so far
  handled,  \* how many of them are done with
  acted,    \* has the current one taken effect?
  acts,     \* effects, oldest first, with the number of their request
  replies,  \* ids of the replies, oldest first
  broken    \* the client hung up in the middle of its last line

vars == <<asked, handled, acted, acts, replies, broken>>

Init ==
  /\ asked = <<>> /\ handled = 0 /\ acted = FALSE
  /\ acts = <<>> /\ replies = <<>> /\ broken = FALSE

Ask ==
  /\ ~broken
  /\ \E r \in Requests : asked' = Append(asked, r)
  /\ UNCHANGED <<handled, acted, acts, replies, broken>>

HangUp ==
  /\ broken' = TRUE
  /\ UNCHANGED <<asked, handled, acted, acts, replies>>

Current == asked[handled + 1]

Act ==
  /\ handled < Len(asked) /\ ~acted
  /\ acted' = TRUE
  /\ acts' = Append(acts, [line |-> handled + 1, act |-> Current.act])
  /\ UNCHANGED <<asked, handled, replies, broken>>

Done == handled' = handled + 1 /\ acted' = FALSE

Reply ==
  /\ handled < Len(asked) /\ Current.id # NoId
  /\ Done /\ replies' = Append(replies, Current.id)
  /\ UNCHANGED <<asked, acts, broken>>

KeepQuiet ==
  /\ handled < Len(asked) /\ Current.id = NoId
  /\ Done
  /\ UNCHANGED <<asked, acts, replies, broken>>

(* A line that never ended: nobody is left to read a reply, whatever id it  *)
(* carries; it counts as one without.                                       *)
Abandon ==
  /\ broken /\ handled = Len(asked) - 1
  /\ Done
  /\ replies' \in {replies, Append(replies, NoId)}
  /\ UNCHANGED <<asked, acts, broken>>

Next == Ask \/ HangUp \/ Act \/ Reply \/ KeepQuiet \/ Abandon

Spec == Init /\ [][Next]_vars

=============================================================================
