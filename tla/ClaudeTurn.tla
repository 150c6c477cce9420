----------------------------- MODULE ClaudeTurn -----------------------------
(***************************************************************************)
(* What the Claude client promises its user, without its history, buffers  *)
(* or transport: a prompt is answered with at most MaxIters requests, each *)
(* reply makes at most MaxTools calls, each call has at most one effect on *)
(* the machine, and control always comes back.  ClaudeAgent implements it. *)
(***************************************************************************)
EXTENDS Integers

CONSTANTS MaxIters, MaxTools

VARIABLES
  phase,    \* "idle", "ready", "waiting", "acting" or "stopped"
  asks,     \* requests sent for the prompt being answered
  todo,     \* calls of the last reply that are still to be settled
  effects   \* effects on the machine since the program was started

vars == <<phase, asks, todo, effects>>

Init == phase = "idle" /\ asks = 0 /\ todo = 0 /\ effects = 0

Prompt ==
  /\ phase = "idle"
  /\ phase' = "ready"
  /\ UNCHANGED <<asks, todo, effects>>

Send ==
  /\ phase = "ready" /\ asks < MaxIters
  /\ phase' = "waiting"
  /\ asks' = asks + 1
  /\ UNCHANGED <<todo, effects>>

GiveUp ==
  /\ phase = "ready" /\ asks = MaxIters
  /\ phase' = "idle"
  /\ asks' = 0
  /\ UNCHANGED <<todo, effects>>

(* A final answer or a failure. *)
Conclude ==
  /\ phase = "waiting"
  /\ phase' = "idle"
  /\ asks' = 0
  /\ UNCHANGED <<todo, effects>>

TakeCalls ==
  /\ phase = "waiting"
  /\ todo' \in 1 .. MaxTools
  /\ phase' = "acting"
  /\ UNCHANGED <<asks, effects>>

Settle ==
  /\ phase = "acting" /\ todo > 0
  /\ todo' = todo - 1
  /\ effects' \in {effects, effects + 1}
  /\ UNCHANGED <<phase, asks>>

Report ==
  /\ phase = "acting" /\ todo = 0
  /\ phase' = "ready"
  /\ UNCHANGED <<asks, todo, effects>>

Stop ==
  /\ phase = "idle"
  /\ phase' = "stopped"
  /\ UNCHANGED <<asks, todo, effects>>

System == Send \/ GiveUp \/ Conclude \/ TakeCalls \/ Settle \/ Report

Next == Prompt \/ System \/ Stop

Safety == Init /\ [][Next]_vars

Spec == Safety /\ WF_vars(System)

=============================================================================
