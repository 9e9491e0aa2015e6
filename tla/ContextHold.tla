----------------------------- MODULE ContextHold -----------------------------
(* What the Gateway's context holds promise: per conversation scope, the      *)
(* history last seen and the route its last complete answer took.  A request  *)
(* that continues the history is given that route as a hint; one that does    *)
(* not starts the scope afresh.  The first of the requests that entered since *)
(* the last answer records its own route; nothing is promised to last.        *)
EXTENDS Sequences, SequencesExt

CONSTANTS Requests,  \* requests that pass through the scopes
          Prompts,   \* what a request may ask: [key, instructions, history]
          NoHint     \* no route is known

VARIABLES
  holds,  \* per scope held: [instructions, history, route, open]
  asked,  \* per request that came in, its prompt
  hint    \* per request that entered its scope, the hint it was given

hold == <<holds, asked, hint>>

HoldInit == holds = <<>> /\ asked = <<>> /\ hint = <<>>

With(f, x, v) == [y \in DOMAIN f \cup {x} |-> IF y = x THEN v ELSE f[y]]
Without(f, S) == [y \in DOMAIN f \ S |-> f[y]]

\* The prompt shows the whole history of the scope under the same instructions.
Extends(prompt, held) ==
  /\ prompt.instructions = held.instructions
  /\ IsPrefix(held.history, prompt.history)

\* The scope with the instructions and the history of a prompt or of a scope.
Scope(shown, route, open) ==
  [instructions |-> shown.instructions, history |-> shown.history,
   route |-> route, open |-> open]

Ask(r, prompt) ==
  /\ r \notin DOMAIN asked
  /\ asked' = With(asked, r, prompt)
  /\ UNCHANGED hint

Enter(r, given) ==
  /\ r \in DOMAIN asked \ DOMAIN hint
  /\ hint' = With(hint, r, given)
  /\ UNCHANGED asked

Forget(S) ==
  /\ holds' = Without(holds, S)
  /\ UNCHANGED <<asked, hint>>

\* Scopes may be forgotten together with any other step, and first.
Come(r, prompt, S) ==
  /\ Ask(r, prompt)
  /\ holds' = Without(holds, S)

Open(r, S) ==
  LET k == asked[r].key
  IN  /\ Enter(r, NoHint)
      /\ k \notin DOMAIN holds \ S
      /\ holds' = With(Without(holds, S), k, Scope(asked[r], NoHint, {r}))

Continue(r) ==
  LET k == asked[r].key
  IN  /\ k \in DOMAIN holds
      /\ Extends(asked[r], holds[k])
      /\ Enter(r, holds[k].route)
      /\ holds' = With(holds, k,
                       Scope(asked[r], holds[k].route, holds[k].open \cup {r}))

Restart(r) ==
  LET k == asked[r].key
  IN  /\ k \in DOMAIN holds
      /\ ~Extends(asked[r], holds[k])
      /\ Enter(r, NoHint)
      /\ holds' = With(holds, k, Scope(asked[r], NoHint, {r}))

\* The route of r is recorded for its scope, once among those that entered.
Record(r, S) ==
  \E k \in DOMAIN holds \ S :
    /\ r \in holds[k].open
    /\ holds' = With(Without(holds, S), k, Scope(holds[k], r, {}))
    /\ UNCHANGED <<asked, hint>>

HoldNext ==
  \/ \E S \in SUBSET DOMAIN holds :
       \/ Forget(S)
       \/ \E r \in Requests : \/ \E prompt \in Prompts : Come(r, prompt, S)
                              \/ Open(r, S) \/ Record(r, S)
  \/ \E r \in DOMAIN asked : Continue(r) \/ Restart(r)

HoldSpec == HoldInit /\ [][HoldNext]_hold
=============================================================================
