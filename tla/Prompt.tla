------------------------------ MODULE Prompt ------------------------------
(***************************************************************************)
(* What a prompt that asks a member to confirm a message promises,         *)
(* whatever the handlers do: the message is posted at most once, only      *)
(* after somebody took the prompt, never after the prompt was dropped, and *)
(* a prompt that was taken does not stay so.                               *)
(***************************************************************************)
EXTENDS Naturals

CONSTANT Prompts        \* the interactions that may open a prompt

VARIABLES
    stage,      \* stage[p]: none, open, taken, posted or dropped
    posts       \* posts[p]: how often the message of p was posted

promptVars == <<stage, posts>>

Stage == {"none", "open", "taken", "posted", "dropped"}

Init ==
    /\ stage = [p \in Prompts |-> "none"]
    /\ posts = [p \in Prompts |-> 0]

Open(p) ==
    /\ stage[p] = "none"
    /\ stage' = [stage EXCEPT ![p] = "open"]
    /\ UNCHANGED posts

Take(p) ==
    /\ stage[p] = "open"
    /\ stage' = [stage EXCEPT ![p] = "taken"]
    /\ UNCHANGED posts

Post(p) ==
    /\ stage[p] = "taken"
    /\ stage' = [stage EXCEPT ![p] = "posted"]
    /\ posts' = [posts EXCEPT ![p] = 1]

\* A prompt that does not come to be opened, a cancellation, a message that cannot be
\* posted, the end of the time allowed, or of the process: several prompts may end at once.
Drop(S) ==
    /\ \A p \in S : stage[p] \in {"none", "open", "taken"}
    /\ stage' = [p \in Prompts |-> IF p \in S THEN "dropped" ELSE stage[p]]
    /\ UNCHANGED posts

Next ==
    \/ \E p \in Prompts : Open(p) \/ Take(p) \/ Post(p)
    \/ \E S \in SUBSET Prompts : Drop(S)

Resolve(p) == stage[p] = "taken" /\ (Post(p) \/ Drop({p}))

\* What may happen, and what must.
Safety == Init /\ [][Next]_promptVars

Spec == Safety /\ \A p \in Prompts : WF_promptVars(Resolve(p))
=============================================================================
