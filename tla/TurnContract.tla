---------------------------- MODULE TurnContract ----------------------------
(****************************************************************************)
(* What an agent session promises, whatever happens inside a run: runs do   *)
(* not overlap, a run asks the provider a bounded number of times, and it   *)
(* ends exactly once, answered (through the stop hooks), abandoned (^C) or  *)
(* lost (an exception ends the session).  AgentLoop.tla implements it.      *)
(****************************************************************************)
EXTENDS Naturals

CONSTANT MaxAsks    \* provider calls one run may make

VARIABLES
    stage,  \* "waiting" for an input, "running", or "over"
    begun,  \* runs started
    asks,   \* provider calls of the current run
    ended   \* how the runs so far ended

contractVars == <<stage, begun, asks, ended>>

Init ==
    /\ stage = "waiting" /\ begun = 0 /\ asks = 0
    /\ ended = [answered |-> 0, abandoned |-> 0, lost |-> 0]

Begin ==
    /\ stage = "waiting" /\ stage' = "running"
    /\ begun' = begun + 1 /\ asks' = 0 /\ UNCHANGED ended

Ask ==
    /\ stage = "running" /\ asks < MaxAsks /\ asks' = asks + 1
    /\ UNCHANGED <<stage, begun, ended>>

Answer ==
    /\ stage = "running" /\ stage' = "waiting"
    /\ ended' = [ended EXCEPT !.answered = @ + 1] /\ UNCHANGED <<begun, asks>>

Abandon ==
    /\ stage = "running" /\ stage' = "waiting"
    /\ ended' = [ended EXCEPT !.abandoned = @ + 1] /\ UNCHANGED <<begun, asks>>

\* The run is lost before or in the middle of a provider call.
Lose ==
    /\ stage = "running" /\ stage' = "over"
    /\ \/ UNCHANGED asks
       \/ asks < MaxAsks /\ asks' = asks + 1
    /\ ended' = [ended EXCEPT !.lost = @ + 1] /\ UNCHANGED begun

Quit == stage = "waiting" /\ stage' = "over" /\ UNCHANGED <<begun, asks, ended>>

Next == Begin \/ Ask \/ Answer \/ Abandon \/ Lose \/ Quit

Safety == Init /\ [][Next]_contractVars

Spec == Safety
=============================================================================
