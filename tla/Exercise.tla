------------------------------ MODULE Exercise ------------------------------
(***************************************************************************)
(* What the exercise engine promises the control unit, without its queues, *)
(* its tasks, its clock or its lights: at any time at most one set is      *)
(* being executed, every set gets at most one outcome, and the outcome     *)
(* says whether the two events that followed the set were the two hits of  *)
(* its path, in order.  module Trigger implements it.                      *)
(***************************************************************************)
EXTENDS Naturals, Sequences

CONSTANTS Sets, Events      \* the sets and the events that may arrive

VARIABLES
    set,        \* the set being executed, [id, path], or NoSet
    hit,        \* the events that counted as its first hit: none or one
    outcomes    \* the answers so far, in order

vars == <<set, hit, outcomes>>

NoSet == [id |-> 0, path |-> "TP_UNDEF"]

(* The two hits that solve a directed path, in order.                       *)
Wanted(path) ==
    IF path = "TP_A_TO_B" THEN <<"TE_HIT_BEAM_A", "TE_HIT_BEAM_B">>
                          ELSE <<"TE_HIT_BEAM_B", "TE_HIT_BEAM_A">>

(* A set without a path takes any event for a hit.                          *)
Counts(path, n, event) == path = "TP_UNDEF" \/ event = Wanted(path)[n]

Towards(first) == IF first = "TE_HIT_BEAM_A" THEN "TD_A_TO_B" ELSE "TD_B_TO_A"

Init == set = NoSet /\ hit = <<>> /\ outcomes = <<>>

Accept ==
    /\ set = NoSet /\ set' \in Sets \ {NoSet}
    /\ hit' = <<>>
    /\ UNCHANGED outcomes

(* What may happen to the set that is being executed.                       *)
FirstHit(event) ==
    /\ hit = <<>> /\ Counts(set.path, 1, event)
    /\ hit' = <<event>>
    /\ UNCHANGED <<set, outcomes>>

End == set' = NoSet /\ hit' = <<>>

Answer(outcome) == End /\ outcomes' = Append(outcomes, outcome)

Solve(event) ==
    /\ hit # <<>> /\ Counts(set.path, 2, event)
    /\ Answer([id |-> set.id, solved |-> TRUE, direction |-> Towards(hit[1])])

Fail(event) ==
    /\ ~Counts(set.path, Len(hit) + 1, event)
    /\ Answer([id |-> set.id, solved |-> FALSE, direction |-> "TD_UNKNOWN"])

Cancel == End /\ UNCHANGED outcomes

Execute ==
    /\ set # NoSet
    /\ Cancel \/ \E event \in Events : FirstHit(event) \/ Solve(event) \/ Fail(event)

Next == Accept \/ Execute

Spec == Init /\ [][Next]_vars
=============================================================================
