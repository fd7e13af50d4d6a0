------------------------------- MODULE Campaign -------------------------------
(***************************************************************************)
(* What the game promises its players, without SQL, order_index values or  *)
(* requests: a campaign is a line of numbered stages, every player stands  *)
(* somewhere on it and moves forward one stage at a time.                  *)
(***************************************************************************)
EXTENDS Naturals

CONSTANT Users

VARIABLES
    players,    \* accounts still in the game
    published,  \* number of stages published so far
    stage       \* number of stages each account has completed

vars == <<players, published, stage>>

Init ==
    /\ players = Users
    /\ published \in Nat
    /\ stage = [u \in Users |-> 0]

Advance(u) ==
    /\ u \in players
    /\ stage[u] < published
    /\ stage' = [stage EXCEPT ![u] = @ + 1]
    /\ UNCHANGED <<players, published>>

Publish ==
    /\ published' = published + 1
    /\ UNCHANGED <<players, stage>>

Leave(u) ==
    /\ u \in players
    /\ players' = players \ {u}
    /\ stage' = [stage EXCEPT ![u] = 0]
    /\ UNCHANGED published

Next == Publish \/ \E u \in Users : Advance(u) \/ Leave(u)

Spec == Init /\ [][Next]_vars
=============================================================================
