----------------------------- MODULE FixedWindow -----------------------------
(***************************************************************************)
(* What a fixed-window rate limiter promises, whatever it is made of: a    *)
(* window opens with the first hit on a key, every hit is counted, and the *)
(* window does not close before the key's time to live has gone by.  It    *)
(* says nothing of when an overdue window closes: that is liveness.        *)
(***************************************************************************)
EXTENDS Integers

CONSTANTS Keys,      \* the counters
          Lifetime   \* [Keys -> Nat \ {0}], ticks a window must last

VARIABLES hits,      \* hits[k]: hits in the open window of k, 0 if none is open
          age        \* age[k]: ticks since the window opened, up to Lifetime[k]

vars == <<hits, age>>

Init == /\ hits = [k \in Keys |-> 0]
        /\ age  = [k \in Keys |-> 0]

Hit(k) == /\ hits' = [hits EXCEPT ![k] = @ + 1]
          /\ UNCHANGED age

Older(k) == IF hits[k] > 0 /\ age[k] < Lifetime[k] THEN age[k] + 1 ELSE age[k]

(* A tick ages every open window and closes some of those that are due. *)
Tick == \E closed \in SUBSET {k \in Keys : Older(k) >= Lifetime[k]} :
          /\ hits' = [k \in Keys |-> IF k \in closed THEN 0 ELSE hits[k]]
          /\ age'  = [k \in Keys |-> IF k \in closed THEN 0 ELSE Older(k)]

Next == Tick \/ \E k \in Keys : Hit(k)

Spec == Init /\ [][Next]_vars
=============================================================================
