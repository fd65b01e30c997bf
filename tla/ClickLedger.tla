----------------------------- MODULE ClickLedger -----------------------------
(***************************************************************************)
(* What counting clicks promises, whatever the queue and its worker do: a  *)
(* click that was granted is counted or dropped, a dropped one is never    *)
(* counted and a counted one never dropped, a click is counted once and    *)
(* again MaxRepeats times at most, a link's total moves by one for each    *)
(* count and never otherwise while the link is there, and the total of a   *)
(* link that is gone is zero for good.                                     *)
(***************************************************************************)
EXTENDS Integers

CONSTANTS Clicks, Links, Null,
          MaxRepeats   \* times a click can be counted once more

VARIABLES phase,   \* phase[c]: "none", "pending", "counted" or "dropped"
          of,      \* of[c]: the link a click is on
          times,   \* times[c]: how often it was counted
          total,   \* total[l]: the count of a link
          gone     \* links that are deleted

ledger == <<phase, of, times, total, gone>>

Init == /\ phase = [c \in Clicks |-> "none"]
        /\ of = [c \in Clicks |-> Null]
        /\ times = [c \in Clicks |-> 0]
        /\ total = [l \in Links |-> 0]
        /\ gone = {}

(* A click is owed to its link: a redirect was answered, or its job was    *)
(* sent twice.                                                             *)
Grant(c, l) == /\ phase[c] = "none"
               /\ phase' = [phase EXCEPT ![c] = "pending"]
               /\ of' = [of EXCEPT ![c] = l]
               /\ UNCHANGED <<times, total, gone>>

Count(c) == /\ phase[c] \in {"pending", "counted"}
            /\ of[c] \notin gone
            /\ times[c] < 1 + MaxRepeats
            /\ phase' = [phase EXCEPT ![c] = "counted"]
            /\ times' = [times EXCEPT ![c] = @ + 1]
            /\ total' = [total EXCEPT ![of[c]] = @ + 1]
            /\ UNCHANGED <<of, gone>>

(* A crash can drop several at once. *)
Drop(C) == /\ \A c \in C : phase[c] = "pending"
           /\ phase' = [c \in Clicks |-> IF c \in C THEN "dropped" ELSE phase[c]]
           /\ UNCHANGED <<of, times, total, gone>>

Forget(l) == /\ l \notin gone
             /\ gone' = gone \cup {l}
             /\ total' = [total EXCEPT ![l] = 0]
             /\ UNCHANGED <<phase, of, times>>

Next == \/ \E C \in SUBSET Clicks : Drop(C)
        \/ \E c \in Clicks, l \in Links : Grant(c, l)
        \/ \E c \in Clicks : Count(c)
        \/ \E l \in Links : Forget(l)

Spec == Init /\ [][Next]_ledger
=============================================================================
