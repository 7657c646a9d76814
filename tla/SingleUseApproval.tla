------------------------- MODULE SingleUseApproval -------------------------
(***************************************************************************)
(* What an approval promises: a request waits for a person, is approved or *)
(* rejected once, and an approval is consumed, and then used, at most      *)
(* once, unless it expires first.  The record of a decision that is not    *)
(* final may be lost, a final one stays; an approval that was consumed     *)
(* need not be used.                                                       *)
(***************************************************************************)
EXTENDS Integers

CONSTANT Decisions

VARIABLES
  status,  \* where each decision stands
  uses     \* how often its call was let through

Init ==
  /\ status = [d \in Decisions |-> "absent"]
  /\ uses = [d \in Decisions |-> 0]

Move(d, from, to) ==
  /\ status[d] = from
  /\ status' = [status EXCEPT ![d] = to]
  /\ UNCHANGED uses

Use(d) ==
  /\ status[d] = "consumed"
  /\ uses[d] = 0
  /\ uses' = [uses EXCEPT ![d] = 1]
  /\ UNCHANGED status

Next ==
  \E d \in Decisions :
    \/ Move(d, "absent", "pending")
    \/ \E verdict \in {"approved", "rejected"} : Move(d, "pending", verdict)
    \/ \E end \in {"consumed", "expired"} : Move(d, "approved", end)
    \/ \E from \in {"absent", "pending", "approved"} : Move(d, from, "torn")
    \/ Use(d)

Spec == Init /\ [][Next]_<<status, uses>>
=============================================================================
