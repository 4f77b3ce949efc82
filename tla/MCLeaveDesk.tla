------------------------------ MODULE MCLeaveDesk -----------------------------
(* Instances of LeaveDesk for model checking. *)
EXTENDS LeaveDesk, TLC

CONSTANTS s1, s2, r1, r2

\* They overlap, and fit the quota each but not together.
TwoRequests ==
  r1 :> [from |-> 0, to |-> 1, halfDay |-> FALSE]
  @@ r2 :> [from |-> 1, to |-> 1, halfDay |-> FALSE]

\* An arrival without an end, and no status.
ByHand == {[in |-> 1, out |-> NoTime, status |-> "derived"]}
===============================================================================
