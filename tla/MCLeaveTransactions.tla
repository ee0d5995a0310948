-------------------------- MODULE MCLeaveTransactions --------------------------
(* Finite instances of LeaveTransactions. *)
EXTENDS LeaveTransactions, TLC

CONSTANTS s1, s2, s3, anna, bob

\* One date alone: any two of its requests overlap.
MCOnePeriod == {<<1, 1>>}

\* Nobody is asked, or everybody; a removal makes the gates in between.
MCGates == {{}, Approvers}

MCSymmetry == Permutations(Sessions) \cup Permutations(RequestIds) \cup Permutations(Approvers)
================================================================================
