------------------------- MODULE MCBalanceTransactions -------------------------
(* Finite instances of BalanceTransactions. *)
EXTENDS BalanceTransactions, TLC

CONSTANTS s1, s2

\* A leave booked early, a trip of two dates before it, and a change to the former.
MCLeaveDays == <<{2}, {0, 1}, {3}>>
MCOriginal == <<NoRequest, NoRequest, 1>>

MCSymmetry == Permutations(Sessions)
================================================================================
