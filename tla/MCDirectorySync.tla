---------------------------- MODULE MCDirectorySync ----------------------------
(* Finite instances of DirectorySync. *)
EXTENDS DirectorySync, TLC

CONSTANTS a1, a2, s1, s2, p1, p2, l1, l2, c1

MCListings ==
    {Staff,
     Listing(Roles),
     [Staff EXCEPT !.usable = FALSE],
     [Staff EXCEPT !.country = c1]}

\* The address of the second account belongs to one subject, then to another.
MCTokens == {<<s1, a2>>, <<s2, a2>>}
================================================================================
