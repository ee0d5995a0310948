------------------------- MODULE MCPolicyCatalogue -------------------------
EXTENDS PolicyCatalogue

CONSTANTS t1, t2, n1, n2, ann, bob

West  == [u \in {ann, bob} |-> IF u = ann THEN 0 ELSE -1]
Years == [d \in 0..4 |-> IF d < 2 THEN 0 ELSE 2]
Starts == {1}

Made ==
  {[name |-> n1, terms |-> t2, from |-> 1, to |-> NoDate],
   [name |-> n2, terms |-> t1, from |-> 2, to |-> 3]}

FileRow(user, hire, name, terms) ==
  [user |-> user, hire |-> hire, name |-> name, terms |-> terms]

RowsImported == {FileRow(ann, 1, NoName, t2), FileRow(bob, 0, n1, t1)}

\* Two rows each: who is first, who names the policy (t1 is also the name the
\* report derives from those terms), who only states its terms; the second
\* starts late enough for a policy that closes first.
FilesImported ==
  {<<FileRow(ann, 1, x, t), FileRow(bob, 3, y, t2)>> :
     x \in {NoName, n1}, y \in {NoName, n1, t1}, t \in {t1, t2}}
=============================================================================
