---------------------------- MODULE MCRegistryHub ----------------------------
(* A company registry, a team's that overrides it, and a repository that   *)
(* does not validate.                                                      *)
EXTENDS RegistryHub, TLC

CONSTANTS n1, n2, p, q

Only(ns, config) == [n \in Namespaces |-> IF n = ns THEN config ELSE None]
Valid(layers, others) ==
  [valid |-> TRUE, users |-> {User}, layers |-> layers, others |-> others]

CompanyAndTeam == Valid(<<Only(n1, p), Only(n1, q)>>, <<>>)
CompanyOnly    == Valid(<<Only(n1, p)>>, <<Only(n1, q)>>)
BothEditions   == {CompanyAndTeam, CompanyOnly}
Broken         == [CompanyOnly EXCEPT !.valid = FALSE]
AllEditions    == BothEditions \cup {Broken}
=============================================================================
