--------------------------- MODULE MCOrchestrate ----------------------------
(* Instances of Orchestrate for TLC. *)
EXTENDS Orchestrate, TLC

CONSTANTS j1, j2, anypoint, file, shop, bank

OneApp == [j \in Jobs |-> shop]
TwoApps == j1 :> shop @@ j2 :> bank

\* A run of one case, and one of two sources; the last expectation is a regex
\* that does not compile, in a case whose lines can never be found.
SomeSources == j1 :> <<anypoint>> @@ j2 :> <<anypoint, file>>
SomeExpected == j1 :> <<{"done"}>> @@ j2 :> <<{"done"}, {"done"}>>
LastCase == {<<j2, 2>>}

\* One case each.
SingleSource == [j \in Jobs |-> <<anypoint>>]
SingleExpected == [j \in Jobs |-> <<{"done"}>>]

DoneToken == {"done"}
None == {}
Anypoint == {anypoint}
=============================================================================
