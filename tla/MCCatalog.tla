------------------------------ MODULE MCCatalog ------------------------------
(***************************************************************************)
(* Instances of Catalog for TLC.                                           *)
(***************************************************************************)
EXTENDS Catalog, TLC

CONSTANTS p1, p2

\* Two recipes, the second without a part of the first, and none.
TwoRecipes == {(p1 :> 1) @@ (p2 :> 1), p1 :> 1, <<>>}
OneRecipe == {p1 :> 1}

\* What is looked at together: recipes and their history; production of one
\* simple recipe while goods move and serial tracking is switched; a customer
\* order with its deliveries.
Selling == \E o \in Orders : order[o].status # "none"
Editing == \E f \in Goods :
  Len(versions[f]) > 1 \/ Cardinality(DOMAIN recipe[f]) > 1 \/ (Recorded(f) /\ Latest(f).batch > 1)
Producing ==
  \/ \E b \in Builds : build[b].status # "none"
  \/ \E p \in Products : product[p].moved \/ product[p].serialized
Recategorised == \E p \in Parts : product[p].there /\ product[p].category # "component"
Busy(ops) == \E c \in Clerks : req[c].op \in ops

Focus ==
  /\ Selling => /\ ~Producing /\ ~Recategorised /\ ~Busy({"product", "recipe"})
                /\ \A f \in Goods : ~Recorded(f)
                /\ \A p \in Products : product[p].there
  /\ Producing => /\ ~Editing /\ ~Recategorised /\ ~Busy({"recipe"})
                  /\ ~product[p2].moved /\ \A p \in Products : product[p].there
                  /\ \A c \in Clerks : req[c].op = "product" => req[c].product \in Goods
  /\ \A u \in Units : /\ Len(trail[u]) <= 3
                       /\ Cardinality({i \in DOMAIN trail[u] : trail[u][i].src = "hand"}) <= 1

Symmetry == Permutations(Clerks) \cup Permutations(Units) \cup Permutations(Builds)
              \cup Permutations(LineIds) \cup Permutations(Deliveries)
=============================================================================
