------------------------------ MODULE MCCatalog ------------------------------
(***************************************************************************)
(* Model-checking instance of Catalog: two dogs, a cat and a document      *)
(* without a category; one word that a dog and the cat contain.  Every     *)
(* environment, with no query failing, the list's or all of them.          *)
(***************************************************************************)
EXTENDS Catalog, TLC

CONSTANTS dog, cat, word, d1, d2, c1, n1

MCItems == {d1, d2, c1, n1}
MCTypeOf == (d1 :> dog) @@ (d2 :> dog) @@ (c1 :> cat) @@ (n1 :> Blank)
MCWordsIn == (d1 :> {}) @@ (d2 :> {word}) @@ (c1 :> {word}) @@ (n1 :> {})
MCSnapshots == {<<>>, <<c1, d1, d2, n1>>, <<d1, c1, d2>>}

MCEnvironments == {e \in Environment : e.failing \in {{}, {"list"}, Kinds}}
==============================================================================
