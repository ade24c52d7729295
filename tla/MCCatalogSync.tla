--------------------------- MODULE MCCatalogSync ---------------------------
(* A product with two variants, and a plain one behind it.                 *)
EXTENDS CatalogSync

StairsThenBarrel == <<"stairs", "barrel">>
OakAndBirch == [stairs |-> <<"oak", "birch">>, barrel |-> <<>>]
=============================================================================
