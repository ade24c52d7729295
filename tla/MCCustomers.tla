---------------------------- MODULE MCCustomers ----------------------------
(* Two markets of one town each; the shop sells to the first or to both.   *)
EXTENDS Customers

TwoMarkets == [US |-> {"boston"}, CA |-> {"toronto"}]
OneOrBoth == {{"US"}, {"US", "CA"}}
=============================================================================
