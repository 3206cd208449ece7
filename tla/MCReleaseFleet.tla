---------------------------- MODULE MCReleaseFleet ----------------------------
(***************************************************************************)
(* The fleet in two groups of its own; a Site case in a group of its own;  *)
(* and attempts that follow each other in one persistent group.            *)
(***************************************************************************)
EXTENDS ReleaseFleet

Case(persistent, site, bound, slots, attempts, product) ==
  [persistent |-> persistent, site |-> site, bound |-> bound, slots |-> slots,
   attempts |-> attempts, followed |-> {1}, product |-> product]

TheScenarios ==
  {Case(FALSE, FALSE, FALSE, <<"one", "two">>, {1}, "instance"),
   Case(FALSE, TRUE, TRUE, <<"existing">>, {1}, "vault"),
   Case(TRUE, TRUE, FALSE, <<"enabled">>, {1, 2}, "instance"),
   Case(TRUE, TRUE, TRUE, <<"existing">>, {1}, "vault")}
==============================================================================
