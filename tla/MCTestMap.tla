----------------------------- MODULE MCTestMap -----------------------------
(***************************************************************************)
(* TestMap for TLC: package b imports package a, and package c has no      *)
(* tests.  Two lines of a are covered by overlapping groups of its tests,  *)
(* one of them from b as well.                                             *)
(***************************************************************************)
EXTENDS TestMap

MCTestsIn   == [a |-> <<"a1", "a2", "a3">>, b |-> <<"b1">>, c |-> << >>]
MCLinks     == [a |-> {"a", "b"}, b |-> {"b"}, c |-> {}]
MCPkgOfLine == [l1 |-> "a", l2 |-> "a", l3 |-> "b"]
MCCovers    == [a1 |-> {"l1", "l2"}, a2 |-> {"l1", "l2"}, a3 |-> {"l1"},
                b1 |-> {"l1", "l3"}]
=============================================================================
