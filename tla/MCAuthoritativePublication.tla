--------------------- MODULE MCAuthoritativePublication ---------------------
(***************************************************************************)
(* The archive of the references pipeline, whose later content has no rows *)
(* for one of the tables; or source files with one table, in two scopes:   *)
(* the runner takes any grouping, though market_history has one file per   *)
(* source date and one scope for it.                                       *)
(***************************************************************************)
EXTENDS AuthoritativePublication

CONSTANTS o1, o2, o3, day1, day2, first, second, bad, types, groups

TwoScopes == [o \in Object |-> IF o = o3 THEN day2 ELSE day1]

OneTable == [c \in Content |-> Table]
GroupsSkipped == [c \in Content |-> IF c = second THEN {types} ELSE Table]

Reverted == [o \in Object |-> <<first, second, first>>]
OneUnreadable == [o \in Object |-> CASE o = o1 -> <<bad>>
                                     [] o = o2 -> <<first, second>>
                                     [] o = o3 -> <<first>>]
=============================================================================
