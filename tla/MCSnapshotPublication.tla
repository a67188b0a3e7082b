------------------------ MODULE MCSnapshotPublication ------------------------
(***************************************************************************)
(* Two objects, in one publication scope or in one each, and runs over     *)
(* one of them or both.                                                    *)
(***************************************************************************)
EXTENDS SnapshotPublication

CONSTANTS o1, o2, day1, day2

OneScope == [o \in {o1, o2} |-> day1]
TwoScopes == [o \in {o1, o2} |-> IF o = o1 THEN day1 ELSE day2]

EveryObject == {{o1, o2}}
OneObject == {{o1}}
OverlappingRanges == {{o1}, {o1, o2}}
==============================================================================
