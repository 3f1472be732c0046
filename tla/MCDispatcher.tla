---------------------------- MODULE MCDispatcher ----------------------------
(* Instances of Dispatcher for TLC. *)
EXTENDS Dispatcher, TLC

CONSTANTS r1, r2, r3, r4, i1, i2, i3, m1, m2, small

OneSlice == <<small>>
\* Two MODEL_IDs whose service names agree, and two requests for a third one.
IdMixed == [r \in Requests |-> IF r = r1 THEN i1 ELSE IF r = r2 THEN i2 ELSE i3]
NameMixed == [i \in Ids |-> IF i = i3 THEN m2 ELSE m1]
=============================================================================
