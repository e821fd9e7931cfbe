---------------------------- MODULE MCEventQueue ----------------------------
(* Two calls of one library: m1, m2 are main events and p1 a placeholder.  *)
EXTENDS EventQueue

CONSTANTS m1, m2, p1, main, placeholder

MCEvents == {m1, m2, p1}
MCTypes == {main, placeholder}
MCPlaceholders == {p1}
MCTypeOf == [e \in MCEvents |-> IF e = p1 THEN placeholder ELSE main]
=============================================================================
