------------------------------ MODULE MCMockDB ------------------------------
(* Two users, two keys, three entries: one user's two and another's one; a *)
(* text whose number is NaN, and the patterns of one key and of all.       *)
EXTENDS MockDB

CONSTANTS u1, u2, k1, k2, text

MCUsers    == {u1, u2}
MCKeys     == {k1, k2}
MCEntries  == {<<u1, k1>>, <<u1, k2>>, <<u2, k1>>}
MCPatterns == {{k1}, MCKeys}
MCAmounts  == {1}
MCTtls     == {0, 1}
MCTexts    == {text}
MCNumOf    == [t \in MCTexts |-> NaN]
=============================================================================
