--------------------------- MODULE MCRegistration ---------------------------
(* Three registrations, the last of them with a manual payment: each with a *)
(* token of its own, or the first two with the same one.                    *)
EXTENDS Registration

CONSTANTS r1, r2, r3, t1, t2, t3

MCRequest == {r1, r2, r3}
MCManual == {r3}
MCToken == {t1, t2, t3}
MCShown == {s \in [MCRequest -> MCToken] :
               s[r1] = t1 /\ s[r2] \in {t1, t2} /\ s[r3] = t3}
=============================================================================
