--------------------------- MODULE MCAdminAccess ---------------------------
(* Instances of AdminAccess for TLC.                                       *)
EXTENDS AdminAccess, TLC

CONSTANTS a1, a2,   \* accounts
          w1, w2,   \* passwords
          s1, s2,   \* sessions
          j1, j2    \* jobs
=============================================================================
