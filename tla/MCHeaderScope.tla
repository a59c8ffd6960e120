---------------------------- MODULE MCHeaderScope ----------------------------
(***************************************************************************)
(* An instance of HeaderScope for TLC: three users, two of them on one     *)
(* attachment.  Names of users and attachments are interchangeable, so     *)
(* that one assignment stands for all that use both attachments.           *)
(***************************************************************************)
EXTENDS HeaderScope, TLC

CONSTANTS u1, u2, u3, s1, s2

MCInit == Init /\ at = (u1 :> s1 @@ u2 :> s1 @@ u3 :> s2)
MCSpec == MCInit /\ [][Next]_vars /\ Fairness
=============================================================================
