----------------------------- MODULE SavedLogins -----------------------------
(***************************************************************************)
(* What the table of users promises (LoganManager/DataBase.cpp): for each  *)
(* user of each server at most one login is remembered.  A login is        *)
(* stored, or forgotten, one at a time; nobody else's is touched.          *)
(***************************************************************************)
CONSTANTS
    Keys,      \* a user at a server's address
    Records,   \* what is remembered of a login
    None       \* no login is remembered

VARIABLE saved

TypeOK == saved \in [Keys -> Records \cup {None}]

Init == TypeOK

Store(k, r) == saved' = [saved EXCEPT ![k] = r]
Forget(k) == saved' = [saved EXCEPT ![k] = None]

Next == \E k \in Keys : Forget(k) \/ \E r \in Records : Store(k, r)

Spec == Init /\ [][Next]_saved
==============================================================================
