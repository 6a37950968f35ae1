--------------------------- MODULE AccountSession ---------------------------
(***************************************************************************)
(* What signing in and out promises the user of the application: the       *)
(* account that is signed in changes only to the account the user asked    *)
(* for last and has not cancelled since, or to nobody.                     *)
(***************************************************************************)
CONSTANTS Users, NoUser

VARIABLES
  user,     \* the account that is signed in
  wanted    \* the account a sign-in is under way for

vars == <<user, wanted>>

Init == user = NoUser /\ wanted = NoUser

Want(u) == wanted' = u /\ UNCHANGED user

SignIn == wanted # NoUser /\ user' = wanted /\ wanted' = NoUser

GiveUp == wanted' = NoUser /\ UNCHANGED user

SignOut == user' = NoUser /\ wanted' = NoUser

Next == (\E u \in Users : Want(u)) \/ SignIn \/ GiveUp \/ SignOut

Spec == Init /\ [][Next]_vars
=============================================================================
