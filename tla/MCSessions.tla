------------------------------- MODULE MCSessions -------------------------------
(***************************************************************************)
(* Two accounts, of which both can become administrators, two requests at  *)
(* a time and three refresh tokens.  A change has one field, or a new      *)
(* password with the unlocking of the account.                             *)
(***************************************************************************)
EXTENDS Sessions

SomeChanges ==
    {[NoChange EXCEPT !.password = TRUE], [NoChange EXCEPT !.admin = "no"],
     [NoChange EXCEPT !.admin = "yes"], [NoChange EXCEPT !.active = "no"],
     [NoChange EXCEPT !.active = "yes", !.password = TRUE]}
=============================================================================
