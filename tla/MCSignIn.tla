------------------------------ MODULE MCSignIn -------------------------------
(* One sign-in challenge until after its end, and one request at a time. *)
EXTENDS SignIn
=============================================================================
