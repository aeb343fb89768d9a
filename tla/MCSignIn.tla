------------------------------ MODULE MCSignIn ------------------------------
(* The sign-in of one page, with a server that has access control and one  *)
(* that has none.                                                          *)
EXTENDS SignIn

CONSTANTS p1, s1, s2
=============================================================================
