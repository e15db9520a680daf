------------------------------ MODULE MCClient ------------------------------
(***************************************************************************)
(* Instances of Client for TLC: a blank token, a token with and without    *)
(* blanks around it, and another one.                                      *)
(***************************************************************************)
EXTENDS Client

EnvironmentsDef == {<<" ">>, <<"a">>, <<"a", " ">>, <<"b">>}

=============================================================================
