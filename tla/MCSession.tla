------------------------------ MODULE MCSession ------------------------------
(* Two tests, with one retry each.                                           *)
EXTENDS Session

TwoTests == <<"first", "second">>
===============================================================================
