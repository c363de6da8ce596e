---------------------------- MODULE MCRunDispatch ----------------------------
(* Workflows for the instances of RunDispatch that TLC checks.              *)
EXTENDS RunDispatch

ClickOnly == <<"click">>
ExtractOnly == <<"extract">>
GatedClick == <<"approval", "click">>
=============================================================================
