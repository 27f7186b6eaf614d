---------------------------- MODULE MCWorkspace -----------------------------
(***************************************************************************)
(* Workspace for TLC: a name that is not its slug, and one that is the     *)
(* slug which a second project of the first name gets.                     *)
(***************************************************************************)
EXTENDS Workspace, TLC

MCNames   == {<<"A">>, <<"a", 2>>}
MCSlugify == <<"A">> :> <<"a">> @@ <<"a", 2>> :> <<"a", 2>>
=============================================================================
