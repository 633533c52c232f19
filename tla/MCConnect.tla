----------------------------- MODULE MCConnect -----------------------------
(* Two machines in the combinations of roles that differ in who may dial.  *)
EXTENDS Connect

MCNode == {1, 2}
MCRoles == {<<"auto", "auto">>, <<"target", "source">>, <<"source", "auto">>}
=============================================================================
