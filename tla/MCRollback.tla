------------------------------ MODULE MCRollback ------------------------------
(* Small instances of Rollback: three files, one of them out of reach.      *)
EXTENDS Rollback

CONSTANTS a, b, out, old, new

\* One or two files, both orders, the same file twice, and a target outside.
MCTargetLists == {<<a>>, <<a, b>>, <<b, a>>, <<a, a, b>>, <<out, a>>, <<a, out>>, <<>>}
\* Two files, in one order.
MissingFirst == {<<a, b>>}
=============================================================================
