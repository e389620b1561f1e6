------------------------------ MODULE MCPaging ------------------------------
(* Four items whose field has one of three values or is missing, pages of  *)
(* one or two items, and one change during the walk.                       *)
EXTENDS Paging

MCNumbers == {0, 1, 2}
MCLimits == {1, 2}
=============================================================================
