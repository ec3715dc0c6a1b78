---------------------------- MODULE MCAspireLoop ----------------------------
(* AspireLoop with the constants its .cfg files give.                      *)
EXTENDS AspireLoop
=============================================================================
