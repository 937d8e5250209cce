-------------------------------- MODULE MCXTask --------------------------------
(***************************************************************************)
(* XTask with two invocations, whatever they are told to do.               *)
(***************************************************************************)
EXTENDS XTask

CONSTANTS p1, p2

MCInvocations == {p1, p2}
=============================================================================
