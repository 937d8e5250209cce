-------------------------------- MODULE MCTrace --------------------------------
(***************************************************************************)
(* Trace with two contexts.  The fields are one that fits, two of which    *)
(* the second does not fit, or one of a kind that no known field has.      *)
(***************************************************************************)
EXTENDS Trace

CONSTANTS c1, c2

MCContexts == {c1, c2}
MCSpanIds == 1 .. 2
MCPayloads ==
  { << [name |-> "message", kind |-> "debug"] >>,
    << [name |-> "size", kind |-> "u64"], [name |-> "message", kind |-> "debug"] >>,
    << [name |-> "message", kind |-> "bool"] >> }
MCParentKinds == {"Current"}
MCGarbledKinds == {"Event", "SpanClosed", "SpanExited"}
MCBootText == {2}
=============================================================================
