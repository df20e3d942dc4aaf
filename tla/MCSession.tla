----------------------------- MODULE MCSession -----------------------------
(***************************************************************************)
(* An AuthSocket for TLC: a clock of few values, and limits that are        *)
(* positive, negative and no number.                                       *)
(***************************************************************************)
EXTENDS Session

MCPongTimers == {2, -2, Junk}
=============================================================================
