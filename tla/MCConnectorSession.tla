------------------------- MODULE MCConnectorSession -------------------------
(***************************************************************************)
(* An instance of ConnectorSession for TLC: limits of two per window of    *)
(* two ticks and three a day, so that each limit is met and left again.    *)
(***************************************************************************)
EXTENDS ConnectorSession

MCRetryAfter == {0, 1}
=============================================================================
