--------------------------- MODULE MCCommandLog ----------------------------
(* Small instances of CommandLog for TLC.                                  *)
EXTENDS CommandLog

CONSTANTS api, cli
TwoOperators == {api, cli}
=============================================================================
