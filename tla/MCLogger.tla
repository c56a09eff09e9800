------------------------------ MODULE MCLogger ------------------------------
(***************************************************************************)
(* The loggers, for model checking.                                        *)
(***************************************************************************)
EXTENDS Logger

\* A message of two lines, of which the console takes both, and one of which
\* it takes the second.
MCKind == {<<"debug", "debug">>, <<"trace", "debug">>}
=============================================================================
