------------------------------ MODULE MC_Maps ------------------------------
(* The header maps with the four special keys, two plain header names and  *)
(* two values; instances for the runs of Maps.                             *)
EXTENDS Maps

CONSTANTS NotFoundV, NilV

KX == <<"x">>
KY == <<"y">>
MCKeys == {KPath, KMethod, KScheme, KAuthority, KX}
\* Keys that are proper prefixes of special keys: ":", ":p" and the empty key.
MCPrefixKeys == {KPath, <<":">>, <<":", "p">>, <<>>, KX}
MCVals == {"v1"}
MCShims == << [key |-> <<"s">>, val |-> "sv"] >>
=============================================================================
