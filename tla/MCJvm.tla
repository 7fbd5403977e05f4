-------------------------------- MODULE MCJvm -------------------------------
(* Two names, of which one begins as the other, and pools that hold them or *)
(* other constants.                                                         *)
EXTENDS Jvm

MCNames == {<<67>>, <<67, 68>>}
MCParsed == {<< >>, <<Other, Utf8(<<67>>)>>}
=============================================================================
