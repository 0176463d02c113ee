---------------------------- MODULE MCPrefixIndex ----------------------------
(* Model-checking instance of PrefixIndex: one-character tokens a and b,   *)
(* sequences of up to two tokens, objects of one and three bytes, so       *)
(* that usable byte counts are clamped and ranged reads cut an object.     *)
EXTENDS PrefixIndex, TLC

MCTokens == {<<"a">>, <<"b">>}

MCData == {<<1>>, <<1, 2, 3>>}

\* The CLI default (0, proportional sizing) and one byte per token.
MCBytesPerToken == {0, 1}
=============================================================================
