------------------------------- MODULE MCSigV4 -------------------------------
(* Model-checking instance of SigV4: one key pair, two bodies, a           *)
(* presigned URL valid for one second, and a clock running to 2 so that   *)
(* a delivery can come after an expiry; routing path style, or virtual-  *)
(* host style under the suffix "gw".                                        *)
EXTENDS SigV4, TLC

MCBodies == {<<1>>, <<2>>}

\* --virtual_host_suffix unset (the default, main.cpp:37) or "gw".
MCNoVHost == <<>>
MCVHostGw == <<103, 119>>
=============================================================================
