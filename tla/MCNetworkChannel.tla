-------------------------- MODULE MCNetworkChannel --------------------------
(* Two interfaces whose bits lie in different words, neither at the start of *)
(* the array: a swap may pass one while the other is being set.              *)
EXTENDS NetworkChannel

MCInterface == {1, 2}
=============================================================================
