---------------------------- MODULE MCDrbccFrame ----------------------------
(* The model-checking run of DrbccFrame: an acknowledgement, a message     *)
(* with the three special bytes and one that ends with a zero; every       *)
(* single bit of a byte may be inverted, and those that turn one special   *)
(* byte into another.                                                      *)
EXTENDS DrbccFrame

MCPayloads == {<<128>>, <<16, 251, 252>>, <<3, 0>>}
MCMasks == {1, 2, 4, 8, 16, 32, 64, 128, 6, 7}
MCNoise == {0, 250, 251, 252}
=============================================================================
