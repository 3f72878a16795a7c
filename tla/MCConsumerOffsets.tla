------------------------- MODULE MCConsumerOffsets -------------------------
(* One partition with up to three messages: batches of one, of two, and    *)
(* the ones a retry or a commit cuts.                                      *)
EXTENDS ConsumerOffsets
=============================================================================
