------------------------ MODULE MCConsumerLifecycle ------------------------
(* Two leader nodes: the smallest assignment in which one fetcher fails    *)
(* while another still processes.                                          *)
EXTENDS ConsumerLifecycle
=============================================================================
