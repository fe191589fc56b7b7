----------------------- MODULE MCPartitionLifecycle -----------------------
(* One partition: the goroutines of two share nothing, and topicInfoLoop   *)
(* and main, which meet at a partition's channel, are both here.           *)
EXTENDS PartitionLifecycle

CONSTANT p1
=============================================================================
