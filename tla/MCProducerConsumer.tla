------------------------ MODULE MCProducerConsumer ------------------------
(* A small instance of the test program for TLC. *)
EXTENDS ProducerConsumer

\* Two writers and two readers, by their pids.
MCPids == {2, 3, 4, 5}
MCSemIds == {1, 2, 3, 4}
MCHandles == MCPids \X MCSemIds
MCInitCounts == {0, 1, 2}

=============================================================================
