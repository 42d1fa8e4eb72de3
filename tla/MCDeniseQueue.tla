--------------------------- MODULE MCDeniseQueue ----------------------------
EXTENDS DeniseQueue

\* What a state is taken for: entries of the ring that are not in flight, and
\* the item of a CPU thread that is queueing nothing, are written before they
\* are read again.
InUse ==
    <<[i \in 0 .. Chunks - 1 |->
          IF \/ \E k \in Pending : Masked(k) = i
             \/ cpu = "publish" /\ Masked(rga_queue_write) = i
          THEN rga_queue[i] ELSE NoEntry],
      rga_queue_read, rga_queue_write, read_sem, write_sem, beamVars,
      thread_debug_lock, quit_program, cpu,
      IF cpu \in {"wait", "fill", "publish", "post"} THEN item ELSE NoEntry,
      denise>>
=============================================================================
