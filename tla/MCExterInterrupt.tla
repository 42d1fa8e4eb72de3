-------------------------- MODULE MCExterInterrupt --------------------------
EXTENDS ExterInterrupt

Lengths == <<2, 2>>
OneCall == <<3>>
Words   == Message \X (1 .. 4)
OneUnit == [p \in Packet |-> 0]

\* What a state is taken for: words that have left the ring, and the variables
\* of calls that are over, are not read again, and which thread makes a call
\* is told by nothing else.
InUse ==
    <<Held, rdp, lock, waiting, rpc,
      {<<wpc[w], word[w], no_buffer[w], nxwrp[w], call[w]>> :
           w \in {v \in Writers : Calling(v)}},
      n2asem, uae_int_requested, calls,
      exterVars, cmds, port, processVars, threadVars>>
=============================================================================
