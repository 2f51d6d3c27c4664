---------------------------- MODULE MCMsdkControl ----------------------------
EXTENDS MsdkControl

\* Two sessions on one socket, or one session and a reconnect.
MCLimits == {[sockets |-> 1, sessions |-> 2, link |-> 2, posted |-> 1],
             [sockets |-> 2, sessions |-> 1, link |-> 1, posted |-> 1]}

===============================================================================
