---------------------------- MODULE MCForkServer ----------------------------
(* Instances of ForkServer for TLC.                                         *)
EXTENDS ForkServer

\* Every way to build the two sides in which the handshake cannot go astray.
SoundOptions == {o \in Option : Denies(o) => o.shmem}

=============================================================================
