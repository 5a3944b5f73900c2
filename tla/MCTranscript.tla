---------------------------- MODULE MCTranscript ----------------------------
EXTENDS Transcript

CONSTANTS k1, k2, k3

Hashes == {k1, k2, k3}

(* A second, and its jitter rounded up.                                    *)
SleepOnce == <<{1, 2}>>
=============================================================================
