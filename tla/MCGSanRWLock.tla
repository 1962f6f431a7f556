---------------------------- MODULE MCGSanRWLock ----------------------------
(* Four CUDA threads of one SM contend for its lock word.                  *)
EXTENDS GSanRWLock

CONSTANTS t1, t2, t3, t4

MCCudaThreads == {t1, t2, t3, t4}
=============================================================================
