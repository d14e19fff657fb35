----------------------------- MODULE MCDistLock -----------------------------
(* DistLock for TLC: a few contenders of one lock path.                    *)
EXTENDS DistLock
=============================================================================
