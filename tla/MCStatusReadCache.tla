------------------------- MODULE MCStatusReadCache -------------------------
(***************************************************************************)
(* Instances of StatusReadCache for TLC.                                   *)
(***************************************************************************)
EXTENDS StatusReadCache, TLC

CONSTANTS desktop, terminal, full, brief

Symmetry == Permutations(Reads) \cup Permutations(Outer)

\* Two instances in one.  One key and two events; or two keys, whose loads
\* meet in the core they share, and three events, when there is no worker, the
\* files are left alone and each side commits at most once.
OneKey ==
  \E k \in Outer :
    /\ buckets[k] = {} /\ inflight[k] = {}
    /\ \A j \in Jobs : job[j].key # k
    /\ \A c \in Callers : call[c].key # k
CommitsOnly ==
  /\ worker = "failed" /\ watchersHealthy
  /\ files = 0 /\ epoch = 0
  /\ writeGen <= 1 /\ dataVersion <= 1
Bounds == (OneKey /\ events <= 2) \/ CommitsOnly
=============================================================================
