------------------------------- MODULE MCWal -------------------------------
(* A small instance of Wal for TLC: two orders that rest, each of which may *)
(* be cancelled once; an id may be used again after its cancel.             *)
EXTENDS Wal, FiniteSets, SequencesExt

TestOps == [kind : {"submit", "cancel"}, id : {1, 2}]

\* The live ids after a sequence of operations.
LiveAfter(s) ==
  {i \in {1, 2} :
     LET about == {k \in DOMAIN s : s[k].id = i}
     IN  about # {} /\ \E k \in about : s[k].kind = "submit" /\ \A j \in about : j <= k}

TestLegal ==
  {s \in BoundedSeq(TestOps, 4) :
     \A k \in DOMAIN s :
       s[k].kind = "submit" <=> s[k].id \notin LiveAfter(SubSeq(s, 1, k - 1))}
=============================================================================
