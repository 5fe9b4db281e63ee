----------------------------- MODULE BlockSizes -----------------------------
(***************************************************************************)
(* pkg/translate/block.go: the block sizes topograph gives to Slurm, from  *)
(* the numbers of nodes in the blocks and from the sizes an administrator  *)
(* asks for.                                                               *)
(***************************************************************************)
EXTENDS Integers, Sequences, FiniteSetsExt, SequencesExt

\* findMinDomainSize
findMinDomainSize(sizes) == IF sizes = <<>> THEN -1 ELSE Min(ToSet(sizes))

\* int(math.Log2(n)): how many doublings of 1 do not exceed n; for n = 0 a
\* negative number.
Log2(n) == IF n = 0 THEN -1 ELSE Cardinality({k \in 1..n : 2 ^ k <= n})

\* possiblebs: the sizes of the levels that n blocks allow.
possiblebs(base, n) == {2 ^ l * base : l \in 0..Log2(n)}

\* The domain size the request is measured against: with fake nodes every
\* block can be filled up to the base size that is asked for.
minDomainSize(sizes, requested, useFake) ==
    IF useFake /\ requested # <<>> THEN requested[1] ELSE findMinDomainSize(sizes)

\* Mutant: only the base size of the request is checked.
AcceptedAnyLevel(sizes, requested, useFake) ==
    /\ requested # <<>>
    /\ requested[1] > 0
    /\ requested[1] <= minDomainSize(sizes, requested, useFake)

\* The loop over requestedBlockSizes runs to its end.
Accepted(sizes, requested, useFake) ==
    /\ requested # <<>>
    /\ requested[1] > 0
    /\ requested[1] <= minDomainSize(sizes, requested, useFake)
    /\ ToSet(requested) \subseteq possiblebs(requested[1], Len(sizes))

\* getBlockSize.  The default sizes start with the smallest domain size, also
\* when the number of levels is negative.
getBlockSize(sizes, requested, useFake) ==
    LET base == minDomainSize(sizes, requested, useFake)
    IN  IF Accepted(sizes, requested, useFake) THEN requested
        ELSE <<base>> \o [l \in 1..Log2(Len(sizes)) |-> 2 ^ l * base]
=============================================================================
