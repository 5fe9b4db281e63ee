----------------------------- MODULE HostLists -----------------------------
(***************************************************************************)
(* internal/cluset: lists of host names in the short form "abc[08-10,17]", *)
(* which pdsh gets as its targets and which Slurm reads in every line of   *)
(* the configuration.                                                      *)
(*                                                                         *)
(* A name is a record: what comes before its last digits, how many digits  *)
(* there are, and their value.  A name without digits has width 0.         *)
(***************************************************************************)
EXTENDS Integers, Sequences, FiniteSetsExt, SequencesExt

\* How many digits a number has without leading zeros: one more for every power
\* of ten that it reaches.
Digits(i) == 1 + Cardinality({k \in 1..(i \div 10) : 10 ^ k \in 1..i})

Host(prefix, width, num) == [prefix |-> prefix, width |-> width, num |-> num]

IsHost(x) == x = Host(x.prefix, x.width, x.num) /\ x.width \in Nat /\ x.num \in Nat

\* groups[prefix] after all names of the list, as positions in it: those of names
\* with digits, but a name that is the prefix itself resets the group.
groups(list, prefix) ==
    {i \in DOMAIN list :
        /\ list[i].prefix = prefix
        /\ \A j \in DOMAIN list : j >= i => list[j] # Host(prefix, 0, 0)}

\* sort.Slice: by number, and then in any order; here in that of the list.
Before(list, j, i) ==
    list[j].num < list[i].num \/ (list[j].num = list[i].num /\ j < i)

\* The k-th name is the one with k - 1 before it.
Ordered(list, S) ==
    [k \in 1..Cardinality(S) |->
        list[CHOOSE i \in S : Cardinality({j \in S : Before(list, j, i)}) = k - 1]]

\* atoi(numbers[i]) == atoi(end)+1
Follows(x, y) == y.num = x.num + 1

\* A range begins at the k-th name, or ended before it.
Breaks(numbers, k) ==
    k = 1 \/ k = Len(numbers) + 1 \/ ~Follows(numbers[k - 1], numbers[k])

\* compressRange: the pairs of the first and the last number of each run.
compressRange(numbers) ==
    {<<numbers[r[1]], numbers[r[2]]>> :
        r \in {run \in (DOMAIN numbers) \X (DOMAIN numbers) :
            /\ run[1] <= run[2] /\ Breaks(numbers, run[1]) /\ Breaks(numbers, run[2] + 1)
            /\ \A k \in (run[1] + 1)..run[2] : ~Breaks(numbers, k)}}

\* Compact: an entry per prefix.  A list is a function on the positions that its
\* names have, which need not be consecutive.
Compact(list) ==
    {[prefix |-> p, ranges |-> compressRange(Ordered(list, groups(list, p)))] :
        p \in {list[i].prefix : i \in DOMAIN list}}

\* Expand, and pdsh when it reads such a list: the numbers of a range are
\* printed as wide as its first.
ExpandRange(prefix, first, last) ==
    IF first = last THEN {first}
    ELSE {Host(prefix, Max({first.width, Digits(i)}), i) : i \in first.num..last.num}

Expand(entries) ==
    UNION {IF e.ranges = {} THEN {Host(e.prefix, 0, 0)}
           ELSE UNION {ExpandRange(e.prefix, r[1], r[2]) : r \in e.ranges} : e \in entries}

\* Names that are numbered as printf("%0*d") does, with one width for a prefix.
Regular(names) ==
    \A p \in {x.prefix : x \in names} :
        LET same == {x \in names : x.prefix = p}
        IN  \/ same = {Host(p, 0, 0)}
            \/ \E w \in 1..Max({x.width : x \in same} \cup {1}) :
                   \A x \in same : x.width = Max({w, Digits(x.num)})
=============================================================================
