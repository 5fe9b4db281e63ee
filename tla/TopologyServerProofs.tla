------------------------ MODULE TopologyServerProofs ------------------------
(***************************************************************************)
(* Proofs about TrailingDelayQueue and TopologyServer, for every value of  *)
(* their constants.  The inductive invariant Inv of the queue ties the     *)
(* request ID of the pending item, the locals of run and the store         *)
(* together through the history lastItem.  The server behaves as the queue *)
(* it is built on, so that what is proved of the queue holds of it.  On    *)
(* top of that, what the queue stores is related to what the attempts did. *)
(***************************************************************************)
EXTENDS TopologyServer, MCTrailingDelayQueue, FiniteSetTheorems, TLAPS

----------------------------------------------------------------------------
(* The queue.                                                               *)

Busy == pc \in {"handle", "store"}

\* The ranks are those of a list: no place is taken twice and none is free
\* in front of an entry.
Injective(r) == \A u, v \in Uids : r[u] # 0 /\ r[u] = r[v] => u = v
Dense(r) == \A u \in Uids : \A k \in 1..r[u] : \E v \in Uids : r[v] = k
Ranks(r) == r \in [Uids -> 0..RequestHistorySize] /\ Injective(r) /\ Dense(r)

\* The pending item is the one last submitted under the pending ID, which is
\* the newest ID.
PendingInv ==
    /\ uid = NoUid <=> item = NoItem
    /\ uid # NoUid => uid = issued /\ item = lastItem[uid]

\* run works on the item last submitted under the ID it took.
RunInv ==
    /\ Busy <=> runUid # NoUid
    /\ Busy => /\ runUid <= issued
               /\ runUid # uid
               /\ rank[runUid] = 0
               /\ runItem \in Items
               /\ runItem = lastItem[runUid]
    /\ pc = "store" => runRes \in Completions /\ runRes.item = runItem

StoreInv ==
    \A u \in Uids :
        /\ rank[u] = 0 => completion[u] = NoCompletion
        /\ rank[u] # 0 => /\ u <= issued
                          /\ u # uid
                          /\ completion[u] \in Completions
                          /\ completion[u].item = lastItem[u]

Inv == TypeOK /\ Ranks(rank) /\ PendingInv /\ RunInv /\ StoreInv

----------------------------------------------------------------------------
(* The LRU store.                                                           *)

\* Moving an entry to the front keeps the ranks those of a list.
LEMMA MoveToFrontRanks ==
    ASSUME NEW r, Ranks(r), NEW u \in Uids
    PROVE  Ranks(MoveToFront(r, u))
<1> DEFINE s == MoveToFront(r, u)
<1> USE QueueAssumption
<1>1. r \in [Uids -> 0..RequestHistorySize]
  BY DEF Ranks
<1>2. s \in [Uids -> 0..RequestHistorySize]
  BY <1>1 DEF MoveToFront
<1>3. ASSUME NEW v \in Uids
      PROVE  s[v] = IF v = u THEN 1
                    ELSE IF r[v] = 0 \/ (r[u] # 0 /\ r[v] > r[u]) THEN r[v]
                    ELSE IF r[v] = RequestHistorySize THEN 0
                    ELSE r[v] + 1
  BY DEF MoveToFront
<1> HIDE DEF s
<1>4. Injective(s)
  <2> SUFFICES ASSUME NEW v \in Uids, NEW w \in Uids, s[v] # 0, s[v] = s[w]
               PROVE  v = w
    BY DEF Injective
  <2>1. r[v] \in Nat /\ r[w] \in Nat /\ r[u] \in Nat
    BY <1>1
  <2>2. /\ r[v] # 0 /\ r[v] = r[w] => v = w
        /\ r[v] # 0 /\ r[v] = r[u] => v = u
        /\ r[w] # 0 /\ r[w] = r[u] => w = u
    BY DEF Ranks, Injective
  <2> QED  BY <1>3, <2>1, <2>2
<1>5. Dense(s)
  <2> SUFFICES ASSUME NEW v \in Uids, NEW k \in 1..s[v]
               PROVE  \E w \in Uids : s[w] = k
    BY DEF Dense
  <2>0. /\ k \in Nat \ {0} /\ r[u] \in 0..RequestHistorySize
        /\ r[v] \in 0..RequestHistorySize /\ s[v] \in 0..RequestHistorySize
        /\ k <= s[v] /\ s[u] = 1
    BY <1>1, <1>2, <1>3
  <2>1. CASE k = 1
    BY <2>0, <2>1
  <2>2. CASE k > 1 /\ (r[u] = 0 \/ k <= r[u])
    <3>1. \E w \in Uids : r[w] = k - 1
      <4>1. CASE r[u] = 0
        <5>1. v # u /\ r[v] # 0 /\ s[v] = r[v] + 1
          BY <1>3, <2>0, <2>2, <4>1
        <5>2. k - 1 \in 1..r[v]
          BY <2>0, <2>2, <5>1
        <5> QED  BY <5>2 DEF Ranks, Dense
      <4>2. CASE r[u] # 0
        <5>1. k - 1 \in 1..r[u]
          BY <2>0, <2>2, <4>2
        <5> QED  BY <5>1 DEF Ranks, Dense
      <4> QED  BY <4>1, <4>2
    <3>2. PICK w \in Uids : r[w] = k - 1
      BY <3>1
    <3>3. w # u /\ r[w] # 0 /\ r[w] # RequestHistorySize
      BY <2>0, <2>2, <3>2
    <3>4. s[w] = k
      BY <1>3, <2>0, <2>2, <3>2, <3>3
    <3> QED  BY <3>4
  <2>3. CASE k > 1 /\ r[u] # 0 /\ k > r[u]
    <3>1. v # u /\ r[v] = s[v]
      BY <1>3, <2>0, <2>3 DEF Ranks, Injective
    <3>2. PICK w \in Uids : r[w] = k
      BY <2>0, <3>1 DEF Ranks, Dense
    <3>3. s[w] = k
      BY <1>3, <2>0, <2>3, <3>2
    <3> QED  BY <3>3
  <2> QED  BY <2>0, <2>1, <2>2, <2>3
<1> QED  BY <1>2, <1>4, <1>5 DEF Ranks, s

\* Using an entry of the store evicts nothing and brings nothing in.
LEMMA TouchKeepsEntries ==
    ASSUME NEW r \in [Uids -> 0..RequestHistorySize], NEW u \in Uids, r[u] # 0,
           NEW v \in Uids, Injective(r)
    PROVE  MoveToFront(r, u)[v] = 0 <=> r[v] = 0
BY QueueAssumption DEF MoveToFront, Injective

\* Adding an entry evicts exactly the one in the last place.
LEMMA AddEvictsLast ==
    ASSUME NEW r \in [Uids -> 0..RequestHistorySize], NEW u \in Uids, r[u] = 0,
           NEW v \in Uids, v # u
    PROVE  MoveToFront(r, u)[v] = 0 <=> r[v] \in {0, RequestHistorySize}
BY QueueAssumption DEF MoveToFront

----------------------------------------------------------------------------
(* The invariant.                                                           *)

\* The empty queue satisfies the invariant (NewTrailingDelayQueue).
LEMMA InitInv == Init => Inv
<1> SUFFICES ASSUME Init PROVE Inv
  OBVIOUS
<1> USE QueueAssumption DEF Init
<1>1. TypeOK
  <2>1. shutdown \in BOOLEAN /\ tick \in BOOLEAN
    OBVIOUS
  <2>2. /\ item \in Items \cup {NoItem}
        /\ since \in 0..MaxSince
        /\ uid \in Uids \cup {NoUid}
    OBVIOUS
  <2>3. /\ rank \in [Uids -> 0..RequestHistorySize]
        /\ completion \in [Uids -> Completions \cup {NoCompletion}]
    OBVIOUS
  <2>4. /\ toTick \in 1..Delay
        /\ pc \in {"select", "check", "handle", "store", "stopped"}
    OBVIOUS
  <2>5. /\ runItem \in Items \cup {NoItem}
        /\ runUid \in Uids \cup {NoUid}
        /\ runRes \in Completions \cup {NoCompletion}
        /\ issued \in 0..MaxUid
        /\ lastItem \in [Uids -> Items \cup {NoItem}]
    OBVIOUS
  <2> QED  BY <2>1, <2>2, <2>3, <2>4, <2>5 DEF TypeOK
<1>2. Ranks(rank)
  BY DEF Ranks, Injective, Dense
<1>3. PendingInv /\ RunInv /\ StoreInv
  BY DEF PendingInv, RunInv, StoreInv, Busy
<1> QED  BY <1>1, <1>2, <1>3 DEF Inv

\* Submit keeps the invariant: the pending ID is the newest one, and what was
\* said of the older ones stays true because only lastItem[uid'] changes.
LEMMA SubmitInv == ASSUME Inv, NEW i \in Items, Submit(i) PROVE Inv'
<1> USE QueueAssumption
<1> DEFINE u == IF uid = NoUid THEN issued + 1 ELSE uid
<1>1. /\ u \in Uids /\ u = issued' /\ issued' \in 0..MaxUid /\ issued <= issued'
      /\ uid # NoUid => issued' = issued
      /\ uid = NoUid => u > issued
  BY DEF Inv, TypeOK, PendingInv, Submit, Uids, NoUid
<1>2. TypeOK'
  <2>1. shutdown' \in BOOLEAN /\ tick' \in BOOLEAN
    BY DEF Inv, TypeOK, Submit
  <2>2. /\ item' \in Items \cup {NoItem}
        /\ since' \in 0..MaxSince
        /\ uid' \in Uids \cup {NoUid}
        /\ lastItem' \in [Uids -> Items \cup {NoItem}]
    BY <1>1 DEF Inv, TypeOK, Submit
  <2> QED  BY <1>1, <2>1, <2>2 DEF Inv, TypeOK, Submit, storeVars, runVars
<1>3. Ranks(rank)'
  BY DEF Inv, Submit, storeVars, Ranks, Injective, Dense
<1>4. PendingInv'
  BY <1>1 DEF Inv, TypeOK, PendingInv, Submit, NoUid, Uids
<1>5. RunInv'
  <2>1. Busy => runUid # u /\ runUid \in Uids
    BY <1>1 DEF Inv, TypeOK, RunInv, PendingInv, NoUid, Uids
  <2>2. Busy => lastItem'[runUid] = lastItem[runUid]
    BY <1>1, <2>1 DEF Inv, TypeOK, Submit
  <2> QED  BY <1>1, <2>1, <2>2 DEF Inv, TypeOK, RunInv, Submit, storeVars, runVars, Busy, Uids, NoUid
<1>6. StoreInv'
  <2> SUFFICES ASSUME NEW v \in Uids
               PROVE  /\ rank[v] = 0 => completion[v] = NoCompletion
                      /\ rank[v] # 0 => /\ v <= issued'
                                        /\ v # uid'
                                        /\ completion[v] \in Completions
                                        /\ completion[v].item = lastItem'[v]
    BY DEF StoreInv, Submit, storeVars
  <2>1. rank[v] # 0 => v # u
    BY <1>1 DEF Inv, TypeOK, StoreInv, Uids
  <2> QED  BY <1>1, <2>1 DEF Inv, TypeOK, StoreInv, Submit, Uids
<1> QED  BY <1>2, <1>3, <1>4, <1>5, <1>6 DEF Inv

\* Get keeps the invariant: it only reorders the entries of the store.
LEMMA GetInv == ASSUME Inv, NEW u \in Uids, Get(u) PROVE Inv'
<1> USE QueueAssumption
<1>1. Ranks(rank')
  BY MoveToFrontRanks DEF Inv, Get
<1>2. \A v \in Uids : rank'[v] = 0 <=> rank[v] = 0
  BY TouchKeepsEntries DEF Inv, Ranks, Get, InStore
<1>3. TypeOK'
  <2>1. shutdown' \in BOOLEAN /\ tick' \in BOOLEAN
    BY DEF Inv, TypeOK, Get, clockVars
  <2> QED  BY <1>1, <2>1 DEF Inv, TypeOK, Get, Ranks, queueVars, clockVars, runVars
<1>4. PendingInv' /\ StoreInv'
  BY <1>2 DEF Inv, PendingInv, StoreInv, Get, queueVars
<1>5. RunInv'
  BY <1>2 DEF Inv, TypeOK, RunInv, Get, queueVars, runVars, Busy, NoUid
<1> QED  BY <1>1, <1>3, <1>4, <1>5 DEF Inv

\* The steps that leave the pending item, the store and the locals alone.
LEMMA ClockInv ==
    ASSUME Inv, Shutdown \/ PassTime \/ RunShutdown \/ RunTick \/ RunSkip
    PROVE  Inv'
<1> USE QueueAssumption
<1>1. UNCHANGED <<item, uid, issued, lastItem, rank, completion, runItem, runUid, runRes>>
  BY DEF Shutdown, PassTime, RunShutdown, RunTick, RunSkip, queueVars, storeVars, runVars
<1>2. /\ pc' \in {"select", "check", "handle", "store", "stopped"}
      /\ Busy' <=> Busy
      /\ pc' = "store" => pc = "store"
  BY DEF Inv, TypeOK, Busy, Shutdown, PassTime, RunShutdown, RunTick, RunSkip, runVars
<1>3. shutdown' \in BOOLEAN /\ tick' \in BOOLEAN
  BY DEF Inv, TypeOK, Shutdown, PassTime, RunShutdown, RunTick, RunSkip, clockVars
<1>4. since' \in 0..MaxSince /\ toTick' \in 1..Delay
  BY DEF Inv, TypeOK, Shutdown, PassTime, RunShutdown, RunTick, RunSkip, clockVars
<1>5. TypeOK'
  BY <1>1, <1>2, <1>3, <1>4 DEF Inv, TypeOK
<1>6. Ranks(rank)' /\ PendingInv' /\ StoreInv'
  BY <1>1 DEF Inv, Ranks, Injective, Dense, PendingInv, StoreInv
<1>7. RunInv'
  BY <1>1, <1>2 DEF Inv, RunInv
<1> QED  BY <1>5, <1>6, <1>7 DEF Inv

\* Taking the item keeps the invariant: the pending ID becomes the running one.
LEMMA TakeInv == ASSUME Inv, RunTake PROVE Inv'
<1> USE QueueAssumption DEF RunTake
<1>1. uid \in Uids /\ uid = issued /\ item = lastItem[uid] /\ item \in Items
  BY DEF Inv, TypeOK, PendingInv, Ready, Uids
<1>2. TypeOK'
  <2>1. shutdown' \in BOOLEAN /\ tick' \in BOOLEAN
    BY DEF Inv, TypeOK, clockVars
  <2> QED  BY <1>1, <2>1 DEF Inv, TypeOK, clockVars, storeVars
<1>3. Ranks(rank)'
  BY DEF Inv, storeVars, Ranks, Injective, Dense
<1>4. PendingInv'
  BY DEF PendingInv
<1>5. RunInv'
  <2>1. rank[uid] = 0
    BY <1>1 DEF Inv, TypeOK, StoreInv
  <2> QED  BY <1>1, <2>1 DEF Inv, TypeOK, RunInv, Busy, storeVars, Uids, NoUid
<1>6. StoreInv'
  BY DEF Inv, TypeOK, StoreInv, storeVars, Uids, NoUid
<1> QED  BY <1>2, <1>3, <1>4, <1>5, <1>6 DEF Inv

\* The end of handle keeps the invariant: the result is that of runItem.
LEMMA HandleInv == ASSUME Inv, NEW c \in Statuses, RunHandle(c) PROVE Inv'
<1> USE QueueAssumption DEF RunHandle
<1>1. runItem \in Items /\ runRes' \in Completions /\ runRes'.item = runItem
  BY DEF Inv, RunInv, Busy, Completions
<1>2. TypeOK'
  <2>1. shutdown' \in BOOLEAN /\ tick' \in BOOLEAN
    BY DEF Inv, TypeOK, clockVars
  <2> QED  BY <1>1, <2>1 DEF Inv, TypeOK, queueVars, clockVars, storeVars
<1>3. Ranks(rank)' /\ PendingInv' /\ StoreInv'
  BY DEF Inv, queueVars, storeVars, Ranks, Injective, Dense, PendingInv, StoreInv
<1>4. RunInv'
  BY <1>1 DEF Inv, RunInv, Busy, queueVars, storeVars
<1> QED  BY <1>2, <1>3, <1>4 DEF Inv

\* Storing the result keeps the invariant: what is stored under runUid is the
\* result of lastItem[runUid], and an eviction clears rank and value together.
LEMMA StoreStepInv == ASSUME Inv, RunStore PROVE Inv'
<1> USE QueueAssumption DEF RunStore
<1>1. /\ runUid \in Uids /\ runUid <= issued /\ runUid # uid
      /\ rank[runUid] = 0 /\ runItem = lastItem[runUid]
      /\ runRes \in Completions /\ runRes.item = runItem
  BY DEF Inv, TypeOK, RunInv, Busy
<1>2. Ranks(rank')
  BY <1>1, MoveToFrontRanks DEF Inv
<1>3. rank'[runUid] = 1
  BY <1>1 DEF MoveToFront
<1>4. ASSUME NEW v \in Uids, v # runUid
      PROVE  rank'[v] = 0 <=> rank[v] \in {0, RequestHistorySize}
  BY <1>1, <1>4, AddEvictsLast DEF Inv, Ranks
<1>5. ASSUME NEW v \in Uids, v # runUid
      PROVE  completion'[v] = IF rank[v] # 0 /\ rank'[v] = 0 THEN NoCompletion
                              ELSE completion[v]
  BY <1>5 DEF Evicted
<1>6. TypeOK'
  <2>1. shutdown' \in BOOLEAN /\ tick' \in BOOLEAN
    BY DEF Inv, TypeOK, clockVars
  <2>2. completion' \in [Uids -> Completions \cup {NoCompletion}]
    BY <1>1 DEF Inv, TypeOK
  <2> QED  BY <1>2, <2>1, <2>2 DEF Inv, TypeOK, Ranks, queueVars, clockVars
<1>7. PendingInv' /\ RunInv'
  BY DEF Inv, PendingInv, RunInv, Busy, queueVars
<1>8. StoreInv'
  <2> SUFFICES ASSUME NEW v \in Uids
               PROVE  /\ rank'[v] = 0 => completion'[v] = NoCompletion
                      /\ rank'[v] # 0 => /\ v <= issued
                                         /\ v # uid
                                         /\ completion'[v] \in Completions
                                         /\ completion'[v].item = lastItem[v]
    BY DEF StoreInv, queueVars
  <2>1. CASE v = runUid
    <3>1. completion'[v] = runRes
      BY <2>1
    <3> QED  BY <1>1, <1>3, <2>1, <3>1
  <2>2. CASE v # runUid
    <3>1. rank'[v] # 0 => rank[v] # 0
      BY <1>4, <2>2
    <3> QED  BY <1>5, <2>2, <3>1 DEF Inv, StoreInv
  <2> QED  BY <2>1, <2>2
<1> QED  BY <1>2, <1>6, <1>7, <1>8 DEF Inv

\* Every step of Submit, Get, Shutdown, the clock and run keeps the invariant.
LEMMA StepInv == Inv /\ [Next]_vars => Inv'
<1> SUFFICES ASSUME Inv, [Next]_vars PROVE Inv'
  OBVIOUS
<1>1. CASE \E i \in Items : Submit(i)
  BY <1>1, SubmitInv
<1>2. CASE \E u \in Uids : Get(u)
  BY <1>2, GetInv
<1>3. CASE Shutdown \/ PassTime \/ RunShutdown \/ RunTick \/ RunSkip
  BY <1>3, ClockInv
<1>4. CASE RunTake
  BY <1>4, TakeInv
<1>5. CASE \E c \in Statuses : RunHandle(c)
  BY <1>5, HandleInv
<1>6. CASE RunStore
  BY <1>6, StoreStepInv
<1>7. CASE UNCHANGED vars
  BY <1>7 DEF vars, queueVars, clockVars, storeVars, runVars, Inv, TypeOK, Ranks,
              Injective, Dense, PendingInv, RunInv, StoreInv, Busy
<1> QED  BY <1>1, <1>2, <1>3, <1>4, <1>5, <1>6, <1>7 DEF Next, RunStep

\* The invariant holds in every state of every behaviour of the queue.
THEOREM Invariance == Spec => []Inv
BY InitInv, StepInv, PTL DEF Spec

\* Type correctness (trailing_delay_queue.go).
THEOREM TypeCorrect == Spec => []TypeOK
BY Invariance, PTL DEF Inv

\* The result stored under an ID is that of the last request submitted under
\* it (Submit and run), for any number of submissions and any store size.
THEOREM LastSubmissionWins == Spec => []ResultOfLastSubmission
<1>1. Inv => ResultOfLastSubmission
  BY DEF Inv, StoreInv, ResultOfLastSubmission, InStore
<1> QED  BY <1>1, Invariance, PTL

----------------------------------------------------------------------------
(* No accepted request is lost.                                             *)

Full(r) == \E u \in Uids : r[u] = RequestHistorySize

\* A full store stays full.
LEMMA FullStaysFull ==
    ASSUME NEW r, Ranks(r), Full(r), NEW u \in Uids
    PROVE  Full(MoveToFront(r, u))
<1> USE QueueAssumption
<1> DEFINE s == MoveToFront(r, u)
<1>1. r \in [Uids -> 0..RequestHistorySize]
  BY DEF Ranks
<1>2. PICK w \in Uids : r[w] = RequestHistorySize
  BY DEF Full
<1>3. CASE RequestHistorySize = 1
  <2>1. s[u] = 1
    BY DEF MoveToFront
  <2> QED  BY <1>3, <2>1 DEF Full
<1>4. CASE RequestHistorySize # 1 /\ (w = u \/ r[u] = 0)
  <2>1. RequestHistorySize - 1 \in 1..r[w]
    BY <1>2, <1>4
  <2>2. PICK x \in Uids : r[x] = RequestHistorySize - 1
    BY <2>1 DEF Ranks, Dense
  <2>3. x # u /\ r[x] # 0 /\ r[x] # RequestHistorySize /\ ~(r[u] # 0 /\ r[x] > r[u])
    BY <1>1, <1>2, <1>4, <2>2
  <2>4. s[x] = r[x] + 1
    BY <2>3 DEF MoveToFront
  <2> QED  BY <2>2, <2>4 DEF Full
<1>5. CASE w # u /\ r[u] # 0
  <2>1. r[u] # r[w]
    BY <1>5 DEF Ranks, Injective
  <2>2. r[w] > r[u]
    BY <1>1, <1>2, <2>1
  <2>3. s[w] = RequestHistorySize
    BY <1>2, <1>5, <2>2 DEF MoveToFront
  <2> QED  BY <2>3 DEF Full
<1> QED  BY <1>3, <1>4, <1>5

\* The induction step of NoRequestLost: only RunStore evicts, and only from a
\* store that is full before and after (FullStaysFull).
LEMMA StepNoRequestLost ==
    ASSUME Inv, NoRequestLost, [Next]_vars
    PROVE  NoRequestLost'
<1> USE QueueAssumption
<1> SUFFICES ASSUME NEW u \in Uids, Lost(u)' PROVE Full(rank')
  BY DEF NoRequestLost, Full
<1>0. Lost(u) => Full(rank)
  BY DEF NoRequestLost, Full
<1>1. CASE \E i \in Items : Submit(i)
  <2>1. Lost(u) /\ rank' = rank
    BY <1>1 DEF Lost, Submit, Pending, Running, InStore, Inv, TypeOK, PendingInv, storeVars, runVars,
                Uids, NoUid
  <2> QED  BY <1>0, <2>1
<1>2. CASE \E v \in Uids : Get(v)
  <2>1. PICK v \in Uids : Get(v)
    BY <1>2
  <2>2. InStore(u)' <=> InStore(u)
    BY <2>1, TouchKeepsEntries DEF Inv, Ranks, Get, InStore
  <2>3. Lost(u)
    BY <2>1, <2>2 DEF Lost, Get, Pending, Running, queueVars, runVars
  <2> QED  BY <1>0, <2>1, <2>3, FullStaysFull DEF Inv, Get
<1>3. CASE RunTake
  <2>1. Lost(u) /\ rank' = rank
    BY <1>3 DEF RunTake, Lost, Pending, Running, InStore, storeVars, Inv, TypeOK, RunInv, Busy,
                Uids, NoUid
  <2> QED  BY <1>0, <2>1
<1>4. CASE RunStore
  <2>1. runUid \in Uids /\ rank[runUid] = 0 /\ rank' = MoveToFront(rank, runUid)
    BY <1>4 DEF RunStore, Inv, TypeOK, RunInv, Busy
  <2>2. u # runUid
    <3>1. rank'[runUid] = 1
      BY <2>1 DEF MoveToFront
    <3> QED  BY <3>1 DEF Lost, InStore
  <2>3. rank[u] \in {0, RequestHistorySize}
    BY <2>1, <2>2, AddEvictsLast DEF Lost, InStore, Inv, Ranks
  <2>4. Full(rank)
    <3>1. CASE rank[u] = 0
      BY <1>0, <1>4, <2>2, <3>1 DEF RunStore, Lost, Pending, Running, InStore, queueVars
    <3>2. CASE rank[u] = RequestHistorySize
      BY <3>2 DEF Full
    <3> QED  BY <2>3, <3>1, <3>2
  <2> QED  BY <2>1, <2>4, FullStaysFull DEF Inv
<1>5. CASE \/ Shutdown \/ PassTime \/ RunShutdown \/ RunTick \/ RunSkip
           \/ (\E c \in Statuses : RunHandle(c)) \/ UNCHANGED vars
  <2>1. Lost(u) /\ rank' = rank
    BY <1>5 DEF Shutdown, PassTime, RunShutdown, RunTick, RunSkip, RunHandle, vars, Lost, Pending,
                Running, InStore, queueVars, storeVars, runVars
  <2> QED  BY <1>0, <2>1
<1> QED  BY <1>1, <1>2, <1>3, <1>4, <1>5 DEF Next, RunStep

\* Every ID that Submit returned is pending, being handled or answered, unless
\* the store is full (trailing_delay_queue.go).
THEOREM NothingLost == Spec => []NoRequestLost
<1>1. Init => NoRequestLost
  BY DEF Init, NoRequestLost, Lost
<1>2. Inv /\ NoRequestLost /\ [Next]_vars => NoRequestLost'
  BY StepNoRequestLost
<1> QED  BY <1>1, <1>2, Invariance, PTL DEF Spec

----------------------------------------------------------------------------
(* The life of a request ID.                                                *)

\* Submit opens a new request ID or leaves every stage as it is.
LEMMA SubmitStages ==
    ASSUME Inv, NEW i \in Items, Submit(i)
    PROVE  /\ uid' \in Uids
           /\ Stage(uid) = "open" \/ uid = NoUid
           /\ uid # NoUid => uid' = uid
           /\ uid = NoUid => Stage(uid') = "unused"
           /\ \A v \in Uids : Stage(v)' = IF v = uid' THEN "open" ELSE Stage(v)
<1> USE QueueAssumption
<1>1. uid' \in Uids /\ uid' = issued' /\ issued \in Nat
  BY DEF Inv, TypeOK, PendingInv, Submit, Uids, NoUid
<1>2. Stage(uid) = "open" \/ uid = NoUid
  BY DEF Inv, TypeOK, PendingInv, Stage, Pending, Uids, NoUid
<1>3. uid # NoUid => uid' = uid
  BY DEF Submit
<1>4. uid = NoUid => Stage(uid') = "unused"
  BY <1>1 DEF Submit, Stage, Uids
<1>5. ASSUME NEW v \in Uids
      PROVE  Stage(v)' = IF v = uid' THEN "open" ELSE Stage(v)
  <2>1. CASE v = uid'
    BY <1>1, <2>1 DEF Stage, Pending, Uids
  <2>2. CASE v # uid'
    <3>1. /\ v > issued' <=> v > issued
          /\ Pending(v)' <=> Pending(v)
      BY <1>1, <2>2 DEF Submit, Pending, Inv, TypeOK, PendingInv, Uids, NoUid
    <3>2. (Running(v)' <=> Running(v)) /\ (InStore(v)' <=> InStore(v))
      BY DEF Submit, Running, InStore, storeVars, runVars
    <3> QED  BY <2>2, <3>1, <3>2 DEF Stage
  <2> QED  BY <2>1, <2>2
<1> QED  BY <1>1, <1>2, <1>3, <1>4, <1>5

\* RunTake moves the pending request ID, and no other, to running.
LEMMA TakeStages ==
    ASSUME Inv, RunTake
    PROVE  /\ uid \in Uids
           /\ Stage(uid) = "open"
           /\ runUid = NoUid
           /\ \A v \in Uids : Stage(v)' = IF v = uid THEN "running" ELSE Stage(v)
<1> USE QueueAssumption
<1>1. uid \in Uids /\ uid = issued /\ runUid = NoUid /\ issued' = issued
  BY DEF Inv, TypeOK, PendingInv, RunInv, Busy, RunTake, Ready
<1>2. Stage(uid) = "open"
  BY <1>1 DEF Stage, Pending, Uids
<1>3. ASSUME NEW v \in Uids
      PROVE  Stage(v)' = IF v = uid THEN "running" ELSE Stage(v)
  <2>1. ~Pending(v)' /\ (Running(v)' <=> v = uid) /\ (InStore(v)' <=> InStore(v))
    BY DEF RunTake, Pending, Running, InStore, storeVars, Uids, NoUid
  <2>2. (Pending(v) <=> v = uid) /\ ~Running(v)
    BY <1>1 DEF Pending, Running, Uids, NoUid
  <2> QED  BY <1>1, <2>1, <2>2 DEF Stage, Uids
<1> QED  BY <1>1, <1>2, <1>3

\* RunStore completes the running request ID and may forget completed ones.
LEMMA StoreStages ==
    ASSUME Inv, RunStore
    PROVE  /\ runUid \in Uids
           /\ Stage(runUid) = "running"
           /\ Evicted(rank, runUid) = {v \in Uids : rank[v] = RequestHistorySize}
           /\ \A v \in Evicted(rank, runUid) : Stage(v) = "done" /\ v # runUid
           /\ \A v \in Uids : Stage(v)' = IF v = runUid THEN "done"
                                        ELSE IF v \in Evicted(rank, runUid) THEN "forgotten"
                                        ELSE Stage(v)
<1> USE QueueAssumption
<1>1. /\ runUid \in Uids /\ runUid # uid /\ runUid <= issued /\ rank[runUid] = 0
      /\ rank' = MoveToFront(rank, runUid) /\ runUid' = NoUid /\ uid' = uid /\ issued' = issued
  BY DEF Inv, TypeOK, RunInv, Busy, RunStore, queueVars
<1>2. Stage(runUid) = "running"
  BY <1>1 DEF Stage, Pending, Running, Inv, TypeOK, Uids
<1>3. rank'[runUid] = 1
  BY <1>1 DEF MoveToFront
<1>4. Evicted(rank, runUid) = {v \in Uids : rank[v] = RequestHistorySize}
  <2>1. ASSUME NEW v \in Uids
        PROVE  (rank[v] # 0 /\ rank'[v] = 0) <=> rank[v] = RequestHistorySize
    <3>1. CASE v = runUid
      BY <1>1, <1>3, <3>1
    <3>2. CASE v # runUid
      BY <1>1, <3>2, AddEvictsLast DEF Inv, Ranks
    <3> QED  BY <3>1, <3>2
  <2> QED  BY <1>1, <2>1 DEF Evicted
<1>5. ASSUME NEW v \in Evicted(rank, runUid)
      PROVE  Stage(v) = "done" /\ v # runUid
  BY <1>1, <1>4 DEF Stage, Pending, Running, InStore, Inv, StoreInv, TypeOK, Uids
<1>6. ASSUME NEW v \in Uids
      PROVE  Stage(v)' = IF v = runUid THEN "done"
                         ELSE IF v \in Evicted(rank, runUid) THEN "forgotten"
                         ELSE Stage(v)
  <2>1. /\ Pending(v)' <=> Pending(v)
        /\ ~Running(v)'
        /\ Running(v) <=> v = runUid
        /\ InStore(v)' <=> rank'[v] # 0
        /\ InStore(v) <=> rank[v] # 0
    BY <1>1 DEF Pending, Running, InStore, Uids, NoUid
  <2>2. CASE v = runUid
    BY <1>1, <1>3, <2>1, <2>2 DEF Stage, Pending, Inv, TypeOK, Uids
  <2>3. CASE v # runUid
    <3>1. rank'[v] = 0 <=> rank[v] = 0 \/ v \in Evicted(rank, runUid)
      BY <1>1, <1>4, <2>3, AddEvictsLast DEF Inv, Ranks
    <3>2. v \in Evicted(rank, runUid) => Stage(v) = "done"
      BY <1>5
    <3> QED  BY <1>1, <2>1, <2>3, <3>1, <3>2 DEF Stage
  <2> QED  BY <2>2, <2>3
<1> QED  BY <1>1, <1>2, <1>4, <1>5, <1>6

\* All other steps leave every request ID in its stage.
LEMMA OtherStages ==
    ASSUME Inv,
           \/ \E u \in Uids : Get(u)
           \/ Shutdown \/ PassTime \/ RunShutdown \/ RunTick \/ RunSkip
           \/ \E c \in Statuses : RunHandle(c)
           \/ UNCHANGED vars
    PROVE  /\ \A v \in Uids : Stage(v)' = Stage(v)
           /\ UNCHANGED <<lastItem, completion>>
<1>1. UNCHANGED <<uid, issued, runUid, lastItem, completion>>
  BY DEF Get, Shutdown, PassTime, RunShutdown, RunTick, RunSkip, RunHandle, vars, queueVars,
         storeVars, runVars
<1>2. ASSUME NEW v \in Uids PROVE InStore(v)' <=> InStore(v)
  <2>1. CASE \E u \in Uids : Get(u)
    BY <2>1, TouchKeepsEntries DEF Inv, Ranks, Get, InStore
  <2>2. CASE rank' = rank
    BY <2>2 DEF InStore
  <2> QED  BY <2>1, <2>2 DEF Shutdown, PassTime, RunShutdown, RunTick, RunSkip, RunHandle, vars,
                             storeVars
<1>3. ASSUME NEW v \in Uids PROVE Stage(v)' = Stage(v)
  BY <1>1, <1>2 DEF Stage, Pending, Running
<1> QED  BY <1>1, <1>3

\* A request ID is used once: its stages are open, running, done, forgotten, in
\* this order (Submit, run and Get).
THEOREM OnceAndInOrder == Spec => LifeCycle
<1>1. ASSUME Inv, [Next]_vars, NEW u \in Uids
      PROVE  Stage(u)' \in {Stage(u), NextStage[Stage(u)]}
  <2>1. CASE \E i \in Items : Submit(i)
    BY <1>1, <2>1, SubmitStages DEF NextStage
  <2>2. CASE RunTake
    BY <1>1, <2>2, TakeStages DEF NextStage
  <2>3. CASE RunStore
    BY <1>1, <2>3, StoreStages DEF NextStage
  <2>4. CASE \/ \E v \in Uids : Get(v)
             \/ Shutdown \/ PassTime \/ RunShutdown \/ RunTick \/ RunSkip
             \/ \E c \in Statuses : RunHandle(c)
             \/ UNCHANGED vars
    BY <1>1, <2>4, OtherStages
  <2> QED  BY <1>1, <2>1, <2>2, <2>3, <2>4 DEF Next, RunStep
<1>2. Inv /\ [Next]_vars => [\A u \in Uids : Stage(u)' \in {Stage(u), NextStage[Stage(u)]}]_vars
  BY <1>1
<1> QED  BY <1>2, Invariance, PTL DEF Spec, LifeCycle

----------------------------------------------------------------------------
(* The queue implements the abstract asynchronous API.                      *)

\* The store is full when it holds RequestHistorySize results.
LEMMA StoreSize ==
    ASSUME NEW r, Ranks(r)
    PROVE  LET S == {v \in Uids : r[v] # 0}
               L == {v \in Uids : r[v] = RequestHistorySize}
           IN  Cardinality(L) = IF Cardinality(S) < RequestHistorySize THEN 0 ELSE 1
<1> USE QueueAssumption
<1> DEFINE S == {v \in Uids : r[v] # 0}
           L == {v \in Uids : r[v] = RequestHistorySize}
           H == RequestHistorySize
<1>1. r \in [Uids -> 0..H]
  BY DEF Ranks
<1>2. IsFiniteSet(Uids)
  BY FS_Interval DEF Uids
<1>3. IsFiniteSet(S) /\ Cardinality(S) \in Nat
  BY <1>2, FS_Subset, FS_CardinalityType
<1>4. CASE L = {}
  <2>1. \A v \in S : r[v] \in 1..(H - 1)
    BY <1>1, <1>4
  <2> DEFINE f == [v \in S |-> r[v]]
  <2>2. f \in Injection(S, 1..(H - 1))
    BY <1>1, <2>1 DEF Injection, IsInjective, Ranks, Injective
  <2>3. IsFiniteSet(1..(H - 1)) /\ Cardinality(1..(H - 1)) = H - 1
    BY FS_Interval
  <2>4. Cardinality(S) <= H - 1
    BY <2>2, <2>3, FS_Injection
  <2>5. Cardinality(L) = 0
    BY <1>4, FS_EmptySet
  <2> QED  BY <1>3, <2>4, <2>5
<1>5. CASE L # {}
  <2>1. PICK w \in Uids : r[w] = H
    BY <1>5
  <2>2. L = {w}
    BY <2>1 DEF Ranks, Injective
  <2>3. Cardinality(L) = 1
    BY <2>2, FS_Singleton
  <2> DEFINE f == [v \in S |-> r[v]]
  <2>4. f \in Surjection(S, 1..H)
    <3>1. f \in [S -> 1..H]
      BY <1>1
    <3>2. ASSUME NEW k \in 1..H PROVE \E v \in S : f[v] = k
      <4>1. PICK v \in Uids : r[v] = k
        BY <2>1 DEF Ranks, Dense
      <4> QED  BY <4>1
    <3> QED  BY <3>1, <3>2 DEF Surjection
  <2>5. IsFiniteSet(1..H) /\ Cardinality(1..H) = H
    BY FS_Interval
  <2>6. Cardinality(S) >= H
    BY <1>3, <2>4, <2>5, FS_Surjection
  <2> QED  BY <1>3, <2>3, <2>6
<1> QED  BY <1>4, <1>5

\* In the empty queue every request ID is unused, as in the abstract API.
LEMMA InitRefines == Init => Async!AsyncInit
BY QueueAssumption DEF Init, Async!AsyncInit, Async!AsyncUids, Uids, Stage

\* Submit opens a request ID or aggregates under the open one.
LEMMA SubmitRefines ==
    ASSUME Inv, NEW i \in Items, Submit(i)
    PROVE  Async!AsyncNext
<1> USE DEF Async!AsyncUids, Uids
<1>1. lastItem' = [lastItem EXCEPT ![uid'] = i] /\ UNCHANGED completion
  BY DEF Submit, storeVars
<1>2. CASE uid = NoUid
  <2>1. \A v \in Uids : Stage(v) # "open"
    BY <1>2 DEF Stage, Pending, NoUid
  <2>2. Async!OpenRequest(uid', i)
    BY <1>1, <1>2, <2>1, SubmitStages DEF Async!OpenRequest, Async!In
  <2> QED  BY <2>2, SubmitStages DEF Async!AsyncNext
<1>3. CASE uid # NoUid
  <2>1. \A v \in Uids : Stage(v)' = Stage(v)
    BY <1>3, SubmitStages
  <2>2. Async!AggregateRequest(uid', i)
    BY <1>1, <1>3, <2>1, SubmitStages DEF Async!AggregateRequest
  <2> QED  BY <2>2, SubmitStages DEF Async!AsyncNext
<1> QED  BY <1>2, <1>3

\* run takes the open request ID; it is the only one in execution.
LEMMA TakeRefines == ASSUME Inv, RunTake PROVE Async!AsyncNext
<1> USE DEF Async!AsyncUids, Uids
<1>1. UNCHANGED <<lastItem, completion>>
  BY DEF RunTake, storeVars
<1>2. \A v \in Uids : Stage(v) # "running"
  BY TakeStages DEF Stage, Running, NoUid
<1>3. Async!BeginExecution(uid)
  BY <1>1, <1>2, TakeStages DEF Async!BeginExecution, Async!In
<1> QED  BY <1>3, TakeStages DEF Async!AsyncNext

\* AsyncRequests counts with the operator of its own copy of FiniteSets.
LEMMA SameCardinality == ASSUME NEW S PROVE Async!Cardinality(S) = Cardinality(S)
BY DEF Cardinality, Async!Cardinality

\* run stores a result and forgets the least recently used one if it must.
LEMMA StoreRefines == ASSUME Inv, RunStore PROVE Async!AsyncNext
<1> USE DEF Async!AsyncUids, Uids
<1> DEFINE E == Evicted(rank, runUid)
<1>1. /\ runUid \in Uids /\ runRes.status \in Statuses
      /\ runRes = [item |-> lastItem[runUid], status |-> runRes.status]
      /\ lastItem' = lastItem
  BY DEF Inv, TypeOK, RunInv, Busy, RunStore, Completions, queueVars
<1>2. {v \in Uids : Stage(v) = "done"} = {v \in Uids : rank[v] # 0}
  <2>1. ASSUME NEW v \in Uids PROVE Stage(v) = "done" <=> rank[v] # 0
    <3>1. rank[v] # 0 => v # runUid
      BY DEF Inv, RunInv, Busy, RunStore
    <3> QED  BY <3>1 DEF Stage, Pending, Running, InStore, Inv, TypeOK, StoreInv
  <2> QED  BY <2>1
<1>3. Async!In("done") = {v \in Uids : rank[v] # 0}
  BY <1>2 DEF Async!In
<1>4. E \subseteq Async!In("done")
  BY StoreStages DEF Async!In, Evicted
<1>5. Async!Cardinality(E) = IF Async!Cardinality(Async!In("done")) < RequestHistorySize
                             THEN 0 ELSE 1
  BY <1>3, StoreStages, StoreSize, SameCardinality DEF Inv
<1>6. Async!EndExecution(runUid, runRes.status, E)
  <2>1. [u \in Uids |-> Stage(u)]' = [v \in Uids |-> CASE v = runUid -> "done"
                                                      [] v \in E -> "forgotten"
                                                      [] OTHER -> Stage(v)]
    BY StoreStages
  <2>2. completion' = [v \in Uids |->
                          CASE v = runUid -> [item |-> lastItem[runUid], status |-> runRes.status]
                            [] v \in E -> NoCompletion
                            [] OTHER -> completion[v]]
    BY <1>1, StoreStages DEF RunStore
  <2> QED  BY <1>1, <1>4, <1>5, <2>1, <2>2, StoreStages DEF Async!EndExecution
<1> QED  BY <1>1, <1>4, <1>6 DEF Async!AsyncNext

\* The queue implements the asynchronous API: every step of an HTTP handler or
\* of run is a step of AsyncRequests or leaves what clients can tell unchanged.
THEOREM Refinement == Spec => ImplementsAsyncRequests
<1>1. ASSUME Inv, [Next]_vars PROVE [Async!AsyncNext]_Async!asyncVars
  <2>1. CASE \E i \in Items : Submit(i)
    BY <1>1, <2>1, SubmitRefines
  <2>2. CASE RunTake
    BY <1>1, <2>2, TakeRefines
  <2>3. CASE RunStore
    BY <1>1, <2>3, StoreRefines
  <2>4. CASE \/ \E v \in Uids : Get(v)
             \/ Shutdown \/ PassTime \/ RunShutdown \/ RunTick \/ RunSkip
             \/ \E c \in Statuses : RunHandle(c)
             \/ UNCHANGED vars
    BY <1>1, <2>4, OtherStages DEF Async!asyncVars
  <2> QED  BY <1>1, <2>1, <2>2, <2>3, <2>4 DEF Next, RunStep
<1>2. Inv /\ [Next]_vars => [Async!AsyncNext]_Async!asyncVars
  BY <1>1
<1> QED  BY <1>2, InitRefines, Invariance, PTL DEF Spec, ImplementsAsyncRequests, Async!AsyncSpec

----------------------------------------------------------------------------
(* How long a request waits.                                                *)

B(c) == IF c THEN 1 ELSE 0

\* While the pending item is not ready, the ticks that came too early and the
\* ones that still can, because run has received one and not yet checked, the
\* channel holds one or the ticker fires before the delay is over, are three.
EarlyInv ==
    /\ early \in Nat
    /\ early <= 3
    /\ item # NoItem /\ since <= Delay =>
           early + B(pc = "check") + B(tick) + B(since + toTick <= Delay) <= 3

\* A step that counts ticks is a step of the queue.
LEMMA CountingStep == [MCNext]_<<vars, early>> => [Next]_vars
BY DEF MCNext, Next, RunStep

\* The clock uses up the one tick that can come before the delay is over.
LEMMA PassTimeEarly == ASSUME TypeOK, EarlyInv, PassTime, UNCHANGED early PROVE EarlyInv'
<1> USE QueueAssumption
<1>1. /\ since \in Nat /\ since' \in Nat /\ since <= since'
      /\ toTick \in 1..Delay /\ tick \in BOOLEAN
      /\ UNCHANGED <<item, pc>>
  BY DEF PassTime, TypeOK, queueVars, runVars
<1>2. SUFFICES ASSUME item # NoItem, since' <= Delay
               PROVE  early + B(pc = "check") + B(tick') + B(since' + toTick' <= Delay) <= 3
  BY <1>1 DEF EarlyInv
<1>3. since' = since + 1 /\ since <= Delay
  BY <1>1, <1>2 DEF PassTime, TypeOK
<1>4. early + B(pc = "check") + B(tick) + B(since + toTick <= Delay) <= 3
  BY <1>2, <1>3 DEF EarlyInv
<1>5. CASE toTick = 1
  <2>1. toTick' = Delay /\ ~(since' + toTick' <= Delay) /\ since + toTick <= Delay
    BY <1>1, <1>2, <1>3, <1>5 DEF PassTime
  <2> QED  BY <1>1, <1>4, <2>1 DEF B, EarlyInv
<1>6. CASE toTick # 1
  <2>1. tick' = tick /\ since' + toTick' = since + toTick
    BY <1>1, <1>3, <1>6 DEF PassTime
  <2> QED  BY <1>4, <2>1
<1> QED  BY <1>5, <1>6

\* Every step keeps the count of early ticks, past and to come, at three.
LEMMA EarlyStep == TypeOK /\ EarlyInv /\ [MCNext]_<<vars, early>> => EarlyInv'
<1> SUFFICES ASSUME TypeOK, EarlyInv, [MCNext]_<<vars, early>> PROVE EarlyInv'
  OBVIOUS
<1> USE QueueAssumption
<1>1. ASSUME NEW i \in Items, Submit(i), early' = 0 PROVE EarlyInv'
  BY <1>1 DEF EarlyInv, B
<1>2. CASE RunSkip /\ early' = IF item = NoItem THEN 0 ELSE early + 1
  <2>1. /\ pc = "check" /\ pc' = "select"
        /\ UNCHANGED <<item, since, tick, toTick>>
        /\ item # NoItem => since <= Delay
    BY <1>2 DEF RunSkip, Ready, TypeOK, queueVars, clockVars
  <2>2. CASE item = NoItem
    BY <1>2, <2>1, <2>2 DEF EarlyInv
  <2>3. CASE item # NoItem
    BY <1>2, <2>1, <2>3 DEF EarlyInv, B
  <2> QED  BY <2>2, <2>3
<1>3. CASE RunTake /\ early' = 0
  BY <1>3 DEF RunTake, EarlyInv
<1>4. CASE PassTime /\ UNCHANGED early
  BY <1>4, PassTimeEarly
<1>5. CASE RunTick /\ UNCHANGED early
  <2>1. /\ pc = "select" /\ pc' = "check" /\ tick = TRUE /\ tick' = FALSE
        /\ UNCHANGED <<item, since, toTick, early>>
    BY <1>5 DEF RunTick, TypeOK, queueVars
  <2> QED  BY <2>1 DEF EarlyInv, B
<1>6. CASE /\ \/ \E u \in Uids : Get(u)
              \/ Shutdown \/ RunStore \/ RunShutdown \/ UNCHANGED vars
              \/ \E s \in Statuses : RunHandle(s)
           /\ UNCHANGED early
  <2>1. /\ UNCHANGED <<item, since, toTick, tick, early>>
        /\ pc' = "check" => pc = "check"
    BY <1>6 DEF Get, Shutdown, RunStore, RunShutdown, RunHandle, vars, queueVars, clockVars,
                storeVars, runVars
  <2> QED  BY <2>1 DEF EarlyInv, B
<1> QED  BY <1>1, <1>2, <1>3, <1>4, <1>5, <1>6 DEF MCNext

\* A request is executed at the fourth tick at the latest after its last
\* submission, for every delay (run).
THEOREM EarlyTicksBounded == MCSpec => []ThreeEarlyTicksAtMost
<1>1. MCInit => Inv /\ EarlyInv
  BY InitInv DEF MCInit, Init, EarlyInv
<1>2. Inv /\ EarlyInv /\ [MCNext]_<<vars, early>> => Inv' /\ EarlyInv'
  BY CountingStep, StepInv, EarlyStep DEF Inv
<1>3. EarlyInv => ThreeEarlyTicksAtMost
  BY DEF EarlyInv, ThreeEarlyTicksAtMost
<1> QED  BY <1>1, <1>2, <1>3, PTL DEF MCSpec

----------------------------------------------------------------------------
(* The server.                                                              *)

\* What the queue holds are valid requests, and a request is in one of the
\* stages while run is in handle.
RequestInv ==
    /\ item # NoItem => item \in Requests
    /\ pc = "handle" => runItem \in Requests
    /\ pc = "handle" <=> stage # "none"

----------------------------------------------------------------------------
(* The server is a queue.                                                   *)

\* Submitted requests name a known provider and a known engine.
LEMMA ValidRequests ==
    ASSUME NEW p \in Payloads, validate(WithDefaults(p))
    PROVE  WithDefaults(p) \in Requests /\ WithDefaults(p) \in Items
<1>1. p.nodes \in BOOLEAN
  BY ServerAssumption
<1>2. WithDefaults(p) \in Requests
  BY <1>1 DEF WithDefaults, validate, Requests
<1> QED  BY <1>2, ServerAssumption

\* The end of an attempt either waits for the next one or ends handle.
LEMMA EndAttemptCases ==
    ASSUME NEW c, EndAttempt(c)
    PROVE  \/ stage' = "backoff" /\ UNCHANGED <<vars, attempt>>
                /\ ShouldRetry(c) /\ attempt # maxRetries
           \/ RunHandle(c) /\ stage' = "none" /\ attempt' = 0
                /\ (ShouldRetry(c) => attempt = maxRetries)
BY DEF EndAttempt

\* RequestInv does not depend on what attempts do.
LEMMA RequestStep == RequestInv /\ [ServerNext]_serverVars => RequestInv'
<1> SUFFICES ASSUME RequestInv, [ServerNext]_serverVars PROVE RequestInv'
  OBVIOUS
<1> USE QueueAssumption, ServerAssumption
<1>1. ASSUME NEW p \in Payloads, generate(p) PROVE RequestInv'
  BY <1>1, ValidRequests DEF RequestInv, generate, Submit, procVars, runVars
<1>2. ASSUME NEW u \in Uids, getresult(u) PROVE RequestInv'
  BY <1>2 DEF RequestInv, getresult, Get, procVars, runVars, queueVars
<1>3. CASE (QueueStep \/ PassTime) /\ UNCHANGED <<procVars, worldVars, histVars>>
  <2>1. CASE RunTick
    BY <1>3, <2>1 DEF RequestInv, RunTick, procVars, queueVars
  <2>2. CASE RunSkip
    BY <1>3, <2>2 DEF RequestInv, RunSkip, procVars, queueVars
  <2>3. CASE PassTime
    <3>1. UNCHANGED <<queueVars, runVars>>
      BY <2>3, Zenon DEF PassTime
    <3> QED  BY <1>3, <3>1 DEF RequestInv, procVars, runVars, queueVars
  <2> QED  BY <1>3, <2>1, <2>2, <2>3 DEF QueueStep
<1>4. CASE ChangeWorld
  BY <1>4 DEF RequestInv, ChangeWorld, vars, procVars, runVars, queueVars
<1>5. CASE UNCHANGED serverVars
  BY <1>5 DEF RequestInv, serverVars, vars, procVars, runVars, queueVars
<1>6. CASE TakeRequest
  BY <1>6 DEF RequestInv, TakeRequest, RunTake, Ready, StartAttempt
<1>7. CASE Retry
  BY <1>7 DEF RequestInv, Retry, StartAttempt, vars, runVars, queueVars
<1>8. ASSUME NEW c, stage # "none", EndAttempt(c) PROVE RequestInv'
  <2>1. CASE stage' = "backoff" /\ UNCHANGED <<vars, attempt>>
    BY <1>8, <2>1 DEF RequestInv, vars, runVars, queueVars
  <2>2. CASE RunHandle(c) /\ stage' = "none"
    BY <2>2 DEF RequestInv, RunHandle, queueVars
  <2> QED  BY <1>8, <2>1, <2>2, EndAttemptCases
<1>9. CASE Lookup
  <2>1. CASE stage = "lookup" /\ stage' = "load" /\ UNCHANGED vars
    BY <2>1 DEF RequestInv, vars, runVars, queueVars
  <2>2. CASE Fail({400})
    BY <1>8, <1>9, <2>2 DEF Fail, Lookup
  <2> QED  BY <1>9, <2>1, <2>2 DEF Lookup
<1>10. CASE Load \/ GetInstances \/ GetTopology \/ \E t \in Targets : Write(t)
  BY <1>10 DEF RequestInv, Load, GetInstances, GetTopology, Write, vars, runVars, queueVars
<1>11. CASE Succeed \/ StageFails
  BY <1>8, <1>11 DEF Succeed, StageFails, Fail
<1>12. CASE StoreResult
  BY <1>12 DEF RequestInv, StoreResult, RunStore, procVars, queueVars
<1> QED  BY <1>1, <1>2, <1>3, <1>4, <1>5, <1>6, <1>7, <1>9, <1>10, <1>11, <1>12
         DEF ServerNext, Processing

\* In the initial state nothing is queued.
LEMMA RequestInit == ServerInit => RequestInv
BY DEF ServerInit, Init, RequestInv

\* What the queue hands to processTopologyRequest was validated.
THEOREM RequestInvariance == ServerSpec => []RequestInv
BY RequestInit, RequestStep, PTL DEF ServerSpec

\* A request that was accepted is never refused when it is executed: the
\* provider and the engine that validate checked are those that are looked up.
THEOREM LookupsSucceed == ServerSpec => []NeverUnsupported
<1>1. RequestInv => NeverUnsupported
  <2> SUFFICES ASSUME RequestInv, stage = "lookup"
               PROVE  runItem.provider \in Providers /\ runItem.engine \in Engines
    BY DEF NeverUnsupported
  <2>1. runItem \in Requests
    BY DEF RequestInv
  <2> QED  BY <2>1 DEF Requests
<1> QED  BY <1>1, RequestInvariance, PTL

\* Every step of the server is a step of the queue, or none of its business.
LEMMA ServerStepIsQueueStep ==
    ASSUME RequestInv, [ServerNext]_serverVars
    PROVE  [Next]_vars
<1> USE ServerAssumption
<1>1. ASSUME NEW c \in Statuses, EndAttempt(c) PROVE [Next]_vars
  BY <1>1, EndAttemptCases DEF Next, RunStep
<1>2. ASSUME NEW p \in Payloads, generate(p) PROVE Next
  BY <1>2, ValidRequests DEF generate, Next
<1>3. ASSUME NEW u \in Uids, getresult(u) PROVE Next
  BY <1>3 DEF getresult, Next
<1>4. CASE QueueStep \/ PassTime
  BY <1>4 DEF QueueStep, Next, RunStep
<1>5. CASE TakeRequest \/ StoreResult
  BY <1>5 DEF TakeRequest, StoreResult, Next, RunStep
<1>6. CASE ChangeWorld \/ Retry \/ Load \/ GetInstances \/ GetTopology
  BY <1>6 DEF ChangeWorld, Retry, Load, GetInstances, GetTopology
<1>7. ASSUME NEW t \in Targets, Write(t) PROVE UNCHANGED vars
  BY <1>7 DEF Write
<1>8. CASE Lookup
  <2>1. runItem \in Requests
    BY <1>8 DEF Lookup, RequestInv
  <2>2. UNCHANGED vars
    BY <1>8, <2>1 DEF Lookup, Requests
  <2> QED  BY <2>2
<1>9. CASE Succeed
  BY <1>1, <1>9 DEF Succeed
<1>10. CASE StageFails
  BY <1>1, <1>10 DEF StageFails, Fail
<1>11. CASE UNCHANGED serverVars
  BY <1>11 DEF serverVars
<1> QED  BY <1>2, <1>3, <1>4, <1>5, <1>6, <1>7, <1>8, <1>9, <1>10, <1>11
         DEF ServerNext, Processing

\* The server implements the queue: everything proved of TrailingDelayQueue,
\* with any result of handle, holds of the server (http_server.go, engine.go).
THEOREM ServerIsQueue == ServerSpec => Spec
<1>1. ServerInit => Init
  BY DEF ServerInit
<1>2. RequestInv /\ [ServerNext]_serverVars => [Next]_vars
  BY ServerStepIsQueueStep
<1> QED  BY <1>1, <1>2, RequestInvariance, PTL DEF ServerSpec, Spec

\* No accepted request is lost by the server.
THEOREM ServerLosesNothing == ServerSpec => []NoRequestLost
BY ServerIsQueue, NothingLost, PTL

----------------------------------------------------------------------------
(* The store during a step.                                                 *)

\* Only StoreResult changes what the store holds.
StoreKept ==
    /\ UNCHANGED completion
    /\ \A u \in Uids : rank'[u] = 0 <=> rank[u] = 0

\* Steps that leave the attempts alone: those of the handlers, except generate,
\* and those of the queue and the clock.
LEMMA QuietSteps ==
    ASSUME Inv, \/ \E u \in Uids : getresult(u)
                \/ (QueueStep \/ PassTime) /\ UNCHANGED <<procVars, worldVars, histVars>>
    PROVE  /\ UNCHANGED <<procVars, worldVars, histVars, item, uid, issued, lastItem,
                          runItem, runUid, runRes>>
           /\ (pc = "store" <=> pc' = "store") /\ (pc = "handle" <=> pc' = "handle")
           /\ StoreKept
<1> USE QueueAssumption
<1>1. ASSUME NEW u \in Uids, getresult(u)
      PROVE  /\ UNCHANGED <<procVars, worldVars, histVars, queueVars, runVars>>
             /\ StoreKept
  <2>1. \A v \in Uids : rank'[v] = 0 <=> rank[v] = 0
    BY <1>1, TouchKeepsEntries DEF Inv, Ranks, getresult, Get, InStore
  <2> QED  BY <1>1, <2>1 DEF getresult, Get, StoreKept
<1>2. CASE QueueStep /\ UNCHANGED <<procVars, worldVars, histVars>>
  BY <1>2 DEF QueueStep, RunTick, RunSkip, StoreKept, storeVars, queueVars
<1>3. CASE PassTime /\ UNCHANGED <<procVars, worldVars, histVars>>
  <2>1. UNCHANGED <<queueVars, storeVars, runVars>>
    BY <1>3, Zenon DEF PassTime
  <2> QED  BY <1>3, <2>1 DEF StoreKept, storeVars, queueVars, runVars
<1> QED  BY <1>1, <1>2, <1>3 DEF queueVars, runVars

\* StoreResult adds the result of the running request and drops at most others.
LEMMA StoreResultStore ==
    ASSUME Inv, RunStore
    PROVE  /\ runUid \in Uids /\ rank[runUid] = 0 /\ rank'[runUid] # 0
           /\ completion'[runUid] = runRes
           /\ \A u \in Uids \ {runUid} :
                  rank'[u] # 0 => rank[u] # 0 /\ completion'[u] = completion[u]
<1> USE QueueAssumption
<1>1. runUid \in Uids /\ rank[runUid] = 0
  BY DEF Inv, RunInv, Busy, RunStore, TypeOK, NoUid
<1>2. rank \in [Uids -> 0..RequestHistorySize]
  BY DEF Inv, TypeOK
<1>3. rank' = MoveToFront(rank, runUid)
  BY DEF RunStore
<1>4. rank'[runUid] = 1
  BY <1>1, <1>3 DEF MoveToFront
<1>5. completion'[runUid] = runRes
  BY <1>1 DEF RunStore
<1>6. ASSUME NEW u \in Uids \ {runUid}, rank'[u] # 0
      PROVE  rank[u] # 0 /\ completion'[u] = completion[u]
  <2>1. rank[u] \notin {0, RequestHistorySize}
    BY <1>1, <1>2, <1>3, <1>6, AddEvictsLast
  <2>2. u \notin Evicted(rank, runUid)
    BY <1>3, <1>6 DEF Evicted
  <2> QED  BY <1>6, <2>1, <2>2 DEF RunStore
<1> QED  BY <1>1, <1>4, <1>5, <1>6

----------------------------------------------------------------------------
(* Attempts.                                                                *)

\* The attempts at the running request are counted by attempt and by tries.
AttemptInv ==
    /\ attempt \in Nat /\ tries \in [Uids -> Nat]
    /\ stage = "none" => attempt = 0
    /\ stage # "none" => attempt \in 1..maxRetries /\ attempt = tries[runUid]
    /\ stage = "backoff" => attempt # maxRetries
    /\ \A u \in Uids : u > issued \/ u = uid => tries[u] = 0
    /\ pc = "store" /\ ShouldRetry(runRes.status) => tries[runUid] = maxRetries
    /\ ErrorsAreRetried

\* Every step of the server keeps the count.
LEMMA AttemptStep ==
    ASSUME Inv, RequestInv, AttemptInv, [ServerNext]_serverVars
    PROVE  AttemptInv'
<1> USE QueueAssumption, ServerAssumption
<1>1. /\ issued \in Nat /\ \A u \in Uids : u \in Nat \ {0}
      /\ uid \in Uids \cup {0}
  BY DEF Inv, TypeOK, Uids, NoUid
<1>2. ASSUME NEW p \in Payloads, generate(p) PROVE AttemptInv'
  <2>1. /\ UNCHANGED <<stage, attempt, tries, rank, completion, pc, runUid, runRes>>
        /\ uid = 0 => uid' = issued + 1 /\ issued' = issued + 1
        /\ uid # 0 => uid' = uid /\ issued' = issued
    BY <1>2 DEF generate, Submit, NoUid, procVars, storeVars, runVars
  <2>2. \A u \in Uids : u > issued' \/ u = uid' => u > issued \/ u = uid
    BY <1>1, <2>1
  <2> QED  BY <2>1, <2>2 DEF AttemptInv, ErrorsAreRetried, InStore
<1>3. CASE \/ \E u \in Uids : getresult(u)
           \/ (QueueStep \/ PassTime) /\ UNCHANGED <<procVars, worldVars, histVars>>
  <2>1. /\ UNCHANGED <<stage, attempt, tries, uid, issued, completion, runUid, runRes>>
        /\ pc' = "store" => pc = "store"
        /\ \A u \in Uids : rank'[u] = 0 <=> rank[u] = 0
    BY <1>3, QuietSteps DEF procVars, histVars, StoreKept
  <2> QED  BY <2>1 DEF AttemptInv, ErrorsAreRetried, InStore
<1>4. CASE TakeRequest
  <2>1. /\ pc = "check" /\ pc' = "handle" /\ stage = "none" /\ stage' = "lookup"
        /\ item # NoItem /\ runUid' = uid /\ uid' = 0
        /\ UNCHANGED <<issued, rank, completion, runRes>>
        /\ attempt' = attempt + 1 /\ tries' = [tries EXCEPT ![uid] = @ + 1]
    BY <1>4 DEF TakeRequest, RunTake, Ready, StartAttempt, NoUid, RequestInv, storeVars
  <2>2. uid \in Uids /\ uid = issued /\ rank[uid] = 0
    BY <1>1, <2>1 DEF Inv, PendingInv, StoreInv, NoUid
  <2>3. attempt = 0 /\ tries \in [Uids -> Nat] /\ tries[uid] = 0
    BY <2>1, <2>2 DEF AttemptInv
  <2>4. /\ attempt' = 1 /\ tries' \in [Uids -> Nat] /\ tries'[uid] = 1
        /\ \A u \in Uids : u # uid => tries'[u] = tries[u]
    BY <2>1, <2>2, <2>3
  <2>5. \A u \in Uids : u > issued' \/ u = uid' => tries'[u] = 0
    BY <1>1, <2>1, <2>2, <2>4 DEF AttemptInv
  <2>6. ErrorsAreRetried'
    BY <2>1, <2>2, <2>4 DEF AttemptInv, ErrorsAreRetried, InStore
  <2> QED  BY <2>1, <2>2, <2>4, <2>5, <2>6 DEF AttemptInv
<1>5. stage # "none" => /\ pc = "handle" /\ runUid \in Uids /\ runUid <= issued
                        /\ runUid # uid /\ rank[runUid] = 0
  BY DEF RequestInv, Inv, RunInv, Busy, TypeOK, NoUid
<1>6. CASE Retry
  <2>1. /\ stage = "backoff" /\ stage' = "lookup" /\ attempt' = attempt + 1
        /\ tries' = [tries EXCEPT ![runUid] = @ + 1]
        /\ UNCHANGED <<pc, uid, issued, rank, completion, runUid, runRes>>
    BY <1>6 DEF Retry, StartAttempt, vars, queueVars, storeVars, runVars
  <2>2. /\ attempt \in 1..maxRetries /\ attempt # maxRetries /\ attempt = tries[runUid]
        /\ tries \in [Uids -> Nat]
    BY <2>1 DEF AttemptInv
  <2>3. /\ attempt' \in 1..maxRetries /\ attempt' = tries'[runUid] /\ attempt' \in Nat
        /\ tries' \in [Uids -> Nat]
        /\ \A u \in Uids : u # runUid => tries'[u] = tries[u]
    BY <1>5, <2>1, <2>2
  <2>4. \A u \in Uids : u > issued' \/ u = uid' => tries'[u] = 0
    BY <1>1, <1>5, <2>1, <2>3 DEF AttemptInv
  <2>5. ErrorsAreRetried'
    BY <1>5, <2>1, <2>3 DEF AttemptInv, ErrorsAreRetried, InStore
  <2> QED  BY <1>5, <2>1, <2>3, <2>4, <2>5 DEF AttemptInv
<1>7. ASSUME NEW c, stage # "none", EndAttempt(c), UNCHANGED tries PROVE AttemptInv'
  <2>1. CASE /\ stage' = "backoff" /\ UNCHANGED <<vars, attempt>> /\ attempt # maxRetries
    <3>1. UNCHANGED <<attempt, tries, pc, uid, issued, rank, completion, runUid, runRes>>
      BY <1>7, <2>1 DEF vars, queueVars, storeVars, runVars
    <3> QED  BY <1>5, <1>7, <2>1, <3>1 DEF AttemptInv, ErrorsAreRetried, InStore
  <2>2. CASE /\ RunHandle(c) /\ stage' = "none" /\ attempt' = 0
             /\ (ShouldRetry(c) => attempt = maxRetries)
    <3>1. /\ UNCHANGED <<tries, uid, issued, rank, completion, runUid>>
          /\ runRes'.status = c
      BY <1>7, <2>2 DEF RunHandle, queueVars, storeVars
    <3>2. attempt = tries[runUid]
      BY <1>7 DEF AttemptInv
    <3> QED  BY <2>2, <3>1, <3>2 DEF AttemptInv, ErrorsAreRetried, InStore
  <2> QED  BY <1>7, <2>1, <2>2, EndAttemptCases
<1>8. CASE Lookup
  <2>1. CASE stage = "lookup" /\ stage' = "load" /\ UNCHANGED <<vars, attempt, histVars>>
    <3>1. UNCHANGED <<attempt, tries, pc, uid, issued, rank, completion, runUid, runRes>>
      BY <2>1 DEF vars, histVars, queueVars, storeVars, runVars
    <3> QED  BY <2>1, <3>1 DEF AttemptInv, ErrorsAreRetried, InStore
  <2>2. CASE Fail({400})
    BY <1>7, <1>8, <2>2 DEF Fail, Lookup, histVars
  <2> QED  BY <1>8, <2>1, <2>2 DEF Lookup
<1>9. CASE Load \/ GetInstances \/ GetTopology \/ ChangeWorld \/ \E t \in Targets : Write(t)
  <2>1. /\ UNCHANGED <<attempt, tries, pc, uid, issued, rank, completion, runUid, runRes>>
        /\ (stage = "none" <=> stage' = "none") /\ (stage' = "backoff" => stage = "backoff")
    BY <1>9 DEF Load, GetInstances, GetTopology, Write, ChangeWorld, vars, histVars,
                procVars, queueVars, storeVars, runVars
  <2> QED  BY <2>1 DEF AttemptInv, ErrorsAreRetried, InStore
<1>10. CASE Succeed \/ StageFails
  BY <1>7, <1>10 DEF Succeed, StageFails, Fail, histVars
<1>11. CASE StoreResult
  <2>1. /\ pc = "store" /\ pc' = "select"
        /\ UNCHANGED <<stage, attempt, tries, uid, issued>>
    BY <1>11 DEF StoreResult, RunStore, procVars, queueVars
  <2>2. stage = "none"
    BY <2>1 DEF RequestInv
  <2>3. ErrorsAreRetried'
    BY <1>11, <2>1, StoreResultStore DEF StoreResult, AttemptInv, ErrorsAreRetried, InStore
  <2> QED  BY <2>1, <2>2, <2>3 DEF AttemptInv
<1>12. CASE UNCHANGED serverVars
  BY <1>12 DEF serverVars, vars, procVars, histVars, queueVars, storeVars, runVars,
               AttemptInv, ErrorsAreRetried, InStore
<1> QED  BY <1>2, <1>3, <1>4, <1>6, <1>8, <1>9, <1>10, <1>11, <1>12
         DEF ServerNext, Processing

\* A client is told of a retryable error only after maxRetries attempts, and
\* no request is attempted more often (processRequestWithRetries).
THEOREM RetriesExhausted == ServerSpec => []ErrorsAreRetried
<1>1. ServerInit => AttemptInv
  BY QueueAssumption DEF ServerInit, Init, AttemptInv, ErrorsAreRetried, InStore, NoUid, Uids
<1>2. Inv /\ RequestInv /\ AttemptInv /\ [ServerNext]_serverVars => AttemptInv'
  BY AttemptStep
<1>3. AttemptInv => ErrorsAreRetried
  BY DEF AttemptInv
<1> QED  BY <1>1, <1>2, <1>3, RequestInvariance, ServerIsQueue, Invariance, PTL
         DEF ServerSpec

----------------------------------------------------------------------------
(* What was written.                                                        *)

\* Every target holds the output of u, from data read after u was submitted.
Holds(u) == \A t \in Targets : /\ content[t].item = lastItem[u]
                               /\ content[t].version >= worldAt[u]

\* What an attempt has read and written so far.
ReadInv ==
    /\ stage = "topology" /\ ~runItem.nodes => snapshot >= worldAt[runUid]
    /\ stage = "output" => snapshot >= worldAt[runUid]

WrittenInv ==
    /\ stage = "output" =>
           \A t \in Targets \ todo : content[t] = [item |-> runItem, version |-> snapshot]
    /\ pc = "store" /\ runRes.status = 200 => Holds(runUid)

WorldInv ==
    /\ world \in Nat /\ snapshot \in Nat /\ worldAt \in [Uids -> Nat]
    /\ \A u \in Uids : worldAt[u] <= world
    /\ DOMAIN content = Targets

OutputInv == WorldInv /\ ReadInv /\ WrittenInv /\ OkMeansWritten

\* generate only touches the history of the ID it returns, which is neither the
\* running one nor one that has a result.
LEMMA GenerateOutput ==
    ASSUME Inv, RequestInv, OutputInv, NEW p \in Payloads, generate(p)
    PROVE  OutputInv'
<1> USE QueueAssumption
<1>1. /\ UNCHANGED <<stage, attempt, snapshot, todo, content, world, lastDone, rank,
                     completion, pc, runItem, runUid, runRes>>
      /\ uid' \in Uids
      /\ worldAt' = [worldAt EXCEPT ![uid'] = world]
      /\ lastItem' = [lastItem EXCEPT ![uid'] = WithDefaults(p)]
      /\ uid = 0 => uid' = issued + 1
      /\ uid # 0 => uid' = uid
  BY DEF generate, Submit, NoUid, procVars, worldVars, storeVars, runVars
<1>2. /\ issued \in Nat /\ \A u \in Uids : u \in Nat
      /\ lastItem \in [Uids -> Items \cup {NoItem}]
  BY DEF Inv, TypeOK, Uids
<1>3. pc \in {"handle", "store"} => runUid \in Uids /\ runUid <= issued /\ runUid # uid
  BY DEF Inv, RunInv, Busy, TypeOK, NoUid
<1>4. pc \in {"handle", "store"} => runUid # uid'
  BY <1>1, <1>2, <1>3
<1>5. \A u \in Uids : rank[u] # 0 => u # uid'
  BY <1>1, <1>2 DEF Inv, StoreInv
<1>6. /\ world \in Nat /\ worldAt \in [Uids -> Nat] /\ \A u \in Uids : worldAt[u] <= world
      /\ snapshot \in Nat /\ DOMAIN content = Targets
  BY DEF OutputInv, WorldInv
<1>7. /\ worldAt' \in [Uids -> Nat]
      /\ \A u \in Uids : u # uid' => worldAt'[u] = worldAt[u] /\ lastItem'[u] = lastItem[u]
      /\ worldAt'[uid'] = world
  BY <1>1, <1>2, <1>6
<1>8. WorldInv'
  <2>1. \A u \in Uids : worldAt'[u] <= world
    BY <1>6, <1>7
  <2> QED  BY <1>1, <1>6, <1>7, <2>1 DEF WorldInv
<1>9. stage # "none" => pc = "handle"
  BY DEF RequestInv
<1>10. ReadInv'
  BY <1>1, <1>3, <1>4, <1>7, <1>9 DEF OutputInv, ReadInv
<1>11. WrittenInv'
  BY <1>1, <1>3, <1>4, <1>7 DEF OutputInv, WrittenInv, Holds
<1>12. OkMeansWritten'
  BY <1>1, <1>5, <1>7 DEF OutputInv, OkMeansWritten, InStore
<1> QED  BY <1>8, <1>10, <1>11, <1>12 DEF OutputInv

\* The end of an attempt: a 200 is only reached when nothing is left to write.
LEMMA EndAttemptOutput ==
    ASSUME Inv, RequestInv, AttemptInv, OutputInv, NEW c, EndAttempt(c), stage # "none",
           UNCHANGED <<snapshot, todo, worldVars, histVars>>,
           c = 200 => stage = "output" /\ todo = {}
    PROVE  OutputInv'
<1>1. UNCHANGED <<snapshot, todo, content, world, worldAt, lastDone>>
  BY DEF worldVars, histVars
<1>2. CASE stage' = "backoff" /\ UNCHANGED <<vars, attempt>>
  <2>1. UNCHANGED <<rank, completion, pc, runItem, runUid, runRes, lastItem>>
    BY <1>2 DEF vars, queueVars, storeVars, runVars
  <2> QED  BY <1>1, <1>2, <2>1 DEF OutputInv, WorldInv, ReadInv, WrittenInv, Holds,
                                   OkMeansWritten
<1>3. CASE RunHandle(c) /\ stage' = "none"
  <2>1. /\ UNCHANGED <<rank, completion, runItem, runUid, lastItem>>
        /\ pc = "handle" /\ pc' = "store" /\ runRes'.status = c
    BY <1>3 DEF RunHandle, queueVars, storeVars
  <2>2. runItem = lastItem[runUid]
    BY <2>1 DEF Inv, RunInv, Busy
  <2>3. c = 200 => Holds(runUid)
    BY <2>2 DEF OutputInv, ReadInv, WrittenInv, Holds
  <2>4. WrittenInv'
    BY <1>1, <1>3, <2>1, <2>3 DEF WrittenInv, Holds
  <2>5. WorldInv' /\ ReadInv' /\ OkMeansWritten'
    BY <1>1, <1>3, <2>1 DEF OutputInv, WorldInv, ReadInv, OkMeansWritten
  <2> QED  BY <2>4, <2>5 DEF OutputInv
<1> QED  BY <1>2, <1>3, EndAttemptCases

\* Reading and writing.
LEMMA StageOutput ==
    ASSUME Inv, RequestInv, OutputInv,
           \/ Load \/ GetInstances \/ GetTopology \/ ChangeWorld
           \/ \E t \in Targets : Write(t)
    PROVE  OutputInv'
<1>1. stage # "none" => runUid \in Uids /\ runItem.nodes \in BOOLEAN
  BY QueueAssumption DEF RequestInv, Requests, Inv, RunInv, Busy, TypeOK, NoUid
<1>2. /\ UNCHANGED <<attempt, worldAt, lastDone, rank, completion, pc, runItem, runUid,
                     runRes, lastItem>>
  BY DEF Load, GetInstances, GetTopology, Write, ChangeWorld, vars, histVars, procVars,
         queueVars, storeVars, runVars
<1>3. /\ world \in Nat /\ worldAt \in [Uids -> Nat] /\ \A u \in Uids : worldAt[u] <= world
      /\ snapshot \in Nat /\ DOMAIN content = Targets
  BY DEF OutputInv, WorldInv
<1>4. CASE Load
  <2>1. UNCHANGED <<snapshot, todo, content, world>> /\ stage = "load" /\ stage' = "instances"
    BY <1>4 DEF Load, worldVars
  <2> QED  BY <1>2, <2>1 DEF OutputInv, WorldInv, ReadInv, WrittenInv, Holds,
                             OkMeansWritten, InStore
<1>5. CASE GetInstances
  <2>1. /\ UNCHANGED <<todo, content, world>>
        /\ stage = "instances" /\ stage' = "topology"
        /\ snapshot' = IF runItem.nodes THEN snapshot ELSE world
    BY <1>5 DEF GetInstances, worldVars
  <2>2. snapshot' \in Nat /\ (~runItem.nodes => snapshot' >= worldAt[runUid])
    BY <1>1, <1>3, <2>1
  <2> QED  BY <1>2, <2>1, <2>2 DEF OutputInv, WorldInv, ReadInv, WrittenInv, Holds,
                                   OkMeansWritten, InStore
<1>6. CASE GetTopology
  <2>1. /\ UNCHANGED <<content, world>> /\ todo' = Targets
        /\ stage = "topology" /\ stage' = "output"
        /\ snapshot' = IF runItem.nodes THEN world ELSE snapshot
    BY <1>6 DEF GetTopology, worldVars
  <2>2. snapshot' \in Nat /\ snapshot' >= worldAt[runUid]
    BY <1>1, <1>3, <2>1 DEF OutputInv, ReadInv
  <2> QED  BY <1>2, <2>1, <2>2 DEF OutputInv, WorldInv, ReadInv, WrittenInv, Holds,
                                   OkMeansWritten
<1>7. CASE ChangeWorld
  <2>1. UNCHANGED <<stage, snapshot, todo, content>> /\ world' = world + 1
    BY <1>7 DEF ChangeWorld, procVars
  <2>2. \A u \in Uids : worldAt[u] <= world'
    BY <1>3, <2>1
  <2> QED  BY <1>2, <1>3, <2>1, <2>2 DEF OutputInv, WorldInv, ReadInv, WrittenInv, Holds,
                                         OkMeansWritten, InStore
<1>8. ASSUME NEW t \in Targets, Write(t) PROVE OutputInv'
  <2>1. /\ UNCHANGED <<stage, snapshot, world>> /\ stage = "output" /\ todo' = todo \ {t}
        /\ content' = [content EXCEPT ![t] = [item |-> runItem, version |-> snapshot]]
    BY <1>8 DEF Write
  <2>2. /\ DOMAIN content' = Targets
        /\ content'[t] = [item |-> runItem, version |-> snapshot]
        /\ \A v \in Targets : v # t => content'[v] = content[v]
    BY <1>3, <2>1
  <2>3. pc # "store"
    BY <2>1 DEF RequestInv
  <2> QED  BY <1>2, <2>1, <2>2, <2>3 DEF OutputInv, WorldInv, ReadInv, WrittenInv,
                                         OkMeansWritten
<1> QED  BY <1>4, <1>5, <1>6, <1>7, <1>8

\* Every step of the server keeps what is known of the output.
LEMMA OutputStep ==
    ASSUME Inv, RequestInv, AttemptInv, OutputInv, [ServerNext]_serverVars
    PROVE  OutputInv'
<1> USE ServerAssumption
<1>1. ASSUME NEW p \in Payloads, generate(p) PROVE OutputInv'
  BY <1>1, GenerateOutput
<1>2. CASE \/ \E u \in Uids : getresult(u)
           \/ (QueueStep \/ PassTime) /\ UNCHANGED <<procVars, worldVars, histVars>>
  <2>1. /\ UNCHANGED <<stage, attempt, snapshot, todo, content, world, worldAt, lastDone,
                       lastItem, completion, runItem, runUid, runRes>>
        /\ (pc = "store" <=> pc' = "store")
        /\ \A u \in Uids : rank'[u] = 0 <=> rank[u] = 0
    BY <1>2, QuietSteps DEF procVars, worldVars, histVars, StoreKept
  <2> QED  BY <2>1 DEF OutputInv, WorldInv, ReadInv, WrittenInv, Holds, OkMeansWritten,
                       InStore
<1>3. CASE TakeRequest
  <2>1. /\ UNCHANGED <<snapshot, todo, content, world, worldAt, lastDone, lastItem, rank,
                       completion, runRes>>
        /\ pc = "check" /\ pc' = "handle" /\ stage = "none" /\ stage' = "lookup"
    BY <1>3 DEF TakeRequest, RunTake, StartAttempt, RequestInv, storeVars, worldVars
  <2>2. attempt = 0
    BY <2>1 DEF AttemptInv
  <2> QED  BY <2>1, <2>2 DEF OutputInv, WorldInv, ReadInv, WrittenInv, OkMeansWritten,
                             InStore
<1>4. CASE Retry
  <2>1. /\ UNCHANGED <<snapshot, todo, content, world, worldAt, lastDone, pc, runRes>>
        /\ stage = "backoff" /\ stage' = "lookup" /\ attempt' = attempt + 1
    BY <1>4 DEF Retry, StartAttempt, vars, runVars, worldVars
  <2>2. attempt' \in Nat /\ attempt' > 1
    BY <2>1 DEF AttemptInv
  <2>3. pc = "handle"
    BY <2>1 DEF RequestInv
  <2>4. OkMeansWritten'
    BY <2>1, <2>2 DEF OkMeansWritten
  <2> QED  BY <2>1, <2>3, <2>4 DEF OutputInv, WorldInv, ReadInv, WrittenInv
<1>5. CASE Lookup
  <2>1. CASE /\ stage = "lookup" /\ stage' = "load"
             /\ UNCHANGED <<vars, attempt, snapshot, todo, worldVars, histVars>>
    <3>1. UNCHANGED <<attempt, snapshot, todo, content, world, worldAt, lastDone, lastItem,
                      rank, completion, pc, runItem, runUid, runRes>>
      BY <2>1 DEF vars, queueVars, storeVars, runVars, worldVars, histVars
    <3> QED  BY <2>1, <3>1 DEF OutputInv, WorldInv, ReadInv, WrittenInv, Holds,
                               OkMeansWritten, InStore
  <2>2. CASE Fail({400})
    BY <1>5, <2>2, EndAttemptOutput DEF Fail, Lookup
  <2> QED  BY <1>5, <2>1, <2>2 DEF Lookup
<1>6. CASE Load \/ GetInstances \/ GetTopology \/ ChangeWorld \/ \E t \in Targets : Write(t)
  BY <1>6, StageOutput
<1>7. CASE Succeed
  BY <1>7, EndAttemptOutput DEF Succeed
<1>8. CASE StageFails
  <2>1. PICK c \in ErrorCodes : EndAttempt(c)
    BY <1>8 DEF StageFails, Fail
  <2>2. c # 200 /\ stage # "none"
    BY <1>8 DEF StageFails
  <2> QED  BY <1>8, <2>1, <2>2, EndAttemptOutput DEF StageFails, Fail
<1>9. CASE StoreResult
  <2>1. /\ UNCHANGED <<stage, attempt, snapshot, todo, content, world, worldAt, lastItem>>
        /\ pc = "store" /\ pc' = "select" /\ lastDone' = runUid
    BY <1>9 DEF StoreResult, RunStore, procVars, worldVars, queueVars
  <2>2. stage = "none"
    BY <2>1 DEF RequestInv
  <2>3. runUid \in Uids /\ completion'[runUid] = runRes
    BY <1>9, StoreResultStore DEF StoreResult
  <2>4. OkMeansWritten'
    BY <2>1, <2>3 DEF OutputInv, WrittenInv, Holds, OkMeansWritten
  <2> QED  BY <2>1, <2>2, <2>4 DEF OutputInv, WorldInv, ReadInv, WrittenInv
<1>10. CASE UNCHANGED serverVars
  BY <1>10 DEF serverVars, vars, procVars, worldVars, histVars, queueVars, storeVars,
               runVars, OutputInv, WorldInv, ReadInv, WrittenInv, Holds, OkMeansWritten,
               InStore
<1> QED  BY <1>1, <1>2, <1>3, <1>4, <1>5, <1>6, <1>7, <1>8, <1>9, <1>10
         DEF ServerNext, Processing

\* A 200 under the ID completed last means that every target holds its output,
\* from data read after the last submission under that ID, whatever attempts
\* failed on the way and whatever was submitted meanwhile.
THEOREM OkIsWritten == ServerSpec => []OkMeansWritten
<1>1. ServerInit => AttemptInv /\ OutputInv
  <2> SUFFICES ASSUME ServerInit PROVE AttemptInv /\ OutputInv
    OBVIOUS
  <2>1. AttemptInv
    BY QueueAssumption
       DEF ServerInit, Init, AttemptInv, ErrorsAreRetried, InStore, NoUid, Uids
  <2>2. WorldInv /\ ReadInv /\ WrittenInv
    BY DEF ServerInit, Init, WorldInv, ReadInv, WrittenInv
  <2>3. OkMeansWritten
    BY DEF ServerInit, Init, OkMeansWritten, InStore
  <2> QED  BY <2>1, <2>2, <2>3 DEF OutputInv
<1>2. Inv /\ RequestInv /\ AttemptInv /\ OutputInv /\ [ServerNext]_serverVars
          => AttemptInv' /\ OutputInv'
  BY AttemptStep, OutputStep
<1>3. OutputInv => OkMeansWritten
  BY DEF OutputInv
<1> QED  BY <1>1, <1>2, <1>3, RequestInvariance, ServerIsQueue, Invariance, PTL
         DEF ServerSpec

=============================================================================
