------------------------- MODULE SlurmEnginesProofs -------------------------
(***************************************************************************)
(* Proofs about SlurmEngines, for any cluster, any scenarios and any       *)
(* number of changes and executions, and about the lists of host names     *)
(* that pdsh gets, for any list.                                           *)
(***************************************************************************)
EXTENDS SlurmEngines, FiniteSetTheorems, WellFoundedInduction, TLAPS

SlurmOnly  == {"instances", "regions", "create", "write", "reconfigure"}
SlinkyOnly == {"pods", "get", "update", "createCM"}
Stages     == {"load", "start", "topology", "translate", "endless"} \cup SlurmOnly \cup SlinkyOnly \cup Idle

\* Hosts of the compute instances that have an ID.
Hosts == {ci[3] : ci \in Placed}

\* The variables have their types, and an engine keeps to its own stages.
EnginesTypeOK ==
    /\ \E s \in Scenarios : request = s.request /\ shape = s.shape
    /\ request.engine \in {"slurm", "slinky"}
    /\ up \subseteq Nodes
    /\ annotated \subseteq Nodes
    /\ ready \subseteq Pods
    /\ changes \in Nat
    /\ execs \in Nat
    /\ cm \in ConfigMaps \cup {None}
    /\ cmRead \in ConfigMaps \cup {None}
    /\ pc = "update" => cmRead # None
    /\ config \in Configs \cup {None}
    /\ pc \in Stages
    /\ pc \in SlurmOnly => request.engine = "slurm"
    /\ pc \in SlinkyOnly => request.engine = "slinky"
    /\ listed \subseteq Nodes
    /\ pc \in {"load", "start", "instances", "pods"} => i2n = {} /\ cis = {}
    /\ i2n \subseteq (listed \cup {NoInstance}) \X listed
    /\ Hosts \subseteq Nodes \cup Pods \cup {Bootstrap}

\* Versions that others are still to give to the ConfigMap.
Future == {<<"others", c>> : c \in 1..changes}

\* A version stands for the ConfigMap that had it.
VersionsTell ==
    /\ cm # None => cm.version \notin Future
    /\ pc = "update" =>
           /\ cmRead.version \notin Future
           /\ cm # None /\ cm.version = cmRead.version => cm = cmRead

\* What others wrote is in the ConfigMap, and gone with it.
TheirsInv ==
    /\ cm = None => theirs = None
    /\ OthersKept

\* The configuration is in the file before slurmctld is told.
PlaceInv ==
    /\ pc = "reconfigure" => file = config /\ request.reconfigure
    /\ SuccessInPlace

StoreInv == EnginesTypeOK /\ VersionsTell /\ TheirsInv /\ PlaceInv

----------------------------------------------------------------------------

\* The record a write leaves is a ConfigMap.
LEMMA WrittenIsConfigMap ==
  ASSUME EnginesTypeOK, NEW others \in Nat \cup {None}
  PROVE  Ours(others) \in ConfigMaps
<1>1. <<"engine", changes, execs>> \in Versions
  BY DEF Versions, EnginesTypeOK
<1>2. config \in Configs \cup {None}
  BY DEF EnginesTypeOK
<1> QED
  BY <1>1, <1>2 DEF Ours, ConfigMaps

LEMMA OthersWriteConfigMap ==
  ASSUME EnginesTypeOK, OthersWrite
  PROVE  \/ /\ cm' \in ConfigMaps /\ cm' # None
            /\ theirs' = cm'.others
            /\ cm # None => cm'.data = cm.data
            /\ lost' = lost
         \/ cm' = None /\ theirs' = None /\ lost' = TRUE
<1>1. CASE cm' = [version |-> <<"others", changes>>,
                  data    |-> IF cm = None THEN None ELSE cm.data,
                  others  |-> changes]
  <2>1. <<"others", changes>> \in Versions
    BY DEF Versions, EnginesTypeOK
  <2>2. (IF cm = None THEN None ELSE cm.data) \in Configs \cup {None}
    BY DEF ConfigMaps, EnginesTypeOK
  <2>3. cm' \in ConfigMaps
    BY <1>1, <2>1, <2>2 DEF ConfigMaps, EnginesTypeOK
  <2>4. cm' # None
    BY <2>3, EnginesAssumption
  <2>5. theirs' = changes /\ lost' = lost
    BY <1>1, <2>4 DEF OthersWrite
  <2> QED
    BY <1>1, <2>3, <2>4, <2>5
<1> QED
  BY <1>1 DEF OthersWrite

\* A configuration that is translated is one of the known ones.
LEMMA TranslatedIsConfig ==
  ASSUME EnginesTypeOK, Translate
  PROVE  config' \in Configs \cup {None}
<1>1. PICK s \in Scenarios : request = s.request /\ shape = s.shape
  BY DEF EnginesTypeOK
<1>3. CASE config' = config
  BY <1>3 DEF EnginesTypeOK
<1>4. CASE config' # config
  <2>1. PICK sizes : /\ config' = [hosts |-> Hosts, sizes |-> sizes]
                     /\ sizes = <<>> \/ sizes = getBlockSize(shape, getBlockSizes(request.sizes), UseFake)
    BY <1>4 DEF Translate, Hosts
  <2>2. UseFake \in BOOLEAN
    BY DEF UseFake
  <2>3. sizes \in {<<>>} \cup {getBlockSize(t.shape, getBlockSizes(t.request.sizes), fake) :
                                 t \in Scenarios, fake \in BOOLEAN}
    BY <1>1, <2>1, <2>2
  <2> QED
    BY <2>1, <2>3 DEF Configs, EnginesTypeOK
<1> QED
  BY <1>3, <1>4

LEMMA EnginesInitType == EnginesInit => EnginesTypeOK
<1> SUFFICES ASSUME EnginesInit PROVE EnginesTypeOK
  OBVIOUS
<1>1. PICK s \in Scenarios :
           /\ request = s.request
           /\ shape = s.shape
           /\ up = s.up
           /\ annotated = s.annotated
           /\ ready = s.ready
           /\ cm = s.cm
           /\ changes = s.changes
           /\ execs = s.execs
  BY DEF EnginesInit
<1>2. IsScenario(s)
  BY EnginesAssumption
<1>3. Hosts = {}
  BY DEF Hosts, Placed, EnginesInit
<1> QED
  BY <1>1, <1>2, <1>3 DEF IsScenario, EnginesInit, EnginesTypeOK, Stages, SlurmOnly, SlinkyOnly

LEMMA EnginesNextType == EnginesTypeOK /\ [EnginesNext]_engineVars => EnginesTypeOK'
<1> SUFFICES ASSUME EnginesTypeOK, [EnginesNext]_engineVars
             PROVE  EnginesTypeOK'
  OBVIOUS
<1> USE DEF EnginesTypeOK, Hosts, Placed
<1>1. CASE ClusterChanges
  <2>1. /\ up' \subseteq Nodes
        /\ annotated' \subseteq Nodes
        /\ ready' \subseteq Pods
    BY <1>1 DEF ClusterChanges, SymDiff
  <2> QED
    BY <1>1, <2>1 DEF ClusterChanges, Disturbed, scenarioVars, targetVars, readVars
<1>2. CASE OthersWrite
  <2>1. cm' \in ConfigMaps \cup {None}
    BY <1>2, OthersWriteConfigMap
  <2> QED
    BY <1>2, <2>1 DEF OthersWrite, Disturbed, scenarioVars, worldVars, readVars
<1>3. CASE SlurmRestarts
  BY <1>3 DEF SlurmRestarts, Disturbed, scenarioVars, worldVars, readVars
<1>4. CASE LoadEngine
  BY <1>4 DEF LoadEngine, Outside, scenarioVars, worldVars, boundVars, targetVars, readVars, Stages,
     SlurmOnly, SlinkyOnly, Idle
<1>5. CASE ListNodes
  BY <1>5 DEF ListNodes, Outside, scenarioVars, worldVars, boundVars, targetVars, Stages,
     SlurmOnly, SlinkyOnly, Idle
<1>6. CASE Instances2NodeMap
  <2>1. i2n' \subseteq (listed \cup {NoInstance}) \X listed
    BY <1>6 DEF Instances2NodeMap
  <2> QED
    BY <1>6, <2>1 DEF Instances2NodeMap, Outside, scenarioVars, worldVars, boundVars, targetVars,
       Stages, SlurmOnly, SlinkyOnly, Idle
<1>7. CASE GetInstancesRegions
  <2>1. Hosts' \subseteq Nodes
    BY <1>7 DEF GetInstancesRegions, aggregateComputeInstances
  <2> QED
    BY <1>7, <2>1 DEF GetInstancesRegions, Outside, scenarioVars, worldVars, boundVars, targetVars,
       Stages, SlurmOnly, SlinkyOnly, Idle
<1>8. CASE ListPods
  <2>1. Hosts' \subseteq Pods \cup {Bootstrap}
    BY <1>8 DEF ListPods
  <2> QED
    BY <1>8, <2>1 DEF ListPods, Outside, scenarioVars, worldVars, boundVars, targetVars, Stages,
       SlurmOnly, SlinkyOnly, Idle
<1>9. CASE GenerateTopologyConfig
  BY <1>9 DEF GenerateTopologyConfig, Outside, scenarioVars, worldVars, boundVars, targetVars, readVars,
     Stages, SlurmOnly, SlinkyOnly, Idle
<1>10. CASE Translate
  <2>1. config' \in Configs \cup {None}
    BY <1>10, TranslatedIsConfig
  <2> QED
    BY <1>10, <2>1 DEF Translate, Outside, scenarioVars, worldVars, boundVars, targetVars, readVars,
       Stages, SlurmOnly, SlinkyOnly, Idle
<1>11. CASE CreateFile \/ WriteFile \/ reconfigure
  BY <1>11 DEF CreateFile, WriteFile, reconfigure, Outside, scenarioVars, worldVars, boundVars, readVars,
     Stages, SlurmOnly, SlinkyOnly, Idle
<1>12. CASE GetConfigMap
  BY <1>12 DEF GetConfigMap, Outside, scenarioVars, worldVars, boundVars, targetVars, Stages,
     SlurmOnly, SlinkyOnly, Idle
<1>13. CASE UpdateConfigMap
  <2>1. cmRead.others \in Nat \cup {None}
    BY <1>13 DEF UpdateConfigMap, ConfigMaps
  <2>2. Ours(cmRead.others) \in ConfigMaps
    BY <2>1, WrittenIsConfigMap
  <2> QED
    BY <1>13, <2>1, <2>2 DEF UpdateConfigMap, Outside, scenarioVars, worldVars, boundVars, readVars,
       Stages, SlurmOnly, SlinkyOnly, Idle
<1>14. CASE CreateConfigMap
  <2>1. Ours(None) \in ConfigMaps
    BY WrittenIsConfigMap
  <2> QED
    BY <1>14, <2>1 DEF CreateConfigMap, Outside, scenarioVars, worldVars, boundVars, readVars,
       Stages, SlurmOnly, SlinkyOnly, Idle
<1>15. CASE Interrupted
  BY <1>15 DEF Interrupted, Outside, scenarioVars, worldVars, boundVars, targetVars, readVars, Stages,
     SlurmOnly, SlinkyOnly, Idle
<1>16. CASE NextExecution
  BY <1>16 DEF NextExecution, scenarioVars, worldVars, targetVars, Stages, SlurmOnly, SlinkyOnly, Idle
<1>17. CASE UNCHANGED engineVars
  BY <1>17 DEF engineVars, scenarioVars, worldVars, boundVars, targetVars, readVars
<1> QED
  BY <1>1, <1>2, <1>3, <1>4, <1>5, <1>6, <1>7, <1>8, <1>9, <1>10, <1>11, <1>12, <1>13, <1>14,
     <1>15, <1>16, <1>17 DEF EnginesNext, EngineStep

----------------------------------------------------------------------------
(* Where the configuration goes.                                            *)

\* Everything but the writes: the engine gets no closer to success, and
\* leaves what is written alone.
Elsewhere ==
    \/ ClusterChanges \/ LoadEngine \/ ListNodes \/ Instances2NodeMap \/ GetInstancesRegions
    \/ ListPods \/ GenerateTopologyConfig \/ Interrupted \/ NextExecution

LEMMA ElsewhereFrame ==
  ASSUME EnginesTypeOK, Elsewhere
  PROVE  /\ UNCHANGED <<scenarioVars, targetVars, theirs, lost>>
         /\ changes' \in 0..changes
         /\ \/ pc' = pc /\ UNCHANGED <<cmRead, config>>
            \/ pc' \notin {"done", "update", "reconfigure"}
<1> USE DEF EnginesTypeOK
<1>1. CASE ClusterChanges
  BY <1>1 DEF ClusterChanges, Disturbed, readVars
<1>2. CASE LoadEngine \/ ListNodes
  BY <1>2 DEF LoadEngine, ListNodes, Outside, boundVars, historyVars
<1>3. CASE Instances2NodeMap
  BY <1>3 DEF Instances2NodeMap, Outside, boundVars
<1>4. CASE GetInstancesRegions
  BY <1>4 DEF GetInstancesRegions, Outside, boundVars
<1>5. CASE ListPods
  <2>1. pc' \notin {"done", "update", "reconfigure"}
    BY <1>5 DEF ListPods
  <2> QED
    BY <1>5, <2>1 DEF ListPods, Outside, boundVars, historyVars
<1>6. CASE GenerateTopologyConfig \/ Interrupted \/ NextExecution
  BY <1>6 DEF GenerateTopologyConfig, Interrupted, NextExecution, Outside, boundVars, historyVars
<1> QED
  BY <1>1, <1>2, <1>3, <1>4, <1>5, <1>6 DEF Elsewhere

\* A step that changes nothing of the ConfigMap and does not begin an update.
LEMMA VersionsKept ==
  ASSUME VersionsTell, EnginesTypeOK, cm' = cm, changes' \in 0..changes,
         (pc' = pc /\ cmRead' = cmRead) \/ pc' # "update"
  PROVE  VersionsTell'
<1>1. Future' \subseteq Future
  BY DEF Future, EnginesTypeOK
<1> QED
  BY <1>1 DEF VersionsTell

LEMMA VersionsNext ==
  ASSUME EnginesTypeOK, VersionsTell, EnginesNext
  PROVE  VersionsTell'
<1>1. CASE Elsewhere
  BY <1>1, ElsewhereFrame, VersionsKept DEF targetVars
<1>2. CASE OthersWrite
  <2>1. Future' = Future \ {<<"others", changes>>}
    BY <1>2 DEF OthersWrite, Disturbed, Future, EnginesTypeOK
  <2>2. <<"others", changes>> \in Future
    BY <1>2 DEF OthersWrite, Disturbed, Future, EnginesTypeOK
  <2>3. pc' = pc /\ cmRead' = cmRead
    BY <1>2 DEF OthersWrite, readVars
  <2>4. cm' = None \/ cm'.version = <<"others", changes>>
    BY <1>2 DEF OthersWrite
  <2> QED
    BY <2>1, <2>2, <2>3, <2>4 DEF VersionsTell
<1>3. CASE SlurmRestarts
  BY <1>3, VersionsKept DEF SlurmRestarts, Disturbed, readVars, EnginesTypeOK
<1>4. CASE Translate \/ CreateFile \/ WriteFile \/ reconfigure
  BY <1>4, VersionsKept DEF Translate, CreateFile, WriteFile, reconfigure, Outside, boundVars, targetVars,
     readVars, EnginesTypeOK
<1>5. CASE GetConfigMap
  <2>1. Future' = Future
    BY <1>5 DEF GetConfigMap, Outside, boundVars, Future
  <2> QED
    BY <1>5, <2>1 DEF GetConfigMap, targetVars, VersionsTell
<1>6. CASE UpdateConfigMap \/ CreateConfigMap
  <2>1. Future' = Future
    BY <1>6 DEF UpdateConfigMap, CreateConfigMap, Outside, boundVars, Future
  <2>2. <<"engine", changes, execs>> \notin Future
    <3>1. \A c : <<"engine", changes, execs>>[1] # <<"others", c>>[1]
      OBVIOUS
    <3> QED
      BY <3>1 DEF Future
  <2>3. cm' = cm \/ cm'.version = <<"engine", changes, execs>>
    BY <1>6 DEF UpdateConfigMap, CreateConfigMap, Ours
  <2>4. pc' # "update"
    BY <1>6 DEF UpdateConfigMap, CreateConfigMap
  <2> QED
    BY <2>1, <2>2, <2>3, <2>4 DEF VersionsTell
<1> QED
  BY <1>1, <1>2, <1>3, <1>4, <1>5, <1>6 DEF EnginesNext, EngineStep, Elsewhere

LEMMA TheirsNext ==
  ASSUME EnginesTypeOK, VersionsTell, TheirsInv, EnginesNext
  PROVE  TheirsInv'
<1>1. CASE Elsewhere
  BY <1>1, ElsewhereFrame DEF targetVars, TheirsInv, OthersKept
<1>2. CASE OthersWrite
  BY <1>2, OthersWriteConfigMap, EnginesAssumption DEF TheirsInv, OthersKept
<1>3. CASE SlurmRestarts
  BY <1>3 DEF SlurmRestarts, historyVars, TheirsInv, OthersKept
<1>4. CASE Translate \/ CreateFile \/ WriteFile \/ reconfigure \/ GetConfigMap
  BY <1>4 DEF Translate, CreateFile, WriteFile, reconfigure, GetConfigMap, targetVars, historyVars,
     TheirsInv, OthersKept
<1>5. CASE UpdateConfigMap
  <2>1. CASE cm # None /\ cm.version = cmRead.version
    <3>1. cm = cmRead
      BY <1>5, <2>1 DEF UpdateConfigMap, VersionsTell
    <3>2. cm' = Ours(cm.others) /\ theirs' = theirs
      BY <1>5, <2>1, <3>1 DEF UpdateConfigMap
    <3>3. cm.others \in Nat \cup {None}
      BY <2>1 DEF EnginesTypeOK, ConfigMaps
    <3>4. cm' # None
      BY <3>2, <3>3, WrittenIsConfigMap, EnginesAssumption
    <3> QED
      BY <2>1, <3>2, <3>4 DEF Ours, TheirsInv, OthersKept
  <2> QED
    BY <1>5, <2>1 DEF UpdateConfigMap, TheirsInv, OthersKept
<1>6. CASE CreateConfigMap
  BY <1>6 DEF CreateConfigMap, TheirsInv, OthersKept
<1> QED
  BY <1>1, <1>2, <1>3, <1>4, <1>5, <1>6 DEF EnginesNext, EngineStep, Elsewhere

LEMMA PlaceNext ==
  ASSUME EnginesTypeOK, PlaceInv, EnginesNext
  PROVE  PlaceInv'
<1> USE DEF PlaceInv, SuccessInPlace
<1>1. CASE Elsewhere
  BY <1>1, ElsewhereFrame DEF targetVars, scenarioVars
<1>2. CASE OthersWrite
  <2>1. request.engine = "slinky" /\ UNCHANGED <<request, pc, config, file>>
    BY <1>2 DEF OthersWrite, scenarioVars
  <2>2. pc # "reconfigure"
    BY <2>1 DEF EnginesTypeOK, SlurmOnly
  <2>3. CASE cm' = None /\ lost' = TRUE
    BY <2>1, <2>2, <2>3
  <2>4. CASE cm' # None /\ (cm # None => cm'.data = cm.data) /\ lost' = lost
    BY <2>1, <2>2, <2>4
  <2> QED
    BY <1>2, <2>3, <2>4, OthersWriteConfigMap
<1>3. CASE SlurmRestarts
  BY <1>3 DEF SlurmRestarts, scenarioVars, historyVars
<1>4. CASE Translate
  BY <1>4 DEF Translate, Outside, scenarioVars, targetVars
<1>5. CASE CreateFile \/ WriteFile \/ reconfigure
  BY <1>5 DEF CreateFile, WriteFile, reconfigure, Outside, scenarioVars, EnginesTypeOK, SlurmOnly
<1>6. CASE GetConfigMap
  BY <1>6 DEF GetConfigMap
<1>7. CASE UpdateConfigMap
  <2>1. cmRead.others \in Nat \cup {None}
    BY <1>7 DEF UpdateConfigMap, EnginesTypeOK, ConfigMaps
  <2>2. Ours(cmRead.others) # None
    BY <2>1, WrittenIsConfigMap, EnginesAssumption
  <2> QED
    BY <1>7, <2>2 DEF UpdateConfigMap, Ours, Outside, scenarioVars, EnginesTypeOK, SlinkyOnly
<1>8. CASE CreateConfigMap
  <2>1. Ours(None) # None
    BY WrittenIsConfigMap, EnginesAssumption
  <2> QED
    BY <1>8, <2>1 DEF CreateConfigMap, Ours, Outside, scenarioVars, EnginesTypeOK, SlinkyOnly
<1> QED
  BY <1>1, <1>2, <1>3, <1>4, <1>5, <1>6, <1>7, <1>8 DEF EnginesNext, EngineStep, Elsewhere

LEMMA StoreInitInv == EnginesInit => StoreInv
<1> SUFFICES ASSUME EnginesInit PROVE StoreInv
  OBVIOUS
<1>1. cm # None => cm.version \notin Future
  <2>1. PICK s \in Scenarios : cm = s.cm /\ changes = s.changes
    BY DEF EnginesInit
  <2>2. IsScenario(s)
    BY EnginesAssumption
  <2> QED
    BY <2>1, <2>2 DEF IsScenario, Future
<1>2. VersionsTell
  BY <1>1 DEF VersionsTell, EnginesInit
<1>3. TheirsInv
  BY DEF EnginesInit, TheirsInv, OthersKept
<1>4. PlaceInv
  BY DEF EnginesInit, PlaceInv, SuccessInPlace
<1> QED
  BY <1>2, <1>3, <1>4, EnginesInitType DEF StoreInv

LEMMA StoreNextInv == StoreInv /\ [EnginesNext]_engineVars => StoreInv'
<1> SUFFICES ASSUME StoreInv, [EnginesNext]_engineVars
             PROVE  StoreInv'
  OBVIOUS
<1>1. EnginesTypeOK'
  BY EnginesNextType DEF StoreInv
<1>2. CASE EnginesNext
  BY <1>1, <1>2, VersionsNext, TheirsNext, PlaceNext DEF StoreInv
<1>3. CASE UNCHANGED engineVars
  <2>1. /\ UNCHANGED <<cm, changes, pc, cmRead, theirs, file, loaded, request, config, lost>>
    BY <1>3 DEF engineVars, scenarioVars, worldVars, boundVars, targetVars, readVars, historyVars
  <2>2. VersionsTell'
    BY <2>1 DEF StoreInv, VersionsTell, Future
  <2> QED
    BY <1>1, <2>1, <2>2 DEF StoreInv, TheirsInv, OthersKept, PlaceInv, SuccessInPlace
<1> QED
  BY <1>2, <1>3

LEMMA StoreInvariant == EnginesSpec => []StoreInv
  BY StoreInitInv, StoreNextInv, PTL DEF EnginesSpec

\* However often others write or delete the ConfigMap, and whenever: the engine
\* writes back what they wrote last.  The version that the API server compares
\* is what the proof rests on (UpdateTopologyConfigmap).
THEOREM OthersAreKept == EnginesSpec => []OthersKept
<1>1. StoreInv => OthersKept
  BY DEF StoreInv, TheirsInv
<1> QED
  BY <1>1, StoreInvariant, PTL

\* In every cluster, an engine that reports success has put its configuration
\* where it belongs (GenerateOutputParams, UpdateTopologyConfigmap).
THEOREM SuccessIsInPlace == EnginesSpec => []SuccessInPlace
<1>1. StoreInv => SuccessInPlace
  BY DEF StoreInv, PlaceInv
<1> QED
  BY <1>1, StoreInvariant, PTL

----------------------------------------------------------------------------
(* Lists of host names.                                                     *)

\* A set of numbers has a least element.
LEMMA LeastNumber ==
  ASSUME NEW S, S \subseteq Nat, S # {}
  PROVE  \E m \in S : \A n \in S : m <= n
<1>1. PICK m \in S : \A n \in S : ~(<<n, m>> \in OpToRel(<, Nat))
  BY NatLessThanWellFounded, WFMin, Zenon
<1>2. \A n \in S : ~(n < m)
  BY <1>1 DEF OpToRel
<1> QED
  BY <1>2

LEMMA MaxOfTwo ==
  ASSUME NEW a \in Int, NEW b \in Int
  PROVE  Max({a, b}) = IF a >= b THEN a ELSE b
<1>1. CASE a >= b
  <2>1. \A x \in {a, b} : (\A y \in {a, b} : x >= y) <=> x = a
    BY <1>1
  <2> QED  BY <1>1, <2>1 DEF Max
<1>2. CASE b > a
  <2>1. \A x \in {a, b} : (\A y \in {a, b} : x >= y) <=> x = b
    BY <1>2
  <2> QED  BY <1>2, <2>1 DEF Max
<1> QED  BY <1>1, <1>2

\* A greater number has as many digits or more.
LEMMA DigitsGrow ==
  ASSUME NEW i \in Nat, NEW j \in Nat, i <= j
  PROVE  Digits(i) \in Nat \ {0} /\ Digits(j) \in Nat \ {0} /\ Digits(i) <= Digits(j)
<1> DEFINE P(n) == {k \in 1..(n \div 10) : 10 ^ k \in 1..n}
<1>1. i \div 10 \in Nat /\ j \div 10 \in Nat /\ i \div 10 <= j \div 10
  OBVIOUS
<1>2. P(i) \subseteq P(j) /\ P(j) \subseteq 1..(j \div 10)
  <2>1. 1..(i \div 10) \subseteq 1..(j \div 10) /\ 1..i \subseteq 1..j
    BY <1>1
  <2> QED  BY <2>1, Zenon
<1> HIDE DEF P
<1>3. IsFiniteSet(P(j)) /\ IsFiniteSet(P(i)) /\ Cardinality(P(i)) <= Cardinality(P(j))
  BY <1>1, <1>2, FS_Interval, FS_Subset
<1>4. Cardinality(P(i)) \in Nat /\ Cardinality(P(j)) \in Nat
  BY <1>3, FS_CardinalityType
<1>5. Digits(i) = 1 + Cardinality(P(i)) /\ Digits(j) = 1 + Cardinality(P(j))
  BY DEF Digits, P
<1> QED  BY <1>3, <1>4, <1>5

\* Sorting keeps all names and adds none.
LEMMA OrderedKeeps ==
  ASSUME NEW list, NEW S, S \subseteq Nat, IsFiniteSet(S), \A i \in S : list[i].num \in Nat
  PROVE  /\ Cardinality(S) \in Nat /\ DOMAIN Ordered(list, S) = 1..Cardinality(S)
         /\ \A i \in S : \E k \in 1..Cardinality(S) : Ordered(list, S)[k] = list[i]
         /\ \A k \in 1..Cardinality(S) : \E i \in S : Ordered(list, S)[k] = list[i]
<1> DEFINE pred(i) == {j \in S : Before(list, j, i)}
           n == Cardinality(S)
           f == [i \in S |-> Cardinality(pred(i))]
           at(k) == CHOOSE i \in S : Cardinality(pred(i)) = k - 1
<1>1. n \in Nat
  BY FS_CardinalityType
<1>2. \A i \in S : pred(i) \subseteq S \ {i}
  BY DEF Before
<1>3. \A i, j \in S : Before(list, i, j) => pred(i) \cup {i} \subseteq pred(j)
  <2>1. \A h, i, j \in S : Before(list, h, i) /\ Before(list, i, j) => Before(list, h, j)
    BY DEF Before
  <2> QED  BY <2>1, Zenon
<1>4. \A i, j \in S : i # j => Before(list, i, j) \/ Before(list, j, i)
  BY DEF Before
<1>5. Ordered(list, S) = [k \in 1..n |-> list[at(k)]]
  BY DEF Ordered
<1> HIDE DEF pred, n
<1>6. \A i \in S : IsFiniteSet(pred(i)) /\ Cardinality(pred(i)) \in 0..(n - 1)
  <2> TAKE i \in S
  <2>1. IsFiniteSet(S \ {i}) /\ Cardinality(S \ {i}) = n - 1
    BY FS_RemoveElement DEF n
  <2>2. IsFiniteSet(pred(i)) /\ Cardinality(pred(i)) <= n - 1
    BY <1>2, <2>1, FS_Subset
  <2> QED  BY <1>1, <2>2, FS_CardinalityType
<1>7. \A i, j \in S : Before(list, i, j) => Cardinality(pred(i)) < Cardinality(pred(j))
  <2> SUFFICES ASSUME NEW i \in S, NEW j \in S, Before(list, i, j)
               PROVE  Cardinality(pred(i)) < Cardinality(pred(j))
    OBVIOUS
  <2>1. i \notin pred(i)
    BY <1>2
  <2>2. Cardinality(pred(i) \cup {i}) = Cardinality(pred(i)) + 1
    BY <1>6, <2>1, FS_AddElement
  <2>3. Cardinality(pred(i) \cup {i}) <= Cardinality(pred(j))
    BY <1>3, <1>6, FS_Subset
  <2> QED  BY <1>1, <1>6, <2>2, <2>3
<1>8. f \in [S -> 0..(n - 1)] /\ \A i, j \in S : f[i] = f[j] => i = j
  <2>1. f \in [S -> 0..(n - 1)]
    BY <1>6
  <2>2. \A i \in S : f[i] = Cardinality(pred(i)) /\ f[i] \in Int
    BY <1>1, <1>6
  <2> HIDE DEF f
  <2>3. \A i, j \in S : Before(list, i, j) => f[i] # f[j]
    BY <1>7, <2>2
  <2> QED  BY <1>4, <2>1, <2>3
<1>9. \A m \in 0..(n - 1) : \E i \in S : f[i] = m
  <2> HIDE DEF f
  <2>1. f \in Injection(S, 0..(n - 1))
    BY <1>8 DEF Injection, IsInjective
  <2>2. IsFiniteSet(0..(n - 1)) /\ Cardinality(0..(n - 1)) = n
    BY <1>1, FS_Interval
  <2>3. f \in Surjection(S, 0..(n - 1))
    BY <2>1, <2>2, FS_Injection DEF n
  <2> QED  BY <2>3 DEF Surjection
<1>10. \A k \in 1..n : at(k) \in S /\ Cardinality(pred(at(k))) = k - 1
  <2> TAKE k \in 1..n
  <2>1. \E i \in S : Cardinality(pred(i)) = k - 1
    BY <1>1, <1>9
  <2> QED  BY <2>1
<1> HIDE DEF at
<1>11. \A i \in S : \E k \in 1..n : at(k) = i
  <2> TAKE i \in S
  <2> DEFINE k == Cardinality(pred(i)) + 1
  <2>1. k \in 1..n /\ Cardinality(pred(i)) = k - 1
    BY <1>1, <1>6
  <2> HIDE DEF k
  <2>2. f[at(k)] = f[i] /\ at(k) \in S
    BY <1>10, <2>1
  <2> QED  BY <1>8, <2>1, <2>2
<1> HIDE DEF f
<1>12. DOMAIN Ordered(list, S) = 1..n /\ \A k \in 1..n : Ordered(list, S)[k] = list[at(k)]
  BY <1>5
<1> QED  BY <1>1, <1>10, <1>11, <1>12 DEF n

\* A run of names, along which the numbers go up by one.
IsRun(numbers, a, b) ==
  /\ Breaks(numbers, a) /\ Breaks(numbers, b + 1)
  /\ \A m \in (a + 1)..b : ~Breaks(numbers, m)
  /\ \A m \in a..b : numbers[m].num = numbers[a].num + (m - a)

\* Every name is in one.
LEMMA InRun ==
  ASSUME NEW numbers, NEW n \in Nat, Len(numbers) = n, \A m \in 1..n : numbers[m].num \in Nat,
         NEW k \in 1..n
  PROVE  \E a, b \in 1..n : a <= k /\ k <= b /\ IsRun(numbers, a, b)
<1>1. Breaks(numbers, 1) /\ Breaks(numbers, n + 1)
  BY DEF Breaks
<1>2. PICK a \in 1..k : Breaks(numbers, a) /\ \A m \in (a + 1)..k : ~Breaks(numbers, m)
  <2> DEFINE D == {d \in 0..(k - 1) : Breaks(numbers, k - d)}
  <2>1. k - 1 \in D
    BY <1>1
  <2>2. D \subseteq Nat
    OBVIOUS
  <2>3. \A d \in 0..(k - 1) : d \in D <=> Breaks(numbers, k - d)
    OBVIOUS
  <2> HIDE DEF D
  <2>4. PICK d \in D : \A e \in D : d <= e
    BY <2>1, <2>2, LeastNumber
  <2>5. d \in 0..(k - 1)
    BY <2>1, <2>2, <2>4
  <2>6. \A m \in (k - d + 1)..k : ~Breaks(numbers, m)
    <3> SUFFICES ASSUME NEW m \in (k - d + 1)..k, Breaks(numbers, m) PROVE FALSE
      OBVIOUS
    <3>1. k - m \in 0..(k - 1) /\ k - (k - m) = m /\ k - m < d
      BY <2>5
    <3> QED  BY <2>2, <2>3, <2>4, <3>1
  <2> QED  BY <2>3, <2>4, <2>5, <2>6
<1>3. PICK b \in k..n : Breaks(numbers, b + 1) /\ \A m \in (k + 1)..b : ~Breaks(numbers, m)
  <2> DEFINE D == {d \in k..n : Breaks(numbers, d + 1)}
  <2>1. n \in D
    BY <1>1
  <2>2. D \subseteq Nat
    OBVIOUS
  <2>3. \A d \in k..n : d \in D <=> Breaks(numbers, d + 1)
    OBVIOUS
  <2>4. D \subseteq k..n
    OBVIOUS
  <2> HIDE DEF D
  <2>5. PICK b \in D : \A e \in D : b <= e
    BY <2>1, <2>2, LeastNumber
  <2>6. \A m \in (k + 1)..b : ~Breaks(numbers, m)
    <3> SUFFICES ASSUME NEW m \in (k + 1)..b, Breaks(numbers, m) PROVE FALSE
      OBVIOUS
    <3>1. m - 1 \in k..n /\ (m - 1) + 1 = m /\ m - 1 < b
      BY <2>4, <2>5
    <3>2. m - 1 \in D
      BY <2>3, <3>1
    <3> QED  BY <2>2, <2>5, <3>1, <3>2
  <2> QED  BY <2>3, <2>4, <2>5, <2>6
<1>4. \A m \in (a + 1)..b : ~Breaks(numbers, m)
  BY <1>2, <1>3
<1>5. \A m \in a..b : numbers[m].num = numbers[a].num + (m - a)
  <2> DEFINE D == {m \in a..b : numbers[m].num # numbers[a].num + (m - a)}
  <2> SUFFICES ASSUME D # {} PROVE FALSE
    OBVIOUS
  <2>1. D \subseteq a..b /\ D \subseteq Nat
    OBVIOUS
  <2>2. \A m \in a..b : m \in D <=> numbers[m].num # numbers[a].num + (m - a)
    OBVIOUS
  <2> HIDE DEF D
  <2>3. PICK m \in D : \A e \in D : m <= e
    BY <2>1, LeastNumber
  <2>4. numbers[a].num \in Nat /\ m # a
    BY <2>1, <2>2, <2>3
  <2>5. m - 1 \in a..b /\ m \in (a + 1)..b /\ m - 1 \notin D
    BY <2>1, <2>3, <2>4
  <2>6. numbers[m].num = numbers[m - 1].num + 1
    BY <1>4, <2>5 DEF Breaks, Follows
  <2>7. numbers[m - 1].num = numbers[a].num + (m - 1 - a)
    BY <2>2, <2>5
  <2>8. numbers[m].num = numbers[a].num + (m - a)
    BY <2>4, <2>5, <2>6, <2>7
  <2> QED  BY <2>1, <2>2, <2>3, <2>8
<1>6. IsRun(numbers, a, b)
  BY <1>2, <1>3, <1>4, <1>5 DEF IsRun
<1> QED  BY <1>2, <1>3, <1>6

\* A name of a list is in the short form of it, if the names with its prefix are
\* numbered with one width.
LEMMA CompactKeeps ==
  ASSUME NEW list, DOMAIN list \subseteq Nat, IsFiniteSet(DOMAIN list),
         \A i \in DOMAIN list : IsHost(list[i]),
         NEW i \in DOMAIN list, NEW w \in Nat \ {0},
         \A j \in DOMAIN list : list[j].prefix = list[i].prefix =>
                                    list[j].width = Max({w, Digits(list[j].num)})
  PROVE  list[i] \in Expand(Compact(list))
<1> DEFINE p == list[i].prefix
           S == {j \in DOMAIN list : list[j].prefix = p}
           numbers == Ordered(list, groups(list, p))
           entry == [prefix |-> p, ranges |-> compressRange(numbers)]
           n == Cardinality(S)
<1>1. \A j \in DOMAIN list : list[j].num \in Nat /\ list[j].width \in Nat
  BY DEF IsHost
<1>2. \A j \in S : /\ list[j].width = IF w >= Digits(list[j].num) THEN w ELSE Digits(list[j].num)
                   /\ list[j].width > 0 /\ list[j].prefix = p
  <2> TAKE j \in S
  <2>1. /\ list[j].num \in Nat /\ list[j].prefix = p
        /\ list[j].width = Max({w, Digits(list[j].num)})
    BY <1>1
  <2>2. Digits(list[j].num) \in Nat \ {0}
    BY <2>1, DigitsGrow
  <2>3. Max({w, Digits(list[j].num)}) = IF w >= Digits(list[j].num) THEN w ELSE Digits(list[j].num)
    BY <2>2, MaxOfTwo
  <2> QED  BY <2>1, <2>2, <2>3
<1>3. groups(list, p) = S
  <2>1. \A j \in DOMAIN list : list[j] # Host(p, 0, 0)
    BY <1>2 DEF Host
  <2> QED  BY <2>1, Zenon DEF groups
<1>4. S \subseteq Nat /\ IsFiniteSet(S) /\ i \in S
  BY FS_Subset
<1>4a. \A j \in S : list[j].num \in Nat
  BY <1>1
<1> HIDE DEF S
<1>5. /\ n \in Nat /\ DOMAIN numbers = 1..n
      /\ \A j \in S : \E k \in 1..n : numbers[k] = list[j]
      /\ \A k \in 1..n : \E j \in S : numbers[k] = list[j]
  <2>1. /\ Cardinality(S) \in Nat /\ DOMAIN Ordered(list, S) = 1..Cardinality(S)
        /\ \A j \in S : \E k \in 1..Cardinality(S) : Ordered(list, S)[k] = list[j]
        /\ \A k \in 1..Cardinality(S) : \E j \in S : Ordered(list, S)[k] = list[j]
    BY <1>4, <1>4a, OrderedKeeps
  <2> QED  BY <1>3, <2>1
<1>6. entry \in Compact(list)
  BY DEF Compact
<1> HIDE DEF numbers, n
<1>7. \A k \in 1..n : /\ numbers[k].num \in Nat /\ IsHost(numbers[k]) /\ numbers[k].prefix = p
                      /\ numbers[k].width = IF w >= Digits(numbers[k].num)
                                            THEN w ELSE Digits(numbers[k].num)
  <2> TAKE k \in 1..n
  <2>1. PICK j \in S : numbers[k] = list[j]
    BY <1>5
  <2>2. j \in DOMAIN list
    BY DEF S
  <2>3. list[j].num \in Nat /\ IsHost(list[j]) /\ list[j].prefix = p
    BY <1>2, <1>4a, <2>2
  <2>4. list[j].width = IF w >= Digits(list[j].num) THEN w ELSE Digits(list[j].num)
    BY <1>2
  <2> QED  BY <2>1, <2>3, <2>4
<1>8. PICK k \in 1..n : numbers[k] = list[i]
  BY <1>4, <1>5
<1>9. Len(numbers) = n
  <2>1. numbers = [k_1 \in 1..n |-> numbers[k_1]]
    BY <1>5 DEF numbers, Ordered
  <2> QED  BY <1>5, <2>1
<1>10. PICK a, b \in 1..n : a <= k /\ k <= b /\ IsRun(numbers, a, b)
  <2>1. n \in Nat /\ \A m \in 1..n : numbers[m].num \in Nat
    BY <1>5, <1>7
  <2> HIDE DEF p, entry
  <2> QED  BY <1>8, <1>9, <2>1, InRun
<1>11. <<numbers[a], numbers[b]>> \in compressRange(numbers)
  <2> DEFINE R == {run \in (DOMAIN numbers) \X (DOMAIN numbers) :
                     /\ run[1] <= run[2] /\ Breaks(numbers, run[1]) /\ Breaks(numbers, run[2] + 1)
                     /\ \A m \in (run[1] + 1)..run[2] : ~Breaks(numbers, m)}
             r == <<a, b>>
  <2>0. n \in Nat /\ DOMAIN numbers = 1..n /\ a <= k /\ k <= b
    BY <1>5, <1>10
  <2>1. r \in (DOMAIN numbers) \X (DOMAIN numbers) /\ r[1] = a /\ r[2] = b /\ a <= b
    BY <2>0
  <2>2. r \in R
    BY <1>10, <2>1 DEF IsRun
  <2>3. compressRange(numbers) = {<<numbers[run[1]], numbers[run[2]]>> : run \in R}
    BY DEF compressRange
  <2> HIDE DEF r, R
  <2> QED  BY <2>1, <2>2, <2>3
<1>12. list[i] \in ExpandRange(p, numbers[a], numbers[b])
  <2>1. /\ numbers[k].num = numbers[a].num + (k - a) /\ numbers[b].num = numbers[a].num + (b - a)
        /\ numbers[a].num \in Nat
    BY <1>7, <1>10 DEF IsRun
  <2>2. CASE numbers[a] = numbers[b]
    <3>1. k = a
      BY <1>10, <2>1, <2>2
    <3> QED  BY <1>8, <2>2, <3>1 DEF ExpandRange
  <2>3. CASE numbers[a] # numbers[b]
    <3>1. numbers[k].num \in numbers[a].num..numbers[b].num /\ numbers[a].num <= numbers[k].num
      BY <1>10, <2>1
    <3>2. /\ Digits(numbers[a].num) \in Nat /\ Digits(numbers[k].num) \in Nat
          /\ Digits(numbers[a].num) <= Digits(numbers[k].num)
      BY <1>7, <3>1, DigitsGrow
    <3>3. Max({numbers[a].width, Digits(numbers[k].num)}) = numbers[k].width
      <4>1. numbers[a].width \in Int
        BY <1>7, <3>2
      <4> QED  BY <1>7, <3>2, <4>1, MaxOfTwo
    <3>4. numbers[k] = Host(p, Max({numbers[a].width, Digits(numbers[k].num)}), numbers[k].num)
      BY <1>7, <3>3 DEF IsHost
    <3> QED  BY <1>8, <2>3, <3>1, <3>4 DEF ExpandRange
  <2> QED  BY <2>2, <2>3
<1> HIDE DEF p
<1> QED  BY <1>6, <1>11, <1>12 DEF Expand

\* So is a name without digits, if it is the only one with its prefix.
LEMMA CompactKeepsBare ==
  ASSUME NEW list, NEW i \in DOMAIN list, DOMAIN list \subseteq Nat,
         list[i] = Host(list[i].prefix, 0, 0),
         \A j \in DOMAIN list : list[j].prefix = list[i].prefix => list[j] = list[i]
  PROVE  list[i] \in Expand(Compact(list))
<1> DEFINE p == list[i].prefix
           entry == [prefix |-> p, ranges |-> compressRange(Ordered(list, groups(list, p)))]
<1>1. groups(list, p) = {}
  BY DEF groups
<1>2. DOMAIN Ordered(list, {}) = {}
  BY FS_EmptySet DEF Ordered
<1>3. compressRange(Ordered(list, {})) = {}
  BY <1>2 DEF compressRange
<1>4. entry \in Compact(list) /\ entry.ranges = {}
  BY <1>1, <1>3 DEF Compact
<1> QED  BY <1>4 DEF Expand

----------------------------------------------------------------------------
(* Which hosts are configured.                                              *)

\* pdsh reaches the nodes it is given.
Reached == \A S \in SUBSET Nodes : S \subseteq Pdsh(naming, S)

\* The names of a cluster are names.
NamingOK == \A n \in Nodes : IsHost(naming[n])

\* What HostLists is for: names that are numbered regularly survive the short
\* form, for any cluster and any part of it.
LEMMA NamesReached ==
  ASSUME NamingOK, Regular({naming[n] : n \in Nodes})
  PROVE  Reached
<1> SUFFICES ASSUME NEW S \in SUBSET Nodes, NEW n \in S
             PROVE  n \in Pdsh(naming, S)
  BY DEF Reached
<1> DEFINE at == {i \in DOMAIN NodeOrder : NodeOrder[i] \in S}
           list == [i \in at |-> naming[NodeOrder[i]]]
           p == naming[n].prefix
           names == {naming[m] : m \in Nodes}
           same == {x \in names : x.prefix = p}
<1>1. DOMAIN list \subseteq Nat /\ IsFiniteSet(DOMAIN list)
  <2>1. Len(NodeOrder) \in Nat /\ DOMAIN NodeOrder = 1..Len(NodeOrder)
    BY EnginesAssumption
  <2>2. at \subseteq 1..Len(NodeOrder) /\ DOMAIN list = at
    BY <2>1
  <2>3. 1..Len(NodeOrder) \subseteq Nat /\ IsFiniteSet(1..Len(NodeOrder))
    BY <2>1, FS_Interval
  <2> HIDE DEF at, list
  <2> QED  BY <2>2, <2>3, FS_Subset
<1>2. PICK i \in DOMAIN list : list[i] = naming[n]
  BY EnginesAssumption DEF ToSet
<1>3. \A j \in DOMAIN list : \E m \in Nodes : list[j] = naming[m]
  OBVIOUS
<1>4. Pdsh(naming, S) = {m \in S : naming[m] \in Expand(Compact(list))}
  BY DEF Pdsh
<1> HIDE DEF list
<1>5. \A j \in DOMAIN list : IsHost(list[j]) /\ (list[j].prefix = p => list[j] \in same)
  BY <1>3 DEF NamingOK
<1>6. \/ same = {Host(p, 0, 0)}
      \/ \E w \in 1..Max({x.width : x \in same} \cup {1}) :
             \A x \in same : x.width = Max({w, Digits(x.num)})
  <2>1. Regular(names) /\ naming[n] \in names
    OBVIOUS
  <2> HIDE DEF names
  <2>2. p \in {x.prefix : x \in names}
    BY <2>1
  <2> QED  BY <2>1, <2>2, Zenon DEF Regular
<1>7. naming[n] \in same
  OBVIOUS
<1> HIDE DEF same
<1>8. CASE same = {Host(p, 0, 0)}
  <2>1. list[i] = Host(p, 0, 0) /\ list[i].prefix = p
    BY <1>2, <1>7, <1>8
  <2>2. \A j \in DOMAIN list : list[j].prefix = p => list[j] = list[i]
    BY <1>5, <1>8, <2>1
  <2>3. list[i] \in Expand(Compact(list))
    BY <1>1, <2>1, <2>2, CompactKeepsBare
  <2> QED  BY <1>2, <1>4, <2>3
<1>9. CASE \E w \in 1..Max({x.width : x \in same} \cup {1}) :
               \A x \in same : x.width = Max({w, Digits(x.num)})
  <2>1. PICK w \in 1..Max({x.width : x \in same} \cup {1}) :
               \A x \in same : x.width = Max({w, Digits(x.num)})
    BY <1>9
  <2>2. w \in Nat \ {0}
    OBVIOUS
  <2>3. \A j \in DOMAIN list : list[j].prefix = list[i].prefix =>
                                   list[j].width = Max({w, Digits(list[j].num)})
    BY <1>2, <1>5, <2>1
  <2>4. \A j \in DOMAIN list : IsHost(list[j])
    BY <1>5
  <2>5. list[i] \in Expand(Compact(list))
    BY <1>1, <2>2, <2>3, <2>4, CompactKeeps
  <2> QED  BY <1>2, <1>4, <2>5
<1> QED  BY <1>6, <1>8, <1>9

\* No step changes the names.
LEMMA NamingInvariant == EnginesSpec => []NamingOK
<1>1. EnginesInit => NamingOK
  BY EnginesAssumption DEF EnginesInit, IsScenario, NamingOK
<1>2. [EnginesNext]_engineVars => naming' = naming
  BY DEF EnginesNext, EngineStep, engineVars, scenarioVars, Outside, ClusterChanges, OthersWrite,
     SlurmRestarts, LoadEngine, ListNodes, Instances2NodeMap, GetInstancesRegions, ListPods,
     GenerateTopologyConfig, Translate, CreateFile, WriteFile, reconfigure, GetConfigMap,
     UpdateConfigMap, CreateConfigMap, Interrupted, NextExecution
<1>3. NamingOK /\ [EnginesNext]_engineVars => NamingOK'
  BY <1>2 DEF NamingOK
<1> QED  BY <1>1, <1>3, PTL DEF EnginesSpec

\* Stages after the compute instances are known.
Late == {"topology", "translate", "create", "write", "reconfigure", "get", "update", "createCM",
         "done"}

\* The history variables bound what is there now.
WindowInv ==
    /\ Present \subseteq seen
    /\ steady \subseteq Wanted
    /\ request.engine = "slurm" => listed \subseteq seen /\ Hosts \subseteq Nodes

\* No host is one that was not there, and no two are on one node.
HostsThere == Hosts \subseteq seen \/ (Hosts = {Bootstrap} /\ steady = {})
HostsOnce  == \A p, q \in Hosts \cap Pods : PodNode[p] = PodNode[q] => p = q

\* What stays has been found, as far as the engine has come.
SlurmFinds ==
    /\ pc = "instances" => steady \subseteq listed
    /\ pc = "regions" => \A n \in steady : <<n, n>> \in i2n
    /\ pc \in Late => steady \subseteq Hosts

SlinkyFinds ==
    /\ pc = "pods" => \A p \in steady : PodNode[p] \in listed
    /\ pc \in Late => \A p \in steady : \E q \in Hosts \cap Pods : PodNode[q] = PodNode[p]

HostsInv ==
    /\ WindowInv
    /\ HostsThere
    /\ HostsOnce
    /\ request.engine = "slurm" /\ Reached => SlurmFinds
    /\ request.engine = "slinky" => SlinkyFinds
    /\ config # None => config.hosts = Hosts /\ pc \in Late \cup Idle \cup {"endless"}

\* The state that HostsInv is about.
hostVars == <<request, naming, up, annotated, ready, listed, i2n, cis, config, steady, seen>>

LEMMA HostsKept ==
  ASSUME HostsInv, UNCHANGED hostVars,
         \/ pc' = pc
         \/ pc \in Late /\ pc' \in Late
         \/ pc = "load" /\ pc' = "start"
         \/ pc' \in {"failed", "killed", "endless"}
  PROVE  HostsInv'
<1>1. Hosts' = Hosts /\ Present' = Present /\ Wanted' = Wanted /\ Reached' = Reached
  BY DEF Hosts, Placed, Present, Wanted, Usable, Reached, hostVars
<1>2. WindowInv' /\ HostsThere' /\ HostsOnce'
  BY <1>1 DEF HostsInv, WindowInv, HostsThere, HostsOnce, hostVars
<1>3. (request.engine = "slurm" /\ Reached => SlurmFinds)'
  BY <1>1 DEF HostsInv, SlurmFinds, Late, hostVars
<1>4. (request.engine = "slinky" => SlinkyFinds)'
  BY <1>1 DEF HostsInv, SlinkyFinds, Late, hostVars
<1> QED
  BY <1>1, <1>2, <1>3, <1>4 DEF HostsInv, Late, Idle, hostVars

\* Steps that do not touch it.
LEMMA HostsNotTouched ==
  ASSUME HostsInv, EnginesTypeOK,
         \/ OthersWrite \/ SlurmRestarts \/ LoadEngine \/ GenerateTopologyConfig \/ CreateFile
         \/ WriteFile \/ reconfigure \/ GetConfigMap \/ UpdateConfigMap \/ CreateConfigMap
         \/ Interrupted \/ UNCHANGED engineVars
  PROVE  HostsInv'
<1> USE DEF hostVars, Late
<1>1. CASE OthersWrite \/ SlurmRestarts
  BY <1>1, HostsKept DEF OthersWrite, SlurmRestarts, scenarioVars, worldVars, readVars, historyVars
<1>2. CASE LoadEngine \/ GenerateTopologyConfig \/ Interrupted
  BY <1>2, HostsKept DEF LoadEngine, GenerateTopologyConfig, Interrupted, Outside, scenarioVars,
     worldVars, readVars, historyVars
<1>3. CASE CreateFile \/ WriteFile \/ reconfigure
  BY <1>3, HostsKept DEF CreateFile, WriteFile, reconfigure, Outside, scenarioVars, worldVars,
     readVars, historyVars
<1>4. CASE GetConfigMap
  BY <1>4, HostsKept DEF GetConfigMap, Outside, scenarioVars, worldVars, historyVars
<1>5. CASE UpdateConfigMap \/ CreateConfigMap
  BY <1>5, HostsKept DEF UpdateConfigMap, CreateConfigMap, Outside, scenarioVars, worldVars, readVars
<1>6. CASE UNCHANGED engineVars
  BY <1>6, HostsKept DEF engineVars, scenarioVars, worldVars, readVars, historyVars
<1> QED
  BY <1>1, <1>2, <1>3, <1>4, <1>5, <1>6

LEMMA ClusterChangesHosts ==
  ASSUME HostsInv, EnginesTypeOK, ClusterChanges
  PROVE  HostsInv'
<1>1. UNCHANGED <<request, naming, listed, i2n, cis, config, pc>>
  BY DEF ClusterChanges, scenarioVars, readVars
<1>2. steady' = steady \cap Wanted' /\ seen' = seen \cup Present'
  BY DEF ClusterChanges
<1>3. Hosts' = Hosts /\ Reached' = Reached
  BY <1>1 DEF Hosts, Placed, Reached
<1>4. WindowInv' /\ HostsThere' /\ HostsOnce'
  BY <1>1, <1>2, <1>3 DEF HostsInv, WindowInv, HostsThere, HostsOnce
<1>5. (request.engine = "slurm" /\ Reached => SlurmFinds)'
  BY <1>1, <1>2, <1>3 DEF HostsInv, SlurmFinds
<1>6. (request.engine = "slinky" => SlinkyFinds)'
  BY <1>1, <1>2, <1>3 DEF HostsInv, SlinkyFinds
<1> QED
  BY <1>1, <1>3, <1>4, <1>5, <1>6 DEF HostsInv

LEMMA ListNodesHosts ==
  ASSUME HostsInv, EnginesTypeOK, ListNodes
  PROVE  HostsInv'
<1>1. /\ UNCHANGED <<request, naming, up, annotated, ready, i2n, cis, config, steady, seen>>
      /\ listed' = up
      /\ pc' = IF request.engine = "slinky" THEN "pods"
               ELSE IF up = {} THEN "topology" ELSE "instances"
      /\ pc = "start"
  BY DEF ListNodes, Outside, scenarioVars, worldVars, historyVars
<1>2. Hosts' = Hosts /\ Present' = Present /\ Wanted' = Wanted
  BY <1>1 DEF Hosts, Placed, Present, Wanted, Usable
<1>3. WindowInv' /\ HostsThere' /\ HostsOnce'
  BY <1>1, <1>2 DEF HostsInv, WindowInv, HostsThere, HostsOnce, Present
<1>4. (request.engine = "slurm" /\ Reached => SlurmFinds)'
  BY <1>1, <1>2 DEF HostsInv, WindowInv, SlurmFinds, Wanted, Late
<1>5. (request.engine = "slinky" => SlinkyFinds)'
  BY <1>1, <1>2 DEF HostsInv, WindowInv, SlinkyFinds, Wanted, Usable, Late
<1>6. config = None
  BY <1>1 DEF HostsInv, Late, Idle
<1> QED
  BY <1>1, <1>3, <1>4, <1>5, <1>6 DEF HostsInv

LEMMA Instances2NodeMapHosts ==
  ASSUME HostsInv, EnginesTypeOK, Instances2NodeMap
  PROVE  HostsInv'
<1>1. /\ UNCHANGED <<request, naming, up, annotated, ready, listed, cis, config, seen>>
      /\ pc = "instances" /\ pc' = "regions"
      /\ request.engine = "slurm"
  BY DEF Instances2NodeMap, Outside, scenarioVars, worldVars, EnginesTypeOK, SlurmOnly
<1>2. PICK good \in SUBSET listed :
           /\ \A n \in good : <<n, n>> \in i2n'
           /\ steady' = steady \ (Pdsh(naming, listed) \ good)
  BY DEF Instances2NodeMap
<1>3. /\ Hosts' = Hosts /\ Present' = Present /\ Wanted' = Wanted /\ Reached' = Reached
      /\ Hosts = {}
  BY <1>1 DEF Hosts, Placed, Present, Wanted, Usable, Reached, EnginesTypeOK
<1>4. WindowInv' /\ HostsThere' /\ HostsOnce'
  BY <1>1, <1>2, <1>3 DEF HostsInv, WindowInv, HostsThere, HostsOnce
<1>5. ASSUME Reached PROVE SlurmFinds'
  <2>1. listed \subseteq Pdsh(naming, listed) /\ steady \subseteq listed
    BY <1>1, <1>5 DEF Reached, EnginesTypeOK, HostsInv, SlurmFinds
  <2> QED
    BY <1>1, <1>2, <2>1 DEF SlurmFinds, Late
<1>6. config = None
  BY <1>1 DEF HostsInv, Late, Idle
<1> QED
  BY <1>1, <1>3, <1>4, <1>5, <1>6 DEF HostsInv

LEMMA GetInstancesRegionsHosts ==
  ASSUME HostsInv, EnginesTypeOK, GetInstancesRegions
  PROVE  HostsInv'
<1>1. /\ UNCHANGED <<request, naming, up, annotated, ready, listed, i2n, config, seen>>
      /\ pc = "regions" /\ pc' = "topology"
      /\ request.engine = "slurm"
  BY DEF GetInstancesRegions, Outside, scenarioVars, worldVars, EnginesTypeOK, SlurmOnly
<1>2. PICK known \in SUBSET Nodes :
           /\ cis' = aggregateComputeInstances(known)
           /\ steady' = steady \ (Pdsh(naming, listed) \ known)
  BY DEF GetInstancesRegions, EnginesTypeOK
<1>3. ASSUME NEW g \in i2n, g[1] # NoInstance, g[2] \in known PROVE g[2] \in Hosts'
  <2>1. <<Region[g[2]], g[1], g[2]>> \in cis'
    BY <1>2, <1>3 DEF aggregateComputeInstances
  <2> QED
    BY <1>3, <2>1 DEF Hosts, Placed
<1>4. Hosts' \subseteq listed
  BY <1>2 DEF Hosts, Placed, aggregateComputeInstances, EnginesTypeOK
<1>5. Present' = Present /\ Wanted' = Wanted /\ Reached' = Reached
  BY <1>1 DEF Present, Wanted, Usable, Reached
<1>6. WindowInv' /\ HostsThere'
  BY <1>1, <1>2, <1>4, <1>5 DEF HostsInv, WindowInv, HostsThere, EnginesTypeOK
<1>7. HostsOnce'
  BY <1>4, EnginesAssumption DEF HostsOnce, EnginesTypeOK
<1>8. ASSUME Reached PROVE SlurmFinds'
  <2>1. listed \subseteq Pdsh(naming, listed)
    BY <1>8 DEF Reached, EnginesTypeOK
  <2>2. ASSUME NEW n \in steady' PROVE n \in Hosts'
    <3>1. <<n, n>> \in i2n
      BY <1>1, <1>2, <1>8, <2>2 DEF HostsInv, SlurmFinds
    <3>2. n \in listed /\ n # NoInstance
      BY <3>1, EnginesAssumption DEF EnginesTypeOK
    <3>3. n \in known
      BY <1>2, <2>1, <2>2, <3>2
    <3> QED
      BY <1>3, <3>1, <3>2, <3>3
  <2> QED
    BY <1>1, <2>2 DEF SlurmFinds
<1>9. config = None
  BY <1>1 DEF HostsInv, Late, Idle
<1> QED
  BY <1>1, <1>5, <1>6, <1>7, <1>8, <1>9 DEF HostsInv

LEMMA ListPodsHosts ==
  ASSUME HostsInv, EnginesTypeOK, ListPods
  PROVE  HostsInv'
<1>1. /\ UNCHANGED <<request, naming, up, annotated, ready, listed, i2n, config, steady, seen>>
      /\ pc = "pods" /\ pc' \in {"failed", "topology"}
      /\ request.engine = "slinky"
  BY DEF ListPods, Outside, scenarioVars, worldVars, historyVars, EnginesTypeOK, SlinkyOnly
<1>2. Present' = Present /\ Wanted' = Wanted
  BY <1>1 DEF Present, Wanted, Usable
<1>3. WindowInv' /\ config = None
  BY <1>1, <1>2 DEF HostsInv, WindowInv, Late, Idle
<1>4. \A p \in steady : p \in ready /\ PodNode[p] \in listed
  BY <1>1 DEF HostsInv, WindowInv, SlinkyFinds, Wanted, Usable
<1> DEFINE hosting == {n \in Nodes : nodeMap(n) # {}}
<1>5. PICK host \in [hosting -> Pods] :
           /\ \A n \in hosting : host[n] \in ready /\ PodNode[host[n]] = n
           /\ \/ pc' = "failed" /\ cis' = {}
              \/ pc' = "topology" /\ hosting = {} /\ cis' = {<<Bootstrap, Bootstrap, Bootstrap>>}
              \/ pc' = "topology" /\ cis' = {<<Region[n], n, host[n]>> : n \in hosting \cap listed}
  BY DEF ListPods, nodeMap
<1>6. \A p \in ready : PodNode[p] \in hosting
  BY EnginesAssumption DEF nodeMap, EnginesTypeOK
<1>7. CASE pc' = "failed" /\ cis' = {}
  <2>1. Hosts' = {}
    BY <1>7 DEF Hosts, Placed
  <2> QED
    BY <1>1, <1>3, <1>7, <2>1 DEF HostsInv, HostsThere, HostsOnce, SlinkyFinds, Late
<1>8. CASE pc' = "topology" /\ hosting = {} /\ cis' = {<<Bootstrap, Bootstrap, Bootstrap>>}
  <2>1. Hosts' = {Bootstrap} /\ steady = {}
    <3>1. Bootstrap # NoInstance
      BY EnginesAssumption
    <3>2. Placed' = {<<Bootstrap, Bootstrap, Bootstrap>>}
      BY <1>8, <3>1 DEF Placed
    <3> QED
      BY <1>4, <1>6, <1>8, <3>2 DEF Hosts
  <2> QED
    BY <1>1, <1>3, <1>8, <2>1 DEF HostsInv, HostsThere, HostsOnce, SlinkyFinds
<1>9. CASE pc' = "topology" /\ cis' = {<<Region[n], n, host[n]>> : n \in hosting \cap listed}
  <2>1. Hosts' = {host[n] : n \in hosting \cap listed}
    <3>1. ASSUME NEW n \in hosting \cap listed PROVE host[n] \in Hosts'
      <4>1. <<Region[n], n, host[n]>> \in cis' /\ n # NoInstance
        BY <1>9, EnginesAssumption
      <4> QED
        BY <4>1 DEF Hosts, Placed
    <3>2. Hosts' \subseteq {host[n] : n \in hosting \cap listed}
      BY <1>9 DEF Hosts, Placed
    <3> QED
      BY <3>1, <3>2
  <2>2. HostsThere'
    BY <1>1, <1>5, <2>1 DEF HostsInv, WindowInv, HostsThere, Present
  <2>3. HostsOnce'
    BY <1>5, <2>1 DEF HostsOnce
  <2>4. ASSUME NEW p \in steady
        PROVE  host[PodNode[p]] \in Hosts' \cap Pods /\ PodNode[host[PodNode[p]]] = PodNode[p]
    BY <1>4, <1>5, <1>6, <2>1
  <2> QED
    BY <1>1, <1>3, <1>9, <2>2, <2>3, <2>4 DEF HostsInv, SlinkyFinds
<1> QED
  BY <1>5, <1>7, <1>8, <1>9

LEMMA TranslateHosts ==
  ASSUME HostsInv, EnginesTypeOK, Translate
  PROVE  HostsInv'
<1>1. /\ UNCHANGED <<request, naming, up, annotated, ready, listed, i2n, cis, steady, seen>>
      /\ pc \in Late /\ pc' \in Late \cup {"failed", "endless"}
      /\ config' = config \/ (config'.hosts = Hosts /\ pc' \in Late)
  BY DEF Translate, Outside, scenarioVars, worldVars, readVars, historyVars, Hosts, Late
<1>2. Hosts' = Hosts /\ Present' = Present /\ Wanted' = Wanted /\ Reached' = Reached
  BY <1>1 DEF Hosts, Placed, Present, Wanted, Usable, Reached
<1>3. WindowInv' /\ HostsThere' /\ HostsOnce'
  BY <1>1, <1>2 DEF HostsInv, WindowInv, HostsThere, HostsOnce
<1>4. (request.engine = "slurm" /\ Reached => SlurmFinds)'
  BY <1>1, <1>2 DEF HostsInv, SlurmFinds, Late
<1>5. (request.engine = "slinky" => SlinkyFinds)'
  BY <1>1, <1>2 DEF HostsInv, SlinkyFinds, Late
<1> QED
  BY <1>1, <1>2, <1>3, <1>4, <1>5 DEF HostsInv, Idle

LEMMA NextExecutionHosts ==
  ASSUME HostsInv, EnginesTypeOK, NextExecution
  PROVE  HostsInv'
<1>1. /\ UNCHANGED <<request, naming, up, annotated, ready>>
      /\ pc' = "load" /\ listed' = {} /\ cis' = {} /\ config' = None
      /\ steady' = Wanted /\ seen' = Present
  BY DEF NextExecution, scenarioVars, worldVars
<1>2. Hosts' = {} /\ Present' = Present /\ Wanted' = Wanted
  BY <1>1 DEF Hosts, Placed, Present, Wanted, Usable
<1> QED
  BY <1>1, <1>2 DEF HostsInv, WindowInv, HostsThere, HostsOnce, SlurmFinds, SlinkyFinds, Late

LEMMA HostsInitInv == EnginesInit => HostsInv
<1> SUFFICES ASSUME EnginesInit PROVE HostsInv
  OBVIOUS
<1>1. /\ pc = "load" /\ listed = {} /\ cis = {} /\ config = None
      /\ steady = Wanted /\ seen = Present
  BY DEF EnginesInit
<1>2. Hosts = {}
  BY <1>1 DEF Hosts, Placed
<1> QED
  BY <1>1, <1>2 DEF HostsInv, WindowInv, HostsThere, HostsOnce, SlurmFinds, SlinkyFinds, Late

LEMMA HostsNextInv ==
  EnginesTypeOK /\ HostsInv /\ [EnginesNext]_engineVars => HostsInv'
  BY HostsNotTouched, ClusterChangesHosts, ListNodesHosts, Instances2NodeMapHosts,
     GetInstancesRegionsHosts, ListPodsHosts, TranslateHosts, NextExecutionHosts
     DEF EnginesNext, EngineStep

\* In every cluster, however it changes while an engine reads it, the hosts
\* that are configured are those of the cluster (Instances2NodeMap,
\* GetInstancesRegions, SlinkyEngine.GetComputeInstances, Compact).
THEOREM HostsAreOfCluster == EnginesSpec => []HostsMatchCluster
<1>1. EnginesSpec => [](EnginesTypeOK /\ HostsInv)
  <2>1. EnginesTypeOK /\ HostsInv /\ [EnginesNext]_engineVars => (EnginesTypeOK /\ HostsInv)'
    BY EnginesNextType, HostsNextInv
  <2> QED
    BY <2>1, EnginesInitType, HostsInitInv, PTL DEF EnginesSpec
<1>2. EnginesTypeOK /\ HostsInv /\ NamingOK => HostsMatchCluster
  <2> SUFFICES ASSUME EnginesTypeOK, HostsInv, NamingOK PROVE HostsMatchCluster
    OBVIOUS
  <2>1. Regular({naming[n] : n \in Nodes}) => Reached
    BY NamesReached
  <2> QED
    BY <2>1 DEF EnginesTypeOK, HostsInv, HostsMatchCluster, HostsThere, HostsOnce, SlurmFinds,
       SlinkyFinds, Late
<1> QED
  BY <1>1, <1>2, NamingInvariant, PTL

----------------------------------------------------------------------------
(* Block sizes.                                                             *)

\* Powers of two grow: they count the subsets of growing sets.
LEMMA Powers ==
  ASSUME NEW j \in Nat, NEW k \in Nat, j <= k
  PROVE  2 ^ 0 = 1 /\ 2 ^ j \in Nat /\ 2 ^ k \in Nat /\ 2 ^ j <= 2 ^ k
<1>1. \A i \in Nat : IsFiniteSet(1..i) /\ Cardinality(1..i) = i
  BY FS_Interval
<1>2. \A i \in Nat : /\ IsFiniteSet(SUBSET (1..i)) /\ Cardinality(SUBSET (1..i)) \in Nat
                     /\ Cardinality(SUBSET (1..i)) = 2 ^ i
  BY <1>1, FS_SUBSET, FS_CardinalityType
<1>3. SUBSET (1..j) \subseteq SUBSET (1..k)
  <2>1. 1..j \subseteq 1..k
    OBVIOUS
  <2> QED
    BY <2>1
<1>4. Cardinality(SUBSET (1..j)) <= Cardinality(SUBSET (1..k))
  BY <1>2, <1>3, FS_Subset
<1>5. 2 ^ 0 = 1
  OBVIOUS
<1> QED
  BY <1>2, <1>4, <1>5

\* Log2 is the greatest level that n blocks allow, and they allow all below it.
LEMMA LevelsBelow ==
  ASSUME NEW n \in Nat, n >= 1
  PROVE  Log2(n) \in Nat /\ 0..Log2(n) = {j \in 0..n : 2 ^ j <= n}
<1> DEFINE S == {k \in 1..n : 2 ^ k <= n}
           T == {k \in 0..n : k + 1 \notin S}
<1>1. n \in T /\ T \subseteq Nat
  OBVIOUS
<1>2. PICK m \in T : \A k \in T : m <= k
  <2> HIDE DEF T
  <2> QED
    BY <1>1, LeastNumber
<1>3. m \in Nat /\ m <= n /\ m + 1 \notin S
  BY <1>2
<1>4. ASSUME NEW k \in 1..m PROVE k \in S
  <2>1. k - 1 \in 0..n /\ (k - 1) + 1 = k /\ ~(m <= k - 1)
    BY <1>3
  <2>2. k - 1 \notin T
    BY <1>2, <2>1
  <2> QED
    BY <2>1, <2>2
<1>5. ASSUME NEW k \in 1..n, k > m, 2 ^ k <= n PROVE FALSE
  <2>1. m + 1 \in Nat /\ k \in Nat /\ m + 1 <= k /\ m + 1 \in 1..n
    BY <1>3, <1>5
  <2>2. 2 ^ (m + 1) \in Nat /\ 2 ^ k \in Nat /\ 2 ^ (m + 1) <= 2 ^ k
    BY <2>1, Powers
  <2>3. 2 ^ (m + 1) <= n
    BY <1>5, <2>2
  <2> QED
    BY <1>3, <2>1, <2>3
<1>6. S = 1..m
  <2>1. \A k \in S : k \in 1..n /\ k <= m
    BY <1>3, <1>5
  <2>2. \A k \in S : k \in 1..m
    BY <1>3, <2>1
  <2> QED
    BY <1>4, <2>2
<1>7. Log2(n) = Cardinality(S)
  BY DEF Log2
<1>8. Log2(n) = m
  <2> HIDE DEF S
  <2> QED
    BY <1>3, <1>6, <1>7, FS_Interval
<1>9. ASSUME NEW j \in 0..n PROVE j \in 0..m <=> 2 ^ j <= n
  <2>1. CASE j = 0
    <3>1. 2 ^ j = 1
      BY <2>1
    <3> QED
      BY <1>3, <2>1, <3>1
  <2>2. CASE j # 0
    <3>1. j \in 1..n /\ (j \in 0..m <=> j \in 1..m)
      BY <1>3, <2>2
    <3>2. j \in S <=> 2 ^ j <= n
      BY <3>1
    <3> QED
      BY <1>6, <3>1, <3>2
  <2> QED
    BY <2>1, <2>2
<1>10. \A j \in 0..m : j \in 0..n
  BY <1>3
<1> QED
  BY <1>3, <1>8, <1>9, <1>10

LEMMA PossibleSizes ==
  ASSUME NEW n \in Nat, n >= 1, NEW base \in Int
  PROVE  /\ possiblebs(base, n) = Doublings(base, n)
         /\ Doublings(base, n) = {base} \cup {2 ^ l * base : l \in 1..Log2(n)}
<1> DEFINE J == {j \in 0..n : 2 ^ j <= n}
           e == Log2(n)
<1>1. e \in Nat /\ 0..e = J
  BY LevelsBelow
<1>2. possiblebs(base, n) = {2 ^ l * base : l \in 0..e}
  BY DEF possiblebs
<1>3. Doublings(base, n) = {base * 2 ^ k : k \in J}
  BY DEF Doublings
<1> HIDE DEF J, e
<1>4. \A k \in 0..e : base * 2 ^ k = 2 ^ k * base
  <2>1. \A k \in 0..e : 2 ^ k \in Int
    BY <1>1, Powers
  <2>2. \A x, y \in Int : x * y = y * x
    OBVIOUS
  <2> QED
    BY <2>1, <2>2
<1>5. possiblebs(base, n) = Doublings(base, n)
  BY <1>1, <1>2, <1>3, <1>4
<1>6. 2 ^ 0 * base = base
  <2>1. 2 ^ 0 = 1
    OBVIOUS
  <2> QED
    BY <2>1
<1>7. \A k : k \in 0..e <=> k = 0 \/ k \in 1..e
  BY <1>1
<1>8. {2 ^ l * base : l \in 0..e} = {base} \cup {2 ^ l * base : l \in 1..e}
  BY <1>6, <1>7
<1> QED
  BY <1>2, <1>5, <1>8 DEF e

\* The sizes that are not asked for are all that the blocks can make up.
LEMMA DefaultSizes ==
  ASSUME NEW n \in Nat, n >= 1, NEW base \in Int
  PROVE  LET sizes == <<base>> \o [l \in 1..Log2(n) |-> 2 ^ l * base]
         IN  /\ sizes # <<>> /\ sizes[1] = base
             /\ ToSet(sizes) = Doublings(base, n)
<1> DEFINE e == Log2(n)
           f == [l \in 1..e |-> 2 ^ l * base]
           sizes == <<base>> \o f
<1>1. e \in Nat
  BY LevelsBelow
<1>2. f \in Seq(Int) /\ Len(f) = e /\ \A l \in 1..e : f[l] = 2 ^ l * base
  <2>1. \A l \in 1..e : 2 ^ l \in Int
    BY <1>1, Powers
  <2> HIDE DEF e
  <2>2. \A l \in 1..e : 2 ^ l * base \in Int
    BY <2>1
  <2> QED
    BY <1>1, <2>2
<1>3. {f[l] : l \in 1..e} = {2 ^ l * base : l \in 1..e}
  BY <1>2
<1>4. Doublings(base, n) = {base} \cup {2 ^ l * base : l \in 1..e}
  BY PossibleSizes
<1> HIDE DEF e, f
<1>5. /\ sizes \in Seq(Int) /\ Len(sizes) = e + 1 /\ sizes[1] = base /\ sizes # <<>>
      /\ \A l \in 1..e : sizes[l + 1] = f[l]
  BY <1>1, <1>2
<1> HIDE DEF sizes
<1>6. ToSet(sizes) = {sizes[k] : k \in 1..(e + 1)}
  BY <1>5 DEF ToSet
<1>7. \A k \in 1..(e + 1) : k = 1 \/ (k - 1 \in 1..e /\ sizes[k] = f[k - 1])
  <2> SUFFICES ASSUME NEW k \in 1..(e + 1), k # 1 PROVE k - 1 \in 1..e /\ sizes[k] = f[k - 1]
    OBVIOUS
  <2>1. k - 1 \in 1..e /\ (k - 1) + 1 = k
    BY <1>1
  <2>2. sizes[(k - 1) + 1] = f[k - 1]
    BY <1>5, <2>1
  <2> QED
    BY <2>1, <2>2
<1>8. \A l \in 1..e : l + 1 \in 1..(e + 1) /\ sizes[l + 1] = f[l]
  BY <1>1, <1>5
<1>9. 1 \in 1..(e + 1) /\ sizes[1] = base
  BY <1>1, <1>5
<1>10. {sizes[k] : k \in 1..(e + 1)} = {base} \cup {f[l] : l \in 1..e}
  BY <1>7, <1>8, <1>9
<1>11. ToSet(sizes) = Doublings(base, n)
  BY <1>3, <1>4, <1>6, <1>10
<1> QED
  BY <1>5, <1>11 DEF sizes, f, e

\* The smallest domain has a node, and no domain is smaller.
LEMMA SmallestDomain ==
  ASSUME NEW sizes \in Seq(Nat \ {0}), sizes # <<>>
  PROVE  /\ findMinDomainSize(sizes) \in Nat \ {0}
         /\ \A x \in Int : x <= findMinDomainSize(sizes) <=> \A i \in DOMAIN sizes : sizes[i] >= x
<1> DEFINE m == findMinDomainSize(sizes)
           R == {sizes[i] : i \in DOMAIN sizes}
<1>1. DOMAIN sizes = 1..Len(sizes) /\ Len(sizes) \in Nat /\ Len(sizes) >= 1
  OBVIOUS
<1>2. \A i \in DOMAIN sizes : sizes[i] \in Nat \ {0}
  BY <1>1
<1>3. R \subseteq Nat /\ R # {} /\ 0 \notin R /\ ToSet(sizes) = R
  BY <1>1, <1>2 DEF ToSet
<1>4. m = CHOOSE x \in R : \A y \in R : x <= y
  BY <1>3 DEF findMinDomainSize, Min
<1>5. \E x \in R : \A y \in R : x <= y
  <2> HIDE DEF R
  <2> QED
    BY <1>3, LeastNumber
<1>6. m \in R /\ \A y \in R : m <= y
  <2> HIDE DEF R, m
  <2> QED
    BY <1>4, <1>5
<1>7. PICK i \in DOMAIN sizes : m = sizes[i]
  BY <1>6
<1>8. \A k \in DOMAIN sizes : m <= sizes[k]
  BY <1>6
<1> HIDE DEF R, m
<1> QED
  BY <1>2, <1>7, <1>8 DEF m

\* A configuration has the sizes of getBlockSize for the request.
SizesInv ==
    /\ Asked \in Seq(Int)
    /\ shape \in Seq(Nat \ {0})
    /\ Sized => shape # <<>> /\ config.sizes = getBlockSize(shape, Asked, UseFake)

LEMMA SizesInitInv == EnginesInit => SizesInv
<1> SUFFICES ASSUME EnginesInit PROVE SizesInv
  OBVIOUS
<1>1. PICK s \in Scenarios : request = s.request /\ shape = s.shape
  BY DEF EnginesInit
<1>2. IsScenario(s)
  BY EnginesAssumption
<1>3. config = None
  BY DEF EnginesInit
<1> QED
  BY <1>1, <1>2, <1>3 DEF IsScenario, SizesInv, Sized, Asked

LEMMA SizesNextInv == SizesInv /\ [EnginesNext]_engineVars => SizesInv'
<1> SUFFICES ASSUME SizesInv, [EnginesNext]_engineVars PROVE SizesInv'
  OBVIOUS
<1> USE DEF engineVars, scenarioVars, Outside
<1>1. request' = request /\ shape' = shape
  BY DEF EnginesNext, EngineStep, ClusterChanges, OthersWrite, SlurmRestarts, LoadEngine, ListNodes,
         Instances2NodeMap, GetInstancesRegions, ListPods, GenerateTopologyConfig, Translate,
         CreateFile, WriteFile, reconfigure, GetConfigMap, UpdateConfigMap, CreateConfigMap,
         Interrupted, NextExecution
<1>2. Asked' = Asked /\ UseFake' = UseFake /\ Plugin' = Plugin
  BY <1>1 DEF Asked, UseFake, Plugin
<1>3. CASE config' = config
  <2>1. Sized' = Sized
    BY <1>2, <1>3 DEF Sized
  <2> QED
    BY <1>1, <1>2, <1>3, <2>1 DEF SizesInv
<1>4. CASE config' = None
  BY <1>1, <1>2, <1>4 DEF SizesInv, Sized
<1>5. CASE Translate /\ config' # config
  <2>1. /\ Plugin = "tree" \/ (Plugin = "block" /\ shape # <<>>)
        /\ config' = [hosts |-> {ci[3] : ci \in Placed},
                      sizes |-> IF Plugin = "tree" THEN <<>>
                                ELSE getBlockSize(shape, Asked, UseFake)]
    BY <1>5 DEF Translate, Valid, Asked
  <2>2. Plugin = "block" => shape # <<>> /\ config'.sizes = getBlockSize(shape, Asked, UseFake)
    BY <2>1
  <2> QED
    BY <1>1, <1>2, <2>2 DEF SizesInv, Sized
<1>6. config' = config \/ config' = None \/ Translate
  BY DEF EnginesNext, EngineStep, ClusterChanges, OthersWrite, SlurmRestarts, LoadEngine, ListNodes,
         Instances2NodeMap, GetInstancesRegions, ListPods, GenerateTopologyConfig,
         CreateFile, WriteFile, reconfigure, GetConfigMap, UpdateConfigMap, CreateConfigMap,
         Interrupted, NextExecution
<1> QED
  BY <1>3, <1>4, <1>5, <1>6

\* The block sizes are legal for every number of blocks and every request but
\* one without a positive base size when fake nodes are enabled, a legal request
\* is never overridden, and any other gives every level there is (getBlockSize).
THEOREM SizesAreLegal == EnginesSpec => []SizesLegal
<1>1. ASSUME SizesInv PROVE SizesLegal
  <2> SUFFICES ASSUME Sized
               PROVE  /\ Legal(config.sizes) \/ (UseFake /\ Asked # <<>> /\ Asked[1] <= 0)
                      /\ IF Legal(Asked) THEN config.sizes = Asked
                         ELSE ToSet(config.sizes) = Doublings(config.sizes[1], Len(shape))
    BY DEF SizesLegal
  <2> DEFINE n == Len(shape)
             m == findMinDomainSize(shape)
             base == minDomainSize(shape, Asked, UseFake)
             default == <<base>> \o [l \in 1..Log2(n) |-> 2 ^ l * base]
  <2>1. /\ shape \in Seq(Nat \ {0}) /\ shape # <<>> /\ n \in Nat /\ n >= 1 /\ Asked \in Seq(Int)
        /\ config.sizes = IF Accepted(shape, Asked, UseFake) THEN Asked ELSE default
    <3>1. /\ shape \in Seq(Nat \ {0}) /\ shape # <<>> /\ Asked \in Seq(Int)
          /\ config.sizes = getBlockSize(shape, Asked, UseFake)
      BY <1>1 DEF SizesInv
    <3>2. n \in Nat /\ n >= 1
      BY <3>1
    <3> QED
      BY <3>1, <3>2 DEF getBlockSize
  <2>2. /\ m \in Nat \ {0}
        /\ \A x \in Int : x <= m <=> \A i \in DOMAIN shape : shape[i] >= x
    BY <2>1, SmallestDomain
  <2>3. base = IF UseFake /\ Asked # <<>> THEN Asked[1] ELSE m
    BY DEF minDomainSize
  <2>4. Asked # <<>> => Asked[1] \in Int
    BY <2>1
  <2>5. base \in Int
    BY <2>2, <2>3, <2>4
  <2> HIDE DEF n, m
  <2>6. Accepted(shape, Asked, UseFake) <=>
            /\ Asked # <<>> /\ Asked[1] > 0 /\ Asked[1] <= base
            /\ ToSet(Asked) \subseteq possiblebs(Asked[1], n)
    BY DEF Accepted, n
  <2>7. default # <<>> /\ default[1] = base /\ ToSet(default) = Doublings(base, n)
    BY <2>1, <2>5, DefaultSizes
  <2> HIDE DEF base, default
  <2>8. Asked # <<>> => possiblebs(Asked[1], n) = Doublings(Asked[1], n)
    BY <2>1, <2>4, PossibleSizes
  <2>9. Accepted(shape, Asked, UseFake) <=> Legal(Asked)
    <3>1. ASSUME Asked # <<>>
          PROVE  Asked[1] <= base <=> UseFake \/ \A i \in DOMAIN shape : shape[i] >= Asked[1]
      <4>1. CASE UseFake
        BY <2>3, <2>4, <3>1, <4>1
      <4>2. CASE ~UseFake
        BY <2>2, <2>3, <2>4, <3>1, <4>2
      <4> QED
        BY <4>1, <4>2
    <3>2. Legal(Asked) <=>
              /\ Asked # <<>> /\ Asked[1] > 0
              /\ UseFake \/ \A i \in DOMAIN shape : shape[i] >= Asked[1]
              /\ ToSet(Asked) \subseteq Doublings(Asked[1], n)
      BY DEF Legal, n
    <3> QED
      BY <2>6, <2>8, <3>1, <3>2
  <2>10. ASSUME ~Legal(Asked)
         PROVE  Legal(default) \/ (UseFake /\ Asked # <<>> /\ Asked[1] <= 0)
    <3>1. CASE UseFake /\ Asked # <<>>
      BY <2>3, <2>4, <2>7, <3>1 DEF Legal, n
    <3>2. CASE ~(UseFake /\ Asked # <<>>)
      <4>1. base = m /\ \A i \in DOMAIN shape : shape[i] >= base
        BY <2>2, <2>3, <3>2
      <4> QED
        BY <2>2, <2>7, <4>1 DEF Legal, n
    <3> QED
      BY <3>1, <3>2
  <2> QED
    BY <2>1, <2>7, <2>9, <2>10 DEF n
<1> QED
  BY <1>1, SizesInitInv, SizesNextInv, PTL DEF EnginesSpec
==============================================================================
