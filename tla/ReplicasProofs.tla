--------------------------- MODULE ReplicasProofs ---------------------------
(***************************************************************************)
(* Proofs about Replicas, for any object, any number of replicas and nodes *)
(* and any quotas.  They do not look into the erasure code: that any       *)
(* choice of enough replicas gives the object back is what ReadsObject     *)
(* assumes of it.                                                          *)
(***************************************************************************)
EXTENDS Replicas, FiniteSetTheorems, SequenceTheorems, TLAPS

USE DEF objectVars, writerVars

LEMMA ReplicaFacts ==
  /\ IsFiniteSet(Replica) /\ Writer \in Node /\ Quota \in [Node -> Nat]
  /\ {MaxFailures, MaxRestarts, MaxLosses} \subseteq Nat
  /\ \A S \in SUBSET Replica : IsFiniteSet(S) /\ Cardinality(S) \in Nat
<1>1. GENERATE_HORCRUX \in Nat
  BY FieldAssumption
<1>2. IsFiniteSet(Replica)
  BY <1>1, FS_Interval DEF Replica
<1> QED BY <1>2, ReplicasAssumption, FS_Subset, FS_CardinalityType

\* The parts of TypeOK.
Files ==
  /\ tmp \subseteq Replica /\ tmpRow \subseteq Replica
  /\ file \in [Node -> SUBSET Replica] /\ row \in [Node -> SUBSET Replica]
  /\ \A n \in Node : row[n] \subseteq file[n] /\ Cardinality(row[n]) <= Quota[n]
Announced == log \subseteq Node \X Replica /\ hosts \in [Node -> SUBSET log]
Messages == messages \subseteq [type : {"request", "data"}, from : Node, to : Node, replica : Replica]
Others ==
  /\ object \in Objects /\ uploaded \in BOOLEAN
  /\ synced \subseteq Node /\ stopped \subseteq synced
  /\ failures \in 0..MaxFailures /\ restarts \in 0..MaxRestarts /\ losses \in 0..MaxLosses

LEMMA TypeParts == TypeOK <=> Files /\ Announced /\ Messages /\ Others
  BY DEF TypeOK, Files, Announced, Messages, Others

\* Space for the replicas that are moved is space for one after the other.
LEMMA RoomFor ==
  ASSUME Files, NEW n \in Node, NEW P \in SUBSET Replica, P \cap row[n] = {},
         Cardinality(P) <= Room(n)
  PROVE  Cardinality(row[n] \cup P) <= Quota[n]
<1>1. /\ IsFiniteSet(P) /\ IsFiniteSet(row[n]) /\ Cardinality(P) \in Nat
      /\ Cardinality(row[n]) \in Nat /\ Quota[n] \in Nat
  BY ReplicaFacts DEF Files
<1>2. Cardinality(row[n] \cup P)
        = Cardinality(row[n]) + Cardinality(P) - Cardinality(row[n] \cap P)
  BY <1>1, FS_Union
<1>3. Cardinality(row[n] \cap P) = 0
  BY FS_EmptySet
<1> QED BY <1>1, <1>2, <1>3 DEF Room

LEMMA InitInv == Init => TypeOK /\ StoreInv /\ AnnouncedIsThere
<1>1. /\ Cardinality({}) = 0 /\ \A n \in Node : Quota[n] >= 0
      /\ 0 \in 0..MaxFailures /\ 0 \in 0..MaxRestarts /\ 0 \in 0..MaxLosses
  BY ReplicaFacts, FS_EmptySet
<1> QED BY <1>1, ReplicaFacts DEF Init, TypeOK, StoreInv, AnnouncedIsThere

LEMMA NextFiles == TypeOK /\ [Next]_vars => Files'
<1> SUFFICES ASSUME Files, Messages, [Next]_vars PROVE Files'
  BY TypeParts
<1>1. CASE UNCHANGED <<tmp, tmpRow, file, row>>
  BY <1>1 DEF Files
<1>2. CASE SaveTemp
  BY <1>2 DEF SaveTemp, Files, Hashes
<1>3. CASE SaveTempFails
  <2>1. PICK P \in FirstOf(Hashes \ tmpRow) : tmp' = tmp \cup P
    BY <1>3 DEF SaveTempFails
  <2>2. P \subseteq Replica
    BY DEF FirstOf, Hashes
  <2> QED BY <1>3, <2>1, <2>2 DEF SaveTempFails, Files
<1>4. CASE Save
  <2>1. Moved \in SUBSET Replica /\ Moved \cap row[Writer] = {} /\ Cardinality(Moved) <= Room(Writer)
    BY <1>4 DEF Save, Moved, Files
  <2>2. Cardinality(row[Writer] \cup Moved) <= Quota[Writer]
    BY <2>1, RoomFor, ReplicaFacts
  <2>3. /\ file' = [file EXCEPT ![Writer] = @ \cup Moved]
        /\ row' = [row EXCEPT ![Writer] = @ \cup Moved]
        /\ tmp' \subseteq tmp /\ tmpRow' = {}
    BY <1>4 DEF Save
  <2> QED BY <2>1, <2>2, <2>3, ReplicaFacts DEF Files
<1>5. CASE SaveFails
  <2>1. PICK P \in FirstOf(Moved) : tmp' = tmp \ P /\ file' = [file EXCEPT ![Writer] = @ \cup P]
    BY <1>5 DEF SaveFails
  <2>2. P \subseteq Replica
    BY DEF FirstOf, Moved, Files
  <2> QED BY <1>5, <2>1, <2>2 DEF SaveFails, Files
<1>6. ASSUME NEW q \in messages, OnData(q) PROVE Files'
  <2> DEFINE n == q.to
             r == q.replica
  <2>1. n \in Node /\ r \in Replica /\ UNCHANGED <<tmp, tmpRow>>
    BY <1>6 DEF Messages, OnData
  <2>2. CASE UNCHANGED <<file, row>>
    BY <1>1, <2>1, <2>2
  <2>3. CASE /\ r \notin row[n] /\ Room(n) >= 1
             /\ file' = [file EXCEPT ![n] = @ \cup {r}]
             /\ row' = [row EXCEPT ![n] = @ \cup {r}]
    <3>1. Cardinality({r}) = 1
      BY FS_Singleton
    <3>2. Cardinality({r}) <= Room(n)
      <4>1. Room(n) \in Int
        BY <2>1, ReplicaFacts DEF Room, Files
      <4> QED BY <2>3, <3>1, <4>1
    <3>3. Cardinality(row[n] \cup {r}) <= Quota[n]
      BY <2>1, <2>3, <3>2, RoomFor
    <3> QED BY <2>1, <2>3, <3>3 DEF Files
  <2> QED BY <1>6, <2>2, <2>3 DEF OnData
<1>7. ASSUME NEW n \in Node,
             \/ Learn(n) \/ SyncReplicas(n) \/ SyncReplicasFails(n)
             \/ Read(n) \/ Ask(n) \/ Prepare(n) \/ Restart(n)
      PROVE  Files'
  BY <1>1, <1>7 DEF Learn, SyncReplicas, SyncReplicasFails, Read, Ask, Prepare, Restart
<1>8. ASSUME NEW q \in messages, OnRequest(q) \/ OnDataFails(q) \/ Lose(q) PROVE Files'
  BY <1>1, <1>8 DEF OnRequest, OnDataFails, Lose
<1> QED BY <1>1, <1>2, <1>3, <1>4, <1>5, <1>6, <1>7, <1>8 DEF Next, vars

LEMMA NextAnnounced == TypeOK /\ StoreInv /\ [Next]_vars => Announced'
<1> SUFFICES ASSUME Files, Announced, StoreInv, [Next]_vars PROVE Announced'
  BY TypeParts
<1>1. CASE UNCHANGED <<log, hosts>>
  BY <1>1 DEF Announced
<1>2. CASE Save
  BY <1>2, ReplicaFacts DEF Save, Announced
<1>3. ASSUME NEW n \in Node, Learn(n) PROVE Announced'
  BY <1>3 DEF Learn, Announced, StoreInv
<1>4. ASSUME NEW n \in Node, SyncReplicas(n) PROVE Announced'
  <2>1. PICK S \in SUBSET Replica : /\ hosts' = [hosts EXCEPT ![n] = @ \cup ({n} \X S)]
                                   /\ log' = log \cup ({n} \X S)
    BY <1>4 DEF SyncReplicas, Hosted, Wanted
  <2> QED BY <2>1 DEF Announced
<1>5. ASSUME NEW n \in Node, SyncReplicasFails(n) \/ Read(n) \/ Ask(n) \/ Prepare(n) \/ Restart(n)
      PROVE  Announced'
  BY <1>1, <1>5 DEF SyncReplicasFails, Read, Ask, Prepare, Restart
<1>6. ASSUME NEW q \in messages, OnRequest(q) \/ OnData(q) \/ OnDataFails(q) \/ Lose(q)
      PROVE  Announced'
  BY <1>1, <1>6 DEF OnRequest, OnData, OnDataFails, Lose
<1>7. CASE SaveTemp \/ SaveTempFails \/ SaveFails
  BY <1>1, <1>7 DEF SaveTemp, SaveTempFails, SaveFails
<1> QED BY <1>1, <1>2, <1>3, <1>4, <1>5, <1>6, <1>7 DEF Next, vars

LEMMA NextMessages == TypeOK /\ [Next]_vars => Messages'
<1> SUFFICES ASSUME Announced, Messages, [Next]_vars PROVE Messages'
  BY TypeParts
<1>0. ASSUME NEW n \in Node, NEW r \in Replica PROVE HostsOf(n, r) \subseteq Node
  BY DEF HostsOf
<1>1. CASE UNCHANGED messages
  BY <1>1 DEF Messages
<1>2. ASSUME NEW n \in Node, SyncReplicas(n) \/ Prepare(n) \/ Ask(n) PROVE Messages'
  <2>1. \A m \in Node, r \in Replica :
          Request(n, m, r) \in [type : {"request", "data"}, from : Node, to : Node, replica : Replica]
    BY DEF Request
  <2>2. \A q \in messages' : q \in messages \/ \E m \in Node, r \in Replica : q = Request(n, m, r)
    <3>1. CASE SyncReplicas(n)
      <4>1. Wanted(n) \subseteq Replica
        BY DEF Wanted
      <4>2. messages' = messages \cup
              UNION {{Request(n, m, r) : m \in HostsOf(n, r)} : r \in Wanted(n) \ row[n]}
        BY <3>1 DEF SyncReplicas
      <4> QED BY <4>1, <4>2, <1>0
    <3>2. CASE Prepare(n)
      BY <3>2, <1>0 DEF Prepare
    <3>3. CASE Ask(n)
      BY <3>3, <1>0 DEF Ask
    <3> QED BY <1>2, <3>1, <3>2, <3>3
  <2> QED BY <2>1, <2>2 DEF Messages
<1>3. ASSUME NEW q \in messages, OnRequest(q) \/ OnData(q) \/ OnDataFails(q) \/ Lose(q)
      PROVE  Messages'
  <2>1. Data(q.to, q.from, q.replica)
          \in [type : {"request", "data"}, from : Node, to : Node, replica : Replica]
    BY DEF Messages, Data
  <2>2. messages' \subseteq messages \cup {Data(q.to, q.from, q.replica)}
    BY <1>3 DEF OnRequest, OnData, OnDataFails, Lose
  <2> QED BY <2>1, <2>2 DEF Messages
<1>4. CASE SaveTemp \/ SaveTempFails \/ Save \/ SaveFails
  BY <1>1, <1>4 DEF SaveTemp, SaveTempFails, Save, SaveFails
<1>5. ASSUME NEW n \in Node, Learn(n) \/ SyncReplicasFails(n) \/ Read(n) \/ Restart(n)
      PROVE  Messages'
  BY <1>1, <1>5 DEF Learn, SyncReplicasFails, Read, Restart
<1> QED BY <1>1, <1>2, <1>3, <1>4, <1>5 DEF Next, vars

LEMMA NextOthers == TypeOK /\ [Next]_vars => Others'
<1> SUFFICES ASSUME Others, [Next]_vars PROVE Others'
  BY TypeParts
<1>0. {MaxFailures, MaxRestarts, MaxLosses} \subseteq Nat
  BY ReplicaFacts
<1>1. CASE SaveTemp \/ SaveTempFails \/ Save \/ SaveFails
  <2>1. \/ UNCHANGED failures
        \/ failures < MaxFailures /\ failures' = failures + 1
    BY <1>1 DEF SaveTemp, SaveTempFails, Save, SaveFails
  <2>2. failures' \in 0..MaxFailures
    BY <1>0, <2>1 DEF Others
  <2>3. uploaded' \in BOOLEAN /\ UNCHANGED <<object, synced, stopped, restarts, losses>>
    BY <1>1 DEF SaveTemp, SaveTempFails, Save, SaveFails, Others
  <2> QED BY <2>2, <2>3 DEF Others
<1>2. ASSUME NEW n \in Node,
             \/ Learn(n) \/ SyncReplicas(n) \/ SyncReplicasFails(n)
             \/ Read(n) \/ Ask(n) \/ Prepare(n) \/ Restart(n)
      PROVE  Others'
  BY <1>0, <1>2 DEF Learn, SyncReplicas, SyncReplicasFails, Read, Ask, Prepare, Restart, Others
<1>3. ASSUME NEW q \in messages, OnRequest(q) \/ OnData(q) \/ OnDataFails(q) \/ Lose(q)
      PROVE  Others'
  BY <1>0, <1>3 DEF OnRequest, OnData, OnDataFails, Lose, Others
<1>4. CASE UNCHANGED vars
  BY <1>4 DEF vars, Others
<1> QED BY <1>1, <1>2, <1>3, <1>4 DEF Next

LEMMA NextStoreInv ==
  TypeOK /\ StoreInv /\ AnnouncedIsThere /\ [Next]_vars => StoreInv' /\ AnnouncedIsThere'
<1> SUFFICES ASSUME Files, Announced, Messages, Others, StoreInv, AnnouncedIsThere, [Next]_vars
             PROVE  StoreInv' /\ AnnouncedIsThere'
  BY TypeParts
<1>0. Writer \in Node /\ Hashes \subseteq Replica /\ failures \in Nat
  BY ReplicaFacts DEF Hashes, Others
<1>1. CASE UNCHANGED <<objectVars, writerVars, file, row, log>>
  BY <1>1 DEF StoreInv, AnnouncedIsThere, Hashes
<1>2. CASE SaveTemp
  BY <1>2 DEF SaveTemp, StoreInv, AnnouncedIsThere, Hashes
<1>3. CASE SaveTempFails
  BY <1>0, <1>3 DEF SaveTempFails, StoreInv, AnnouncedIsThere, Hashes
<1>4. CASE Save
  <2>1. tmpRow = Replica
    BY <1>4 DEF Save, StoreInv, Files
  <2>2. Moved = tmp \ row[Writer] /\ row[Writer] \subseteq file[Writer]
    BY <1>0, <2>1 DEF Moved, Files
  <2>3. /\ file'[Writer] = file[Writer] \cup Moved /\ row'[Writer] = row[Writer] \cup Moved
        /\ log' = {Writer} \X Replica /\ tmpRow' = {} /\ UNCHANGED failures
    BY <1>0, <1>4 DEF Save, Files
  <2>4. Replica \subseteq file'[Writer] /\ (failures = 0 => Replica \subseteq row'[Writer])
    BY <2>1, <2>2, <2>3 DEF StoreInv
  <2>5. StoreInv'
    <3>1. 0 \in Replica
      BY FieldAssumption DEF Replica
    <3>2. <<Writer, 0>> \in log'
      BY <2>3, <3>1
    <3> QED BY <2>3, <3>2 DEF StoreInv
  <2>6. AnnouncedIsThere'
    BY <1>0, <2>3, <2>4 DEF AnnouncedIsThere
  <2> QED BY <2>5, <2>6
<1>5. CASE SaveFails
  <2>1. PICK P \in FirstOf(Moved) : tmp' = tmp \ P /\ file' = [file EXCEPT ![Writer] = @ \cup P]
    BY <1>5 DEF SaveFails
  <2>2. file'[Writer] = file[Writer] \cup P /\ \A n \in Node : file[n] \subseteq file'[n]
    BY <1>0, <2>1 DEF Files
  <2>3. /\ failures' = failures + 1
        /\ UNCHANGED <<objectVars, uploaded, tmpRow, row, log>>
    BY <1>5 DEF SaveFails
  <2>4. StoreInv'
    BY <1>0, <2>1, <2>2, <2>3 DEF StoreInv, Hashes
  <2>5. AnnouncedIsThere'
    BY <1>0, <2>2, <2>3 DEF AnnouncedIsThere, Announced
  <2> QED BY <2>4, <2>5
<1>6. ASSUME NEW n \in Node, SyncReplicas(n) PROVE StoreInv' /\ AnnouncedIsThere'
  <2>1. PICK S \in SUBSET row[n] : log' = log \cup ({n} \X S) /\ (S # {} => hosts[n] # {})
    <3>1. log' = log \cup ({n} \X Hosted(n, Wanted(n)))
      BY <1>6 DEF SyncReplicas
    <3>2. Hosted(n, Wanted(n)) \in SUBSET row[n] /\ (Hosted(n, Wanted(n)) # {} => hosts[n] # {})
      BY DEF Hosted, Wanted
    <3> QED BY <3>1, <3>2
  <2>2. UNCHANGED <<objectVars, writerVars, file, row>>
    BY <1>6 DEF SyncReplicas
  <2>3. S \subseteq file[n]
    BY DEF Files
  <2>4. log' # {} => log # {}
    BY <2>1 DEF Announced
  <2>5. StoreInv'
    BY <2>1, <2>2, <2>4 DEF StoreInv, Hashes
  <2>6. AnnouncedIsThere'
    BY <2>1, <2>2, <2>3 DEF AnnouncedIsThere
  <2> QED BY <2>5, <2>6
<1>7. ASSUME NEW q \in messages, OnData(q) PROVE StoreInv' /\ AnnouncedIsThere'
  <2>1. /\ \A n \in Node : file[n] \subseteq file'[n] /\ row[n] \subseteq row'[n]
        /\ UNCHANGED <<objectVars, writerVars, log>>
    BY <1>7 DEF OnData, Messages, Files
  <2>2. StoreInv'
    BY <1>0, <2>1 DEF StoreInv, Hashes
  <2>3. AnnouncedIsThere'
    BY <2>1 DEF AnnouncedIsThere, Announced
  <2> QED BY <2>2, <2>3
<1>8. ASSUME NEW n \in Node,
             \/ Learn(n) \/ SyncReplicasFails(n)
             \/ Read(n) \/ Ask(n) \/ Prepare(n) \/ Restart(n)
      PROVE  StoreInv' /\ AnnouncedIsThere'
  BY <1>1, <1>8 DEF Learn, SyncReplicasFails, Read, Ask, Prepare, Restart
<1>9. ASSUME NEW q \in messages, OnRequest(q) \/ OnDataFails(q) \/ Lose(q)
      PROVE  StoreInv' /\ AnnouncedIsThere'
  BY <1>1, <1>9 DEF OnRequest, OnDataFails, Lose
<1> QED BY <1>1, <1>2, <1>3, <1>4, <1>5, <1>6, <1>7, <1>8, <1>9 DEF Next, vars

LEMMA ReplicasInvariant == Spec => [](TypeOK /\ StoreInv /\ AnnouncedIsThere)
<1>1. /\ TypeOK /\ StoreInv /\ AnnouncedIsThere /\ [Next]_vars
      => (TypeOK /\ StoreInv /\ AnnouncedIsThere)'
  <2>1. TypeOK' <=> Files' /\ Announced' /\ Messages' /\ Others'
    BY DEF TypeOK, Files, Announced, Messages, Others
  <2> QED BY <2>1, NextFiles, NextAnnounced, NextMessages, NextOthers, NextStoreInv
<1> QED BY InitInv, <1>1, PTL DEF Spec

\* Type correctness: a node never has a row without the file nor more replicas than
\* its quota has space for, and nobody is told of a host that the log does not name.
THEOREM ReplicasTypeCorrect == Spec => []TypeOK
  BY ReplicasInvariant, PTL

\* save_data, sync_replicas and their faults: whoever is announced as a host has the
\* file, and also its row unless an upload or a save at the writer failed.
THEOREM HostsHaveReplicas == Spec => []AnnouncedIsThere
  BY ReplicasInvariant, PTL

-----------------------------------------------------------------------------
(***************************************************************************)
(* What is restored is restored from replicas that are enough.             *)
(***************************************************************************)
LEMMA Least ==
  ASSUME NEW K, K \subseteq Nat, K # {}
  PROVE  \E k \in K : \A j \in K : k <= j
<1>1. PICK k \in K : \A j \in K : ~ (<<j, k>> \in OpToRel(<, Nat))
  BY NatLessThanWellFounded, WFMin
<1>2. \A j \in K : ~ (j < k)
  BY <1>1 DEF OpToRel
<1> QED BY <1>2

\* The recursive function of FirstReplicas has values: there is no least number
\* of replicas for which it had none.
LEMMA FirstReplicasUnfolds ==
  ASSUME NEW n
  PROVE  \E u :
           /\ u[0] = <<>>
           /\ \A r \in 1..GENERATE_HORCRUX :
                u[r] = IF r - 1 \in row[n] /\ Len(u[r - 1]) < MIN_HORCRUX
                       THEN Append(u[r - 1], r - 1) ELSE u[r - 1]
           /\ FirstReplicas(n) = u[GENERATE_HORCRUX]
<1> DEFINE Step(u, r) == IF r = 0 THEN <<>>
                         ELSE IF r - 1 \in row[n] /\ Len(u[r - 1]) < MIN_HORCRUX
                         THEN Append(u[r - 1], r - 1) ELSE u[r - 1]
           Without == {m \in Nat : ~ \E u : u = [r \in 0..m |-> Step(u, r)]}
<1>1. Without = {}
  <2> SUFFICES ASSUME Without # {} PROVE FALSE
    OBVIOUS
  <2>1. PICK m \in Without : \A j \in Without : m <= j
    BY Least
  <2>2. CASE m = 0
    <3> DEFINE u == [r \in 0..0 |-> <<>>]
    <3>1. u = [r \in 0..m |-> Step(u, r)]
      BY <2>2
    <3> QED BY <3>1, <2>1
  <2>3. CASE m # 0
    <3>1. m - 1 \in Nat /\ m - 1 \notin Without
      <4>1. m - 1 \in Nat /\ ~ (m <= m - 1)
        BY <2>1, <2>3
      <4> HIDE DEF Without
      <4> QED BY <4>1, <2>1
    <3>2. PICK u : u = [r \in 0..(m - 1) |-> Step(u, r)]
      BY <3>1
    <3> DEFINE v == [r \in 0..m |-> IF r = m THEN Step(u, m) ELSE u[r]]
    <3>3. \A r \in 0..m : v[r] = Step(v, r)
      <4> TAKE r \in 0..m
      <4>1. r # 0 => r - 1 \in 0..(m - 1) /\ v[r - 1] = u[r - 1]
        BY <2>1
      <4>2. r # m => r \in 0..(m - 1)
        BY <2>1
      <4>3. r # m => u[r] = Step(u, r)
        <5> HIDE DEF Step
        <5> QED BY <4>2, <3>2
      <4>4. Step(v, r) = Step(u, r)
        <5> HIDE DEF v
        <5>1. CASE r = 0
          BY <5>1
        <5>2. CASE r # 0
          BY <4>1, <5>2
        <5> QED BY <5>1, <5>2
      <4>5. v[r] = IF r = m THEN Step(u, m) ELSE u[r]
        <5> HIDE DEF Step
        <5> QED OBVIOUS
      <4> HIDE DEF Step, v
      <4> QED BY <4>3, <4>4, <4>5
    <3>4. v = [r \in 0..m |-> Step(v, r)]
      BY <3>3
    <3> QED BY <3>4, <2>1
  <2> QED BY <2>2, <2>3
<1>2. GENERATE_HORCRUX \in Nat
  BY FieldAssumption
<1>3. \E u : u = [r \in 0..GENERATE_HORCRUX |-> Step(u, r)]
  BY <1>1, <1>2
<1> DEFINE unfolded == CHOOSE u : u = [r \in 0..GENERATE_HORCRUX |-> Step(u, r)]
<1>4. unfolded = [r \in 0..GENERATE_HORCRUX |-> Step(unfolded, r)]
  BY <1>3
<1>5. FirstReplicas(n) = unfolded[GENERATE_HORCRUX]
  BY DEF FirstReplicas
<1>6. /\ unfolded[0] = <<>>
      /\ \A r \in 1..GENERATE_HORCRUX :
           unfolded[r] = IF r - 1 \in row[n] /\ Len(unfolded[r - 1]) < MIN_HORCRUX
                         THEN Append(unfolded[r - 1], r - 1) ELSE unfolded[r - 1]
  <2>1. 0 \in 0..GENERATE_HORCRUX /\ \A r \in 1..GENERATE_HORCRUX : r \in 0..GENERATE_HORCRUX /\ r # 0
    BY <1>2
  <2> HIDE DEF unfolded
  <2> QED BY <2>1, <1>4
<1> HIDE DEF unfolded
<1> QED BY <1>5, <1>6

\* They are replicas that n has, each once and in their order, and no more than
\* are needed.
LEMMA FirstReplicasInOrder ==
  ASSUME NEW n
  PROVE  LET s == FirstReplicas(n)
         IN  /\ s \in Seq(Replica) /\ Len(s) <= MIN_HORCRUX
             /\ \A i \in 1..Len(s) : s[i] \in row[n]
             /\ \A i, j \in 1..Len(s) : i < j => s[i] < s[j]
<1> DEFINE Sound(s, r) ==
             /\ s \in Seq(Replica) /\ Len(s) <= MIN_HORCRUX
             /\ \A i \in 1..Len(s) : s[i] \in row[n] /\ s[i] < r
             /\ \A i, j \in 1..Len(s) : i < j => s[i] < s[j]
<1>1. GENERATE_HORCRUX \in Nat /\ MIN_HORCRUX \in Nat /\ Replica = 0..(GENERATE_HORCRUX - 1)
  BY FieldAssumption DEF Replica
<1>2. PICK u :
        /\ u[0] = <<>>
        /\ \A r \in 1..GENERATE_HORCRUX :
             u[r] = IF r - 1 \in row[n] /\ Len(u[r - 1]) < MIN_HORCRUX
                    THEN Append(u[r - 1], r - 1) ELSE u[r - 1]
        /\ FirstReplicas(n) = u[GENERATE_HORCRUX]
  BY FirstReplicasUnfolds
<1> DEFINE Wrong == {r \in 0..GENERATE_HORCRUX : ~ Sound(u[r], r)}
<1>3. Wrong = {}
  <2> SUFFICES ASSUME Wrong # {} PROVE FALSE
    OBVIOUS
  <2>1. PICK m \in Wrong : \A j \in Wrong : m <= j
    <3>1. Wrong \subseteq Nat
      BY <1>1
    <3> QED BY <3>1, Least
  <2>2. m \in 0..GENERATE_HORCRUX /\ ~ Sound(u[m], m)
    BY <2>1
  <2>3. Sound(u[0], 0)
    BY <1>1, <1>2, EmptySeq
  <2>4. m # 0
    BY <2>2, <2>3
  <2>5. m - 1 \in 0..GENERATE_HORCRUX /\ m \in 1..GENERATE_HORCRUX /\ m - 1 \notin Wrong
    <3>1. m - 1 \in 0..GENERATE_HORCRUX /\ m \in 1..GENERATE_HORCRUX /\ ~ (m <= m - 1)
      BY <2>2, <2>4, <1>1
    <3> HIDE DEF Wrong
    <3> QED BY <3>1, <2>1
  <2> DEFINE v == u[m - 1]
  <2>6. Sound(v, m - 1)
    BY <2>5
  <2>7. u[m] = IF m - 1 \in row[n] /\ Len(v) < MIN_HORCRUX THEN Append(v, m - 1) ELSE v
    BY <1>2, <2>5
  <2> HIDE DEF v
  <2>8. /\ v \in Seq(Replica) /\ Len(v) \in Nat
        /\ \A i \in 1..Len(v) : v[i] \in Nat /\ v[i] < m
    <3>1. Len(v) \in Nat /\ \A i \in 1..Len(v) : v[i] \in Replica
      BY <2>6, LenProperties, ElementOfSeq
    <3> QED BY <3>1, <2>5, <2>6, <1>1
  <2>9. CASE u[m] = v
    BY <2>2, <2>6, <2>8, <2>9
  <2>10. CASE u[m] = Append(v, m - 1) /\ m - 1 \in row[n] /\ Len(v) < MIN_HORCRUX
    <3>1. m - 1 \in Replica
      BY <2>5, <1>1
    <3>2. /\ u[m] \in Seq(Replica) /\ Len(u[m]) = Len(v) + 1
          /\ \A i \in 1..Len(v) : u[m][i] = v[i]
          /\ u[m][Len(v) + 1] = m - 1
      BY <2>8, <2>10, <3>1, AppendProperties
    <3>3. \A i \in 1..Len(u[m]) : i \in 1..Len(v) \/ i = Len(v) + 1
      BY <2>8, <3>2
    <3>4. \A i \in 1..Len(u[m]) : u[m][i] \in row[n] /\ u[m][i] < m
      BY <2>5, <2>6, <2>8, <2>10, <3>2, <3>3
    <3>5. ASSUME NEW i \in 1..Len(u[m]), NEW j \in 1..Len(u[m]), i < j
          PROVE  u[m][i] < u[m][j]
      <4>1. i \in 1..Len(v)
        BY <2>8, <3>2, <3>5
      <4>2. CASE j \in 1..Len(v)
        BY <2>6, <3>2, <3>5, <4>1, <4>2
      <4>3. CASE j = Len(v) + 1
        BY <2>6, <3>2, <4>1, <4>3
      <4> QED BY <3>3, <4>2, <4>3
    <3>6. Len(u[m]) <= MIN_HORCRUX
      BY <1>1, <2>8, <2>10, <3>2
    <3> QED BY <2>2, <3>2, <3>4, <3>5, <3>6
  <2> QED BY <2>7, <2>9, <2>10
<1>4. Sound(u[GENERATE_HORCRUX], GENERATE_HORCRUX)
  BY <1>1, <1>3
<1> QED BY <1>2, <1>4

LEMMA EnoughIsPick ==
  ASSUME NEW n, Enough(n)
  PROVE  FirstReplicas(n) \in Picks
<1> DEFINE s == FirstReplicas(n)
<1>1. /\ s \in Seq(Replica) /\ Len(s) <= MIN_HORCRUX
      /\ \A i, j \in 1..Len(s) : i < j => s[i] < s[j]
  BY FirstReplicasInOrder
<1>2. Len(s) >= MIN_HORCRUX
  BY DEF Enough
<1> HIDE DEF s
<1>3. MIN_HORCRUX \in Nat /\ Len(s) \in Nat /\ s \in [1..Len(s) -> Replica]
  BY <1>1, FieldAssumption, LenProperties
<1>4. Len(s) = MIN_HORCRUX
  <2> DEFINE length == Len(s)
  <2>1. length \in Nat /\ MIN_HORCRUX \in Nat /\ length <= MIN_HORCRUX /\ length >= MIN_HORCRUX
    BY <1>1, <1>2, <1>3
  <2> HIDE DEF length
  <2>2. length = MIN_HORCRUX
    BY <2>1
  <2> QED BY <2>2 DEF length
<1>5. s \in Picks
  BY <1>1, <1>3, <1>4 DEF Picks
<1> QED BY <1>5 DEF s

\* What the proof adds to ReadIsObject: what was made of the object, and what is
\* restored from it, stay as they were.
ReadInv ==
  /\ object \in Objects
  /\ restored = [s \in Picks |->
       restore(chunk_restore(s), [i \in 1..MIN_HORCRUX |-> write(s[i], object)])]
  /\ read \in [Node -> {<<>>, object}]

LEMMA InitRead == Init => ReadInv
<1> SUFFICES ASSUME Init PROVE ReadInv
  OBVIOUS
<1>1. ASSUME NEW s \in Picks
      PROVE  [i \in 1..MIN_HORCRUX |-> content[s[i]]] = [i \in 1..MIN_HORCRUX |-> write(s[i], object)]
  <2>1. \A i \in 1..MIN_HORCRUX : s[i] \in Replica
    BY DEF Picks
  <2>2. content = [r \in Replica |-> write(r, object)]
    BY DEF Init
  <2> QED BY <2>1, <2>2
<1>2. restored = [s \in Picks |-> restore(chunk_restore(s), [i \in 1..MIN_HORCRUX |-> content[s[i]]])]
  BY DEF Init
<1>3. restored = [s \in Picks |->
        restore(chunk_restore(s), [i \in 1..MIN_HORCRUX |-> write(s[i], object)])]
  BY <1>1, <1>2
<1> QED BY <1>3 DEF Init, ReadInv

LEMMA NextRead == AnyChoiceRestores /\ ReadInv /\ [Next]_vars => ReadInv'
<1> SUFFICES ASSUME AnyChoiceRestores, ReadInv, [Next]_vars PROVE ReadInv'
  OBVIOUS
<1>1. CASE UNCHANGED <<objectVars, read>>
  BY <1>1 DEF ReadInv
<1>2. ASSUME NEW n \in Node, Read(n) PROVE ReadInv'
  <2>1. FirstReplicas(n) \in Picks
    BY <1>2, EnoughIsPick DEF Read, CanRead
  <2>2. Restored(n) = object
    BY <2>1 DEF Restored, ReadInv, AnyChoiceRestores
  <2> QED BY <1>2, <2>2 DEF Read, ReadInv
<1>3. CASE SaveTemp \/ SaveTempFails \/ Save \/ SaveFails
  BY <1>1, <1>3 DEF SaveTemp, SaveTempFails, Save, SaveFails
<1>4. ASSUME NEW n \in Node,
             \/ Learn(n) \/ SyncReplicas(n) \/ SyncReplicasFails(n)
             \/ Ask(n) \/ Prepare(n) \/ Restart(n)
      PROVE  ReadInv'
  BY <1>1, <1>4 DEF Learn, SyncReplicas, SyncReplicasFails, Ask, Prepare, Restart
<1>5. ASSUME NEW q \in messages, OnRequest(q) \/ OnData(q) \/ OnDataFails(q) \/ Lose(q)
      PROVE  ReadInv'
  BY <1>1, <1>5 DEF OnRequest, OnData, OnDataFails, Lose
<1> QED BY <1>1, <1>2, <1>3, <1>4, <1>5 DEF Next, vars

\* restore_async and restore: whatever replicas a node has when it reads, in whatever
\* order they came, what it reads is the object, if the erasure code restores it
\* from each choice of enough replicas.
THEOREM ReadsObject == AnyChoiceRestores => (Spec => []ReadIsObject)
<1> SUFFICES ASSUME AnyChoiceRestores PROVE Spec => []ReadIsObject
  OBVIOUS
<1>1. ReadInv /\ [Next]_vars => ReadInv'
  BY NextRead
<1>2. ReadInv => ReadIsObject
  BY DEF ReadInv, ReadIsObject
<1> QED BY InitRead, <1>1, <1>2, PTL DEF Spec
=============================================================================
