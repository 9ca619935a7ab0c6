------------------------------ MODULE Replicas ------------------------------
(***************************************************************************)
(* An object in the network (libs_server/vds_dht_network/impl):  a client  *)
(* uploads it to a node, which writes GENERATE_HORCRUX replicas to its     *)
(* temporary folder and, when the client's store_block_transaction is      *)
(* saved, moves them to its storage.  The other nodes learn from the log   *)
(* who hosts which replica, ask for replicas once per life of the process  *)
(* or when somebody reads the object, and announce those they have with a  *)
(* host_block_transaction.                                                 *)
(*                                                                         *)
(* Files are not part of the SQL transaction: they stay when it is rolled  *)
(* back, on an error or a crash.  A replica is known by its hash, here the *)
(* smallest replica with the same content.  The log is that of LogSync: a  *)
(* node gets every block once, after the blocks its writer had.            *)
(***************************************************************************)
EXTENDS ErasureCoding

CONSTANTS
  Node,
  Writer,       \* the node the client uploads to
  Objects,      \* what may be uploaded: sequences of bytes
  Quota,        \* [Node -> Nat]: replicas for which a node has reserved space
  MaxFailures,  \* bound: uploads and saves that end with an error
  MaxRestarts,  \* bound: restarts
  MaxLosses,    \* bound: lost messages
  MaxPending    \* bound: nobody asks while more messages are under way

Replica == 0..(GENERATE_HORCRUX - 1)

ASSUME ReplicasAssumption ==
  /\ Writer \in Node
  /\ Quota \in [Node -> Nat]
  /\ {MaxFailures, MaxRestarts, MaxLosses, MaxPending} \subseteq Nat

VARIABLES
  object,    \* what the client uploads
  content,   \* [Replica -> ...]: what the generators make of it
  restored,  \* [Picks -> ...]: what is restored from each choice of replicas
  uploaded,  \* does the client have the hashes of the replicas?
  tmp,       \* files in the temporary folder of the writer
  tmpRow,    \* its chunk_tmp_data
  file,      \* [Node -> SUBSET Replica]: files in the storage
  row,       \* [Node -> SUBSET Replica]: local_data
  hosts,     \* [Node -> pairs <<node, replica>>]: chunk_replica_map
  log,       \* all such pairs that a block of the log announces
  synced,    \* the nodes whose sync_replicas_timeout_ has passed 30
  stopped,   \* the nodes whose update_timer_ an error of sync_replicas has ended
  messages,  \* under way
  read,      \* [Node -> what was read]: empty when nothing
  failures,  \* history: how many uploads and saves ended with an error
  restarts,  \* history: how many restarts
  losses     \* history: how many messages were lost

writerVars == <<uploaded, tmp, tmpRow, failures>>
objectVars == <<object, content, restored>>
vars == <<objectVars, writerVars, file, row, hosts, log, synced, stopped, messages, read, restarts, losses>>

\* The choices of replicas that are enough.
Picks == {s \in [1..MIN_HORCRUX -> Replica] : \A i, j \in 1..MIN_HORCRUX : i < j => s[i] < s[j]}

\* The hashes of its replicas.
Hashes == {r \in Replica : \A q \in 0..(r - 1) : content[q] # content[r]}

Init ==
  /\ object \in Objects
  /\ content = [r \in Replica |-> write(r, object)]
  /\ restored = [s \in Picks |-> restore(chunk_restore(s), [i \in 1..MIN_HORCRUX |-> content[s[i]]])]
  /\ uploaded = FALSE
  /\ tmp = {} /\ tmpRow = {}
  /\ file = [n \in Node |-> {}] /\ row = [n \in Node |-> {}]
  /\ hosts = [n \in Node |-> {}] /\ log = {}
  /\ synced = {} /\ stopped = {}
  /\ messages = {}
  /\ read = [n \in Node |-> <<>>]
  /\ failures = 0 /\ restarts = 0 /\ losses = 0

\* The first replicas of S, in the order in which they are processed.
FirstOf(S) == {P \in SUBSET S : \A p \in P, q \in S \ P : p < q}

\* Mutant: the last replica is not counted.
RoomForOneMore(n) == Quota[n] + 1 - Cardinality(row[n])

\* What the largest storage still takes.
Room(n) == Quota[n] - Cardinality(row[n])

-----------------------------------------------------------------------------
(* Upload and store. *)

\* upload_data, save_temp: a replica that has a row is not written again.
SaveTemp ==
  /\ tmp' = tmp \cup (Hashes \ tmpRow)
  /\ tmpRow' = tmpRow \cup Hashes
  /\ uploaded' = TRUE
  /\ UNCHANGED <<objectVars, file, row, hosts, log, synced, stopped, messages, read, failures, restarts, losses>>

\* An error, or a crash, after some files.
SaveTempFails ==
  /\ failures < MaxFailures
  /\ failures' = failures + 1
  /\ \E P \in FirstOf(Hashes \ tmpRow) : tmp' = tmp \cup P
  /\ UNCHANGED <<objectVars, uploaded, tmpRow, file, row, hosts, log, synced, stopped, messages, read, restarts, losses>>

\* What client::save moves to the storage: save_data leaves what has a row alone.
Moved == (tmpRow \cap tmp) \ row[Writer]

\* client::save of the client's store_block_transaction, which announces the
\* writer for all replicas.  A replica hash is unique in chunk_replica_data.
Save ==
  /\ uploaded
  /\ Cardinality(Moved) <= Room(Writer)
  /\ Hashes = Replica /\ log = {}
  /\ tmp' = tmp \ Moved
  /\ tmpRow' = {}
  /\ file' = [file EXCEPT ![Writer] = @ \cup Moved]
  /\ row' = [row EXCEPT ![Writer] = @ \cup Moved]
  /\ log' = {Writer} \X Replica
  /\ hosts' = [hosts EXCEPT ![Writer] = log']
  /\ UNCHANGED <<objectVars, uploaded, synced, stopped, messages, read, failures, restarts, losses>>

\* The same with an error or a crash before the commit: "No disk space", a hash
\* that is there already, a block that the log refuses.
SaveFails ==
  /\ uploaded
  /\ failures < MaxFailures
  /\ failures' = failures + 1
  /\ \E P \in FirstOf(Moved) :
       /\ Cardinality(P) <= Room(Writer)
       /\ tmp' = tmp \ P
       /\ file' = [file EXCEPT ![Writer] = @ \cup P]
  /\ UNCHANGED <<objectVars, uploaded, tmpRow, row, hosts, log, synced, stopped, messages, read, restarts, losses>>

\* apply_record of the store_block_transaction, then of host_block_transactions.
Learn(n) ==
  /\ \/ /\ hosts[n] = {} /\ log # {}
        /\ hosts' = [hosts EXCEPT ![n] = {Writer} \X Replica]
     \/ /\ hosts[n] # {}
        /\ \E p \in log \ hosts[n] : hosts' = [hosts EXCEPT ![n] = @ \cup {p}]
  /\ UNCHANGED <<objectVars, writerVars, file, row, log, synced, stopped, messages, read, restarts, losses>>

-----------------------------------------------------------------------------
(* Replicas between nodes. *)

HostsOf(n, r) == {m \in Node : <<m, r>> \in hosts[n]}
Request(n, m, r) == [type |-> "request", from |-> n, to |-> m, replica |-> r]
Data(n, m, r) == [type |-> "data", from |-> n, to |-> m, replica |-> r]

\* Mutant: every replica is announced.
HostsAnything(n, wanted) == wanted

\* The replicas of wanted for which n builds a host_block_transaction.
Hosted(n, wanted) == wanted \cap row[n]

\* The replicas that sync_replicas wants n to host.
Wanted(n) ==
  {r \in Replica : /\ hosts[n] # {}
                   /\ Cardinality({p[1] : p \in hosts[n]}) < GENERATE_HORCRUX
                   /\ n \notin HostsOf(n, r)}

\* sync_replicas.  Its last branch, for a replica that nobody hosts, is never
\* taken: the store_block_transaction has a host for each.
SyncReplicas(n) ==
  LET announced == {n} \X Hosted(n, Wanted(n))
  IN /\ n \notin synced \cup stopped
     /\ Cardinality(messages) <= MaxPending
     /\ synced' = synced \cup {n}
     /\ hosts' = [hosts EXCEPT ![n] = @ \cup announced]
     /\ log' = log \cup announced
     /\ messages' = messages \cup
          UNION {{Request(n, m, r) : m \in HostsOf(n, r)} : r \in Wanted(n) \ row[n]}
     /\ UNCHANGED <<objectVars, writerVars, file, row, stopped, read, restarts, losses>>

\* The log refuses the block of a replica: the transaction is rolled back, nobody
\* is asked, and the update_timer_ is not scheduled again.
SyncReplicasFails(n) ==
  /\ n \notin synced \cup stopped
  /\ Hosted(n, Wanted(n)) # {}
  /\ synced' = synced \cup {n}
  /\ stopped' = stopped \cup {n}
  /\ UNCHANGED <<objectVars, writerVars, file, row, hosts, log, messages, read, restarts, losses>>

\* apply_message(sync_replica_request): the replica is joined with chunk_replica_data.
OnRequest(q) ==
  /\ q \in messages /\ q.type = "request"
  /\ messages' = (messages \ {q}) \cup
       (IF q.replica \in row[q.to] /\ hosts[q.to] # {} THEN {Data(q.to, q.from, q.replica)} ELSE {})
  /\ UNCHANGED <<objectVars, writerVars, file, row, hosts, log, synced, stopped, read, restarts, losses>>

\* apply_message(sync_replica_data): what is there is ignored.
OnData(q) ==
  LET n == q.to IN
  /\ q \in messages /\ q.type = "data"
  /\ messages' = messages \ {q}
  /\ \/ /\ q.replica \notin row[n] /\ Room(n) >= 1
        /\ file' = [file EXCEPT ![n] = @ \cup {q.replica}]
        /\ row' = [row EXCEPT ![n] = @ \cup {q.replica}]
     \/ /\ q.replica \in row[n]
        /\ UNCHANGED <<file, row>>
  /\ UNCHANGED <<objectVars, writerVars, hosts, log, synced, stopped, read, restarts, losses>>

\* The same with "No disk space", an error that ends the session q came over, with
\* whatever else is under way on it, which it may carry for any two nodes.
OnDataFails(q) ==
  /\ q \in messages /\ q.type = "data"
  /\ q.replica \notin row[q.to] /\ Room(q.to) < 1
  /\ \E lost \in SUBSET messages : messages' = messages \ (lost \cup {q})
  /\ UNCHANGED <<objectVars, writerVars, file, row, hosts, log, synced, stopped, read, restarts, losses>>

-----------------------------------------------------------------------------
(* Reading. *)

\* Mutant: one replica more than are needed.
EnoughAndOne(n) == Cardinality(row[n]) > MIN_HORCRUX

\* restore_async: the replicas that n has, in their order, until they are enough.
FirstReplicas(n) ==
  LET replicas[r \in 0..GENERATE_HORCRUX] ==
        IF r = 0 THEN <<>>
        ELSE IF r - 1 \in row[n] /\ Len(replicas[r - 1]) < MIN_HORCRUX
        THEN Append(replicas[r - 1], r - 1)
        ELSE replicas[r - 1]
  IN replicas[GENERATE_HORCRUX]

Enough(n) == Len(FirstReplicas(n)) >= MIN_HORCRUX

\* Mutant: the replicas are numbered as they are found.
RestoredAsFound(n) ==
  restore(chunk_restore([i \in 1..MIN_HORCRUX |-> i - 1]),
          [i \in 1..MIN_HORCRUX |-> content[FirstReplicas(n)[i]]])

\* What n restores from them.
Restored(n) == restored[FirstReplicas(n)]

\* A pass of the loop of restore, which is restore_async.  Passes go on for a
\* minute, and a client may ask again.
CanRead(n) == hosts[n] # {} /\ read[n] = <<>> /\ Enough(n)

Read(n) ==
  /\ CanRead(n)
  /\ read' = [read EXCEPT ![n] = Restored(n)]
  /\ UNCHANGED <<objectVars, writerVars, file, row, hosts, log, synced, stopped, messages, restarts, losses>>

\* restore_replica, for each replica that is missing: its hosts are asked or, for
\* want of a host, the nearest neighbour.
Ask(n) ==
  /\ hosts[n] # {} /\ read[n] = <<>> /\ ~ Enough(n)
  /\ Cardinality(messages) <= MaxPending
  /\ \E near \in Node \ {n} :
       LET Asked(r) == IF HostsOf(n, r) \ {n} # {} THEN HostsOf(n, r) \ {n} ELSE {near}
       IN messages' = messages \cup
            UNION {{Request(n, m, r) : m \in Asked(r)} : r \in Replica \ row[n]}
  /\ UNCHANGED <<objectVars, writerVars, file, row, hosts, log, synced, stopped, read, restarts, losses>>

\* prepare_restore: only the hosts are asked, and for all that is missing.
Prepare(n) ==
  /\ hosts[n] # {}
  /\ Cardinality(messages) <= MaxPending
  /\ messages' = messages \cup
       UNION {{Request(n, m, r) : m \in HostsOf(n, r) \ {n}} : r \in Replica \ row[n]}
  /\ UNCHANGED <<objectVars, writerVars, file, row, hosts, log, synced, stopped, read, restarts, losses>>

-----------------------------------------------------------------------------
(* Faults. *)

\* The session ends with what is under way: on an error, or the network's; and a
\* session of a node whose timer has ended repeats nothing.
Lose(q) ==
  /\ q \in messages
  /\ \/ losses < MaxLosses /\ losses' = losses + 1
     \/ {q.from, q.to} \cap stopped # {} /\ UNCHANGED losses
  /\ messages' = messages \ {q}
  /\ UNCHANGED <<objectVars, writerVars, file, row, hosts, log, synced, stopped, read, restarts>>

Restart(n) ==
  /\ restarts < MaxRestarts
  /\ restarts' = restarts + 1
  /\ synced' = synced \ {n}
  /\ stopped' = stopped \ {n}
  /\ UNCHANGED <<objectVars, writerVars, file, row, hosts, log, messages, read, losses>>

Next ==
  \/ SaveTemp \/ SaveTempFails \/ Save \/ SaveFails
  \/ \E n \in Node : Learn(n) \/ SyncReplicas(n) \/ SyncReplicasFails(n)
                     \/ Read(n) \/ Ask(n) \/ Prepare(n) \/ Restart(n)
  \/ \E q \in messages : OnRequest(q) \/ OnData(q) \/ OnDataFails(q) \/ Lose(q)

Spec == Init /\ [][Next]_vars

\* The log gets to every node; a reader goes on (WF of Read, written with its
\* guard, and of Ask); what is not lost gets there.  (What is under way with a
\* node that stopped may be lost for ever; EventuallyRead asks nothing of it.)
Fairness ==
  \A n \in Node :
    /\ WF_vars(Learn(n))
    /\ WF_vars(Ask(n))
    /\ []<>(~ CanRead(n)) \/ []<><<read'[n] # read[n]>>_vars
    /\ \A m \in Node \ {n}, r \in Replica :
         /\ WF_vars(OnRequest(Request(n, m, r)))
         /\ WF_vars(OnData(Data(n, m, r)) \/ OnDataFails(Data(n, m, r)))

FairSpec == Spec /\ Fairness

-----------------------------------------------------------------------------
(***************************************************************************)
(* Properties.                                                             *)
(***************************************************************************)

TypeOK ==
  /\ object \in Objects /\ uploaded \in BOOLEAN
  /\ tmp \subseteq Replica /\ tmpRow \subseteq Replica
  /\ file \in [Node -> SUBSET Replica] /\ row \in [Node -> SUBSET Replica]
  /\ \A n \in Node : row[n] \subseteq file[n] /\ Cardinality(row[n]) <= Quota[n]
  /\ log \subseteq Node \X Replica /\ hosts \in [Node -> SUBSET log]
  /\ synced \subseteq Node /\ stopped \subseteq synced
  /\ messages \subseteq [type : {"request", "data"}, from : Node, to : Node, replica : Replica]
  /\ failures \in 0..MaxFailures /\ restarts \in 0..MaxRestarts /\ losses \in 0..MaxLosses

\* Whoever is announced as the host of a replica has its file; and the database
\* knows the file, unless an upload or a save failed before: the next one then
\* finds the rows of the temporary files and not the files, and announces the
\* replicas all the same.
AnnouncedIsThere ==
  \A p \in log :
    /\ p[2] \in file[p[1]]
    /\ p[2] \in row[p[1]] \/ (p[1] = Writer /\ failures > 0)

\* What the proofs add: a row of the temporary data has its file, which a save that
\* failed may have moved to the storage already; the first block announces all.
StoreInv ==
  /\ tmpRow \subseteq tmp \cup file[Writer]
  /\ failures = 0 => tmpRow \subseteq tmp
  /\ uploaded /\ log = {} => Hashes \subseteq tmpRow
  /\ log # {} => {Writer} \X Replica \subseteq log

\* What is asked of the erasure code: MCReplicas has it checked for its objects.
AnyChoiceRestores ==
  \A o \in Objects, s \in Picks :
    restore(chunk_restore(s), [i \in 1..MIN_HORCRUX |-> write(s[i], o)]) = o

\* What is read is what was uploaded, from whichever replicas.
ReadIsObject == \A n \in Node : read[n] \in {<<>>, object}

\* When the writer has its replicas, every node with space for enough of them
\* reads the object in the end, unless an error of sync_replicas ended a timer.
EventuallyRead ==
  \A n \in Node :
    (Quota[n] >= MIN_HORCRUX /\ log # {} /\ row[Writer] = Replica)
      ~> (read[n] = object \/ stopped # {})
=============================================================================
