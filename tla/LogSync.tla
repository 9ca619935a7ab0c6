------------------------------ MODULE LogSync ------------------------------
(***************************************************************************)
(* How the blocks of the transaction log get from node to node             *)
(* (libs_server/vds_log_sync/impl/sync_process.cpp and the dispatch of its *)
(* messages in libs_server/vds_server).  A node tells its leafs to its     *)
(* neighbours, on a timer and when a session starts; a node that does not  *)
(* know them asks for them, then for their ancestors.                      *)
(*                                                                         *)
(* A session is the FIFO channel of DatagramProtocol; when it breaks, what *)
(* is under way is lost.  What a handler sends leaves after the SQL        *)
(* transaction of the handler; an error in it drops everything.            *)
(***************************************************************************)
EXTENDS TransactionNetwork

CONSTANTS
  Neighbor,    \* pairs of nodes that can have a session
  EarlyUse,    \* is a node used for writing before it has any block?
  MaxPending,  \* bound: timers wait while more messages are under way
  MaxBreaks,   \* bound: broken sessions
  MaxRestarts  \* bound: restarts of nodes

ASSUME SyncAssumption ==
  /\ Neighbor \subseteq Node \X Node
  /\ EarlyUse \in BOOLEAN
  /\ MaxPending \in Nat /\ MaxBreaks \in Nat /\ MaxRestarts \in Nat

VARIABLES
  session,     \* <<n, m>>: n has a session with m
  channel,     \* [Node \X Node -> Seq(message)]: what is under way
  breaks,      \* history: how many sessions broke
  restarts     \* history: how many restarts there were

syncVars == <<vars, session, channel, breaks, restarts>>

SyncInit ==
  /\ Init
  /\ session = {}
  /\ channel = [link \in Neighbor |-> <<>>]
  /\ breaks = 0
  /\ restarts = 0

-----------------------------------------------------------------------------
(* Messages.  What a step of n sends is a set of [to, message]. *)

get_neighbors(n) == {m \in Node : <<n, m>> \in session}

\* transaction_log_state, which is not sent without leafs.
StateTo(to, leafs) ==
  IF leafs = {} THEN {}
  ELSE {[to |-> m, message |-> [type |-> "state", leafs |-> leafs]] : m \in to}

\* transaction_log_request: one for each block.
RequestTo(to, ids) ==
  {[to |-> m, message |-> [type |-> "request", id |-> c]] : m \in to, c \in ids}

\* The channels when n sends; the requests of one step leave in the order of the ids.
Sent(channels, n, mail) ==
  [link \in DOMAIN channels |->
     LET messages == {p.message : p \in {q \in mail : <<n, q.to>> = link}} IN
     IF link \notin session THEN channels[link]
     ELSE channels[link] \o SetToSortSeq(messages, LAMBDA a, b : a.id < b.id)]

-----------------------------------------------------------------------------
(* Handlers: what each one sends. *)

\* Mutant: only the ancestors of the leafs are looked at.
MissingOfLeafs(d) == UNION {Ancestors(d, c) : c \in With(d, "leaf")} \ Stored(d)

\* The ancestors of blocks of d that are not there.
Missing(d) == UNION {Ancestors(d, c) : c \in Stored(d)} \ Stored(d)

query_unknown_records(n) ==
  IF Missing(db[n]) # {} THEN RequestTo(get_neighbors(n), Missing(db[n]))
  ELSE StateTo(get_neighbors(n), With(db[n], "leaf"))

\* apply_message(transaction_log_state)
apply_state(n, m, leafs) ==
  IF leafs \ Stored(db[n]) # {} THEN RequestTo({m}, leafs \ Stored(db[n]))
  ELSE IF leafs \cap With(db[n], "validated") # {} THEN RequestTo({m}, Missing(db[n]))
  ELSE StateTo({m}, With(db[n], "leaf") \ leafs)

\* apply_message(transaction_log_request)
apply_request(n, m, c) ==
  IF c \in Stored(db[n]) THEN {[to |-> m, message |-> [type |-> "record", id |-> c]]} ELSE {}

\* apply_message(transaction_log_record), of a block that cannot be verified yet:
\* the block is dropped.
apply_unverified(n, m, block) == RequestTo({m}, block.ancestors \ Stored(db[n]))

-----------------------------------------------------------------------------
(* Steps. *)

\* n sends; with what it got from m, if anything, gone from the channel.
Send(n, mail) == channel' = Sent(channel, n, mail)
Answer(n, m, mail) == channel' = Sent([channel EXCEPT ![<<m, n>>] = Tail(@)], n, mail)

\* The timer of the server.
Tick(n) ==
  /\ Total(Neighbor, LAMBDA link : Len(channel[link])) <= MaxPending
  /\ Send(n, query_unknown_records(n))
  /\ UNCHANGED <<vars, session, breaks, restarts>>

\* add_session, which also writes down the key of m, then on_new_session and
\* sync_local_channels.
on_new_session(n, m) ==
  /\ <<n, m>> \in Neighbor \ session
  /\ session' = session \cup {<<n, m>>}
  /\ db' = [db EXCEPT ![n].rows = @ \cup {<<"node", m>>}]
  /\ LET leafs == With(db[n], "leaf") IN
     channel' = IF leafs = {} THEN channel
                ELSE [channel EXCEPT ![<<n, m>>] = Append(@, [type |-> "state", leafs |-> leafs])]
  /\ UNCHANGED <<is_new_node, writes, errors, breaks, restarts>>

\* The next message from m is there for n.
Arrives(n, m, type) ==
  /\ <<n, m>> \in session
  /\ channel[m, n] # <<>>
  /\ Head(channel[m, n]).type = type

OnState(n, m) ==
  /\ Arrives(n, m, "state")
  /\ Answer(n, m, apply_state(n, m, Head(channel[m, n]).leafs))
  /\ UNCHANGED <<vars, session, breaks, restarts>>

OnRequest(n, m) ==
  /\ Arrives(n, m, "request")
  /\ Answer(n, m, apply_request(n, m, Head(channel[m, n]).id))
  /\ UNCHANGED <<vars, session, breaks, restarts>>

\* A block that is there already is left alone.
OnRecord(n, m) ==
  /\ Arrives(n, m, "record")
  /\ LET c == Head(channel[m, n]).id
         block == Content(db[m], c)
     IN \/ /\ Receive(n, m, c)
           /\ Answer(n, m, {})
        \/ /\ c \in Stored(db[n])
           /\ Answer(n, m, {})
           /\ UNCHANGED vars
        \/ /\ c \notin Stored(db[n]) /\ ~ CanVerify(db[n], block)
           /\ Answer(n, m, apply_unverified(n, m, block))
           /\ UNCHANGED vars
  /\ UNCHANGED <<session, breaks, restarts>>

\* The sessions between n and the nodes of M end, and what is under way with them.
Disconnect(n, M) ==
  LET links == ({n} \X M) \cup (M \X {n}) IN
  /\ session' = session \ links
  /\ channel' = [link \in Neighbor |-> IF link \in links THEN <<>> ELSE channel[link]]

Break(n, m) ==
  /\ <<n, m>> \in session
  /\ breaks < MaxBreaks
  /\ breaks' = breaks + 1
  /\ Disconnect(n, {m})
  /\ UNCHANGED <<vars, restarts>>

Use(n, messages) ==
  /\ EarlyUse \/ With(db[n], "leaf") # {}
  /\ Write(n, messages)
  /\ UNCHANGED <<session, channel, breaks, restarts>>

\* The process of n ends and starts again; the database survives.
Restart(n) ==
  /\ restarts < MaxRestarts
  /\ restarts' = restarts + 1
  /\ is_new_node' = [is_new_node EXCEPT ![n] = TRUE]
  /\ Disconnect(n, Node)
  /\ UNCHANGED <<db, writes, errors, breaks>>

SyncNext ==
  \E n \in Node :
    \/ Tick(n)
    \/ \E messages \in Payload[n] : Use(n, messages)
    \/ Restart(n)
    \/ \E m \in Node :
         on_new_session(n, m) \/ OnState(n, m) \/ OnRequest(n, m) \/ OnRecord(n, m) \/ Break(n, m)

\* The timer goes off every minute (MaxPending, which is not in the code, holds
\* it back now and then, hence SF); neighbours have sessions again in the end;
\* what is sent is delivered: weak fairness of the On actions of each pair,
\* written with their guard.
Delivered(n, m) ==
  <<n, m>> \in session /\ channel[m, n] # <<>> => channel'[m, n] = Tail(channel[m, n])

Fairness ==
  /\ \A n \in Node : SF_syncVars(Tick(n))
  /\ \A link \in Neighbor :
       /\ []<><<Delivered(link[1], link[2])>>_syncVars
       /\ []<><<link \in session>>_syncVars

SyncSpec == SyncInit /\ [][SyncNext]_syncVars /\ Fairness

-----------------------------------------------------------------------------
(***************************************************************************)
(* Properties.                                                             *)
(***************************************************************************)

\* All nodes have made the same of the same blocks.
Synced == \A n, m \in Node : db[n].record = db[m].record

\* When nobody writes any more, all nodes come to have the same log, a node that
\* joined with an empty one too, whatever was lost or delivered late.
EventuallySynced == <>[]Synced
=============================================================================
