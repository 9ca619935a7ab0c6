--------------------------- MODULE TransactionLog ---------------------------
(***************************************************************************)
(* The transaction log of one node: what transaction_log::save does to its *)
(* database when a block is written or received                            *)
(* (libs_server/vds_log_sync/impl/transaction_log.cpp).                    *)
(*                                                                         *)
(* Blocks form a DAG.  A block waits (validated) until its ancestors are   *)
(* processed; then its messages are applied (leaf, or processed once it    *)
(* has a follower) or it is invalid.  Every writer of a block approves all *)
(* of its ancestors; a block that more than half of its voters approve is  *)
(* in consensus, even if this node took it for invalid: then everything    *)
(* later that is not in consensus is rolled back and replayed.             *)
(*                                                                         *)
(* A whole save runs in one SQL transaction on the database thread, so the *)
(* functions of the code are operators on a database here.  Its worklists  *)
(* are ordered by block id, a hash; ids are numbers.  A worklist is a step *)
(* that is repeated until nothing is left, and leaves the rest alone then. *)
(***************************************************************************)
EXTENDS TransactionRecords, FiniteSets

CONSTANT MaxRounds  \* bound: blocks that one save processes, again and again if need be

ASSUME LogAssumption == MaxRounds \in Nat

\* d.record: transaction_log_record by id; transaction_log_hierarchy follows
\* from the ancestors.
Stored(d) == DOMAIN d.record
State(d, c) == d.record[c].state
With(d, state) == {c \in Stored(d) : State(d, c) = state}
Applied(d) == With(d, "leaf") \cup With(d, "processed")
Confirmed(d) == {c \in Stored(d) : d.record[c].consensus}

Ancestors(d, c) == d.record[c].ancestors
Followers(d, c) == {f \in Stored(d) : c \in Ancestors(d, f)}
Block(d, c) == [id |-> c, writer |-> d.record[c].writer, messages |-> d.record[c].messages]

SetState(d, C, state) ==
  [d EXCEPT !.record = [c \in DOMAIN @ |-> IF c \in C THEN [@[c] EXCEPT !.state = state]
                                           ELSE @[c]]]

\* Step n times, from start.
Repeat(n, start, Step(_)) ==
  LET after[k \in 0..n] == IF k = 0 THEN start ELSE Step(after[k - 1]) IN after[n]

\* The entries of a worklist f, and those of g that it does not have.
Joined(f, g) == [c \in DOMAIN f \cup DOMAIN g |-> IF c \in DOMAIN f THEN f[c] ELSE g[c]]

EmptyDatabase ==
  [record |-> [c \in {} |-> 0], votes |-> [key \in {} |-> 0], balance |-> [key \in {} |-> 0],
   rows |-> {}, error |-> ""]

-----------------------------------------------------------------------------
(***************************************************************************)
(* process_block: from validated to leaf or invalid, once the ancestors    *)
(* have left validated.                                                    *)
(***************************************************************************)

\* An ancestor with a later number or clock makes the block invalid.
OutOfOrder(d, a, c) ==
  \/ d.record[a].order_no >= d.record[c].order_no
  \/ d.record[a].time > d.record[c].time

Waits(d, c) ==
  \E a \in Ancestors(d, c) :
    \/ a \notin Stored(d)
    \/ ~ OutOfOrder(d, a, c) /\ State(d, a) = "validated"

Voters(d, c) == {key[2] : key \in {k \in DOMAIN d.votes : k[1] = c}}

\* Mutant: who approves an ancestor approves the block.
InheritApprovals(d, c) ==
  LET new == UNION {Voters(d, a) : a \in Ancestors(d, c)} \ Voters(d, c)
      Has(a, o) == <<a, o>> \in DOMAIN d.votes /\ d.votes[<<a, o>>].approved
      approvers == {o \in new : \E a \in Ancestors(d, c) : Has(a, o)}
  IN [d EXCEPT !.votes =
        Joined(@, [key \in {c} \X new |-> [approved |-> key[2] \in approvers,
                                          new_member |-> FALSE]])]

\* Who votes on an ancestor votes on the block.
InheritVotes(d, c) ==
  LET new == UNION {Voters(d, a) : a \in Ancestors(d, c)} \ Voters(d, c)
  IN [d EXCEPT !.votes =
        Joined(@, [key \in {c} \X new |-> [approved |-> FALSE, new_member |-> FALSE]])]

\* Mutant: an ancestor stays a leaf.
NothingSuperseded(d, c) == {}

\* The leafs that cease to be, when a block on top of them is applied.
Superseded(d, c) == {a \in Ancestors(d, c) : State(d, a) = "leaf"}

Spoiled(d, c) == \E a \in Ancestors(d, c) : OutOfOrder(d, a, c) \/ State(d, a) = "invalid"

\* What becomes of c on top of d when its messages are tried.
Settle(d, c, tried) ==
  IF tried.completed
  THEN [state |-> "leaf",
        db |-> SetState(SetState(tried.db, {c}, "leaf"), Superseded(d, c), "processed")]
  ELSE [state |-> "invalid", db |-> SetState(tried.db, {c}, "invalid")]

\* The resulting state, and the database.
process_block(d, c) ==
  IF Waits(d, c) THEN [state |-> "validated", db |-> d]
  ELSE Settle(d, c, IF Spoiled(d, c) THEN [db |-> InheritVotes(d, c), completed |-> FALSE]
                    ELSE process_records(InheritVotes(d, c), Block(d, c)))

-----------------------------------------------------------------------------
(***************************************************************************)
(* Consensus.                                                              *)
(***************************************************************************)
VoteCount(d, c, Test(_)) ==
  Cardinality({o \in Voters(d, c) : ~ d.votes[c, o].new_member /\ Test(d.votes[c, o])})

\* Mutant: half of the voters are enough.
HalfApproves(d, c) ==
  VoteCount(d, c, LAMBDA v : v.approved) >= VoteCount(d, c, LAMBDA v : TRUE) \div 2

\* check_consensus
check_consensus(d, c) ==
  LET total == VoteCount(d, c, LAMBDA v : TRUE)
  IN total = 0 \/ VoteCount(d, c, LAMBDA v : v.approved) > total \div 2

\* One approval by the writer of block b: of block c, which has a vote of the
\* writer that is still open, or is in consensus without one.
Approve(d, b, c, consensus) ==
  LET key == <<c, d.record[b].writer>> IN
  IF key \in DOMAIN d.votes THEN [d EXCEPT !.votes[key].approved = TRUE]
  ELSE IF consensus THEN InsertVote(d, c, d.record[b].writer, TRUE, TRUE)
  ELSE Fail(d, "Invalid data")

\* The walk from block w.by to its ancestors.  w.queue holds the blocks to visit
\* with what was known of them, w.candidates the blocks that reach consensus, the
\* last one visited first.
Known(d, c) == [state |-> State(d, c), consensus |-> d.record[c].consensus]

Extend(w, c, new) ==
  IF ~ new \subseteq Stored(w.db) THEN [w EXCEPT !.db = Fail(@, "Invalid data")]
  ELSE [w EXCEPT !.queue = Joined([a \in new |-> Known(w.db, a)], Restrict(@, DOMAIN @ \ {c})),
                 !.done = @ \cup {c}]

Propose(w, c) ==
  IF ~ check_consensus(w.db, c) \/ w.queue[c].consensus THEN w
  ELSE [w EXCEPT !.candidates = <<[id |-> c, state |-> w.queue[c].state]>> \o @]

\* The walk stops at a writer's own block and where the writer is new.
Onwards(w, c) ==
  LET writer == w.db.record[w.by].writer IN
  IF w.db.votes[c, writer].new_member \/ (c # w.by /\ w.db.record[c].writer = writer) THEN {}
  ELSE Ancestors(w.db, c) \ (w.done \cup DOMAIN w.queue)

Visit(w, c) == IF Failed(w.db) THEN w ELSE Extend(Propose(w, c), c, Onwards(w, c))

HasApproved(d, b, c) ==
  LET key == <<c, d.record[b].writer>> IN key \in DOMAIN d.votes /\ d.votes[key].approved

ApproveNext(w) ==
  IF Failed(w.db) \/ DOMAIN w.queue = {} THEN w
  ELSE LET c == Min(DOMAIN w.queue) IN
       IF HasApproved(w.db, w.by, c) THEN Extend(w, c, {})
       ELSE Visit([w EXCEPT !.db = Approve(@, w.by, c, w.queue[c].consensus)], c)

ApproveAll(w) == Repeat(Cardinality(Stored(w.db)), w, ApproveNext)

\* Where the roll-back stops.
Kept(d, a, min_order) == d.record[a].order_no < min_order \/ d.record[a].consensus

\* One block of rollback_all; r.queue holds the blocks to undo.
Undone(r, c, new) ==
  IF Failed(r.db) THEN r
  ELSE IF ~ new \subseteq With(r.db, "processed") THEN [r EXCEPT !.db = Fail(@, "Invalid data")]
  ELSE LET kept == {a \in new : Kept(r.db, a, r.min_order)} IN
       [r EXCEPT !.db = SetState(SetState(@, {c}, "validated"), kept, "leaf"),
                 !.queue = (@ \ {c}) \cup (new \ kept),
                 !.done = @ \cup {c} \cup kept]

RollbackNext(r) ==
  IF Failed(r.db) \/ r.queue = {} THEN r
  ELSE LET c == Min(r.queue) IN
       Undone([r EXCEPT !.db = undo_records(@, Block(@, c))], c,
              Ancestors(r.db, c) \ (r.done \cup r.queue))

\* rollback_all: the leafs with at least this number that are not in consensus,
\* then their ancestors, down to what is older or in consensus.
rollback_all(d, min_order) ==
  Repeat(Cardinality(Stored(d)),
         [db |-> d, done |-> {}, min_order |-> min_order,
          queue |-> {c \in With(d, "leaf") :
                       d.record[c].order_no >= min_order /\ ~ d.record[c].consensus}],
         RollbackNext).db

\* A block and everything that follows it.
WithFollowers(d, c) ==
  Repeat(Cardinality(Stored(d)), {c}, LAMBDA C : C \cup UNION {Followers(d, f) : f \in C})

\* invalid_block: nothing that follows the block may be applied or in consensus.
invalid_block(d, c, state) ==
  LET C == WithFollowers(d, c) IN
  IF (C \ {c}) \cap (Applied(d) \cup Confirmed(d)) # {} THEN Fail(d, "Invalid data")
  ELSE SetState(d, C, state)

\* The blocks of a set, in the order of their ids.
InvalidateNext(w) ==
  IF Failed(w.db) \/ w.left = {} THEN w
  ELSE LET c == Min(w.left) IN
       [db |-> invalid_block(w.db, c, "invalid"), left |-> w.left \ {c}]

InvalidateAll(d, C) == Repeat(Cardinality(C), [db |-> d, left |-> C], InvalidateNext).db

\* A candidate p is marked and, if it is applied, confirmed; reopen says that one
\* of the candidates is invalid here.
Confirm(d, p, reopen) ==
  LET e == [d EXCEPT !.record[p.id].consensus = TRUE] IN
  IF p.state \in {"leaf", "processed"} THEN consensus_records(e, Block(e, p.id))
  ELSE IF reopen THEN e
  ELSE Fail(e, "Invalid program")

ConfirmNext(w) ==
  IF Failed(w.db) \/ w.left = <<>> THEN w
  ELSE [w EXCEPT !.db = Confirm(@, Head(w.left), w.reopen), !.left = Tail(@)]

\* Mutant: a candidate that was invalid here stays so.
ReinstateNothing(d, p) == d

\* A candidate that was invalid here is applied after all.
ConfirmLeaf(block, c) ==
  IF Failed(block.db) THEN block.db
  ELSE IF block.state # "leaf" THEN Fail(block.db, "Invalid program")
  ELSE consensus_records(block.db, Block(block.db, c))

Reopened(d, c) == IF Failed(d) THEN [state |-> "leaf", db |-> d] ELSE process_block(d, c)

Reinstate(d, p) ==
  IF p.state # "invalid" THEN d
  ELSE ConfirmLeaf(Reopened(invalid_block(d, p.id, "validated"), p.id), p.id)

ReinstateNext(w) ==
  IF Failed(w.db) \/ w.left = <<>> THEN w
  ELSE [w EXCEPT !.db = Reinstate(@, Head(w.left)), !.left = Tail(@)]

-----------------------------------------------------------------------------
(***************************************************************************)
(* process_block_with_followers and update_consensus call each other.      *)
(* update_consensus ends with a replay of the log if a candidate was       *)
(* invalid, and what process_block_with_followers still had to do is       *)
(* dropped; the followers to replay are a result here.                     *)
(***************************************************************************)

Reopens(candidates) == \E p \in ToSet(candidates) : p.state = "invalid"

\* Op for the candidates in turn.
ForCandidates(d, candidates, Next_(_)) ==
  Repeat(Len(candidates), [db |-> d, left |-> candidates, reopen |-> Reopens(candidates)],
         Next_).db

\* What follows the leafs is processed again, if it waits.
ToReplay(d) == UNION {Followers(d, a) : a \in With(d, "leaf")}

\* The candidates that were invalid take the place of what was applied instead.
Reorganised(d, candidates) ==
  LET min_order == Min({d.record[p.id].order_no : p \in ToSet(candidates)})
  IN ForCandidates(rollback_all(d, min_order), candidates, ReinstateNext)

Reorganise(d, candidates) ==
  IF Failed(d) \/ ~ Reopens(candidates) THEN [db |-> d, result |-> TRUE, replay |-> {}]
  ELSE LET e == Reorganised(d, candidates)
       IN [db |-> e, result |-> FALSE, replay |-> ToReplay(e)]

ConfirmAll(w) ==
  IF Failed(w.db) THEN [db |-> w.db, result |-> TRUE, replay |-> {}]
  ELSE Reorganise(ForCandidates(w.db, w.candidates, ConfirmNext), w.candidates)

update_consensus(d, c, state, consensus) ==
  ConfirmAll(ApproveAll([db |-> d, by |-> c, done |-> {}, candidates |-> <<>>,
                         queue |-> [a \in {c} |-> [state |-> state, consensus |-> consensus]]]))

\* The worklist of process_block_with_followers: w.queue holds blocks, and whether
\* they were in consensus when they were put there, w.done those it has processed,
\* w.replays what is to be replayed after it, the last replay first.

\* The followers of c: to be processed after a leaf, invalid after a refused block.
Proceed(w, update, c, state) ==
  LET d == update.db
      new == Followers(d, c) \ (w.done \cup DOMAIN w.queue)
  IN IF Failed(d) THEN [w EXCEPT !.db = d]
     ELSE IF ~ update.result
     THEN [w EXCEPT !.db = d, !.queue = [f \in {} |-> FALSE], !.replays = <<update.replay>> \o @]
     ELSE IF state = "leaf"
     THEN [w EXCEPT !.db = d, !.queue = Joined([f \in new |-> d.record[f].consensus], @)]
     ELSE [w EXCEPT !.db = InvalidateAll(d, new)]

AfterBlock(w, block, c, consensus) ==
  IF Failed(block.db) \/ block.state = "validated" THEN [w EXCEPT !.db = block.db]
  ELSE Proceed(w, update_consensus(block.db, c, block.state, consensus), c, block.state)

ProcessBlock(w, c) ==
  AfterBlock([w EXCEPT !.queue = Restrict(@, DOMAIN @ \ {c}), !.done = @ \cup {c}],
             process_block(w.db, c), c, w.queue[c])

\* The next block to replay starts a worklist of its own.
ReplayBlock(w, f) ==
  [w EXCEPT !.replays = <<Head(@) \ {f}>> \o Tail(@),
            !.done = {},
            !.queue = [a \in {f} \cap With(w.db, "validated") |-> w.db.record[a].consensus]]

Ended(w) == Failed(w.db) \/ (DOMAIN w.queue = {} /\ w.replays = <<>>)

ProcessNext(w) ==
  IF Ended(w) THEN w
  ELSE IF DOMAIN w.queue # {} THEN ProcessBlock(w, Min(DOMAIN w.queue))
  ELSE IF Head(w.replays) # {} THEN ReplayBlock(w, Min(Head(w.replays)))
  ELSE [w EXCEPT !.replays = Tail(@)]

process_block_with_followers(d, c) ==
  LET w == Repeat(MaxRounds,
                  [db |-> d, queue |-> [a \in {c} |-> FALSE], done |-> {}, replays |-> <<>>],
                  ProcessNext)
  IN IF Ended(w) THEN w.db ELSE Fail(w.db, "MaxRounds")

\* transaction_log::save.  An error rolls the SQL transaction back.
save(d, c, block, allow_root) ==
  LET row == [writer |-> block.writer, messages |-> block.messages, time |-> block.time,
              ancestors |-> block.ancestors, order_no |-> block.order_no,
              state |-> "validated", consensus |-> FALSE]
      inserted == [d EXCEPT !.record = Extended(@, c, row)]
  IN IF block.ancestors = {} /\ ~ allow_root THEN Fail(d, "Root block is not allowed")
     ELSE process_block_with_followers(inserted, c)

\* transaction_block::build: on top of all leafs.
build(d, writer, time, messages) ==
  LET leafs == With(d, "leaf") IN
  [writer |-> writer, messages |-> messages, time |-> time, ancestors |-> leafs,
   order_no |-> 1 + Max({0} \cup {d.record[a].order_no : a \in leafs})]
=============================================================================
