----------------------------- MODULE AsyncKernel -----------------------------
(***************************************************************************)
(* What everything else runs on (kernel/vds_core): the threads of          *)
(* mt_service, a thread_apartment (the queue of the database), the future  *)
(* of async_task, and the timers of task_manager, until the shutdown.      *)
(*                                                                         *)
(* A timer's handler is a coroutine that awaits a database transaction.    *)
(* timer::execute blocks its thread until the coroutine is through, while  *)
(* the coroutine itself goes on in whichever thread takes its continuation *)
(* from the queue of mt_service.                                           *)
(***************************************************************************)
EXTENDS Naturals, Sequences, FiniteSets

CONSTANTS
  Timer,
  Owned,       \* the timers whose owners may go before them
  NoTimer,
  MaxThreads,  \* 16 times the number of processors
  MaxFree,     \* 8
  MaxQueue     \* bound: others stay away while handlers are queued and taken

ASSUME KernelAssumption ==
  /\ Owned \subseteq Timer /\ NoTimer \notin Timer
  /\ {MaxThreads, MaxFree, MaxQueue} \subseteq Nat

Thread == 1..MaxThreads

VARIABLES
  queue,       \* mt_service: the handlers, as <<what, timer>>
  thread,      \* [Thread -> <<where it is, timer>>]
  free,        \* free_threads_
  joining,     \* stop(): <<the thread, "notify" or "join">>; thread 0 before it
  tasks,       \* thread_apartment: the timers whose transactions wait
  ready,       \* the timers whose transaction has set a value not yet taken
  waiting,     \* the timers whose future holds a then_function_
  state,       \* [Timer -> ...]: current_state_
  scheduled,   \* task_manager: the list of timers
  stopped,     \* the timers that were stopped
  stopper,     \* the timer whose stop() holds scheduled_mutex_
  kept,        \* the timers whose state_mutex_ a suspended wait() keeps
  failed,      \* the timers whose transaction or handler ended with an error
  shutdown     \* "no", then "event", "manager", "left" and "joined"

poolVars == <<queue, thread, free, joining>>
taskVars == <<tasks, ready, waiting>>
timerVars == <<state, scheduled, stopped, stopper, kept, failed>>
vars == <<poolVars, taskVars, timerVars, shutdown>>

Init ==
  /\ queue = <<>>
  /\ thread = [w \in Thread |-> <<"none", NoTimer>>]
  /\ free = 0
  /\ joining = <<0, "notify">>
  /\ tasks = <<>> /\ ready = {} /\ waiting = {}
  /\ state = [t \in Timer |-> "scheduled"]
  /\ scheduled = Timer
  /\ stopped = {} /\ stopper = NoTimer /\ kept = {} /\ failed = {}
  /\ shutdown = "no"

-----------------------------------------------------------------------------
(* mt_service. *)

At(places) == {w \in Thread : thread[w][1] \in places}
Started == Thread \ At({"none"})
is_shuting_down == joining[1] > 0

\* A thread that found the queue empty keeps mutex_ until it waits.  Only stop()
\* does without the mutex, so the step in between is left out before it comes.
Locked == At({"locked"}) # {}

\* Mutant: nobody is woken when all threads are there.
do_async_quietly(moved, what) ==
  /\ ~ Locked
  /\ queue' = Append(queue, what)
  /\ IF free = 0 /\ Started # Thread
     THEN thread' = [moved EXCEPT ![Cardinality(Started) + 1] = <<"loop", NoTimer>>]
     ELSE thread' = moved
  /\ UNCHANGED <<free, joining>>

\* A new thread when none is free, or one of those that wait; moved is the rest
\* of the step.
do_async(moved, what) ==
  LET asleep == {w \in Thread : moved[w][1] = "waiting"} IN
  /\ ~ Locked
  /\ queue' = Append(queue, what)
  /\ IF free = 0 /\ Started # Thread
     THEN thread' = [moved EXCEPT ![Cardinality(Started) + 1] = <<"loop", NoTimer>>]
     ELSE \/ asleep = {} /\ thread' = moved
          \/ \E w \in asleep : thread' = [moved EXCEPT ![w] = <<"woken", NoTimer>>]
  /\ UNCHANGED <<free, joining>>

Goto(w, place) == [thread EXCEPT ![w] = <<place, thread[w][2]>>]
Is(w, place) == thread[w][1] = place

Take(w) ==
  /\ queue # <<>>
  /\ thread' = [thread EXCEPT ![w] = Head(queue)]
  /\ queue' = Tail(queue)

\* Mutant: the thread that ends counts as free.
LeaveCounted(w) ==
  /\ thread' = [thread EXCEPT ![w] = <<"ended", NoTimer>>]
  /\ free' = free + 1

Leave(w) ==
  /\ thread' = [thread EXCEPT ![w] = <<"ended", NoTimer>>]
  /\ UNCHANGED free

Park(w) ==
  /\ thread' = [thread EXCEPT ![w] = <<IF shutdown = "joined" THEN "locked" ELSE "waiting", NoTimer>>]
  /\ free' = free + 1

\* work_thread
Loop(w) ==
  /\ Is(w, "loop") /\ ~ Locked
  /\ \/ Take(w) /\ UNCHANGED free
     \/ /\ queue = <<>>
        /\ IF free + 1 > MaxFree \/ is_shuting_down THEN Leave(w) ELSE Park(w)
        /\ UNCHANGED queue
  /\ UNCHANGED <<joining, taskVars, timerVars, shutdown>>

Wait(w) ==
  /\ Is(w, "locked")
  /\ thread' = Goto(w, "waiting")
  /\ UNCHANGED <<queue, free, joining, taskVars, timerVars, shutdown>>

Wake(w) ==
  /\ Is(w, "woken") /\ ~ Locked
  /\ \/ /\ queue = <<>> /\ ~ is_shuting_down
        /\ thread' = Goto(w, "waiting")
        /\ UNCHANGED <<queue, free>>
     \/ /\ is_shuting_down
        /\ thread' = Goto(w, "loop")
        /\ free' = free - 1
        /\ UNCHANGED queue
     \/ ~ is_shuting_down /\ Take(w) /\ free' = free - 1
  /\ UNCHANGED <<joining, taskVars, timerVars, shutdown>>

\* stop: is_shuting_down_ is set without mutex_; then notify_all and join for each.
Stop ==
  /\ shutdown = "joined"
  /\ joining[1] <= MaxThreads
  /\ \/ /\ joining[1] = 0
        /\ joining' = <<1, "notify">>
        /\ UNCHANGED thread
     \/ /\ joining[1] \in Started /\ joining[2] = "notify"
        /\ joining' = <<joining[1], "join">>
        /\ thread' = [w \in Thread |-> IF Is(w, "waiting") THEN <<"woken", NoTimer>> ELSE thread[w]]
     \/ /\ joining[1] \in At({"ended"}) /\ joining[2] = "join"
        /\ joining' = <<joining[1] + 1, "notify">>
        /\ UNCHANGED thread
  /\ UNCHANGED <<queue, free, taskVars, timerVars, shutdown>>

\* All threads wait for others in get() while a handler is queued: a thread that
\* was woken still counted as free when the handler came.
Starved ==
  /\ queue # <<>> /\ Started # {}
  /\ \A w \in Started : Is(w, "get") \/ Is(w, "ended")

\* Sockets and other queues have handlers too; they end by themselves.
Other ==
  /\ shutdown = "no"
  /\ Len(queue) < MaxQueue \/ (Starved /\ Started # Thread)
  /\ do_async(thread, <<"other", NoTimer>>)
  /\ UNCHANGED <<taskVars, timerVars, shutdown>>

EndOther(w) ==
  /\ Is(w, "other")
  /\ thread' = Goto(w, "loop")
  /\ UNCHANGED <<queue, free, joining, taskVars, timerVars, shutdown>>

-----------------------------------------------------------------------------
(* The future of a transaction and the apartment in which it runs. *)

\* Mutant: the queue counts as empty while its last task runs.
NeedStartAgain(q) == Len(q) <= 1

NeedStart(q) == q = <<>>

\* async_transaction, thread_apartment::schedule
Schedule(w) ==
  LET t == thread[w][2] IN
  /\ Is(w, "handler")
  /\ tasks' = Append(tasks, t)
  /\ thread' = Goto(w, IF NeedStart(tasks) THEN "start" ELSE "await")
  /\ UNCHANGED <<queue, free, joining, ready, waiting, timerVars, shutdown>>

Start(w) ==
  /\ Is(w, "start")
  /\ do_async(Goto(w, "await"), <<"runner", NoTimer>>)
  /\ UNCHANGED <<taskVars, timerVars, shutdown>>

\* Mutant: then() does not look for a value.
SuspendAlways(w) ==
  /\ Is(w, "await")
  /\ waiting' = waiting \cup {thread[w][2]}
  /\ thread' = Goto(w, "get")
  /\ UNCHANGED <<queue, free, joining, tasks, ready, timerVars, shutdown>>

\* await_ready and then(): the coroutine goes on at once when the value is there.
Suspend(w) ==
  LET t == thread[w][2] IN
  /\ Is(w, "await")
  /\ IF t \in ready
     THEN thread' = Goto(w, "finish") /\ ready' = ready \ {t} /\ UNCHANGED waiting
     ELSE thread' = Goto(w, "get") /\ waiting' = waiting \cup {t} /\ UNCHANGED ready
  /\ UNCHANGED <<queue, free, joining, tasks, timerVars, shutdown>>

\* The runner of the apartment.  The transaction sets the value, and the
\* then_function_ goes to mt_service; when BEGIN or COMMIT fails, nothing does.
Run(w) ==
  LET t == Head(tasks) IN
  /\ Is(w, "runner")
  /\ \/ /\ t \in waiting
        /\ waiting' = waiting \ {t}
        /\ do_async(Goto(w, "pop"), <<"finish", t>>)
        /\ UNCHANGED <<ready, failed>>
     \/ /\ t \notin waiting
        /\ ready' = ready \cup {t}
        /\ thread' = Goto(w, "pop")
        /\ UNCHANGED <<queue, free, joining, waiting, failed>>
     \/ /\ failed' = failed \cup {t}
        /\ thread' = Goto(w, "pop")
        /\ UNCHANGED <<queue, free, joining, ready, waiting>>
  /\ UNCHANGED <<tasks, state, scheduled, stopped, stopper, kept, shutdown>>

Pop(w) ==
  /\ Is(w, "pop")
  /\ tasks' = Tail(tasks)
  /\ thread' = Goto(w, IF tasks' = <<>> THEN "loop" ELSE "runner")
  /\ UNCHANGED <<queue, free, joining, ready, waiting, timerVars, shutdown>>

-----------------------------------------------------------------------------
(* Timers. *)

\* Mutant: the timer stays in the list.
Unscheduled(t) == scheduled
Removed(t) == scheduled \ {t}

\* work_thread of task_manager: a timer whose time has come.  The turn of the loop
\* that began before prepare_to_stop may still fire one, and is the last.
Fire(t) ==
  /\ shutdown \in {"no", "event", "manager"}
  /\ shutdown' = IF shutdown = "manager" THEN "left" ELSE shutdown
  /\ stopper = NoTimer
  /\ t \in scheduled
  /\ scheduled' = Removed(t)
  /\ do_async(thread, <<"execute", t>>)
  /\ UNCHANGED <<taskVars, state, stopped, stopper, kept, failed>>

\* The coroutine is through: its own thread, or the one that took it up, is free
\* again, and so is the one that waits for it in get().
Through(w) ==
  [v \in Thread |-> IF v = w \/ thread[v] = <<"get", thread[w][2]>> THEN <<"loop", NoTimer>> ELSE thread[v]]

\* execute, execute_async: a timer that was stopped only ends.  stop() sets the flag
\* without the state's mutex: when it does so after the flag was read, the effect is
\* that of a stop() after this step.
Execute(w) ==
  LET t == thread[w][2] IN
  /\ Is(w, "execute") /\ state[t] = "scheduled" /\ t \notin kept
  /\ IF t \in stopped
     THEN state' = [state EXCEPT ![t] = "eof"] /\ thread' = Through(w)
     ELSE state' = [state EXCEPT ![t] = "in_handler"] /\ thread' = Goto(w, "handler")
  /\ UNCHANGED <<queue, free, joining, taskVars, scheduled, stopped, stopper, kept, failed, shutdown>>

\* The handler returns true, false or an error; schedule() does nothing after the
\* shutdown event.  The future of the handler is not told from the one of its
\* transaction: the hop through the queue that it may add is left out.
Finish(w) ==
  LET t == thread[w][2] IN
  /\ Is(w, "finish")
  /\ \/ /\ t \notin kept
        /\ state' = [state EXCEPT ![t] = "scheduled"]
        /\ thread' = IF shutdown = "no" THEN Goto(w, "schedule") ELSE Through(w)
        /\ UNCHANGED failed
     \/ /\ t \notin kept
        /\ state' = [state EXCEPT ![t] = "eof"]
        /\ thread' = Through(w)
        /\ UNCHANGED failed
     \/ /\ failed' = failed \cup {t}
        /\ thread' = Through(w)
        /\ UNCHANGED state
  /\ UNCHANGED <<queue, free, joining, taskVars, scheduled, stopped, stopper, kept, shutdown>>

\* schedule, from scheduled_mutex_ on.
Reschedule(w) ==
  /\ Is(w, "schedule") /\ stopper = NoTimer
  /\ scheduled' = scheduled \cup {thread[w][2]}
  /\ thread' = Through(w)
  /\ UNCHANGED <<queue, free, joining, taskVars, state, stopped, stopper, kept, failed, shutdown>>

\* ~timer, stop: scheduled_mutex_ is held until it returns.
StopTimer(t) ==
  /\ t \in Owned \ stopped
  /\ stopper = NoTimer
  /\ stopped' = stopped \cup {t}
  /\ stopper' = t
  /\ scheduled' = scheduled \ {t}
  /\ UNCHANGED <<poolVars, taskVars, state, kept, failed, shutdown>>

\* state_machine::wait(eof).  When it has to wait, the lock of state_mutex_ stays in
\* the suspended coroutine, and nobody can change the state any more.
StopWaits ==
  /\ stopper # NoTimer /\ stopper \notin kept
  /\ IF state[stopper] = "eof"
     THEN stopper' = NoTimer /\ UNCHANGED kept
     ELSE kept' = kept \cup {stopper} /\ UNCHANGED stopper
  /\ UNCHANGED <<poolVars, taskVars, state, scheduled, stopped, failed, shutdown>>

\* The threads in timer::execute, which the barrier of task_manager counts.
Executing == At({"execute", "handler", "start", "await", "get"})
Barrier == Executing # {} \/ \E i \in DOMAIN queue : queue[i][1] = "execute"
\* A coroutine that was never suspended finishes in the thread of execute.
Inline(w) == Is(w, "finish") \/ Is(w, "schedule")

\* The shutdown event, prepare_to_stop of task_manager, the end of its loop, and its
\* stop, which joins it.
Shutdown ==
  /\ \/ shutdown = "no" /\ shutdown' = "event"
     \/ shutdown = "event" /\ shutdown' = "manager"
     \/ shutdown = "manager" /\ shutdown' = "left"
     \/ /\ shutdown = "left" /\ shutdown' = "joined"
        /\ ~ Barrier /\ \A w \in Thread : ~ Inline(w)
  /\ UNCHANGED <<poolVars, taskVars, timerVars>>

Step(w) ==
  \/ Loop(w) \/ Wait(w) \/ Wake(w) \/ EndOther(w)
  \/ Schedule(w) \/ Start(w) \/ Suspend(w) \/ Run(w) \/ Pop(w)
  \/ Execute(w) \/ Finish(w) \/ Reschedule(w)

Next ==
  \/ \E w \in Thread : Step(w)
  \/ \E t \in Timer : Fire(t) \/ StopTimer(t)
  \/ Other \/ Stop \/ StopWaits \/ Shutdown

Spec == Init /\ [][Next]_vars

\* Threads run; the manager fires what is due; others use mt_service now and then;
\* a shutdown that has begun goes on.
Fairness ==
  /\ \A w \in Thread : WF_vars(Step(w))
  /\ \A t \in Timer : WF_vars(Fire(t))
  /\ WF_vars(Other) /\ WF_vars(Stop) /\ WF_vars(StopWaits)
  /\ WF_vars(shutdown # "no" /\ Shutdown)

FairSpec == Spec /\ Fairness

-----------------------------------------------------------------------------
(***************************************************************************)
(* Properties.                                                             *)
(***************************************************************************)

Handler == {"execute", "finish"} \X Timer \cup {"runner", "other"} \X {NoTimer}
TimerPlace == {"execute", "handler", "start", "await", "get", "finish", "schedule"}
PoolPlace == {"none", "loop", "locked", "waiting", "woken", "ended", "runner", "pop", "other"}
Place == TimerPlace \X Timer \cup PoolPlace \X {NoTimer}

\* Threads are started one after the other; free_threads_ counts those that wait,
\* those included that were woken and have not run yet.
PoolType ==
  /\ queue \in Seq(Handler)
  /\ thread \in [Thread -> Place] /\ Started = 1..Cardinality(Started)
  /\ free = Cardinality(At({"locked", "waiting", "woken"})) /\ free <= MaxFree
  /\ joining \in (0..(MaxThreads + 1)) \X {"notify", "join"}
TimerType ==
  /\ tasks \in Seq(Timer) /\ ready \cup waiting \cup kept \cup stopped \cup failed \subseteq Timer
  /\ scheduled \subseteq Timer /\ stopper \in stopped \cup {NoTimer}
  /\ state \in [Timer -> {"scheduled", "in_handler", "eof"}]
  /\ shutdown \in {"no", "event", "manager", "left", "joined"}
TypeOK == PoolType /\ TimerType

Queued(what) == {i \in DOMAIN queue : queue[i][1] = what}

\* A thread_apartment has exactly one runner while it has tasks, and none else:
\* its callbacks never run at the same time, and none is left behind.
OneRunner ==
  Cardinality(At({"start", "runner", "pop"})) + Cardinality(Queued("runner"))
    = IF tasks = <<>> THEN 0 ELSE 1

\* The same without counting, for the proofs.
Runs(w) == thread[w][1] \in {"start", "runner", "pop"}
RunnerInv ==
  /\ \A v, w \in Thread : Runs(v) /\ Runs(w) => v = w
  /\ \A i, j \in DOMAIN queue : queue[i][1] = "runner" /\ queue[j][1] = "runner" => i = j
  /\ \A w \in Thread, i \in DOMAIN queue : ~ (Runs(w) /\ queue[i][1] = "runner")
  /\ tasks # <<>> <=> \/ \E w \in Thread : Runs(w)
                      \/ \E i \in DOMAIN queue : queue[i][1] = "runner"

\* Who goes on with timer t.
Holders(t) ==
  {<<"thread", w>> : w \in {v \in Thread : thread[v][2] = t /\ ~ Is(v, "get")}}
    \cup {<<"queue", i>> : i \in {j \in DOMAIN queue : queue[j][2] = t}}
    \cup {<<"list", t>> : x \in scheduled \cap {t}}
    \cup {<<"future", t>> : x \in waiting \cap {t}}

\* A handler never runs twice at a time and a coroutine is never resumed twice:
\* one holder goes on with each timer, and none only when the timer has ended, has
\* failed, was stopped, or came back after the shutdown event.
OneHolder ==
  \A t \in Timer :
    \/ Cardinality(Holders(t)) = 1
    \/ Holders(t) = {} /\ (state[t] = "eof" \/ t \in failed \cup stopped \/ shutdown # "no")

\* The same without counting: the timer that a thread goes on with, and where
\* another one may not go on with it.
Hold(w) == IF Is(w, "get") THEN NoTimer ELSE thread[w][2]
Excused(t) == state[t] = "eof" \/ t \in failed \cup stopped \/ shutdown # "no"
HolderInv ==
  /\ \A v, w \in Thread : Hold(v) = Hold(w) => v = w \/ Hold(v) = NoTimer
  /\ \A i, j \in DOMAIN queue : queue[i][2] = queue[j][2] => i = j \/ queue[i][2] = NoTimer
  /\ \A w \in Thread, i \in DOMAIN queue : Hold(w) = queue[i][2] => Hold(w) = NoTimer
  /\ \A w \in Thread : Hold(w) \notin scheduled \cup waiting
  /\ \A i \in DOMAIN queue : queue[i][2] \notin scheduled \cup waiting
  /\ scheduled \cap waiting = {}
  /\ \A t \in Timer :
       \/ \E w \in Thread : Hold(w) = t
       \/ \E i \in DOMAIN queue : queue[i][2] = t
       \/ t \in scheduled \cup waiting
       \/ Excused(t)

\* Starved, and no thread can be started any more, because work_threads_ keeps those
\* that ended.  Nobody takes the handlers then, whoever calls do_async.
Exhausted == Starved /\ Started = Thread

\* A timer goes off again and again until its handler says no or fails, some timer
\* is stopped, the shutdown begins, or the threads are exhausted by as many timers as
\* are left of them: as long as others use mt_service, no handler is left in a queue
\* otherwise, and no coroutine in a future for good.
TimersGoOn ==
  \A t \in Timer :
    \/ []<>(t \in scheduled)
    \/ <>(state[t] = "eof" \/ failed \cup stopped # {} \/ shutdown # "no" \/ Exhausted)

\* stop() came between a thread's look at is_shuting_down_ and its wait(), which
\* then misses the notification.
Missed == is_shuting_down /\ Locked

\* A shutdown ends: all threads are joined, unless a timer was stopped or failed,
\* the threads are starved, or the notification is missed.
ShutdownEnds ==
  shutdown = "event" ~>
    \/ is_shuting_down /\ Started \subseteq At({"ended"})
    \/ failed \cup stopped # {}
    \/ Starved
    \/ Missed
=============================================================================
