------------------------- MODULE AsyncKernelProofs -------------------------
(***************************************************************************)
(* Proofs about AsyncKernel, for any timers and any number of threads.     *)
(***************************************************************************)
EXTENDS AsyncKernel, FiniteSetTheorems, SequenceTheorems, TLAPS

Idle(w) == thread[w][1] \in {"locked", "waiting", "woken"}

\* What follows from where a thread is, and from what a handler is.
LEMMA PlaceFacts ==
  ASSUME NEW p \in Place
  PROVE  /\ p[2] \in Timer \cup {NoTimer}
         /\ p[1] \in TimerPlace => p[2] \in Timer
         /\ p[1] \in PoolPlace => p[2] = NoTimer
  BY DEF Place, TimerPlace, PoolPlace

LEMMA HandlerFacts ==
  ASSUME NEW q \in Handler
  PROVE  /\ q \in Place /\ q[1] \in {"execute", "finish", "runner", "other"}
         /\ q[2] \in Timer \cup {NoTimer}
         /\ q[1] \in {"runner", "other"} => q[2] = NoTimer
         /\ q[1] \in {"execute", "finish"} => q[2] \in Timer
  BY DEF Handler, Place, TimerPlace, PoolPlace

LEMMA ThreadFacts ==
  /\ IsFiniteSet(Thread) /\ MaxThreads \in Nat /\ NoTimer \notin Timer
  /\ \A S \in SUBSET Thread : IsFiniteSet(S) /\ Cardinality(S) \in Nat
<1>1. MaxThreads \in Nat /\ NoTimer \notin Timer
  BY KernelAssumption
<1>2. IsFiniteSet(Thread)
  BY <1>1, FS_Interval DEF Thread
<1> QED BY <1>1, <1>2, FS_Subset, FS_CardinalityType

\* What do_async does to the threads: one that was not there yet, or waited, looks
\* at the queue.
LEMMA PushFacts ==
  ASSUME PoolType, NEW moved \in [Thread -> Place], NEW what \in Handler, do_async(moved, what),
         \A v \in Thread : moved[v][1] = "none" <=> thread[v][1] = "none"
  PROVE  /\ queue' \in Seq(Handler) /\ Len(queue') = Len(queue) + 1
         /\ \A i \in 1..Len(queue) : queue'[i] = queue[i]
         /\ queue'[Len(queue) + 1] = what
         /\ thread' \in [Thread -> Place] /\ Started' = 1..Cardinality(Started')
         /\ \A v \in Thread :
              \/ thread'[v] = moved[v]
              \/ moved[v] = <<"none", NoTimer>> /\ thread'[v] = <<"loop", NoTimer>>
              \/ moved[v] = <<"waiting", NoTimer>> /\ thread'[v] = <<"woken", NoTimer>>
         /\ UNCHANGED <<free, joining>>
<1> DEFINE k == Cardinality(Started)
<1>1. /\ queue \in Seq(Handler) /\ thread \in [Thread -> Place] /\ Started = 1..k
      /\ Started = {v \in Thread : thread[v][1] # "none"}
      /\ Started \subseteq Thread /\ k \in Nat /\ MaxThreads \in Nat
  BY ThreadFacts DEF PoolType, Started, At
<1>2. /\ queue' \in Seq(Handler) /\ Len(queue') = Len(queue) + 1
      /\ \A i \in 1..Len(queue) : queue'[i] = queue[i]
      /\ queue'[Len(queue) + 1] = what
  BY <1>1, AppendProperties DEF do_async
<1>3. <<"loop", NoTimer>> \in Place /\ <<"woken", NoTimer>> \in Place
  BY DEF Place, TimerPlace, PoolPlace
<1> HIDE DEF k
<1>4. Started = {v \in Thread : moved[v][1] # "none"}
  BY <1>1
<1>5. CASE free = 0 /\ Started # Thread
  <2>1. thread' = [moved EXCEPT ![k + 1] = <<"loop", NoTimer>>]
    BY <1>5 DEF do_async, k
  <2>2. k + 1 \in Thread /\ k + 1 \notin Started
    <3>1. k = 0 \/ k \in Thread
      BY <1>1
    <3>2. k # MaxThreads
      BY <1>1, <1>5 DEF Thread
    <3> QED BY <1>1, <3>1, <3>2 DEF Thread
  <2>3. moved[k + 1] \in Place /\ moved[k + 1][1] = "none"
    BY <1>4, <2>2
  <2>4. moved[k + 1] = <<"none", NoTimer>>
    BY <2>3 DEF Place, TimerPlace
  <2>5. Started' = {v \in Thread : thread'[v][1] # "none"}
    BY DEF Started, At
  <2>6. Started' = 1..(k + 1)
    <3>1. Started' = Started \cup {k + 1}
      BY <1>4, <2>1, <2>2, <2>5
    <3> QED BY <1>1, <3>1
  <2>7. Cardinality(Started') = k + 1
    BY <1>1, <2>6, FS_Interval
  <2> QED BY <1>2, <1>3, <2>1, <2>2, <2>4, <2>6, <2>7 DEF do_async
<1>6. CASE ~ (free = 0 /\ Started # Thread)
  <2>1. \/ thread' = moved
        \/ \E w \in Thread : moved[w][1] = "waiting" /\ thread' = [moved EXCEPT ![w] = <<"woken", NoTimer>>]
    BY <1>6 DEF do_async
  <2>2. Started' = {v \in Thread : thread'[v][1] # "none"}
    BY DEF Started, At
  <2>3. Started' = Started
    BY <1>4, <2>1, <2>2
  <2>4. \A v \in Thread : moved[v][1] = "waiting" => moved[v] = <<"waiting", NoTimer>>
    BY DEF Place, TimerPlace, PoolPlace
  <2>5. /\ thread' \in [Thread -> Place]
        /\ \A v \in Thread : \/ thread'[v] = moved[v]
                             \/ moved[v] = <<"waiting", NoTimer>> /\ thread'[v] = <<"woken", NoTimer>>
    BY <1>3, <2>1, <2>4
  <2>6. Started' = 1..Cardinality(Started')
    BY <1>1, <2>3 DEF k
  <2> QED BY <1>2, <2>5, <2>6 DEF do_async
<1> QED BY <1>5, <1>6

LEMMA TakeFacts ==
  ASSUME PoolType, NEW w \in Thread, Take(w)
  PROVE  /\ queue \in Seq(Handler) /\ Len(queue) \in Nat \ {0} /\ queue[1] \in Handler
         /\ thread' = [thread EXCEPT ![w] = queue[1]] /\ thread' \in [Thread -> Place]
         /\ queue' \in Seq(Handler) /\ Len(queue') = Len(queue) - 1
         /\ \A i \in 1..Len(queue') : queue'[i] = queue[i + 1]
<1>1. queue \in Seq(Handler) /\ queue # <<>>
  BY DEF PoolType, Take
<1>2. /\ Head(queue) \in Handler /\ queue' \in Seq(Handler) /\ Len(queue') = Len(queue) - 1
      /\ \A i \in 1..Len(queue') : queue'[i] = queue[i + 1]
  BY <1>1, HeadTailProperties DEF Take
<1>3. Len(queue) \in Nat \ {0} /\ Head(queue) = queue[1]
  BY <1>1, EmptySeq, LenProperties
<1>4. thread' \in [Thread -> Place]
  BY <1>2, HandlerFacts DEF PoolType, Take
<1> QED BY <1>1, <1>2, <1>3, <1>4 DEF Take

LEMMA GotoFacts ==
  ASSUME PoolType, NEW w \in Thread, NEW place \in TimerPlace \cup PoolPlace,
         thread[w][1] \in TimerPlace <=> place \in TimerPlace
  PROVE  /\ Goto(w, place) \in [Thread -> Place]
         /\ Goto(w, place)[w] = <<place, thread[w][2]>>
         /\ \A v \in Thread \ {w} : Goto(w, place)[v] = thread[v]
<1>1. thread[w] \in Place
  BY DEF PoolType
<1>2. <<place, thread[w][2]>> \in Place
  BY <1>1 DEF Place, TimerPlace, PoolPlace
<1> QED BY <1>2 DEF Goto, PoolType

LEMMA ThroughFacts ==
  ASSUME PoolType, NEW w \in Thread
  PROVE  /\ Through(w) \in [Thread -> Place]
         /\ Through(w)[w] = <<"loop", NoTimer>>
         /\ \A v \in Thread \ {w} : \/ Through(w)[v] = thread[v]
                                    \/ thread[v][1] = "get" /\ Through(w)[v] = <<"loop", NoTimer>>
<1>1. <<"loop", NoTimer>> \in Place
  BY DEF Place, PoolPlace
<1> QED BY <1>1 DEF Through, PoolType

\* The threads that are there, and those that wait, are the same after a step.
LEMMA CountsSame ==
  ASSUME PoolType
  PROVE  /\ (\A v \in Thread : thread'[v][1] = "none" <=> thread[v][1] = "none")
              => Started' = 1..Cardinality(Started')
         /\ (\A v \in Thread : Idle(v)' <=> Idle(v)) /\ UNCHANGED free
              => free' = Cardinality(At({"locked", "waiting", "woken"})') /\ free' <= MaxFree
<1>1. ASSUME \A v \in Thread : thread'[v][1] = "none" <=> thread[v][1] = "none"
      PROVE  Started' = 1..Cardinality(Started')
  <2>1. Started' = Started
    BY <1>1 DEF Started, At
  <2> QED BY <2>1 DEF PoolType
<1>2. ASSUME \A v \in Thread : Idle(v)' <=> Idle(v), UNCHANGED free
      PROVE  free' = Cardinality(At({"locked", "waiting", "woken"})') /\ free' <= MaxFree
  <2>1. At({"locked", "waiting", "woken"})' = At({"locked", "waiting", "woken"})
    BY <1>2 DEF At, Idle
  <2> QED BY <1>2, <2>1 DEF PoolType
<1> QED BY <1>1, <1>2

\* The conjuncts of PoolType after a step, each from what the step says of it.
LEMMA NextPoolType == PoolType /\ TimerType /\ [Next]_vars => PoolType'
<1> SUFFICES ASSUME PoolType, TimerType, [Next]_vars PROVE PoolType'
  OBVIOUS
<1> USE DEF TimerPlace, PoolPlace
<1>0. /\ queue \in Seq(Handler) /\ thread \in [Thread -> Place]
      /\ joining \in (0..(MaxThreads + 1)) \X {"notify", "join"}
  BY DEF PoolType
<1>q. ASSUME queue' \in Seq(Handler), thread' \in [Thread -> Place],
             Started' = 1..Cardinality(Started'),
             \/ (\A v \in Thread : Idle(v)' <=> Idle(v)) /\ UNCHANGED free
             \/ free' = Cardinality(At({"locked", "waiting", "woken"})') /\ free' <= MaxFree,
             joining' \in (0..(MaxThreads + 1)) \X {"notify", "join"}
      PROVE  PoolType'
  BY <1>q, CountsSame DEF PoolType
<1>u. ASSUME UNCHANGED poolVars PROVE PoolType'
  BY <1>u DEF PoolType, poolVars, Started, At
<1>p. ASSUME NEW moved \in [Thread -> Place], NEW what \in Handler, do_async(moved, what),
             \A v \in Thread : moved[v][1] = "none" <=> thread[v][1] = "none",
             \A v \in Thread : moved[v][1] \in {"locked", "waiting", "woken"} <=> Idle(v)
      PROVE  PoolType'
  <2>1. /\ queue' \in Seq(Handler) /\ thread' \in [Thread -> Place]
        /\ Started' = 1..Cardinality(Started') /\ UNCHANGED <<free, joining>>
        /\ \A v \in Thread :
              \/ thread'[v] = moved[v]
              \/ moved[v] = <<"none", NoTimer>> /\ thread'[v] = <<"loop", NoTimer>>
              \/ moved[v] = <<"waiting", NoTimer>> /\ thread'[v] = <<"woken", NoTimer>>
    BY <1>p, PushFacts
  <2>2. \A v \in Thread : Idle(v)' <=> Idle(v)
    BY <1>p, <2>1 DEF Idle
  <2> QED BY <1>0, <1>q, <2>1, <2>2
<1>g. ASSUME NEW w \in Thread, NEW place \in TimerPlace \cup PoolPlace,
             thread[w][1] \in TimerPlace <=> place \in TimerPlace,
             thread[w][1] # "none", place # "none",
             place \in {"locked", "waiting", "woken"} <=> Idle(w)
      PROVE  /\ Goto(w, place) \in [Thread -> Place]
             /\ \A v \in Thread : Goto(w, place)[v][1] = "none" <=> thread[v][1] = "none"
             /\ \A v \in Thread : Goto(w, place)[v][1] \in {"locked", "waiting", "woken"} <=> Idle(v)
             /\ thread' = Goto(w, place) /\ UNCHANGED <<queue, free, joining>> => PoolType'
  <2>1. /\ Goto(w, place) \in [Thread -> Place]
        /\ \A v \in Thread : Goto(w, place)[v][1] = IF v = w THEN place ELSE thread[v][1]
    BY <1>g, GotoFacts
  <2>2. /\ \A v \in Thread : Goto(w, place)[v][1] = "none" <=> thread[v][1] = "none"
        /\ \A v \in Thread : Goto(w, place)[v][1] \in {"locked", "waiting", "woken"} <=> Idle(v)
    BY <1>g, <2>1 DEF Idle
  <2>3. ASSUME thread' = Goto(w, place), UNCHANGED <<queue, free, joining>> PROVE PoolType'
    <3>1. Started' = 1..Cardinality(Started')
      BY <2>2, <2>3, CountsSame
    <3>2. \A v \in Thread : Idle(v)' <=> Idle(v)
      BY <2>2, <2>3 DEF Idle
    <3> QED BY <1>0, <1>q, <2>1, <2>3, <3>1, <3>2
  <2> QED BY <2>1, <2>2, <2>3
<1>t. ASSUME NEW w \in Thread, thread[w][1] \in TimerPlace, thread' = Through(w),
             UNCHANGED <<queue, free, joining>>
      PROVE  PoolType'
  <2>1. /\ thread' \in [Thread -> Place] /\ thread'[w] = <<"loop", NoTimer>>
        /\ \A v \in Thread \ {w} : \/ thread'[v] = thread[v]
                                   \/ thread[v][1] = "get" /\ thread'[v] = <<"loop", NoTimer>>
    BY <1>t, ThroughFacts
  <2>2. \A v \in Thread : thread'[v][1] = "none" <=> thread[v][1] = "none"
    BY <1>t, <2>1
  <2>3. \A v \in Thread : Idle(v)' <=> Idle(v)
    BY <1>t, <2>1 DEF Idle
  <2>4. Started' = 1..Cardinality(Started')
    BY <2>2, CountsSame
  <2> QED BY <1>0, <1>q, <1>t, <2>1, <2>3, <2>4
<1>a. ASSUME NEW w \in Thread, NEW p \in Place, thread' = [thread EXCEPT ![w] = p],
             thread[w][1] # "none", p[1] # "none"
      PROVE  /\ thread' \in [Thread -> Place] /\ Started' = 1..Cardinality(Started')
             /\ \A v \in Thread \ {w} : thread'[v] = thread[v]
             /\ thread'[w] = p
  <2>1. /\ thread' \in [Thread -> Place] /\ thread'[w] = p
        /\ \A v \in Thread \ {w} : thread'[v] = thread[v]
    BY <1>0, <1>a
  <2>2. \A v \in Thread : thread'[v][1] = "none" <=> thread[v][1] = "none"
    BY <1>a, <2>1
  <2> QED BY <2>1, <2>2, CountsSame
<1>1. ASSUME NEW w \in Thread, Loop(w) PROVE PoolType'
  <2>0. Is(w, "loop") /\ thread[w][1] = "loop" /\ UNCHANGED joining
    BY <1>1 DEF Loop, Is
  <2>1. CASE Take(w) /\ UNCHANGED free
    <3>1. /\ queue[1] \in Handler /\ thread' = [thread EXCEPT ![w] = queue[1]]
          /\ queue' \in Seq(Handler)
      BY <2>1, TakeFacts
    <3>2. queue[1] \in Place /\ queue[1][1] \in {"execute", "finish", "runner", "other"}
      BY <3>1, HandlerFacts
    <3>3. /\ thread' \in [Thread -> Place] /\ Started' = 1..Cardinality(Started')
          /\ \A v \in Thread \ {w} : thread'[v] = thread[v]
          /\ thread'[w] = queue[1]
      BY <1>a, <2>0, <3>1, <3>2
    <3>4. \A v \in Thread : Idle(v)' <=> Idle(v)
      BY <2>0, <3>2, <3>3 DEF Idle
    <3> QED BY <1>0, <1>q, <2>0, <2>1, <3>1, <3>3, <3>4
  <2>2. CASE Leave(w) /\ UNCHANGED queue
    <3>1. <<"ended", NoTimer>> \in Place
      BY DEF Place
    <3>2. /\ thread' \in [Thread -> Place] /\ Started' = 1..Cardinality(Started')
          /\ \A v \in Thread \ {w} : thread'[v] = thread[v]
          /\ thread'[w] = <<"ended", NoTimer>>
      BY <1>a, <2>0, <2>2, <3>1 DEF Leave
    <3>3. \A v \in Thread : Idle(v)' <=> Idle(v)
      BY <2>0, <3>2 DEF Idle
    <3> QED BY <1>0, <1>q, <2>0, <2>2, <3>2, <3>3 DEF Leave
  <2>3. CASE Park(w) /\ free + 1 <= MaxFree /\ UNCHANGED queue
    <3>1. PICK p \in {<<"locked", NoTimer>>, <<"waiting", NoTimer>>} : thread' = [thread EXCEPT ![w] = p]
      BY <2>3 DEF Park
    <3>2. p \in Place /\ p[1] \in {"locked", "waiting"}
      BY <3>1 DEF Place
    <3>3. /\ thread' \in [Thread -> Place] /\ Started' = 1..Cardinality(Started')
          /\ \A v \in Thread \ {w} : thread'[v] = thread[v]
          /\ thread'[w] = p
      BY <1>a, <2>0, <3>1, <3>2
    <3>4. At({"locked", "waiting", "woken"})' = At({"locked", "waiting", "woken"}) \cup {w}
          /\ w \notin At({"locked", "waiting", "woken"})
      BY <2>0, <3>2, <3>3 DEF At
    <3>5. Cardinality(At({"locked", "waiting", "woken"})') = free + 1
      <4>1. IsFiniteSet(At({"locked", "waiting", "woken"}))
        BY ThreadFacts DEF At
      <4> QED BY <3>4, <4>1, FS_AddElement DEF PoolType
    <3>6. free' = Cardinality(At({"locked", "waiting", "woken"})') /\ free' <= MaxFree
      BY <2>3, <3>5 DEF Park
    <3> QED BY <1>0, <1>q, <2>0, <2>3, <3>3, <3>6
  <2>4. free \in Nat /\ MaxFree \in Nat
    BY ThreadFacts, KernelAssumption DEF PoolType, At
  <2> QED BY <1>1, <2>1, <2>2, <2>3, <2>4 DEF Loop

<1>2. ASSUME NEW w \in Thread, Wait(w) PROVE PoolType'
  <2>1. thread[w][1] = "locked" /\ thread' = Goto(w, "waiting") /\ UNCHANGED <<queue, free, joining>>
    BY <1>2 DEF Wait, Is
  <2> QED BY <1>g, <2>1 DEF Idle
<1>3. ASSUME NEW w \in Thread, Wake(w) PROVE PoolType'
  <2>0. thread[w][1] = "woken" /\ UNCHANGED joining
    BY <1>3 DEF Wake, Is
  <2>1. CASE thread' = Goto(w, "waiting") /\ UNCHANGED <<queue, free>>
    BY <1>g, <2>0, <2>1 DEF Idle
  <2>2. ASSUME NEW p \in Place, p[1] \notin {"none", "locked", "waiting", "woken"},
               thread' = [thread EXCEPT ![w] = p], free' = free - 1, queue' \in Seq(Handler)
        PROVE  PoolType'
    <3>1. /\ thread' \in [Thread -> Place] /\ Started' = 1..Cardinality(Started')
          /\ \A v \in Thread \ {w} : thread'[v] = thread[v]
          /\ thread'[w] = p
      BY <1>a, <2>0, <2>2
    <3>2. At({"locked", "waiting", "woken"})' = At({"locked", "waiting", "woken"}) \ {w}
          /\ w \in At({"locked", "waiting", "woken"})
      BY <2>0, <2>2, <3>1 DEF At
    <3>3. Cardinality(At({"locked", "waiting", "woken"})') = free - 1
      <4>1. IsFiniteSet(At({"locked", "waiting", "woken"}))
        BY ThreadFacts DEF At
      <4>2. Cardinality(At({"locked", "waiting", "woken"}) \ {w})
              = Cardinality(At({"locked", "waiting", "woken"})) - 1
        BY <3>2, <4>1, FS_RemoveElement
      <4> QED BY <3>2, <4>2 DEF PoolType
    <3>4. free' <= MaxFree
      <4>1. free \in Nat /\ MaxFree \in Nat /\ free <= MaxFree
        BY ThreadFacts, KernelAssumption DEF PoolType, At
      <4> QED BY <2>2, <4>1
    <3> QED BY <1>0, <1>q, <2>0, <2>2, <3>1, <3>3, <3>4
  <2>3. CASE thread' = Goto(w, "loop") /\ free' = free - 1 /\ UNCHANGED queue
    <3>1. <<"loop", NoTimer>> \in Place /\ thread[w][2] = NoTimer
      <4>1. thread[w] \in Place
        BY <1>0
      <4> QED BY <2>0, <4>1 DEF Place
    <3> QED BY <1>0, <2>2, <2>3, <3>1 DEF Goto
  <2>4. CASE Take(w) /\ free' = free - 1
    <3>1. /\ queue[1] \in Handler /\ thread' = [thread EXCEPT ![w] = queue[1]]
          /\ queue' \in Seq(Handler)
      BY <2>4, TakeFacts
    <3>2. queue[1] \in Place /\ queue[1][1] \in {"execute", "finish", "runner", "other"}
      BY <3>1, HandlerFacts
    <3> QED BY <2>2, <2>4, <3>1, <3>2
  <2> QED BY <1>3, <2>1, <2>3, <2>4 DEF Wake
<1>4. CASE Stop
  <2>0. /\ joining[1] \in 0..(MaxThreads + 1) /\ joining[2] \in {"notify", "join"}
        /\ MaxThreads \in Nat /\ UNCHANGED <<queue, free>> /\ joining[1] <= MaxThreads
    BY <1>0, <1>4, ThreadFacts DEF Stop
  <2>1. joining' \in (0..(MaxThreads + 1)) \X {"notify", "join"}
    BY <1>4, <2>0 DEF Stop
  <2>2. \/ UNCHANGED thread
        \/ thread' = [w \in Thread |-> IF Is(w, "waiting") THEN <<"woken", NoTimer>> ELSE thread[w]]
    BY <1>4 DEF Stop
  <2>3. /\ thread' \in [Thread -> Place]
        /\ \A v \in Thread : \/ thread'[v] = thread[v]
                             \/ thread[v][1] = "waiting" /\ thread'[v] = <<"woken", NoTimer>>
    <3>1. <<"woken", NoTimer>> \in Place
      BY DEF Place
    <3> QED BY <1>0, <2>2, <3>1 DEF Is
  <2>4. \A v \in Thread : thread'[v][1] = "none" <=> thread[v][1] = "none"
    BY <2>3
  <2>5. \A v \in Thread : Idle(v)' <=> Idle(v)
    BY <2>3 DEF Idle
  <2>6. Started' = 1..Cardinality(Started')
    BY <2>4, CountsSame
  <2> QED BY <1>0, <1>q, <2>0, <2>1, <2>3, <2>5, <2>6
<1>5. CASE Other
  <2>1. do_async(thread, <<"other", NoTimer>>) /\ <<"other", NoTimer>> \in Handler
    BY <1>5 DEF Other, Handler
  <2> QED BY <1>0, <1>p, <2>1 DEF Idle
<1>6. ASSUME NEW t \in Timer, Fire(t) PROVE PoolType'
  <2>1. do_async(thread, <<"execute", t>>) /\ <<"execute", t>> \in Handler
    BY <1>6 DEF Fire, Handler
  <2> QED BY <1>0, <1>p, <2>1 DEF Idle
<1>7. ASSUME NEW w \in Thread, EndOther(w) \/ Schedule(w) \/ Suspend(w) \/ Pop(w) PROVE PoolType'
  <2>1. CASE EndOther(w)
    BY <1>g, <2>1 DEF EndOther, Is, Idle
  <2>2. CASE Schedule(w)
    BY <1>g, <2>2 DEF Schedule, Is, Idle
  <2>3. CASE Suspend(w)
    BY <1>g, <2>3 DEF Suspend, Is, Idle
  <2>4. CASE Pop(w)
    BY <1>g, <2>4 DEF Pop, Is, Idle
  <2> QED BY <1>7, <2>1, <2>2, <2>3, <2>4
<1>8. ASSUME NEW w \in Thread, Start(w) PROVE PoolType'
  <2>1. /\ thread[w][1] = "start" /\ do_async(Goto(w, "await"), <<"runner", NoTimer>>)
        /\ <<"runner", NoTimer>> \in Handler
    BY <1>8 DEF Start, Is, Handler
  <2>2. /\ Goto(w, "await") \in [Thread -> Place]
        /\ \A v \in Thread : Goto(w, "await")[v][1] = "none" <=> thread[v][1] = "none"
        /\ \A v \in Thread : Goto(w, "await")[v][1] \in {"locked", "waiting", "woken"} <=> Idle(v)
    BY <1>g, <2>1 DEF Idle
  <2> QED BY <1>p, <2>1, <2>2
<1>9. ASSUME NEW w \in Thread, Run(w) PROVE PoolType'
  <2>0. thread[w][1] = "runner"
    BY <1>9 DEF Run, Is
  <2>1. /\ Goto(w, "pop") \in [Thread -> Place]
        /\ \A v \in Thread : Goto(w, "pop")[v][1] = "none" <=> thread[v][1] = "none"
        /\ \A v \in Thread : Goto(w, "pop")[v][1] \in {"locked", "waiting", "woken"} <=> Idle(v)
        /\ thread' = Goto(w, "pop") /\ UNCHANGED <<queue, free, joining>> => PoolType'
    BY <1>g, <2>0 DEF Idle
  <2>2. CASE thread' = Goto(w, "pop") /\ UNCHANGED <<queue, free, joining>>
    BY <2>1, <2>2
  <2>3. CASE Head(tasks) \in waiting /\ do_async(Goto(w, "pop"), <<"finish", Head(tasks)>>)
    <3>1. <<"finish", Head(tasks)>> \in Handler
      BY <2>3 DEF TimerType, Handler
    <3> QED BY <1>p, <2>1, <2>3, <3>1
  <2> QED BY <1>9, <2>2, <2>3 DEF Run
<1>10. ASSUME NEW w \in Thread, Execute(w) \/ Finish(w) \/ Reschedule(w) PROVE PoolType'
  <2>1. CASE Execute(w)
    <3>1. thread[w][1] = "execute" /\ UNCHANGED <<queue, free, joining>>
          /\ (thread' = Through(w) \/ thread' = Goto(w, "handler"))
      BY <2>1 DEF Execute, Is
    <3> QED BY <1>g, <1>t, <3>1 DEF Idle
  <2>2. CASE Finish(w)
    <3>1. thread[w][1] = "finish" /\ UNCHANGED <<queue, free, joining>>
          /\ (thread' = Through(w) \/ thread' = Goto(w, "schedule"))
      BY <2>2 DEF Finish, Is
    <3> QED BY <1>g, <1>t, <3>1 DEF Idle
  <2>3. CASE Reschedule(w)
    <3>1. thread[w][1] = "schedule" /\ UNCHANGED <<queue, free, joining>> /\ thread' = Through(w)
      BY <2>3 DEF Reschedule, Is
    <3> QED BY <1>t, <3>1
  <2> QED BY <1>10, <2>1, <2>2, <2>3
<1>11. CASE (\E t \in Timer : StopTimer(t)) \/ StopWaits \/ Shutdown \/ UNCHANGED vars
  BY <1>11, <1>u DEF StopTimer, StopWaits, Shutdown, vars
<1> QED BY <1>1, <1>2, <1>3, <1>4, <1>5, <1>6, <1>7, <1>8, <1>9, <1>10, <1>11 DEF Next, Step

-----------------------------------------------------------------------------
(***************************************************************************)
(* The runner of the apartment.                                            *)
(***************************************************************************)

\* A step that neither moves a runner nor changes whether tasks wait.
LEMMA RunnerSame ==
  ASSUME PoolType, RunnerInv, \A v \in Thread : Runs(v)' <=> Runs(v), UNCHANGED <<queue, tasks>>
  PROVE  RunnerInv'
  BY DEF RunnerInv

\* A thread takes the next handler, which may be a runner.
LEMMA RunnerTake ==
  ASSUME PoolType, RunnerInv, NEW w \in Thread, ~ Runs(w), Take(w), UNCHANGED tasks
  PROVE  RunnerInv'
<1>1. /\ queue \in Seq(Handler) /\ Len(queue) \in Nat \ {0} /\ queue[1] \in Handler
      /\ thread' = [thread EXCEPT ![w] = queue[1]] /\ thread \in [Thread -> Place]
      /\ queue' \in Seq(Handler) /\ Len(queue') = Len(queue) - 1
      /\ \A i \in 1..Len(queue') : queue'[i] = queue[i + 1]
  BY TakeFacts DEF PoolType
<1>2. DOMAIN queue = 1..Len(queue) /\ DOMAIN queue' = 1..Len(queue')
  BY <1>1, LenProperties
<1>3. /\ \A v \in Thread \ {w} : Runs(v)' <=> Runs(v)
      /\ Runs(w)' <=> queue[1][1] = "runner"
  BY <1>1, HandlerFacts DEF Runs
<1>4. /\ \A i \in DOMAIN queue' : i + 1 \in DOMAIN queue /\ i + 1 # 1 /\ queue'[i] = queue[i + 1]
      /\ 1 \in DOMAIN queue
      /\ \A i \in DOMAIN queue : i = 1 \/ (i - 1 \in DOMAIN queue' /\ queue'[i - 1] = queue[i])
  BY <1>1, <1>2
<1>5. \A v, u \in Thread : Runs(v)' /\ Runs(u)' => v = u
  BY <1>3, <1>4 DEF RunnerInv
<1>6. \A i, j \in DOMAIN queue' : queue'[i][1] = "runner" /\ queue'[j][1] = "runner" => i = j
  <2> SUFFICES ASSUME NEW i \in DOMAIN queue', NEW j \in DOMAIN queue',
                      queue'[i][1] = "runner", queue'[j][1] = "runner"
               PROVE  i = j
    OBVIOUS
  <2>1. i + 1 = j + 1
    BY <1>4 DEF RunnerInv
  <2> QED BY <1>2, <2>1
<1>7. \A v \in Thread, i \in DOMAIN queue' : ~ (Runs(v)' /\ queue'[i][1] = "runner")
  BY <1>3, <1>4 DEF RunnerInv
<1>8. tasks' # <<>> <=> \/ \E v \in Thread : Runs(v)'
                        \/ \E i \in DOMAIN queue' : queue'[i][1] = "runner"
  BY <1>3, <1>4 DEF RunnerInv
<1> QED BY <1>5, <1>6, <1>7, <1>8 DEF RunnerInv

\* A handler is queued that is no runner.
LEMMA RunnerPush ==
  ASSUME PoolType, RunnerInv, NEW what \in Handler, what[1] # "runner",
         queue' \in Seq(Handler), Len(queue') = Len(queue) + 1,
         \A i \in 1..Len(queue) : queue'[i] = queue[i],
         queue'[Len(queue) + 1] = what,
         \A v \in Thread : Runs(v)' <=> Runs(v), UNCHANGED tasks
  PROVE  RunnerInv'
<1>1. /\ DOMAIN queue = 1..Len(queue) /\ DOMAIN queue' = 1..Len(queue') /\ Len(queue) \in Nat
  BY LenProperties DEF PoolType
<1>2. \A i \in DOMAIN queue' : queue'[i][1] = "runner" => i \in DOMAIN queue /\ queue'[i] = queue[i]
  BY <1>1
<1>3. \A i \in DOMAIN queue : i \in DOMAIN queue' /\ queue'[i] = queue[i]
  BY <1>1
<1> QED BY <1>2, <1>3 DEF RunnerInv

LEMMA NextRunnerInv == TypeOK /\ RunnerInv /\ [Next]_vars => RunnerInv'
<1> SUFFICES ASSUME PoolType, TimerType, RunnerInv, [Next]_vars PROVE RunnerInv'
  BY DEF TypeOK
<1> USE DEF TimerPlace, PoolPlace
<1>0. /\ queue \in Seq(Handler) /\ thread \in [Thread -> Place] /\ tasks \in Seq(Timer)
      /\ DOMAIN queue = 1..Len(queue) /\ Len(queue) \in Nat
  BY LenProperties DEF PoolType, TimerType
<1>p. ASSUME NEW moved \in [Thread -> Place], NEW what \in Handler, do_async(moved, what),
             \A v \in Thread : moved[v][1] = "none" <=> thread[v][1] = "none"
      PROVE  /\ queue' \in Seq(Handler) /\ Len(queue') = Len(queue) + 1
             /\ \A i \in 1..Len(queue) : queue'[i] = queue[i]
             /\ queue'[Len(queue) + 1] = what
             /\ \A v \in Thread : Runs(v)' <=> moved[v][1] \in {"start", "runner", "pop"}
  BY <1>p, PushFacts DEF Runs
<1>g. ASSUME NEW w \in Thread, NEW place \in TimerPlace \cup PoolPlace,
             thread[w][1] \in TimerPlace <=> place \in TimerPlace
      PROVE  /\ Goto(w, place) \in [Thread -> Place] /\ Goto(w, place)[w][1] = place
             /\ \A v \in Thread \ {w} : Goto(w, place)[v] = thread[v]
             /\ thread' = Goto(w, place) =>
                  /\ Runs(w)' <=> place \in {"start", "runner", "pop"}
                  /\ \A v \in Thread \ {w} : Runs(v)' <=> Runs(v)
  BY <1>g, GotoFacts DEF Runs
<1>t. ASSUME NEW w \in Thread, ~ Runs(w), thread' = Through(w)
      PROVE  \A v \in Thread : Runs(v)' <=> Runs(v)
  BY <1>t, ThroughFacts DEF Runs
<1>1. ASSUME NEW w \in Thread, Loop(w) PROVE RunnerInv'
  <2>1. CASE Take(w)
    BY <1>1, <2>1, RunnerTake DEF Loop, Is, Runs, taskVars
  <2>2. CASE Leave(w) /\ UNCHANGED queue
    <3>1. \A v \in Thread : Runs(v)' <=> Runs(v)
      BY <1>0, <1>1, <2>2 DEF Loop, Is, Leave, Runs
    <3> QED BY <1>1, <2>2, <3>1, RunnerSame DEF Loop, taskVars
  <2>3. CASE Park(w) /\ UNCHANGED queue
    <3>1. \A v \in Thread : Runs(v)' <=> Runs(v)
      BY <1>0, <1>1, <2>3 DEF Loop, Is, Park, Runs
    <3> QED BY <1>1, <2>3, <3>1, RunnerSame DEF Loop, taskVars
  <2> QED BY <1>1, <2>1, <2>2, <2>3 DEF Loop
<1>2. ASSUME NEW w \in Thread, Wait(w) PROVE RunnerInv'
  <2>1. \A v \in Thread : Runs(v)' <=> Runs(v)
    BY <1>2, <1>g DEF Wait, Is, Runs
  <2> QED BY <1>2, <2>1, RunnerSame DEF Wait, taskVars
<1>3. ASSUME NEW w \in Thread, Wake(w) PROVE RunnerInv'
  <2>1. CASE Take(w)
    BY <1>3, <2>1, RunnerTake DEF Wake, Is, Runs, taskVars
  <2>2. CASE UNCHANGED queue /\ (thread' = Goto(w, "waiting") \/ thread' = Goto(w, "loop"))
    <3>1. \A v \in Thread : Runs(v)' <=> Runs(v)
      BY <1>3, <1>g, <2>2 DEF Wake, Is, Runs
    <3> QED BY <1>3, <2>2, <3>1, RunnerSame DEF Wake, taskVars
  <2> QED BY <1>3, <2>1, <2>2 DEF Wake
<1>4. CASE Stop
  <2>1. \A v \in Thread : Runs(v)' <=> Runs(v)
    BY <1>4, <1>0 DEF Stop, Is, Runs
  <2> QED BY <1>4, <2>1, RunnerSame DEF Stop, taskVars
<1>5. CASE Other
  <2>1. do_async(thread, <<"other", NoTimer>>) /\ <<"other", NoTimer>> \in Handler /\ UNCHANGED tasks
    BY <1>5 DEF Other, Handler, taskVars
  <2>2. \A v \in Thread : Runs(v)' <=> Runs(v)
    BY <1>0, <1>p, <2>1 DEF Runs
  <2> QED BY <1>0, <1>p, <2>1, <2>2, RunnerPush
<1>6. ASSUME NEW t \in Timer, Fire(t) PROVE RunnerInv'
  <2>1. do_async(thread, <<"execute", t>>) /\ <<"execute", t>> \in Handler /\ UNCHANGED tasks
    BY <1>6 DEF Fire, Handler, taskVars
  <2>2. \A v \in Thread : Runs(v)' <=> Runs(v)
    BY <1>0, <1>p, <2>1 DEF Runs
  <2> QED BY <1>0, <1>p, <2>1, <2>2, RunnerPush
<1>7. ASSUME NEW w \in Thread, EndOther(w) \/ Suspend(w) PROVE RunnerInv'
  <2>1. \A v \in Thread : Runs(v)' <=> Runs(v)
    BY <1>7, <1>g DEF EndOther, Suspend, Is, Runs
  <2> QED BY <1>7, <2>1, RunnerSame DEF EndOther, Suspend, taskVars
<1>8. ASSUME NEW w \in Thread, Schedule(w) PROVE RunnerInv'
  <2>1. /\ thread[w] \in Place /\ thread[w][1] = "handler" /\ ~ Runs(w) /\ UNCHANGED queue
        /\ tasks' = Append(tasks, thread[w][2])
    BY <1>0, <1>8 DEF Schedule, Is, Runs
  <2>2. tasks' # <<>>
    BY <1>0, <2>1, PlaceFacts, AppendProperties
  <2>3. CASE tasks = <<>>
    <3>1. Runs(w)' /\ \A v \in Thread \ {w} : Runs(v)' <=> Runs(v)
      BY <1>8, <1>g, <2>1, <2>3 DEF Schedule, NeedStart
    <3>2. (\A v \in Thread : ~ Runs(v)) /\ \A i \in DOMAIN queue : queue[i][1] # "runner"
      BY <2>3 DEF RunnerInv
    <3> QED BY <2>1, <2>2, <3>1, <3>2 DEF RunnerInv
  <2>4. CASE tasks # <<>>
    <3>1. \A v \in Thread : Runs(v)' <=> Runs(v)
      BY <1>8, <1>g, <2>1, <2>4 DEF Schedule, NeedStart
    <3> QED BY <2>1, <2>2, <2>4, <3>1 DEF RunnerInv
  <2> QED BY <2>3, <2>4
<1>9. ASSUME NEW w \in Thread, Start(w) PROVE RunnerInv'
  <2>1. /\ thread[w][1] = "start" /\ Runs(w) /\ do_async(Goto(w, "await"), <<"runner", NoTimer>>)
        /\ <<"runner", NoTimer>> \in Handler /\ UNCHANGED tasks
    BY <1>9 DEF Start, Is, Handler, taskVars, Runs
  <2>2. /\ \A v \in Thread : Goto(w, "await")[v][1] = "none" <=> thread[v][1] = "none"
        /\ Goto(w, "await") \in [Thread -> Place]
    BY <1>g, <2>1
  <2>3. /\ ~ Runs(w)' /\ \A v \in Thread \ {w} : Runs(v)' <=> Runs(v)
    <3>1. /\ Goto(w, "await")[w][1] = "await"
          /\ \A v \in Thread \ {w} : Goto(w, "await")[v] = thread[v]
      BY <1>g, <2>1
    <3>2. \A v \in Thread : Runs(v)' <=> Goto(w, "await")[v][1] \in {"start", "runner", "pop"}
      BY <1>p, <2>1, <2>2
    <3> QED BY <3>1, <3>2 DEF Runs
  <2>4. /\ Len(queue') = Len(queue) + 1 /\ DOMAIN queue' = 1..Len(queue')
        /\ \A i \in 1..Len(queue) : queue'[i] = queue[i]
        /\ queue'[Len(queue) + 1] = <<"runner", NoTimer>>
    BY <1>p, <2>1, <2>2, LenProperties
  <2>5. /\ \A v \in Thread : ~ Runs(v)' /\ \A i \in DOMAIN queue : queue[i][1] # "runner"
        /\ tasks # <<>>
    BY <2>1, <2>3 DEF RunnerInv
  <2>6. Len(queue) + 1 \in DOMAIN queue'
        /\ \A i \in DOMAIN queue' : queue'[i][1] = "runner" <=> i = Len(queue) + 1
    BY <1>0, <2>4, <2>5
  <2> QED BY <2>1, <2>5, <2>6 DEF RunnerInv
<1>10. ASSUME NEW w \in Thread, Run(w) PROVE RunnerInv'
  <2>1. thread[w][1] = "runner" /\ Runs(w) /\ UNCHANGED tasks
    BY <1>10 DEF Run, Is, Runs
  <2>2. /\ \A v \in Thread : Goto(w, "pop")[v][1] = "none" <=> thread[v][1] = "none"
        /\ Goto(w, "pop") \in [Thread -> Place]
        /\ \A v \in Thread : Goto(w, "pop")[v][1] \in {"start", "runner", "pop"} <=> Runs(v)
    <3>1. /\ Goto(w, "pop") \in [Thread -> Place] /\ Goto(w, "pop")[w][1] = "pop"
          /\ \A v \in Thread \ {w} : Goto(w, "pop")[v] = thread[v]
      BY <1>g, <2>1
    <3> QED BY <2>1, <3>1 DEF Runs
  <2>3. CASE thread' = Goto(w, "pop") /\ UNCHANGED queue
    <3>1. \A v \in Thread : Runs(v)' <=> Runs(v)
      BY <2>2, <2>3 DEF Runs
    <3> QED BY <2>1, <2>3, <3>1, RunnerSame
  <2>4. CASE Head(tasks) \in waiting /\ do_async(Goto(w, "pop"), <<"finish", Head(tasks)>>)
    <3>1. <<"finish", Head(tasks)>> \in Handler
      BY <2>4 DEF TimerType, Handler
    <3>2. \A v \in Thread : Runs(v)' <=> Runs(v)
      BY <1>p, <2>2, <2>4, <3>1
    <3> QED BY <1>p, <2>1, <2>2, <2>4, <3>1, <3>2, RunnerPush
  <2> QED BY <1>10, <2>3, <2>4 DEF Run
<1>11. ASSUME NEW w \in Thread, Pop(w) PROVE RunnerInv'
  <2>1. /\ thread[w][1] = "pop" /\ Runs(w) /\ UNCHANGED queue
        /\ thread' = Goto(w, IF tasks' = <<>> THEN "loop" ELSE "runner")
    BY <1>11 DEF Pop, Is, Runs
  <2>2. \A v \in Thread \ {w} : Runs(v)' <=> Runs(v)
    BY <1>g, <2>1
  <2>3. Runs(w)' <=> tasks' # <<>>
    BY <1>g, <2>1
  <2>4. (\A v \in Thread \ {w} : ~ Runs(v)) /\ \A i \in DOMAIN queue : queue[i][1] # "runner"
    BY <2>1 DEF RunnerInv
  <2> QED BY <2>1, <2>2, <2>3, <2>4 DEF RunnerInv
<1>12. ASSUME NEW w \in Thread, Execute(w) \/ Finish(w) \/ Reschedule(w) PROVE RunnerInv'
  <2>1. /\ thread[w][1] \in {"execute", "finish", "schedule"} /\ UNCHANGED <<queue, tasks>>
        /\ \/ thread' = Through(w)
           \/ thread[w][1] = "execute" /\ thread' = Goto(w, "handler")
           \/ thread[w][1] = "finish" /\ thread' = Goto(w, "schedule")
    BY <1>12 DEF Execute, Finish, Reschedule, Is, taskVars
  <2>2. \A v \in Thread : Runs(v)' <=> Runs(v)
    BY <1>g, <1>t, <2>1 DEF Runs
  <2> QED BY <2>1, <2>2, RunnerSame
<1>13. CASE (\E t \in Timer : StopTimer(t)) \/ StopWaits \/ Shutdown \/ UNCHANGED vars
  <2>1. UNCHANGED <<poolVars, tasks>>
    BY <1>13 DEF StopTimer, StopWaits, Shutdown, vars, taskVars
  <2>2. \A v \in Thread : Runs(v)' <=> Runs(v)
    BY <2>1 DEF Runs, poolVars
  <2> QED BY <2>1, <2>2, RunnerSame DEF poolVars
<1> QED BY <1>1, <1>2, <1>3, <1>4, <1>5, <1>6, <1>7, <1>8, <1>9, <1>10, <1>11, <1>12, <1>13
  DEF Next, Step

-----------------------------------------------------------------------------
(***************************************************************************)
(* The tasks and the timers.  That the runner has a task to take is        *)
(* RunnerInv.                                                              *)
(***************************************************************************)
LEMMA NextTimerType == TypeOK /\ RunnerInv /\ [Next]_vars => TimerType'
<1> SUFFICES ASSUME PoolType, TimerType, RunnerInv, [Next]_vars PROVE TimerType'
  BY DEF TypeOK
<1>0. /\ tasks \in Seq(Timer) /\ thread \in [Thread -> Place]
  BY DEF PoolType, TimerType
<1>u. UNCHANGED <<taskVars, timerVars, shutdown>> => TimerType'
  BY DEF TimerType, taskVars, timerVars
<1>t. \A w \in Thread : thread[w][1] \in TimerPlace => thread[w][2] \in Timer
  BY <1>0, PlaceFacts
<1>1. ASSUME NEW w \in Thread, Loop(w) \/ Wait(w) \/ Wake(w) \/ EndOther(w) \/ Start(w) PROVE TimerType'
  BY <1>1, <1>u DEF Loop, Wait, Wake, EndOther, Start
<1>2. CASE Other \/ Stop \/ UNCHANGED vars
  BY <1>2, <1>u DEF Other, Stop, vars
<1>3. ASSUME NEW t \in Timer, Fire(t) PROVE TimerType'
  BY <1>3 DEF Fire, TimerType, taskVars, Removed
<1>4. ASSUME NEW w \in Thread, Schedule(w) PROVE TimerType'
  <2>1. thread[w][2] \in Timer /\ tasks' = Append(tasks, thread[w][2])
        /\ UNCHANGED <<ready, waiting, timerVars, shutdown>>
    BY <1>4, <1>t DEF Schedule, Is, TimerPlace
  <2>2. tasks' \in Seq(Timer)
    BY <1>0, <2>1, AppendProperties
  <2> QED BY <2>1, <2>2 DEF TimerType, timerVars
<1>5. ASSUME NEW w \in Thread, Suspend(w) PROVE TimerType'
  <2>1. thread[w][2] \in Timer
    BY <1>5, <1>t DEF Suspend, Is, TimerPlace
  <2> QED BY <1>5, <2>1 DEF Suspend, TimerType, timerVars
<1>6. ASSUME NEW w \in Thread, Run(w) PROVE TimerType'
  <2>1. Runs(w)
    BY <1>6 DEF Run, Is, Runs
  <2>2. Head(tasks) \in Timer
    BY <1>0, <2>1, HeadTailProperties DEF RunnerInv
  <2> QED BY <1>6, <2>2 DEF Run, TimerType
<1>7. ASSUME NEW w \in Thread, Pop(w) PROVE TimerType'
  <2>1. Runs(w)
    BY <1>7 DEF Pop, Is, Runs
  <2>2. tasks' \in Seq(Timer)
    BY <1>0, <1>7, <2>1, HeadTailProperties DEF RunnerInv, Pop
  <2> QED BY <1>7, <2>2 DEF Pop, TimerType, timerVars
<1>8. ASSUME NEW w \in Thread, Execute(w) PROVE TimerType'
  <2>1. thread[w][2] \in Timer
    BY <1>8, <1>t DEF Execute, Is, TimerPlace
  <2> QED BY <1>8, <2>1 DEF Execute, TimerType, taskVars
<1>9. ASSUME NEW w \in Thread, Finish(w) PROVE TimerType'
  <2>1. thread[w][2] \in Timer
    BY <1>9, <1>t DEF Finish, Is, TimerPlace
  <2>2. failed' \subseteq Timer /\ state' \in [Timer -> {"scheduled", "in_handler", "eof"}]
    BY <1>9, <2>1 DEF Finish, TimerType
  <2> QED BY <1>9, <2>2 DEF Finish, TimerType, taskVars
<1>10. ASSUME NEW w \in Thread, Reschedule(w) PROVE TimerType'
  <2>1. thread[w][2] \in Timer
    BY <1>10, <1>t DEF Reschedule, Is, TimerPlace
  <2> QED BY <1>10, <2>1 DEF Reschedule, TimerType, taskVars
<1>11. ASSUME NEW t \in Timer, StopTimer(t) PROVE TimerType'
  BY <1>11 DEF StopTimer, TimerType, taskVars
<1>12. CASE StopWaits
  BY <1>12 DEF StopWaits, TimerType, taskVars
<1>13. CASE Shutdown
  BY <1>13 DEF Shutdown, TimerType, taskVars, timerVars
<1> QED BY <1>1, <1>2, <1>3, <1>4, <1>5, <1>6, <1>7, <1>8, <1>9, <1>10, <1>11, <1>12, <1>13
  DEF Next, Step

-----------------------------------------------------------------------------
(***************************************************************************)
(* Who goes on with a timer.                                               *)
(***************************************************************************)
LEMMA HoldFacts ==
  ASSUME PoolType, TimerType
  PROVE  /\ \A w \in Thread : Hold(w) \in Timer \cup {NoTimer}
         /\ \A w \in Thread : Hold(w) \in Timer <=> thread[w][1] \in TimerPlace \ {"get"}
         /\ \A w \in Thread : Hold(w) \in Timer => Hold(w) = thread[w][2]
         /\ \A i \in DOMAIN queue : queue[i][2] \in Timer \cup {NoTimer}
         /\ scheduled \subseteq Timer /\ waiting \subseteq Timer /\ NoTimer \notin Timer
         /\ DOMAIN queue = 1..Len(queue) /\ Len(queue) \in Nat
<1>1. /\ scheduled \subseteq Timer /\ waiting \subseteq Timer /\ NoTimer \notin Timer
      /\ DOMAIN queue = 1..Len(queue) /\ Len(queue) \in Nat
  BY ThreadFacts, LenProperties DEF PoolType, TimerType
<1>2. \A i \in DOMAIN queue : queue[i][2] \in Timer \cup {NoTimer}
  <2> SUFFICES ASSUME NEW i \in DOMAIN queue PROVE queue[i][2] \in Timer \cup {NoTimer}
    OBVIOUS
  <2>1. queue[i] \in Handler
    BY <1>1, ElementOfSeq DEF PoolType
  <2> QED BY <2>1, HandlerFacts
<1>3. ASSUME NEW w \in Thread
      PROVE  /\ Hold(w) \in Timer \cup {NoTimer}
             /\ Hold(w) \in Timer <=> thread[w][1] \in TimerPlace \ {"get"}
             /\ Hold(w) \in Timer => Hold(w) = thread[w][2]
  <2>1. thread[w] \in Place
    BY DEF PoolType
  <2>2. thread[w][1] \in TimerPlace => thread[w][2] \in Timer
    BY <2>1, PlaceFacts
  <2>3. thread[w][1] \notin TimerPlace => thread[w][2] = NoTimer
    BY <2>1 DEF Place, TimerPlace, PoolPlace
  <2>4. "get" \in TimerPlace
    BY DEF TimerPlace
  <2> QED BY <1>1, <2>2, <2>3, <2>4 DEF Hold, Is
<1> QED BY <1>1, <1>2, <1>3

\* No thread changes what it goes on with; a timer leaves the list only when it is
\* stopped.
LEMMA HolderStill ==
  ASSUME PoolType, TimerType, HolderInv, UNCHANGED <<queue, waiting>>,
         \A v \in Thread : Hold(v)' = Hold(v),
         \A t \in Timer : Excused(t) => Excused(t)' \/ \E v \in Thread : Hold(v)' = t,
         scheduled' \subseteq scheduled, \A t \in scheduled \ scheduled' : Excused(t)'
  PROVE  HolderInv'
<1>1. \A t \in Timer :
        \/ \E v \in Thread : Hold(v)' = t
        \/ \E i \in DOMAIN queue' : queue'[i][2] = t
        \/ t \in scheduled' \cup waiting'
        \/ Excused(t)'
  BY DEF HolderInv
<1> QED BY <1>1 DEF HolderInv

\* A thread gives its timer back to the list or to the future, or lets go of it for
\* a reason.
LEMMA HolderThread ==
  ASSUME PoolType, TimerType, HolderInv, UNCHANGED queue, NEW w \in Thread, NEW u \in Timer,
         Hold(w) = u, Hold(w)' = NoTimer, \A v \in Thread \ {w} : Hold(v)' = Hold(v),
         \A t \in Timer : Excused(t) => Excused(t)' \/ \E v \in Thread : Hold(v)' = t,
         \/ scheduled' = scheduled \cup {u} /\ UNCHANGED waiting
         \/ waiting' = waiting \cup {u} /\ UNCHANGED scheduled
         \/ Excused(u)' /\ UNCHANGED <<scheduled, waiting>>
  PROVE  HolderInv'
<1>1. /\ \A v \in Thread : Hold(v) \in Timer \cup {NoTimer}
      /\ \A i \in DOMAIN queue : queue[i][2] \in Timer \cup {NoTimer}
      /\ scheduled \subseteq Timer /\ waiting \subseteq Timer /\ NoTimer \notin Timer
  BY HoldFacts
<1>2. \A v, x \in Thread : Hold(v)' = Hold(x)' => v = x \/ Hold(v)' = NoTimer
  BY DEF HolderInv
<1>3. \A v \in Thread, i \in DOMAIN queue' : Hold(v)' = queue'[i][2] => Hold(v)' = NoTimer
  BY DEF HolderInv
<1>4. \A v \in Thread : Hold(v)' \notin scheduled' \cup waiting'
  BY <1>1 DEF HolderInv
<1>5. \A i \in DOMAIN queue' : queue'[i][2] \notin scheduled' \cup waiting'
  BY <1>1 DEF HolderInv
<1>6. scheduled' \cap waiting' = {}
  BY <1>1 DEF HolderInv
<1>7. ASSUME NEW t \in Timer
      PROVE  \/ \E v \in Thread : Hold(v)' = t
             \/ \E i \in DOMAIN queue' : queue'[i][2] = t
             \/ t \in scheduled' \cup waiting'
             \/ Excused(t)'
  <2>1. CASE t = u
    BY <2>1
  <2>2. CASE t # u
    BY <1>1, <2>2 DEF HolderInv
  <2> QED BY <2>1, <2>2
<1> QED BY <1>2, <1>3, <1>4, <1>5, <1>6, <1>7 DEF HolderInv

\* A thread that goes on with nothing takes the next handler.
LEMMA HolderTake ==
  ASSUME PoolType, TimerType, HolderInv, NEW w \in Thread, Hold(w) = NoTimer, Take(w),
         UNCHANGED <<scheduled, waiting, state, failed, stopped, shutdown>>
  PROVE  HolderInv'
<1>1. /\ queue \in Seq(Handler) /\ Len(queue) \in Nat \ {0} /\ queue[1] \in Handler
      /\ thread' = [thread EXCEPT ![w] = queue[1]] /\ thread \in [Thread -> Place]
      /\ queue' \in Seq(Handler) /\ Len(queue') = Len(queue) - 1
      /\ \A i \in 1..Len(queue') : queue'[i] = queue[i + 1]
  BY TakeFacts DEF PoolType
<1>2. DOMAIN queue = 1..Len(queue) /\ DOMAIN queue' = 1..Len(queue')
  BY <1>1, LenProperties
<1>3. /\ \A v \in Thread \ {w} : Hold(v)' = Hold(v)
      /\ Hold(w)' = queue[1][2]
  BY <1>1, HandlerFacts DEF Hold, Is
<1>4. /\ \A i \in DOMAIN queue' : i + 1 \in DOMAIN queue /\ i + 1 # 1 /\ queue'[i] = queue[i + 1]
      /\ 1 \in DOMAIN queue
      /\ \A i \in DOMAIN queue : i = 1 \/ (i - 1 \in DOMAIN queue' /\ queue'[i - 1] = queue[i])
  BY <1>1, <1>2
<1>5. \A v, u \in Thread : Hold(v)' = Hold(u)' => v = u \/ Hold(v)' = NoTimer
  BY <1>3, <1>4 DEF HolderInv
<1>6. \A i, j \in DOMAIN queue' : queue'[i][2] = queue'[j][2] => i = j \/ queue'[i][2] = NoTimer
  <2> SUFFICES ASSUME NEW i \in DOMAIN queue', NEW j \in DOMAIN queue',
                      queue'[i][2] = queue'[j][2], queue'[i][2] # NoTimer
               PROVE  i = j
    OBVIOUS
  <2>1. i + 1 = j + 1
    BY <1>4 DEF HolderInv
  <2> QED BY <1>2, <2>1
<1>7. \A v \in Thread, i \in DOMAIN queue' : Hold(v)' = queue'[i][2] => Hold(v)' = NoTimer
  <2> TAKE v \in Thread, i \in DOMAIN queue'
  <2>1. CASE v = w
    BY <1>3, <1>4, <2>1 DEF HolderInv
  <2>2. CASE v # w
    BY <1>3, <1>4, <2>2 DEF HolderInv
  <2> QED BY <2>1, <2>2
<1>8. \A v \in Thread : Hold(v)' \notin scheduled' \cup waiting'
  BY <1>3, <1>4 DEF HolderInv
<1>9. \A i \in DOMAIN queue' : queue'[i][2] \notin scheduled' \cup waiting'
  BY <1>4 DEF HolderInv
<1>10. ASSUME NEW t \in Timer
       PROVE  \/ \E v \in Thread : Hold(v)' = t
              \/ \E i \in DOMAIN queue' : queue'[i][2] = t
              \/ t \in scheduled' \cup waiting'
              \/ Excused(t)'
  <2>1. CASE \E v \in Thread : Hold(v) = t
    BY <1>3, <2>1, HoldFacts
  <2>2. CASE \E i \in DOMAIN queue : queue[i][2] = t
    BY <1>3, <1>4, <2>2
  <2>3. CASE t \in scheduled \cup waiting \/ Excused(t)
    BY <2>3 DEF Excused
  <2> QED BY <2>1, <2>2, <2>3 DEF HolderInv
<1> QED BY <1>5, <1>6, <1>7, <1>8, <1>9, <1>10 DEF HolderInv

\* A handler is queued: one that no timer waits for, or one for a timer of the list
\* or of a future.
LEMMA HolderPush ==
  ASSUME PoolType, TimerType, HolderInv, NEW what \in Handler,
         queue' \in Seq(Handler), Len(queue') = Len(queue) + 1,
         \A i \in 1..Len(queue) : queue'[i] = queue[i],
         queue'[Len(queue) + 1] = what,
         \A v \in Thread : Hold(v)' = Hold(v),
         UNCHANGED <<state, failed, stopped>>,
         shutdown' = shutdown \/ shutdown' # "no",
         \/ what[2] = NoTimer /\ UNCHANGED <<scheduled, waiting>>
         \/ what[2] \in scheduled /\ scheduled' = scheduled \ {what[2]} /\ UNCHANGED waiting
         \/ what[2] \in waiting /\ waiting' = waiting \ {what[2]} /\ UNCHANGED scheduled
  PROVE  HolderInv'
<1> DEFINE n == Len(queue) + 1
<1>1. /\ \A v \in Thread : Hold(v) \in Timer \cup {NoTimer}
      /\ \A i \in DOMAIN queue : queue[i][2] \in Timer \cup {NoTimer}
      /\ scheduled \subseteq Timer /\ waiting \subseteq Timer /\ NoTimer \notin Timer
      /\ DOMAIN queue = 1..Len(queue) /\ Len(queue) \in Nat /\ DOMAIN queue' = 1..Len(queue')
  BY HoldFacts, LenProperties
<1>2. /\ n \in DOMAIN queue' /\ queue'[n] = what /\ n \notin DOMAIN queue
      /\ \A i \in DOMAIN queue : i \in DOMAIN queue' /\ queue'[i] = queue[i]
      /\ \A i \in DOMAIN queue' : i = n \/ i \in DOMAIN queue
  BY <1>1
<1> HIDE DEF n
<1>3. /\ \A i \in DOMAIN queue : what[2] = queue[i][2] => what[2] = NoTimer
      /\ \A v \in Thread : Hold(v) = what[2] => what[2] = NoTimer
      /\ what[2] \notin scheduled' \cup waiting'
  BY <1>1 DEF HolderInv
<1>4. \A i, j \in DOMAIN queue' : queue'[i][2] = queue'[j][2] => i = j \/ queue'[i][2] = NoTimer
  BY <1>2, <1>3 DEF HolderInv
<1>5. \A v \in Thread, i \in DOMAIN queue' : Hold(v)' = queue'[i][2] => Hold(v)' = NoTimer
  BY <1>2, <1>3 DEF HolderInv
<1>6. /\ \A v \in Thread : Hold(v)' \notin scheduled' \cup waiting'
      /\ \A i \in DOMAIN queue' : queue'[i][2] \notin scheduled' \cup waiting'
      /\ scheduled' \cap waiting' = {}
  BY <1>2, <1>3 DEF HolderInv
<1>7. ASSUME NEW t \in Timer
      PROVE  \/ \E v \in Thread : Hold(v)' = t
             \/ \E i \in DOMAIN queue' : queue'[i][2] = t
             \/ t \in scheduled' \cup waiting'
             \/ Excused(t)'
  <2>1. Excused(t) => Excused(t)'
    BY DEF Excused
  <2>2. \/ \E v \in Thread : Hold(v) = t
        \/ \E i \in DOMAIN queue : queue[i][2] = t
        \/ t \in scheduled \cup waiting
        \/ Excused(t)
    BY DEF HolderInv
  <2>3. t \in scheduled \cup waiting => t \in scheduled' \cup waiting' \/ t = what[2]
    OBVIOUS
  <2> QED BY <1>2, <2>1, <2>2, <2>3
<1> QED BY <1>4, <1>5, <1>6, <1>7 DEF HolderInv

LEMMA NextHolderInv == TypeOK /\ HolderInv /\ [Next]_vars => HolderInv'
<1> SUFFICES ASSUME PoolType, TimerType, HolderInv, [Next]_vars PROVE HolderInv'
  BY DEF TypeOK
<1> USE DEF TimerPlace, PoolPlace
<1>0. /\ queue \in Seq(Handler) /\ thread \in [Thread -> Place]
      /\ \A w \in Thread : Hold(w) \in Timer <=> thread[w][1] \in TimerPlace \ {"get"}
      /\ \A w \in Thread : Hold(w) \in Timer \cup {NoTimer}
      /\ \A w \in Thread : Hold(w) \in Timer => Hold(w) = thread[w][2]
      /\ NoTimer \notin Timer
  BY HoldFacts DEF PoolType
<1>s. ASSUME UNCHANGED <<queue, waiting, scheduled, state, failed, stopped>>,
             shutdown' = shutdown \/ shutdown' # "no",
             \A v \in Thread : Hold(v)' = Hold(v)
      PROVE  HolderInv'
  BY <1>s, HolderStill DEF Excused
<1>p. ASSUME NEW moved \in [Thread -> Place], NEW what \in Handler, do_async(moved, what),
             \A v \in Thread : moved[v][1] = "none" <=> thread[v][1] = "none",
             \A v \in Thread : Hold(v) = IF moved[v][1] = "get" THEN NoTimer ELSE moved[v][2]
      PROVE  /\ queue' \in Seq(Handler) /\ Len(queue') = Len(queue) + 1
             /\ \A i \in 1..Len(queue) : queue'[i] = queue[i]
             /\ queue'[Len(queue) + 1] = what
             /\ \A v \in Thread : Hold(v)' = Hold(v)
  <2>1. \A v \in Thread :
              \/ thread'[v] = moved[v]
              \/ moved[v] = <<"none", NoTimer>> /\ thread'[v] = <<"loop", NoTimer>>
              \/ moved[v] = <<"waiting", NoTimer>> /\ thread'[v] = <<"woken", NoTimer>>
    BY <1>p, PushFacts
  <2>2. \A v \in Thread : Hold(v)' = Hold(v)
    BY <1>p, <2>1 DEF Hold, Is
  <2> QED BY <1>p, <2>2, PushFacts
<1>g. ASSUME NEW w \in Thread, NEW place \in (TimerPlace \cup PoolPlace) \ {"get", "none"},
             thread[w][1] \in TimerPlace <=> place \in TimerPlace,
             thread[w][1] \notin {"get", "none"}
      PROVE  /\ Goto(w, place) \in [Thread -> Place]
             /\ \A v \in Thread : Goto(w, place)[v][1] = "none" <=> thread[v][1] = "none"
             /\ \A v \in Thread : Hold(v) = IF Goto(w, place)[v][1] = "get" THEN NoTimer
                                            ELSE Goto(w, place)[v][2]
             /\ thread' = Goto(w, place) => \A v \in Thread : Hold(v)' = Hold(v)
  <2>1. /\ Goto(w, place) \in [Thread -> Place]
        /\ Goto(w, place)[w] = <<place, thread[w][2]>>
        /\ \A v \in Thread \ {w} : Goto(w, place)[v] = thread[v]
    BY <1>g, GotoFacts
  <2>2. \A v \in Thread : Goto(w, place)[v][1] = "none" <=> thread[v][1] = "none"
    BY <1>g, <2>1
  <2>3. \A v \in Thread : Hold(v) = IF Goto(w, place)[v][1] = "get" THEN NoTimer
                                    ELSE Goto(w, place)[v][2]
    BY <1>g, <2>1 DEF Hold, Is
  <2> QED BY <2>1, <2>2, <2>3 DEF Hold, Is
<1>t. ASSUME NEW w \in Thread, thread[w][1] \in TimerPlace \ {"get"}, thread' = Through(w)
      PROVE  /\ thread[w][2] \in Timer /\ Hold(w) = thread[w][2] /\ Hold(w)' = NoTimer
             /\ \A v \in Thread \ {w} : Hold(v)' = Hold(v)
  <2>1. Hold(w) \in Timer /\ Hold(w) = thread[w][2]
    BY <1>0, <1>t
  <2> QED BY <1>t, <2>1, ThroughFacts DEF Hold, Is
<1>1. ASSUME NEW w \in Thread, Loop(w) PROVE HolderInv'
  <2>0. /\ Hold(w) = NoTimer /\ thread[w][1] = "loop"
        /\ UNCHANGED <<scheduled, waiting, state, failed, stopped, shutdown>>
    BY <1>0, <1>1 DEF Loop, Is, taskVars, timerVars
  <2>1. CASE Take(w)
    BY <2>0, <2>1, HolderTake
  <2>2. CASE UNCHANGED queue /\ (Leave(w) \/ Park(w))
    <3>1. \A v \in Thread : Hold(v)' = Hold(v)
      BY <1>0, <2>0, <2>2 DEF Leave, Park, Hold, Is
    <3> QED BY <1>s, <2>0, <2>2, <3>1
  <2> QED BY <1>1, <2>1, <2>2 DEF Loop
<1>2. ASSUME NEW w \in Thread, Wait(w) \/ EndOther(w) PROVE HolderInv'
  <2>1. \A v \in Thread : Hold(v)' = Hold(v)
    BY <1>2, <1>g DEF Wait, EndOther, Is
  <2> QED BY <1>2, <1>s, <2>1 DEF Wait, EndOther, taskVars, timerVars
<1>3. ASSUME NEW w \in Thread, Wake(w) PROVE HolderInv'
  <2>0. /\ Hold(w) = NoTimer /\ thread[w][1] = "woken"
        /\ UNCHANGED <<scheduled, waiting, state, failed, stopped, shutdown>>
    BY <1>0, <1>3 DEF Wake, Is, taskVars, timerVars
  <2>1. CASE Take(w)
    BY <2>0, <2>1, HolderTake
  <2>2. CASE UNCHANGED queue /\ (thread' = Goto(w, "waiting") \/ thread' = Goto(w, "loop"))
    <3>1. \A v \in Thread : Hold(v)' = Hold(v)
      BY <1>g, <2>0, <2>2
    <3> QED BY <1>s, <2>0, <2>2, <3>1
  <2> QED BY <1>3, <2>1, <2>2 DEF Wake
<1>4. CASE Stop
  <2>1. \/ UNCHANGED thread
        \/ thread' = [w \in Thread |-> IF Is(w, "waiting") THEN <<"woken", NoTimer>> ELSE thread[w]]
    BY <1>4 DEF Stop
  <2>2. \A v \in Thread : Hold(v)' = Hold(v)
    BY <1>0, <2>1 DEF Is, Hold
  <2> QED BY <1>4, <1>s, <2>2 DEF Stop, taskVars, timerVars
<1>5. CASE Other
  <2>1. /\ do_async(thread, <<"other", NoTimer>>) /\ <<"other", NoTimer>> \in Handler
        /\ UNCHANGED <<scheduled, waiting, state, failed, stopped, shutdown>>
    BY <1>5 DEF Other, Handler, taskVars, timerVars
  <2>2. \A v \in Thread : Hold(v) = IF thread[v][1] = "get" THEN NoTimer ELSE thread[v][2]
    BY DEF Hold, Is
  <2> QED BY <1>0, <1>p, <2>1, <2>2, HolderPush
<1>6. ASSUME NEW t \in Timer, Fire(t) PROVE HolderInv'
  <2>1. /\ do_async(thread, <<"execute", t>>) /\ <<"execute", t>> \in Handler
        /\ t \in scheduled /\ scheduled' = scheduled \ {t}
        /\ UNCHANGED <<waiting, state, failed, stopped>>
        /\ shutdown' = shutdown \/ shutdown' # "no"
    BY <1>6 DEF Fire, Handler, taskVars, Removed
  <2>2. \A v \in Thread : Hold(v) = IF thread[v][1] = "get" THEN NoTimer ELSE thread[v][2]
    BY DEF Hold, Is
  <2> QED BY <1>0, <1>p, <2>1, <2>2, HolderPush
<1>7. ASSUME NEW w \in Thread, Schedule(w) PROVE HolderInv'
  <2>1. \A v \in Thread : Hold(v)' = Hold(v)
    BY <1>7, <1>g DEF Schedule, Is
  <2> QED BY <1>7, <1>s, <2>1 DEF Schedule, taskVars, timerVars
<1>8. ASSUME NEW w \in Thread, Start(w) PROVE HolderInv'
  <2>1. /\ thread[w][1] = "start" /\ do_async(Goto(w, "await"), <<"runner", NoTimer>>)
        /\ <<"runner", NoTimer>> \in Handler
        /\ UNCHANGED <<scheduled, waiting, state, failed, stopped, shutdown>>
    BY <1>8 DEF Start, Is, Handler, taskVars, timerVars
  <2>2. /\ Goto(w, "await") \in [Thread -> Place]
        /\ \A v \in Thread : Goto(w, "await")[v][1] = "none" <=> thread[v][1] = "none"
        /\ \A v \in Thread : Hold(v) = IF Goto(w, "await")[v][1] = "get" THEN NoTimer
                                       ELSE Goto(w, "await")[v][2]
    BY <1>g, <2>1
  <2> QED BY <1>p, <2>1, <2>2, HolderPush
<1>9. ASSUME NEW w \in Thread, Suspend(w) PROVE HolderInv'
  <2> DEFINE u == thread[w][2]
  <2>0. /\ thread[w][1] = "await" /\ u \in Timer /\ Hold(w) = u
        /\ UNCHANGED <<queue, scheduled, state, failed, stopped, shutdown>>
    BY <1>0, <1>9 DEF Suspend, Is, timerVars
  <2>1. CASE u \in ready
    <3>1. \A v \in Thread : Hold(v)' = Hold(v)
      BY <1>9, <1>g, <2>0, <2>1 DEF Suspend
    <3> QED BY <1>9, <1>s, <2>0, <2>1, <3>1 DEF Suspend
  <2>2. CASE u \notin ready
    <3>1. PICK t \in Timer : t = u
      BY <2>0
    <3>2. thread' = Goto(w, "get") /\ waiting' = waiting \cup {t}
      BY <1>9, <2>2, <3>1 DEF Suspend
    <3>3. Hold(w)' = NoTimer /\ \A v \in Thread \ {w} : Hold(v)' = Hold(v)
      BY <2>0, <3>2, GotoFacts DEF Hold, Is
    <3> QED BY <2>0, <3>1, <3>2, <3>3, HolderThread DEF Excused
  <2> QED BY <2>1, <2>2
<1>10. ASSUME NEW w \in Thread, Run(w) PROVE HolderInv'
  <2>1. thread[w][1] = "runner" /\ UNCHANGED <<scheduled, state, stopped, shutdown>>
    BY <1>10 DEF Run, Is
  <2>2. /\ Goto(w, "pop") \in [Thread -> Place]
        /\ \A v \in Thread : Goto(w, "pop")[v][1] = "none" <=> thread[v][1] = "none"
        /\ \A v \in Thread : Hold(v) = IF Goto(w, "pop")[v][1] = "get" THEN NoTimer
                                       ELSE Goto(w, "pop")[v][2]
        /\ thread' = Goto(w, "pop") => \A v \in Thread : Hold(v)' = Hold(v)
    BY <1>g, <2>1
  <2>3. CASE /\ thread' = Goto(w, "pop") /\ UNCHANGED <<queue, waiting>>
             /\ failed \subseteq failed'
    BY <2>1, <2>2, <2>3, HolderStill DEF Excused
  <2>4. CASE /\ Head(tasks) \in waiting /\ waiting' = waiting \ {Head(tasks)}
             /\ do_async(Goto(w, "pop"), <<"finish", Head(tasks)>>) /\ UNCHANGED failed
    <3>1. <<"finish", Head(tasks)>> \in Handler
      BY <2>4 DEF TimerType, Handler
    <3> QED BY <1>p, <2>1, <2>2, <2>4, <3>1, HolderPush
  <2> QED BY <1>10, <2>3, <2>4 DEF Run
<1>11. ASSUME NEW w \in Thread, Pop(w) PROVE HolderInv'
  <2>1. \A v \in Thread : Hold(v)' = Hold(v)
    BY <1>11, <1>g DEF Pop, Is
  <2> QED BY <1>11, <1>s, <2>1 DEF Pop, timerVars
<1>12. ASSUME NEW w \in Thread, Execute(w) PROVE HolderInv'
  <2>0. /\ thread[w][1] = "execute" /\ state[thread[w][2]] = "scheduled"
        /\ UNCHANGED <<queue, waiting, scheduled, failed, stopped, shutdown>>
    BY <1>12 DEF Execute, Is, taskVars
  <2>1. PICK u \in Timer : Hold(w) = u /\ u = thread[w][2]
    BY <1>0, <2>0
  <2>2. \A t \in Timer \ {u} : state'[t] = state[t]
    BY <1>12, <2>1 DEF Execute, TimerType
  <2>3. CASE u \in stopped /\ thread' = Through(w)
    <3>1. Hold(w)' = NoTimer /\ \A v \in Thread \ {w} : Hold(v)' = Hold(v)
      BY <1>t, <2>0, <2>3
    <3>2. \A t \in Timer : Excused(t) => Excused(t)'
      BY <2>0, <2>1, <2>2, <2>3 DEF Excused
    <3> QED BY <2>0, <2>1, <2>3, <3>1, <3>2, HolderThread DEF Excused
  <2>4. CASE thread' = Goto(w, "handler")
    <3>1. \A v \in Thread : Hold(v)' = Hold(v)
      BY <1>g, <2>0, <2>4
    <3>2. \A t \in Timer : Excused(t) => Excused(t)'
      BY <2>0, <2>1, <2>2 DEF Excused
    <3> QED BY <2>0, <3>1, <3>2, HolderStill
  <2> QED BY <1>12, <2>1, <2>3, <2>4 DEF Execute
<1>13. ASSUME NEW w \in Thread, Finish(w) PROVE HolderInv'
  <2>0. /\ thread[w][1] = "finish" /\ failed \subseteq failed'
        /\ UNCHANGED <<queue, waiting, scheduled, stopped, shutdown>>
    BY <1>13 DEF Finish, Is, taskVars
  <2>1. PICK u \in Timer : Hold(w) = u /\ u = thread[w][2]
    BY <1>0, <2>0
  <2>2. \A t \in Timer \ {u} : state'[t] = state[t]
    BY <1>13, <2>1 DEF Finish, TimerType
  <2>3. \A t \in Timer \ {u} : Excused(t) => Excused(t)'
    BY <2>0, <2>2 DEF Excused
  <2>4. CASE thread' = Goto(w, "schedule")
    <3>1. \A v \in Thread : Hold(v)' = Hold(v)
      BY <1>g, <2>0, <2>4
    <3> QED BY <2>0, <2>1, <2>3, <3>1, HolderStill
  <2>5. CASE thread' = Through(w) /\ Excused(u)'
    <3>1. Hold(w)' = NoTimer /\ \A v \in Thread \ {w} : Hold(v)' = Hold(v)
      BY <1>t, <2>0, <2>5
    <3> QED BY <2>0, <2>1, <2>3, <2>5, <3>1, HolderThread
  <2>6. thread' = Goto(w, "schedule") \/ (thread' = Through(w) /\ Excused(u)')
    BY <1>13, <2>1 DEF Finish, Excused, TimerType
  <2> QED BY <2>4, <2>5, <2>6
<1>14. ASSUME NEW w \in Thread, Reschedule(w) PROVE HolderInv'
  <2>0. /\ thread[w][1] = "schedule" /\ thread' = Through(w)
        /\ UNCHANGED <<queue, waiting, state, failed, stopped, shutdown>>
    BY <1>14 DEF Reschedule, Is, taskVars
  <2>1. PICK u \in Timer : Hold(w) = u /\ u = thread[w][2]
    BY <1>0, <2>0
  <2>2. scheduled' = scheduled \cup {u}
    BY <1>14, <2>1 DEF Reschedule
  <2>3. Hold(w)' = NoTimer /\ \A v \in Thread \ {w} : Hold(v)' = Hold(v)
    BY <1>t, <2>0
  <2> QED BY <2>0, <2>1, <2>2, <2>3, HolderThread DEF Excused
<1>15. ASSUME NEW t \in Timer, StopTimer(t) PROVE HolderInv'
  <2>1. /\ UNCHANGED <<queue, thread, waiting, state, failed, shutdown>>
        /\ stopped' = stopped \cup {t} /\ scheduled' = scheduled \ {t}
    BY <1>15 DEF StopTimer, poolVars, taskVars
  <2>2. \A v \in Thread : Hold(v)' = Hold(v)
    BY <2>1 DEF Hold, Is
  <2>3. /\ \A u \in Timer : Excused(u) => Excused(u)'
        /\ \A u \in scheduled \ scheduled' : Excused(u)'
    BY <2>1 DEF Excused
  <2> QED BY <2>1, <2>2, <2>3, HolderStill
<1>16. CASE StopWaits \/ Shutdown \/ UNCHANGED vars
  <2>1. /\ UNCHANGED <<queue, thread, waiting, scheduled, state, failed, stopped>>
        /\ shutdown' = shutdown \/ shutdown' # "no"
    BY <1>16 DEF StopWaits, Shutdown, vars, poolVars, taskVars, timerVars
  <2>2. \A v \in Thread : Hold(v)' = Hold(v)
    BY <2>1 DEF Hold, Is
  <2> QED BY <1>s, <2>1, <2>2
<1> QED BY <1>1, <1>2, <1>3, <1>4, <1>5, <1>6, <1>7, <1>8, <1>9, <1>10, <1>11, <1>12, <1>13,
           <1>14, <1>15, <1>16
  DEF Next, Step

-----------------------------------------------------------------------------
LEMMA InitKernel == Init => TypeOK /\ RunnerInv /\ HolderInv
<1> SUFFICES ASSUME Init PROVE TypeOK /\ RunnerInv /\ HolderInv
  OBVIOUS
<1> USE DEF Init
<1>1. /\ \A w \in Thread : thread[w] = <<"none", NoTimer>>
      /\ MaxThreads \in Nat /\ NoTimer \notin Timer /\ MaxFree \in Nat
  BY ThreadFacts, KernelAssumption
<1>2. Started = {} /\ At({"locked", "waiting", "woken"}) = {}
  BY <1>1 DEF Started, At
<1>3. PoolType
  <2>1. Cardinality({}) = 0 /\ 1..0 = {}
    BY FS_EmptySet
  <2>2. thread \in [Thread -> Place]
    BY DEF Place, PoolPlace
  <2>3. Started = 1..Cardinality(Started)
    BY <1>2, <2>1
  <2>4. free = Cardinality(At({"locked", "waiting", "woken"})) /\ free <= MaxFree
    <3>1. Cardinality(At({"locked", "waiting", "woken"})) = 0
      BY <1>2, <2>1
    <3>2. free = 0
      OBVIOUS
    <3>3. free <= MaxFree
      BY <1>1, <3>2
    <3> QED BY <3>1, <3>2, <3>3
  <2>5. queue \in Seq(Handler) /\ joining \in (0..(MaxThreads + 1)) \X {"notify", "join"}
    BY <1>1
  <2> QED BY <2>2, <2>3, <2>4, <2>5 DEF PoolType
<1>4. TimerType
  BY DEF TimerType
<1>5. RunnerInv
  BY <1>1 DEF RunnerInv, Runs
<1>6. HolderInv
  <2>1. \A w \in Thread : Hold(w) = NoTimer
    BY <1>1 DEF Hold, Is
  <2> QED BY <1>1, <2>1 DEF HolderInv
<1> QED BY <1>3, <1>4, <1>5, <1>6 DEF TypeOK

LEMMA KernelInvariant == Spec => [](TypeOK /\ RunnerInv /\ HolderInv)
<1>1. TypeOK /\ RunnerInv /\ HolderInv /\ [Next]_vars => (TypeOK /\ RunnerInv /\ HolderInv)'
  BY NextPoolType, NextTimerType, NextRunnerInv, NextHolderInv DEF TypeOK
<1> QED BY InitKernel, <1>1, PTL DEF Spec

\* Type correctness: mt_service starts its threads one after the other, free_threads_
\* is the number of those that wait and stays within its limit, and the runner of an
\* apartment always finds a task.
THEOREM KernelTypeCorrect == Spec => []TypeOK
  BY KernelInvariant, PTL

\* At most one element, stated with Cardinality.
LEMMA AtMostOne ==
  ASSUME NEW S, IsFiniteSet(S), \A x, y \in S : x = y
  PROVE  Cardinality(S) = IF S = {} THEN 0 ELSE 1
<1>1. CASE S = {}
  BY <1>1, FS_EmptySet
<1>2. CASE S # {}
  <2>1. PICK x : S = {x}
    BY <1>2
  <2> QED BY <1>2, <2>1, FS_Singleton
<1> QED BY <1>1, <1>2

\* thread_apartment: between schedule() and the end of its runner there is one runner
\* while callbacks wait, in a thread or in the queue of mt_service, and none otherwise.
THEOREM ApartmentHasOneRunner == Spec => []OneRunner
<1>1. TypeOK /\ RunnerInv => OneRunner
  <2> SUFFICES ASSUME PoolType, RunnerInv PROVE OneRunner
    BY DEF TypeOK
  <2> DEFINE A == At({"start", "runner", "pop"})
             Q == Queued("runner")
  <2>1. A = {w \in Thread : Runs(w)} /\ Q = {i \in DOMAIN queue : queue[i][1] = "runner"}
    BY DEF At, Runs, Queued
  <2>2. IsFiniteSet(A)
    BY <2>1, ThreadFacts
  <2>3. IsFiniteSet(Q)
    <3>1. DOMAIN queue = 1..Len(queue) /\ Len(queue) \in Nat
      BY LenProperties DEF PoolType
    <3>2. IsFiniteSet(1..Len(queue)) /\ Q \in SUBSET (1..Len(queue))
      BY <2>1, <3>1, FS_Interval
    <3> QED BY <3>2, FS_Subset
  <2>4. Cardinality(A) = (IF A = {} THEN 0 ELSE 1) /\ Cardinality(Q) = IF Q = {} THEN 0 ELSE 1
    <3>1. (\A v, w \in A : v = w) /\ \A i, j \in Q : i = j
      BY <2>1 DEF RunnerInv
    <3> HIDE DEF A, Q
    <3> QED BY <2>2, <2>3, <3>1, AtMostOne
  <2>5. (A = {} \/ Q = {}) /\ (tasks # <<>> <=> A # {} \/ Q # {})
    BY <2>1 DEF RunnerInv
  <2> HIDE DEF A, Q
  <2>6. Cardinality(A) + Cardinality(Q) = IF tasks = <<>> THEN 0 ELSE 1
    BY <2>4, <2>5
  <2> QED BY <2>6 DEF OneRunner, A, Q
<1> QED BY <1>1, KernelInvariant, PTL

\* timer::execute and async_task: a timer is in the list of task_manager, in the queue
\* of mt_service, in one thread or in one future, never in two of them.
THEOREM TimerHasOneHolder == Spec => []OneHolder
<1>1. TypeOK /\ HolderInv => OneHolder
  <2> SUFFICES ASSUME PoolType, TimerType, HolderInv, NEW t \in Timer
               PROVE  \/ Cardinality(Holders(t)) = 1
                      \/ Holders(t) = {} /\ Excused(t)
    BY DEF TypeOK, OneHolder, Excused
  <2>1. NoTimer \notin Timer
    BY ThreadFacts
  <2>2. \A w \in Thread : Hold(w) = t <=> thread[w][2] = t /\ ~ Is(w, "get")
    BY <2>1 DEF Hold
  <2>3. \A h \in Holders(t) :
          \/ \E w \in Thread : Hold(w) = t /\ h = <<"thread", w>>
          \/ \E i \in DOMAIN queue : queue[i][2] = t /\ h = <<"queue", i>>
          \/ t \in scheduled /\ h = <<"list", t>>
          \/ t \in waiting /\ h = <<"future", t>>
    BY <2>2 DEF Holders
  <2>4. \A h, g \in Holders(t) : h = g
    BY <2>1, <2>3 DEF HolderInv
  <2>5. CASE Holders(t) = {}
    <3>1. (\A w \in Thread : Hold(w) # t) /\ (\A i \in DOMAIN queue : queue[i][2] # t)
      BY <2>2, <2>5 DEF Holders
    <3>2. t \notin scheduled \cup waiting
      BY <2>5 DEF Holders
    <3> QED BY <2>5, <3>1, <3>2 DEF HolderInv
  <2>6. CASE Holders(t) # {}
    <3>1. PICK h : Holders(t) = {h}
      BY <2>4, <2>6
    <3> QED BY <3>1, FS_Singleton
  <2> QED BY <2>5, <2>6
<1> QED BY <1>1, KernelInvariant, PTL
=============================================================================
