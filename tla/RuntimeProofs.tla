---------------------------- MODULE RuntimeProofs ----------------------------
(***************************************************************************)
(* Proofs about the runtime around DIC's page: its operations              *)
(* (BrowserRuntime), the session (DicSession), and building and closing it *)
(* (RuntimeLifecycle), for any calls, workers, queue, retries, breakers,   *)
(* administrators and restarts.                                            *)
(*                                                                         *)
(* BrowserRuntime: only the owner of the page lock is beyond its           *)
(* acquisition, and a call enters the queue once, when its caller leaves   *)
(* "new" or "putting", so that one worker at a time counts its attempts.   *)
(* Nothing is assumed of `putters` and `woken`: whoever is woken, and how  *)
(* often, a submitter that has put its call does not put it again.         *)
(* DicSession: whoever submits holds the runtime's lock and found its      *)
(* latch open; the latch closes before that lock is given up without an    *)
(* outcome, and a login whose caller is gone goes on behind the closed     *)
(* latch.                                                                  *)
(* RuntimeLifecycle: before a stage no more is held than its cleanup       *)
(* releases, and until the adapter has been closed its browser is open.    *)
(***************************************************************************)
EXTENDS BrowserRuntime, DicSession, RuntimeLifecycle, SubsequenceProofs, FiniteSetTheorems, SequenceTheorems, TLAPS

(* Operations on the page. *)
WorkerPc == {"idle", "locking", "guard", "running", "backoff", "exited"}
Busy == {"locking", "guard", "running", "backoff"}

RuntimeTypes ==
    /\ caller \in [Calls -> CallState]
    /\ queue \in Seq(Calls \cup {"stop"}) /\ Len(queue) <= QueueSize
    /\ closer.left \in Nat /\ closer = [pc |-> closer.pc, left |-> closer.left]
    /\ worker \in [Workers -> [pc : WorkerPc, call : Calls \cup {"none"}, attempt : 0..Attempts]]
    /\ breaker \in [Scopes -> [state : {"closed", "open", "half_open"}, failures : 0..Threshold,
                               inFlight : BOOLEAN, elapsed : BOOLEAN]]
    /\ runs \in [Calls -> Nat]

(* Who is on the page holds its lock. *)
LockInv == \A w \in OnPage : pageLock = w

(* The call a worker has taken is its own, and its attempts are counted. *)
AttemptsOf(w) ==
    LET c == worker[w].call
        n == worker[w].attempt
    IN
    /\ c \in Calls /\ caller[c] \in {"queued", "late", "cancelled"}
    /\ n >= 1 /\ (KindOf[c] # "read" => n = 1)
    /\ runs[c] = IF worker[w].pc = "running" THEN n ELSE n - 1

WorkerInv ==
    /\ \A w \in Workers : worker[w].pc \in Busy => AttemptsOf(w)
    /\ \A v, w \in Workers :
         worker[v].pc \in Busy /\ worker[w].pc \in Busy /\ worker[v].call = worker[w].call => v = w

(* A queued call is queued once and not started yet. *)
QueueInv ==
    /\ \A i \in 1..Len(queue) : queue[i] \in Calls =>
         /\ caller[queue[i]] \in {"queued", "late", "cancelled"} /\ runs[queue[i]] = 0
         /\ \A w \in Workers : worker[w].pc \in Busy => worker[w].call # queue[i]
    /\ \A i, j \in 1..Len(queue) : queue[i] \in Calls /\ queue[i] = queue[j] => i = j

NotStarted == \A c \in Calls : caller[c] \in {"new", "putting"} => runs[c] = 0

BrowserInv ==
    /\ RuntimeTypes /\ LockInv /\ WorkerInv /\ QueueInv /\ NotStarted
    /\ PageIsExclusive /\ ProbeOwned

(* The runtime alone, whichever calls are made. *)
BrowserSpec ==
    (\E expected \in SUBSET Calls : BrowserInit(expected)) /\ [][BrowserNext]_browserVars
-----------------------------------------------------------------------------
USE BrowserAssumption DEF WorkerPc, Busy

LEMMA InitBrowserInv ==
    ASSUME NEW expected \in SUBSET Calls, BrowserInit(expected)
    PROVE  BrowserInv
<1> USE DEF BrowserInit, Asleep
<1>1. Sentinels \in Nat
  BY FS_CardinalityType DEF Sentinels
<1>2. RuntimeTypes
  BY <1>1 DEF RuntimeTypes, CallState, NewBreaker
<1>3. LockInv /\ WorkerInv /\ QueueInv /\ NotStarted
  BY DEF LockInv, OnPage, WorkerInv, QueueInv, NotStarted
<1>4. PageIsExclusive /\ ProbeOwned
  BY DEF PageIsExclusive, OnPage, ProbeOwned, NewBreaker
<1> QED
  BY <1>2, <1>3, <1>4 DEF BrowserInv

(* Calls that join the queue, or callers that go away. *)
LEMMA CallerStep ==
    ASSUME BrowserInv, UNCHANGED pageVars,
           caller' \in [Calls -> CallState],
           \A c \in Calls :
             /\ caller[c] \in {"queued", "late", "cancelled"} =>
                  caller'[c] \in {"queued", "late", "cancelled"}
             /\ caller'[c] \in {"new", "putting"} => caller[c] \in {"new", "putting"},
           closer'.left \in Nat /\ closer' = [pc |-> closer'.pc, left |-> closer'.left],
           \/ UNCHANGED queue
           \/ /\ Len(queue) < QueueSize
              /\ \E c \in Calls :
                   /\ caller[c] \in {"new", "putting"} /\ caller'[c] \in {"queued", "late"}
                   /\ queue' = Append(queue, c)
           \/ \E n \in Nat : /\ n <= QueueSize - Len(queue)
                             /\ queue' = queue \o [i \in 1..n |-> "stop"]
    PROVE  BrowserInv'
<1> USE DEF BrowserInv
<1>1. UNCHANGED <<worker, pageLock, breaker, runs>>
  BY DEF pageVars
<1>2. LockInv' /\ PageIsExclusive' /\ ProbeOwned'
  BY <1>1 DEF LockInv, OnPage, PageIsExclusive, ProbeOwned
<1>3. WorkerInv' /\ NotStarted'
  BY <1>1 DEF WorkerInv, AttemptsOf, NotStarted, RuntimeTypes
<1>4. RuntimeTypes' /\ QueueInv'
  <2>1. queue \in Seq(Calls \cup {"stop"}) /\ Len(queue) <= QueueSize
    BY DEF RuntimeTypes
  <2>2. CASE UNCHANGED queue
    BY <1>1, <2>2 DEF RuntimeTypes, QueueInv
  <2>3. ASSUME NEW c \in Calls, caller[c] \in {"new", "putting"}, Len(queue) < QueueSize,
               caller'[c] \in {"queued", "late"}, queue' = Append(queue, c)
        PROVE  RuntimeTypes' /\ QueueInv'
    <3>1. queue' \in Seq(Calls \cup {"stop"}) /\ Len(queue') = Len(queue) + 1
          /\ (\A i \in 1..Len(queue) : queue'[i] = queue[i]) /\ queue'[Len(queue) + 1] = c
      BY <2>1, <2>3
    <3>2. runs[c] = 0 /\ (\A w \in Workers : worker[w].pc \in Busy => worker[w].call # c)
          /\ (\A i \in 1..Len(queue) : queue[i] # c)
      BY <2>3 DEF NotStarted, WorkerInv, AttemptsOf, QueueInv
    <3>3. RuntimeTypes'
      BY <1>1, <2>1, <2>3, <3>1 DEF RuntimeTypes
    <3>4. ASSUME NEW i \in 1..Len(queue'), queue'[i] \in Calls
          PROVE  /\ caller'[queue'[i]] \in {"queued", "late", "cancelled"} /\ runs'[queue'[i]] = 0
                 /\ \A w \in Workers : worker'[w].pc \in Busy => worker'[w].call # queue'[i]
      <4>1. CASE i = Len(queue) + 1
        BY <1>1, <2>3, <3>1, <3>2, <4>1
      <4>2. CASE i \in 1..Len(queue)
        BY <1>1, <3>1, <3>4, <4>2 DEF QueueInv
      <4> QED
        BY <2>1, <3>1, <4>1, <4>2
    <3>5. ASSUME NEW i \in 1..Len(queue'), NEW j \in 1..Len(queue'),
                 queue'[i] \in Calls, queue'[i] = queue'[j]
          PROVE  i = j
      <4>1. i \in 1..Len(queue) /\ j \in 1..Len(queue) => i = j
        BY <3>1, <3>5 DEF QueueInv
      <4> QED
        BY <2>1, <3>1, <3>2, <3>5, <4>1
    <3>6. QueueInv'
      BY <3>4, <3>5 DEF QueueInv
    <3> QED
      BY <3>3, <3>6
  <2>4. ASSUME NEW n \in Nat, n <= QueueSize - Len(queue),
               queue' = queue \o [i \in 1..n |-> "stop"]
        PROVE  RuntimeTypes' /\ QueueInv'
    <3>1. queue' \in Seq(Calls \cup {"stop"}) /\ Len(queue') = Len(queue) + n
          /\ (\A i \in 1..Len(queue) : queue'[i] = queue[i])
          /\ (\A i \in Len(queue) + 1 .. Len(queue) + n : queue'[i] = "stop")
      <4> DEFINE stops == [i \in 1..n |-> "stop"]
      <4>1. stops \in Seq(Calls \cup {"stop"}) /\ Len(stops) = n /\ \A i \in 1..n : stops[i] = "stop"
        OBVIOUS
      <4> HIDE DEF stops
      <4>2. queue' = queue \o stops
        BY <2>4 DEF stops
      <4>3. /\ queue \o stops \in Seq(Calls \cup {"stop"})
            /\ Len(queue \o stops) = Len(queue) + n
            /\ \A i \in 1..Len(queue) + n :
                 (queue \o stops)[i] = IF i <= Len(queue) THEN queue[i] ELSE stops[i - Len(queue)]
        <5> DEFINE S == Calls \cup {"stop"}
        <5>1. queue \in Seq(S) /\ stops \in Seq(S) /\ Len(stops) = n
          BY <2>1, <4>1
        <5> HIDE DEF S
        <5>2. /\ queue \o stops \in Seq(S)
              /\ Len(queue \o stops) = Len(queue) + Len(stops)
              /\ \A i \in 1..Len(queue) + Len(stops) :
                   (queue \o stops)[i] = IF i <= Len(queue) THEN queue[i] ELSE stops[i - Len(queue)]
          BY ONLY <5>1, ConcatProperties
        <5> QED
          BY <5>1, <5>2 DEF S
      <4> QED
        BY <2>1, <4>1, <4>2, <4>3
    <3>2. RuntimeTypes'
      BY <1>1, <2>1, <2>4, <3>1 DEF RuntimeTypes
    <3>3. \A i \in 1..Len(queue') : queue'[i] \in Calls => i \in 1..Len(queue)
      BY <2>1, <3>1
    <3>4. \A i \in 1..Len(queue) : queue'[i] = queue[i]
      BY <3>1
    <3>5. ASSUME NEW i \in 1..Len(queue'), queue'[i] \in Calls
          PROVE  /\ caller'[queue'[i]] \in {"queued", "late", "cancelled"} /\ runs'[queue'[i]] = 0
                 /\ \A w \in Workers : worker'[w].pc \in Busy => worker'[w].call # queue'[i]
      BY <1>1, <3>3, <3>4, <3>5 DEF QueueInv
    <3>6. ASSUME NEW i \in 1..Len(queue'), NEW j \in 1..Len(queue'),
                 queue'[i] \in Calls, queue'[i] = queue'[j]
          PROVE  i = j
      <4>1. i \in 1..Len(queue) /\ j \in 1..Len(queue)
        BY <3>3, <3>6
      <4>2. queue[i] \in Calls /\ queue[i] = queue[j]
        BY <3>4, <3>6, <4>1
      <4> QED
        BY <4>1, <4>2 DEF QueueInv
    <3>7. QueueInv'
      BY <3>5, <3>6 DEF QueueInv
    <3> QED
      BY <3>2, <3>7
  <2> QED
    BY <2>2, <2>3, <2>4
<1> QED
  BY <1>2, <1>3, <1>4

LEMMA PutSentinelsStep ==
    ASSUME BrowserInv, NEW resumed, PutSentinels(resumed)
    PROVE  /\ closer'.left \in Nat /\ closer' = [pc |-> closer'.pc, left |-> closer'.left]
           /\ \E n \in Nat : /\ n <= QueueSize - Len(queue)
                             /\ queue' = queue \o [i \in 1..n |-> "stop"]
<1> DEFINE n == IF QueueSize - Len(queue) < closer.left THEN QueueSize - Len(queue) ELSE closer.left
<1>1. Len(queue) \in Nat /\ Len(queue) <= QueueSize /\ closer.left \in Nat
  BY DEF BrowserInv, RuntimeTypes
<1>2. n \in Nat /\ n <= QueueSize - Len(queue) /\ closer.left - n \in Nat
  BY <1>1
<1>3. /\ queue' = queue \o [i \in 1..n |-> "stop"]
      /\ closer' = [pc |-> IF n = closer.left THEN "gathering" ELSE "putting", left |-> closer.left - n]
  BY DEF PutSentinels
<1> HIDE DEF n
<1> QED
  BY <1>2, <1>3

LEMMA LoopStep ==
    ASSUME BrowserInv,
           \/ ResumeCloser \/ Gather \/ Close
           \/ \E c \in Calls : Submit(c) \/ CancelCaller(c) \/ ResumePutter(c)
    PROVE  BrowserInv'
<1> USE DEF CallState
<1>1. /\ caller \in [Calls -> CallState] /\ closer.left \in Nat
      /\ closer = [pc |-> closer.pc, left |-> closer.left]
      /\ queue \in Seq(Calls \cup {"stop"}) /\ Len(queue) \in Nat
  BY DEF BrowserInv, RuntimeTypes
<1>2. CASE ResumeCloser
  BY <1>1, <1>2, PutSentinelsStep, CallerStep DEF ResumeCloser
<1>3. CASE Gather
  BY <1>1, <1>3, CallerStep DEF Gather
<1>4. CASE Close
  <2>1. CASE PutSentinels(woken)
    BY <1>1, <1>4, <2>1, PutSentinelsStep, CallerStep DEF Close
  <2>2. CASE UNCHANGED queue /\ closer'.left = closer.left /\ closer' = [pc |-> closer'.pc, left |-> closer'.left]
    BY <1>1, <1>4, <2>2, CallerStep DEF Close
  <2> QED
    BY <1>1, <1>4, <2>1, <2>2 DEF Close
<1>5. ASSUME NEW c \in Calls, Submit(c) PROVE BrowserInv'
  BY <1>1, <1>5, CallerStep DEF Submit, Enqueue, Full
<1>6. ASSUME NEW c \in Calls, CancelCaller(c) PROVE BrowserInv'
  BY <1>1, <1>6, CallerStep DEF CancelCaller
<1>7. ASSUME NEW c \in Calls, ResumePutter(c) PROVE BrowserInv'
  BY <1>1, <1>7, CallerStep DEF ResumePutter, Enqueue, Full
<1> QED
  BY <1>2, <1>3, <1>4, <1>5, <1>6, <1>7
-----------------------------------------------------------------------------
LEMMA TakeStep ==
    ASSUME BrowserInv, NEW w \in Workers, Take(w)
    PROVE  BrowserInv'
<1> USE DEF Take
<1> DEFINE c == Head(queue)
<1>1. /\ queue \in Seq(Calls \cup {"stop"}) /\ queue # <<>> /\ Len(queue) <= QueueSize
      /\ worker \in [Workers -> [pc : WorkerPc, call : Calls \cup {"none"}, attempt : 0..Attempts]]
      /\ caller \in [Calls -> CallState] /\ closer.left \in Nat
      /\ closer = [pc |-> closer.pc, left |-> closer.left]
  BY DEF BrowserInv, RuntimeTypes
<1>2. /\ queue' \in Seq(Calls \cup {"stop"}) /\ Len(queue') = Len(queue) - 1 /\ Len(queue) >= 1
      /\ c = queue[1] /\ \A i \in 1..Len(queue') : queue'[i] = queue[i + 1] /\ i + 1 \in 1..Len(queue)
  BY <1>1
<1>3. UNCHANGED <<caller, pageLock, breaker, runs>>
  OBVIOUS
<1>4. closer'.left \in Nat /\ closer' = [pc |-> closer'.pc, left |-> closer'.left]
  BY <1>1 DEF TaskDone
<1>5. \A i \in 1..Len(queue') : queue'[i] \in Calls => queue'[i] # c
  BY <1>2 DEF BrowserInv, QueueInv
<1>6. QueueInv /\ WorkerInv /\ NotStarted /\ RuntimeTypes
  BY DEF BrowserInv
<1> HIDE DEF c
<1>7. \A v \in Workers \ {w} : worker'[v] = worker[v]
  BY <1>1 DEF c
<1>8. worker'[w].pc \notin {"guard", "running", "backoff"}
  BY <1>1 DEF c
<1>9. LockInv' /\ PageIsExclusive' /\ ProbeOwned'
  <2>1. worker[w].pc = "idle"
    OBVIOUS
  <2>2. \A v \in Workers : worker'[v].pc \in {"guard", "running", "backoff"} => worker'[v] = worker[v]
    BY <1>7, <1>8
  <2>3. OnPage' \subseteq OnPage
    BY <2>2 DEF OnPage
  <2>4. LockInv' /\ PageIsExclusive'
    BY <1>3, <2>3 DEF BrowserInv, LockInv, PageIsExclusive
  <2>5. ProbeOwned'
    BY ONLY <1>3, <1>7, <2>1, BrowserInv DEF BrowserInv, ProbeOwned
  <2> QED
    BY <2>4, <2>5
<1>10. CASE c = "stop" \/ caller[c] = "cancelled"
  <2>1. worker' = [worker EXCEPT ![w].pc = IF c = "stop" THEN "exited" ELSE "idle"]
    BY <1>10 DEF c
  <2>2. worker'[w].pc \notin Busy
    BY ONLY <1>1, <2>1
  <2>3. worker' \in [Workers -> [pc : WorkerPc, call : Calls \cup {"none"}, attempt : 0..Attempts]]
    BY ONLY <1>1, <2>1
  <2>4. RuntimeTypes' /\ NotStarted'
    BY ONLY BrowserAssumption, <1>1, <1>2, <1>3, <1>4, <1>6, <2>3 DEF RuntimeTypes, NotStarted
  <2>5. \A v \in Workers : worker'[v].pc \in Busy => worker'[v] = worker[v]
    BY <1>7, <2>2
  <2>6. WorkerInv'
    BY ONLY <1>3, <1>6, <2>5 DEF WorkerInv, AttemptsOf
  <2>7. QueueInv'
    <3>1. ASSUME NEW i \in 1..Len(queue'), queue'[i] \in Calls
          PROVE  /\ caller'[queue'[i]] \in {"queued", "late", "cancelled"} /\ runs'[queue'[i]] = 0
                 /\ \A v \in Workers : worker'[v].pc \in Busy => worker'[v].call # queue'[i]
      <4>1. queue'[i] = queue[i + 1] /\ i + 1 \in 1..Len(queue) /\ queue[i + 1] \in Calls
        BY ONLY <1>2, <3>1
      <4>2. /\ caller[queue[i + 1]] \in {"queued", "late", "cancelled"} /\ runs[queue[i + 1]] = 0
            /\ \A v \in Workers : worker[v].pc \in Busy => worker[v].call # queue[i + 1]
        BY ONLY <1>6, <4>1 DEF QueueInv
      <4> QED
        BY ONLY <1>3, <2>5, <4>1, <4>2
    <3>2. ASSUME NEW i \in 1..Len(queue'), NEW j \in 1..Len(queue'),
                 queue'[i] \in Calls, queue'[i] = queue'[j]
          PROVE  i = j
      BY ONLY <1>2, <1>6, <3>2 DEF QueueInv
    <3> QED
      BY <3>1, <3>2 DEF QueueInv
  <2> QED
    BY <1>9, <2>4, <2>6, <2>7 DEF BrowserInv
<1>11. CASE ~(c = "stop" \/ caller[c] = "cancelled")
  <2>1. c \in Calls
    BY <1>1, <1>2, <1>11
  <2>2. worker' = [worker EXCEPT ![w] = [pc |-> "locking", call |-> c, attempt |-> 1]]
    BY <1>11 DEF c
  <2>3. /\ caller[c] \in {"queued", "late", "cancelled"} /\ runs[c] = 0
        /\ \A v \in Workers : worker[v].pc \in Busy => worker[v].call # c
    BY <1>2, <1>6, <2>1 DEF QueueInv
  <2>4. RuntimeTypes' /\ NotStarted'
    BY <1>2, <1>3, <1>4, <1>6, <2>1, <2>2 DEF RuntimeTypes, NotStarted
  <2>5. WorkerInv'
    BY <1>1, <1>3, <1>6, <2>1, <2>2, <2>3 DEF WorkerInv, AttemptsOf
  <2>6. QueueInv'
    <3>1. ASSUME NEW i \in 1..Len(queue'), queue'[i] \in Calls
          PROVE  /\ caller'[queue'[i]] \in {"queued", "late", "cancelled"} /\ runs'[queue'[i]] = 0
                 /\ \A v \in Workers : worker'[v].pc \in Busy => worker'[v].call # queue'[i]
      <4>1. /\ queue'[i] = queue[i + 1] /\ i + 1 \in 1..Len(queue) /\ queue[i + 1] \in Calls
            /\ queue'[i] # c
        BY <1>2, <1>5, <3>1
      <4>2. /\ caller[queue[i + 1]] \in {"queued", "late", "cancelled"} /\ runs[queue[i + 1]] = 0
            /\ \A v \in Workers : worker[v].pc \in Busy => worker[v].call # queue[i + 1]
        BY <1>6, <4>1 DEF QueueInv
      <4>3. worker'[w].call = c
        BY <1>1, <2>2
      <4> QED
        BY <1>3, <1>7, <4>1, <4>2, <4>3
    <3>2. ASSUME NEW i \in 1..Len(queue'), NEW j \in 1..Len(queue'),
                 queue'[i] \in Calls, queue'[i] = queue'[j]
          PROVE  i = j
      BY ONLY <1>2, <1>6, <3>2 DEF QueueInv
    <3> QED
      BY <3>1, <3>2 DEF QueueInv
  <2> QED
    BY <1>9, <2>4, <2>5, <2>6 DEF BrowserInv
<1> QED
  BY <1>10, <1>11
-----------------------------------------------------------------------------
WorkerState == [pc : WorkerPc, call : Calls \cup {"none"}, attempt : 0..Attempts]
BreakerState == [state : {"closed", "open", "half_open"}, failures : 0..Threshold,
                 inFlight : BOOLEAN, elapsed : BOOLEAN]

(* Nobody else is on the page while w holds or takes the lock. *)
LEMMA AloneOnPage ==
    ASSUME BrowserInv, NEW w \in Workers, w \in OnPage \/ pageLock = w \/ pageLock = "none"
    PROVE  OnPage \subseteq {w}
BY DEF BrowserInv, LockInv, OnPage

(* A step of w on the page, with its call, that counts its attempts. *)
Holds(w) ==
    LET c == worker[w].call
        n == worker'[w].attempt
    IN
    /\ worker[w].pc \in Busy /\ OnPage \subseteq {w}
    /\ UNCHANGED submitVars /\ pageLock' = w
    /\ worker' \in [Workers -> WorkerState]
    /\ \A v \in Workers \ {w} : worker'[v] = worker[v]
    /\ worker'[w].pc \in {"guard", "running", "backoff"} /\ worker'[w].call = c
    /\ n >= 1 /\ (n > 1 => KindOf[c] = "read")
    /\ runs' \in [Calls -> Nat] /\ \A d \in Calls \ {c} : runs'[d] = runs[d]
    /\ runs'[c] = IF worker'[w].pc = "running" THEN n ELSE n - 1

LEMMA HoldStep ==
    ASSUME BrowserInv, NEW w \in Workers, Holds(w),
           breaker' \in [Scopes -> BreakerState], ProbeOwned'
    PROVE  BrowserInv'
<1> USE DEF Holds
<1> DEFINE c == worker[w].call
           n == worker'[w].attempt
<1>1. RuntimeTypes /\ WorkerInv /\ QueueInv /\ NotStarted /\ PageIsExclusive
  BY DEF BrowserInv
<1>2. UNCHANGED <<caller, queue, putters, woken, unfinished, closer>>
  BY DEF submitVars
<1>3. c \in Calls /\ caller[c] \in {"queued", "late", "cancelled"} /\ n \in 1..Attempts
  BY <1>1 DEF WorkerInv, AttemptsOf, WorkerState
<1>4. OnPage' \subseteq {w} /\ LockInv'
  BY DEF OnPage, LockInv
<1>5. RuntimeTypes' /\ NotStarted'
  BY <1>1, <1>2, <1>3 DEF RuntimeTypes, WorkerState, BreakerState, NotStarted
<1>6. \A v \in Workers \ {w} : worker[v].pc \in Busy => worker[v].call # c
  BY <1>1 DEF WorkerInv
<1>7. WorkerInv'
  <2>1. AttemptsOf(w)'
    BY <1>1, <1>2, <1>3 DEF AttemptsOf, RuntimeTypes
  <2>2. ASSUME NEW v \in Workers \ {w}, worker'[v].pc \in Busy PROVE AttemptsOf(v)'
    BY <1>1, <1>2, <1>6, <2>2 DEF AttemptsOf, WorkerInv, RuntimeTypes
  <2> QED
    BY <1>1, <1>6, <2>1, <2>2 DEF WorkerInv
<1>8. \A i \in 1..Len(queue) : queue[i] \in Calls => queue[i] # c
  BY <1>1 DEF QueueInv
<1>9. QueueInv'
  <2>1. ASSUME NEW i \in 1..Len(queue), queue[i] \in Calls
        PROVE  /\ runs'[queue[i]] = 0
               /\ \A v \in Workers : worker'[v].pc \in Busy => worker'[v].call # queue[i]
    <3>1. runs'[queue[i]] = runs[queue[i]]
      BY <1>1, <1>3, <1>8, <2>1 DEF RuntimeTypes
    <3>2. runs[queue[i]] = 0 /\ \A v \in Workers : worker[v].pc \in Busy => worker[v].call # queue[i]
      BY <1>1, <2>1 DEF QueueInv
    <3>3. \A v \in Workers \ {w} : worker'[v] = worker[v]
      OBVIOUS
    <3>4. worker'[w].call = c /\ c # queue[i]
      BY <1>8, <2>1
    <3> QED
      BY ONLY <3>1, <3>2, <3>3, <3>4
  <2> QED
    BY <1>1, <1>2, <2>1 DEF QueueInv
<1>10. PageIsExclusive'
  <2>1. runs'[c] <= IF KindOf[c] = "read" THEN Attempts ELSE 1
    BY <1>1, <1>3 DEF RuntimeTypes
  <2>2. \A d \in Calls : runs'[d] <= IF KindOf[d] = "read" THEN Attempts ELSE 1
    BY <1>1, <2>1 DEF RuntimeTypes, PageIsExclusive
  <2> QED
    BY <1>4, <2>2 DEF PageIsExclusive
<1> QED
  BY <1>4, <1>5, <1>7, <1>9, <1>10 DEF BrowserInv

(* The call of w ends, with an answer or an exception. *)
LEMMA FinishStep ==
    ASSUME BrowserInv, NEW w \in Workers, worker[w].pc \in {"guard", "running"}, Finish(w),
           runs' = runs, breaker' \in [Scopes -> BreakerState], ProbeOwned'
    PROVE  BrowserInv'
<1> DEFINE c == worker[w].call
<1>1. RuntimeTypes /\ WorkerInv /\ QueueInv /\ NotStarted /\ PageIsExclusive
  BY DEF BrowserInv
<1>2. c \in Calls /\ caller[c] \in {"queued", "late", "cancelled"}
  BY <1>1 DEF WorkerInv, AttemptsOf
<1>3. /\ caller' = [caller EXCEPT ![c] = IF @ = "cancelled" THEN @ ELSE "answered"]
      /\ worker' = [worker EXCEPT ![w] = Asleep]
      /\ UNCHANGED queue
  BY DEF Finish
<1>4. closer'.left \in Nat /\ closer' = [pc |-> closer'.pc, left |-> closer'.left]
  BY <1>1 DEF Finish, TaskDone, RuntimeTypes
<1>5. /\ worker' \in [Workers -> WorkerState] /\ worker'[w].pc = "idle"
      /\ \A v \in Workers : worker'[v].pc \in Busy => v # w /\ worker'[v] = worker[v]
  BY <1>1, <1>3 DEF RuntimeTypes, WorkerState, Asleep
<1>6. OnPage \subseteq {w}
  BY AloneOnPage DEF OnPage
<1>7. OnPage' = {}
  BY <1>5, <1>6 DEF OnPage
<1>8. LockInv' /\ PageIsExclusive'
  BY <1>1, <1>7 DEF LockInv, PageIsExclusive
<1>9. RuntimeTypes' /\ NotStarted'
  BY <1>1, <1>2, <1>3, <1>4, <1>5 DEF RuntimeTypes, NotStarted, CallState, WorkerState, BreakerState
<1>10. \A v \in Workers \ {w} : worker[v].pc \in Busy => worker[v].call # c
  BY <1>1 DEF WorkerInv
<1>11. \A i \in 1..Len(queue) : queue[i] \in Calls => queue[i] # c
  BY <1>1 DEF QueueInv
<1>12. \A d \in Calls : d # c => caller'[d] = caller[d]
  BY <1>1, <1>3 DEF RuntimeTypes
<1> HIDE DEF c
<1>13. WorkerInv'
  <2>1. ASSUME NEW v \in Workers, worker'[v].pc \in Busy PROVE AttemptsOf(v)'
    BY <1>1, <1>5, <1>10, <1>12, <2>1 DEF AttemptsOf, WorkerInv
  <2> QED
    BY <1>1, <1>5, <2>1 DEF WorkerInv
<1>14. QueueInv'
  BY <1>1, <1>3, <1>5, <1>11, <1>12 DEF QueueInv
<1> QED
  BY <1>8, <1>9, <1>13, <1>14 DEF BrowserInv

LEMMA WorkStep ==
    ASSUME BrowserInv, NEW w \in Workers, Work(w)
    PROVE  BrowserInv'
<1> DEFINE c == worker[w].call
           s == ScopeOf[c]
<1>1. /\ worker \in [Workers -> WorkerState] /\ breaker \in [Scopes -> BreakerState]
      /\ runs \in [Calls -> Nat] /\ ProbeOwned
  BY DEF BrowserInv, RuntimeTypes, WorkerState, BreakerState
<1>2. worker[w].pc \in Busy =>
        /\ c \in Calls /\ s \in Scopes /\ worker[w].attempt \in 1..Attempts
        /\ worker[w].attempt > 1 => KindOf[c] = "read"
        /\ runs[c] = IF worker[w].pc = "running" THEN worker[w].attempt ELSE worker[w].attempt - 1
  BY <1>1 DEF BrowserInv, WorkerInv, AttemptsOf, WorkerState
<1>3. worker[w].pc \in {"guard", "running", "backoff"} => pageLock = w /\ OnPage \subseteq {w}
  BY AloneOnPage DEF BrowserInv, LockInv, OnPage
<1>4. CASE AcquireLock(w)
  <2>1. OnPage \subseteq {w}
    BY <1>4, AloneOnPage DEF AcquireLock, LockFree
  <2>2. ProbeOwned'
    BY <1>1, <1>4 DEF AcquireLock, ProbeOwned
  <2>3. Holds(w)
    BY <1>1, <1>2, <1>4, <2>1 DEF AcquireLock, Holds, WorkerState
  <2> QED
    BY <1>1, <1>4, <2>2, <2>3, HoldStep DEF AcquireLock
<1>5. CASE BackoffOver(w)
  <2>1. ProbeOwned'
    BY <1>1, <1>5 DEF BackoffOver, ProbeOwned
  <2>2. Holds(w)
    BY <1>1, <1>2, <1>3, <1>5 DEF BackoffOver, Holds, WorkerState
  <2> QED
    BY <1>1, <1>5, <2>1, <2>2, HoldStep DEF BackoffOver
<1>6. CASE StartOperation(w)
  <2>1. CASE /\ breaker' = [breaker EXCEPT ![s] = IF KindOf[c] = "reconcile" THEN breaker[s]
                                                  ELSE AfterBeforeCall(breaker[s])]
             /\ worker' = [worker EXCEPT ![w].pc = "running"]
             /\ runs' = [runs EXCEPT ![c] = @ + 1]
             /\ UNCHANGED <<submitVars, pageLock>>
    <3>1. worker[w].pc = "guard"
      BY <1>6 DEF StartOperation
    <3>2. breaker' \in [Scopes -> BreakerState]
      <4>1. breaker[s] \in BreakerState
        BY <1>1, <1>2, <3>1
      <4>2. AfterBeforeCall(breaker[s]) \in BreakerState
        BY ONLY <4>1 DEF AfterBeforeCall, BreakerState
      <4> QED
        BY ONLY <1>1, <2>1, <4>1, <4>2
    <3>3. \A t \in Scopes \ {s} : breaker'[t] = breaker[t]
      BY <1>1, <2>1
    <3>4. /\ worker' \in [Workers -> WorkerState] /\ worker'[w].pc = "running"
          /\ worker'[w].call = c /\ worker'[w].attempt = worker[w].attempt
          /\ \A v \in Workers \ {w} : worker'[v] = worker[v]
      BY <1>1, <2>1 DEF WorkerState
    <3>5. ProbeOwned'
      <4>1. ScopeOf[worker'[w].call] = s /\ worker'[w].pc = "running"
        BY <3>4
      <4>2. ASSUME NEW t \in Scopes, breaker'[t].inFlight, t # s
            PROVE  \E v \in Workers : worker'[v].pc = "running" /\ ScopeOf[worker'[v].call] = t
        <5>1. PICK v \in Workers : worker[v].pc = "running" /\ ScopeOf[worker[v].call] = t
          BY <1>1, <3>3, <4>2 DEF ProbeOwned
        <5> QED
          BY <3>1, <3>4, <5>1
      <4> QED
        BY <4>1, <4>2 DEF ProbeOwned
    <3>6. Holds(w)
      BY <1>1, <1>2, <1>3, <2>1, <3>1, <3>4 DEF Holds
    <3> QED
      BY <3>2, <3>5, <3>6, HoldStep
  <2>2. CASE Finish(w) /\ UNCHANGED <<breaker, runs>>
    <3>1. worker[w].pc = "guard"
      BY <1>6 DEF StartOperation
    <3>2. ProbeOwned'
      BY <1>1, <2>2, <3>1 DEF ProbeOwned, Finish
    <3> QED
      BY <1>1, <2>2, <3>1, <3>2, FinishStep
  <2> QED
    BY <1>6, <2>1, <2>2 DEF StartOperation
<1>7. ASSUME NEW outcome \in OperationResult, EndOperation(w, outcome) PROVE BrowserInv'
  <2>1. worker[w].pc = "running" /\ runs' = runs
        /\ breaker' = [breaker EXCEPT ![s] = Recorded(c, outcome, @)]
    BY <1>7 DEF EndOperation
  <2>2. Recorded(c, outcome, breaker[s]) \in BreakerState
        /\ ~Recorded(c, outcome, breaker[s]).inFlight
    <3> DEFINE b == breaker[s]
    <3>1. b \in BreakerState
      BY <1>1, <1>2, <2>1
    <3> HIDE DEF b
    <3>2. NewBreaker \in BreakerState /\ ~NewBreaker.inFlight
      BY DEF NewBreaker, BreakerState
    <3>3. Failed(b) \in BreakerState /\ ~Failed(b).inFlight
      <4> DEFINE n == IF b.failures < Threshold THEN b.failures + 1 ELSE Threshold
      <4>1. n \in 0..Threshold
        BY <3>1 DEF BreakerState
      <4>2. Failed(b) = IF b.state = "half_open" \/ n = Threshold
              THEN [state |-> "open", failures |-> n, inFlight |-> FALSE, elapsed |-> FALSE]
              ELSE [b EXCEPT !.failures = n, !.inFlight = FALSE]
        BY DEF Failed
      <4> HIDE DEF n
      <4>3. CASE b.state = "half_open" \/ n = Threshold
        BY ONLY <4>1, <4>2, <4>3 DEF BreakerState
      <4>4. CASE ~(b.state = "half_open" \/ n = Threshold)
        <5>1. Failed(b) = [b EXCEPT !.failures = n, !.inFlight = FALSE]
          BY <4>2, <4>4
        <5> QED
          BY ONLY <3>1, <4>1, <5>1 DEF BreakerState
      <4> QED
        BY <4>3, <4>4
    <3> QED
      BY <3>2, <3>3 DEF Recorded, b
  <2>3. /\ breaker' \in [Scopes -> BreakerState] /\ ~breaker'[s].inFlight
        /\ \A t \in Scopes \ {s} : breaker'[t] = breaker[t]
    BY <1>1, <1>2, <2>1, <2>2
  <2>4. \A v \in Workers \ {w} : worker'[v] = worker[v]
    BY <1>1, <1>7 DEF EndOperation, Finish
  <2>5. ProbeOwned'
    BY <1>1, <2>3, <2>4 DEF ProbeOwned
  <2>6. CASE Finish(w)
    BY <2>1, <2>3, <2>5, <2>6, FinishStep
  <2>7. CASE /\ Retryable(c, outcome) /\ worker[w].attempt < Attempts
             /\ worker' = [worker EXCEPT ![w].pc = "backoff", ![w].attempt = @ + 1]
             /\ UNCHANGED <<submitVars, pageLock>>
    <3>1. /\ worker' \in [Workers -> WorkerState] /\ worker'[w].pc = "backoff"
          /\ worker'[w].call = c /\ worker'[w].attempt = worker[w].attempt + 1
      BY <1>1, <1>2, <2>1, <2>7 DEF WorkerState
    <3>2. Holds(w)
      BY <1>1, <1>2, <1>3, <2>1, <2>4, <2>7, <3>1 DEF Holds, Retryable
    <3> QED
      BY <2>3, <2>5, <3>2, HoldStep
  <2> QED
    BY <1>7, <2>6, <2>7 DEF EndOperation
<1> QED
  BY <1>4, <1>5, <1>6, <1>7, TakeStep DEF Work

LEMMA RecoverStep ==
    ASSUME BrowserInv, NEW s \in Scopes, Recover(s)
    PROVE  BrowserInv'
<1> USE DEF Recover, BrowserInv
<1>1. UNCHANGED <<caller, queue, closer, worker, pageLock, runs>>
  BY DEF submitVars
<1>2. /\ breaker' \in [Scopes -> BreakerState]
      /\ \A t \in Scopes : breaker'[t].inFlight = breaker[t].inFlight
  <2>1. breaker \in [Scopes -> BreakerState] /\ breaker' = [breaker EXCEPT ![s].elapsed = TRUE]
    BY DEF RuntimeTypes, BreakerState
  <2>2. /\ [breaker[s] EXCEPT !.elapsed = TRUE] \in BreakerState
        /\ [breaker[s] EXCEPT !.elapsed = TRUE].inFlight = breaker[s].inFlight
    BY ONLY <2>1 DEF BreakerState
  <2> QED
    BY ONLY <2>1, <2>2
<1>3. RuntimeTypes' /\ ProbeOwned'
  BY <1>1, <1>2 DEF RuntimeTypes, BreakerState, ProbeOwned
<1> QED
  BY <1>1, <1>3 DEF LockInv, OnPage, WorkerInv, AttemptsOf, QueueInv, NotStarted, PageIsExclusive

LEMMA StepBrowserInv == BrowserInv /\ [BrowserNext]_browserVars => BrowserInv'
<1> SUFFICES ASSUME BrowserInv, [BrowserNext]_browserVars PROVE BrowserInv'
  OBVIOUS
<1>1. CASE UNCHANGED browserVars
  <2>1. UNCHANGED <<caller, queue, closer, worker, pageLock, breaker, runs>>
    BY <1>1 DEF browserVars
  <2> QED
    BY <2>1 DEF BrowserInv, RuntimeTypes, LockInv, OnPage, WorkerInv, AttemptsOf, QueueInv, NotStarted,
       PageIsExclusive, ProbeOwned
<1> QED
  BY ONLY BrowserInv, [BrowserNext]_browserVars, <1>1, LoopStep, WorkStep, RecoverStep
     DEF BrowserNext, Loop
-----------------------------------------------------------------------------
(* The invariant, for any calls, workers, queue and retries. *)
THEOREM BrowserInvariantHolds == BrowserSpec => []BrowserInv
<1>1. (\E expected \in SUBSET Calls : BrowserInit(expected)) => BrowserInv
  BY InitBrowserInv
<1> QED
  BY <1>1, StepBrowserInv, PTL DEF BrowserSpec

(* BrowserOperationQueue._run: one operation at a time on the page, a write
   started once, a read at most as often as the retry policy allows. *)
THEOREM OneOperationOnPage == BrowserSpec => []PageIsExclusive
BY BrowserInvariantHolds, PTL DEF BrowserInv

(* CircuitBreaker: the half-open probe is always owned by an operation that
   runs, so it is always given back. *)
THEOREM ProbeIsOwned == BrowserSpec => []ProbeOwned
BY BrowserInvariantHolds, PTL DEF BrowserInv
-----------------------------------------------------------------------------
(* The calls that were taken from the queue and not reported done. *)
UnderWay == {w \in Workers : worker[w].pc \in Busy}

CloserStates == [pc : {"open", "joining", "putting", "gathering", "closed"}, left : 0..Sentinels]

(* The queue's count, which close() joins on, is of what is queued or under way. *)
AccountInv ==
    /\ putters \in Seq(Calls \cup {"closer"}) /\ woken \in Seq(Calls \cup {"closer"})
    /\ closer \in CloserStates
    /\ pageLock \in Workers \cup {"none"}
    /\ unfinished = Len(queue) + Cardinality(UnderWay)

LEMMA Counts ==
    /\ Sentinels \in Nat
    /\ IsFiniteSet(UnderWay) /\ Cardinality(UnderWay) \in Nat
    /\ BrowserInv => Len(queue) \in Nat /\ queue \in Seq(Calls \cup {"stop"}) /\ QueueSize \in Nat
<1>1. UnderWay \in SUBSET Workers /\ IsFiniteSet(Workers)
  BY DEF UnderWay
<1>2. BrowserInv => Len(queue) \in Nat /\ queue \in Seq(Calls \cup {"stop"}) /\ QueueSize \in Nat
  BY DEF BrowserInv, RuntimeTypes
<1> QED
  BY <1>1, <1>2, FS_Subset, FS_CardinalityType DEF Sentinels

LEMMA InitAccountInv ==
    ASSUME NEW expected \in SUBSET Calls, BrowserInit(expected)
    PROVE  AccountInv
<1> USE DEF BrowserInit, Asleep
<1>1. UnderWay = {}
  BY DEF UnderWay, Busy
<1>2. Cardinality(UnderWay) = 0
  BY <1>1, FS_EmptySet
<1>3. Sentinels \in Nat
  BY Counts
<1>4. closer \in CloserStates
  BY <1>3 DEF CloserStates
<1> QED
  BY <1>2, <1>4 DEF AccountInv

LEMMA PutSentinelsAccounts ==
    ASSUME BrowserInv, AccountInv, NEW resumed \in Seq(Calls \cup {"closer"}), PutSentinels(resumed),
           UNCHANGED pageVars
    PROVE  AccountInv'
<1> DEFINE n == IF QueueSize - Len(queue) < closer.left THEN QueueSize - Len(queue) ELSE closer.left
           stops == [i \in 1..n |-> "stop"]
<1>1. /\ Len(queue) \in Nat /\ Len(queue) <= QueueSize /\ closer.left \in 0..Sentinels
      /\ queue \in Seq(Calls \cup {"stop"}) /\ Sentinels \in Nat
  BY Counts DEF BrowserInv, RuntimeTypes, AccountInv, CloserStates
<1>2. n \in Nat /\ closer.left - n \in 0..Sentinels
  BY <1>1
<1>3. /\ queue' = queue \o stops /\ woken' = resumed /\ unfinished' = unfinished + n
      /\ closer' = [pc |-> IF n = closer.left THEN "gathering" ELSE "putting", left |-> closer.left - n]
      /\ putters' = IF n = closer.left THEN putters ELSE Append(putters, "closer")
  BY DEF PutSentinels
<1>4. stops \in Seq(Calls \cup {"stop"}) /\ Len(stops) = n
  BY <1>2
<1> HIDE DEF n, stops
<1>5. Len(queue') = Len(queue) + n
  BY <1>1, <1>3, <1>4, ConcatProperties
<1>6. UnderWay' = UnderWay /\ pageLock' = pageLock
  BY DEF pageVars, UnderWay
<1>7. closer' \in CloserStates
  BY <1>2, <1>3 DEF CloserStates
<1>8. putters' \in Seq(Calls \cup {"closer"})
  BY <1>3 DEF AccountInv
<1> QED
  BY <1>1, <1>2, <1>3, <1>5, <1>6, <1>7, <1>8, Counts DEF AccountInv

(* Submitters come, wait, are woken and go; close() waits and gathers. *)
LEMMA LoopAccounts ==
    ASSUME BrowserInv, AccountInv,
           \/ ResumeCloser \/ Gather \/ Close
           \/ \E c \in Calls : Submit(c) \/ CancelCaller(c) \/ ResumePutter(c)
    PROVE  AccountInv'
<1> DEFINE Tasks == Calls \cup {"closer"}
<1>1. /\ putters \in Seq(Tasks) /\ woken \in Seq(Tasks) /\ closer \in CloserStates
      /\ pageLock \in Workers \cup {"none"} /\ unfinished = Len(queue) + Cardinality(UnderWay)
      /\ queue \in Seq(Calls \cup {"stop"}) /\ Len(queue) \in Nat /\ Cardinality(UnderWay) \in Nat
  BY Counts DEF AccountInv
<1>2. /\ woken # <<>> => Tail(woken) \in Seq(Tasks) /\ Head(woken) \in Tasks
      /\ putters # <<>> => Tail(putters) \in Seq(Tasks) /\ Head(putters) \in Tasks
  BY <1>1
<1>3. /\ UNCHANGED pageVars => UnderWay' = UnderWay /\ pageLock' = pageLock
  BY DEF pageVars, UnderWay
<1>4. CASE ResumeCloser
  BY <1>2, <1>4, PutSentinelsAccounts DEF ResumeCloser
<1>5. ASSUME NEW pc \in {"open", "joining", "putting", "gathering", "closed"}
      PROVE  [closer EXCEPT !.pc = pc] \in CloserStates
  BY <1>1 DEF CloserStates
<1>6. CASE Gather
  BY <1>1, <1>3, <1>5, <1>6 DEF Gather, AccountInv
<1>7. CASE Close
  <2>1. CASE PutSentinels(woken)
    BY <1>1, <1>7, <2>1, PutSentinelsAccounts DEF Close
  <2>2. CASE /\ \E pc \in {"closed", "joining"} : closer' = [closer EXCEPT !.pc = pc]
             /\ UNCHANGED <<queue, putters, woken, unfinished>>
    BY <1>1, <1>3, <1>5, <1>7, <2>2 DEF Close, AccountInv
  <2> QED
    BY <1>7, <2>1, <2>2 DEF Close
<1>8. ASSUME NEW c \in Calls
      PROVE  /\ Append(putters, c) \in Seq(Tasks)
             /\ Len(Append(queue, c)) = Len(queue) + 1
  BY <1>1
<1>9. ASSUME NEW c \in Calls, Submit(c) PROVE AccountInv'
  <2>1. UNCHANGED <<woken, closer, pageVars>>
    BY <1>9 DEF Submit
  <2>2. CASE UNCHANGED <<queue, putters, unfinished>>
    BY <1>1, <1>3, <2>1, <2>2 DEF AccountInv
  <2>3. CASE Enqueue(c) /\ UNCHANGED putters
    BY <1>1, <1>3, <1>8, <2>1, <2>3 DEF Enqueue, AccountInv
  <2>4. CASE putters' = Append(putters, c) /\ UNCHANGED <<queue, unfinished>>
    BY <1>1, <1>3, <1>8, <2>1, <2>4 DEF AccountInv
  <2> QED
    BY <1>9, <2>2, <2>3, <2>4 DEF Submit
<1>10. ASSUME NEW c \in Calls, CancelCaller(c) PROVE AccountInv'
  <2> DEFINE staying == {i \in DOMAIN putters : putters[i] # c}
  <2>1. staying \in SUBSET DOMAIN putters
    OBVIOUS
  <2>2. putters' = Kept(putters, staying)
    BY <1>10 DEF CancelCaller
  <2> HIDE DEF staying
  <2>3. Kept(putters, staying) \in Seq(Tasks)
    BY <1>1, <2>1, KeptElements
  <2> QED
    BY <1>1, <1>3, <1>10, <2>2, <2>3 DEF CancelCaller, AccountInv
<1>11. ASSUME NEW c \in Calls, ResumePutter(c) PROVE AccountInv'
  <2>1. UNCHANGED <<closer, pageVars>> /\ woken # <<>>
    BY <1>11 DEF ResumePutter
  <2>2. CASE Enqueue(c) /\ woken' = Tail(woken) /\ UNCHANGED putters
    BY <1>1, <1>2, <1>3, <1>8, <2>1, <2>2 DEF Enqueue, AccountInv
  <2>3. CASE putters' = Append(putters, c) /\ woken' = Tail(woken) /\ UNCHANGED <<queue, unfinished>>
    BY <1>1, <1>2, <1>3, <1>8, <2>1, <2>3 DEF AccountInv
  <2>4. CASE woken' = Tail(woken) /\ UNCHANGED putters /\ UNCHANGED <<queue, unfinished>>
    BY <1>1, <1>2, <1>3, <2>1, <2>4 DEF AccountInv
  <2>5. CASE WakePutter(Tail(woken)) /\ UNCHANGED <<queue, unfinished>>
    <3>1. Tail(woken) \in Seq(Tasks)
      BY <1>2, <2>1
    <3>2. putters' \in Seq(Tasks) /\ woken' \in Seq(Tasks)
      <4>1. CASE putters = <<>>
        BY <1>1, <2>5, <3>1, <4>1 DEF WakePutter
      <4>2. CASE putters # <<>>
        <5>1. Append(Tail(woken), Head(putters)) \in Seq(Tasks)
          BY <1>2, <3>1, <4>2
        <5> QED
          BY <1>2, <2>5, <4>2, <5>1 DEF WakePutter
      <4> QED
        BY <4>1, <4>2
    <3> QED
      BY <1>1, <1>3, <2>1, <2>5, <3>2 DEF AccountInv
  <2> QED
    BY <1>11, <2>2, <2>3, <2>4, <2>5 DEF ResumePutter
<1> QED
  BY <1>4, <1>6, <1>7, <1>9, <1>10, <1>11

(* task_done, of a call or sentinel that has left the queue or its worker. *)
LEMMA TaskDoneTyped ==
    ASSUME AccountInv, NEW resumed \in Seq(Calls \cup {"closer"}), TaskDone(resumed)
    PROVE  closer' \in CloserStates /\ woken' \in Seq(Calls \cup {"closer"}) /\ unfinished' = unfinished - 1
<1>1. closer \in CloserStates
  BY DEF AccountInv
<1>2. [closer EXCEPT !.pc = "putting"] \in CloserStates
  BY <1>1 DEF CloserStates
<1>3. Append(resumed, "closer") \in Seq(Calls \cup {"closer"})
  OBVIOUS
<1> QED
  BY ONLY <1>1, <1>2, <1>3, TaskDone(resumed) DEF TaskDone

LEMMA WorkAccounts ==
    ASSUME BrowserInv, AccountInv, NEW w \in Workers, Work(w)
    PROVE  AccountInv'
<1> DEFINE Tasks == Calls \cup {"closer"}
<1>1. /\ putters \in Seq(Tasks) /\ woken \in Seq(Tasks) /\ closer \in CloserStates
      /\ pageLock \in Workers \cup {"none"} /\ unfinished = Len(queue) + Cardinality(UnderWay)
      /\ queue \in Seq(Calls \cup {"stop"}) /\ Len(queue) \in Nat /\ Cardinality(UnderWay) \in Nat
      /\ worker \in [Workers -> WorkerState] /\ IsFiniteSet(UnderWay)
  BY Counts DEF AccountInv, BrowserInv, RuntimeTypes, WorkerState
<1>2. putters # <<>> =>
        /\ Tail(putters) \in Seq(Tasks) /\ Head(putters) \in Tasks
        /\ Append(woken, Head(putters)) \in Seq(Tasks)
  BY <1>1
<1>3. CASE Take(w)
  <2> DEFINE c == Head(queue)
  <2>1. worker[w].pc = "idle" /\ queue # <<>> /\ queue' = Tail(queue) /\ pageLock' = pageLock
    BY <1>3 DEF Take
  <2>2. Len(queue') = Len(queue) - 1
    BY <1>1, <2>1
  <2>3. w \notin UnderWay
    BY <2>1 DEF UnderWay, Busy
  <2>4. CASE c = "stop" \/ caller[c] = "cancelled"
    <3>1. worker' = [worker EXCEPT ![w].pc = IF c = "stop" THEN "exited" ELSE "idle"]
      BY <1>3, <2>4 DEF Take
    <3>2. worker'[w].pc \notin Busy /\ \A v \in Workers \ {w} : worker'[v] = worker[v]
      BY <1>1, <3>1 DEF Busy
    <3>3. UnderWay' = UnderWay
      BY <2>3, <3>2 DEF UnderWay
    <3>4. /\ putters' = IF putters = <<>> THEN putters ELSE Tail(putters)
          /\ TaskDone(IF putters = <<>> THEN woken ELSE Append(woken, Head(putters)))
      BY <1>3, <2>4 DEF Take
    <3>5. closer' \in CloserStates /\ woken' \in Seq(Tasks) /\ unfinished' = unfinished - 1
      BY <1>1, <1>2, <3>4, TaskDoneTyped
    <3> HIDE DEF c
    <3> QED
      BY <1>1, <1>2, <2>1, <2>2, <3>3, <3>4, <3>5 DEF AccountInv
  <2>5. CASE ~(c = "stop" \/ caller[c] = "cancelled")
    <3>1. worker' = [worker EXCEPT ![w] = [pc |-> "locking", call |-> c, attempt |-> 1]]
      BY <1>3, <2>5 DEF Take
    <3>2. UnderWay' = UnderWay \cup {w}
      BY <1>1, <3>1 DEF UnderWay, Busy
    <3>3. Cardinality(UnderWay') = Cardinality(UnderWay) + 1
      BY <1>1, <2>3, <3>2, FS_AddElement
    <3>4. WakePutter(woken) /\ UNCHANGED <<unfinished, closer>>
      BY <1>3, <2>5 DEF Take
    <3>5. putters' \in Seq(Tasks) /\ woken' \in Seq(Tasks)
      BY <1>1, <1>2, <3>4 DEF WakePutter
    <3> QED
      BY <1>1, <2>1, <2>2, <3>3, <3>4, <3>5 DEF AccountInv
  <2> QED
    BY <2>4, <2>5
<1>4. ASSUME worker[w].pc \in Busy, worker'[w].pc \in Busy, UNCHANGED submitVars,
             \A v \in Workers \ {w} : worker'[v] = worker[v], pageLock' \in {w, pageLock}
      PROVE  AccountInv'
  <2>1. UnderWay' = UnderWay
    BY <1>4 DEF UnderWay
  <2> QED
    BY <1>1, <1>4, <2>1 DEF AccountInv, submitVars
<1>5. ASSUME worker[w].pc \in Busy, Finish(w) PROVE AccountInv'
  <2>1. /\ worker' = [worker EXCEPT ![w] = Asleep] /\ ReleaseLock /\ TaskDone(woken)
        /\ UNCHANGED <<queue, putters>>
    BY <1>5 DEF Finish
  <2>2. UnderWay' = UnderWay \ {w} /\ w \in UnderWay
    BY <1>1, <1>5, <2>1 DEF UnderWay, Asleep, Busy
  <2>3. Cardinality(UnderWay') = Cardinality(UnderWay) - 1
    BY <1>1, <2>2, FS_RemoveElement
  <2>4. pageLock' \in Workers \cup {"none"}
    BY <2>1 DEF ReleaseLock, Waiting
  <2>5. closer' \in CloserStates /\ woken' \in Seq(Tasks) /\ unfinished' = unfinished - 1
    BY <1>1, <2>1, TaskDoneTyped
  <2> QED
    BY <1>1, <2>1, <2>3, <2>4, <2>5 DEF AccountInv
<1>6. CASE AcquireLock(w)
  BY <1>1, <1>4, <1>6 DEF AcquireLock, Busy
<1>7. CASE BackoffOver(w)
  BY <1>1, <1>4, <1>7 DEF BackoffOver, Busy
<1>8. CASE StartOperation(w)
  <2>1. worker[w].pc = "guard"
    BY <1>8 DEF StartOperation
  <2>2. CASE worker' = [worker EXCEPT ![w].pc = "running"] /\ UNCHANGED <<submitVars, pageLock>>
    BY <1>1, <1>4, <2>1, <2>2 DEF Busy
  <2> QED
    BY <1>5, <1>8, <2>1, <2>2 DEF StartOperation, Busy
<1>9. ASSUME NEW outcome \in OperationResult, EndOperation(w, outcome) PROVE AccountInv'
  <2>1. worker[w].pc = "running"
    BY <1>9 DEF EndOperation
  <2>2. CASE /\ worker' = [worker EXCEPT ![w].pc = "backoff", ![w].attempt = @ + 1]
             /\ UNCHANGED <<submitVars, pageLock>>
    <3>1. worker'[w].pc = "backoff" /\ \A v \in Workers \ {w} : worker'[v] = worker[v]
      BY <1>1, <2>2 DEF WorkerState
    <3> QED
      BY <1>4, <2>1, <2>2, <3>1 DEF Busy
  <2> QED
    BY <1>5, <1>9, <2>1, <2>2 DEF EndOperation, Busy
<1> QED
  BY <1>3, <1>6, <1>7, <1>8, <1>9 DEF Work

LEMMA NextAccountInv == BrowserInv /\ AccountInv /\ [BrowserNext]_browserVars => AccountInv'
<1> SUFFICES ASSUME BrowserInv, AccountInv, [BrowserNext]_browserVars PROVE AccountInv'
  OBVIOUS
<1>1. CASE UNCHANGED browserVars
  BY <1>1 DEF browserVars, AccountInv, UnderWay
<1>2. ASSUME NEW s \in Scopes, Recover(s) PROVE AccountInv'
  BY <1>2 DEF Recover, submitVars, AccountInv, UnderWay
<1> QED
  BY ONLY BrowserInv, AccountInv, [BrowserNext]_browserVars, <1>1, <1>2, LoopAccounts, WorkAccounts
     DEF BrowserNext, Loop

LEMMA BrowserTyped == BrowserInv /\ AccountInv => BrowserTypeOK
<1> SUFFICES ASSUME BrowserInv, AccountInv PROVE BrowserTypeOK
  OBVIOUS
<1>1. unfinished \in Nat
  BY Counts DEF AccountInv
<1> QED
  BY <1>1 DEF BrowserInv, RuntimeTypes, WorkerPc, AccountInv, CloserStates, Sentinels, BrowserTypeOK

(* asyncio.Queue.join, on which close() waits: its count is of the calls and
   sentinels that are queued or that a worker has taken and not reported done. *)
THEOREM JoinCountsWhatIsLeft == BrowserSpec => [](unfinished = Len(queue) + Cardinality(UnderWay))
<1> DEFINE Inv == BrowserInv /\ AccountInv
<1>1. (\E expected \in SUBSET Calls : BrowserInit(expected)) => Inv
  BY InitBrowserInv, InitAccountInv
<1>2. Inv /\ [BrowserNext]_browserVars => Inv'
  BY StepBrowserInv, NextAccountInv
<1>3. Inv => unfinished = Len(queue) + Cardinality(UnderWay)
  BY DEF AccountInv
<1> HIDE DEF Inv
<1> QED
  BY <1>1, <1>2, <1>3, PTL DEF BrowserSpec
-----------------------------------------------------------------------------
HIDE BrowserAssumption DEF WorkerPc, Busy

(* The page is a record throughout. *)
LoginPcs ==
    {"open", "entered", "dicEmail", "dicSubmit", "entry", "entry2", "entry3", "email",
     "emailSubmit", "emailSent", "bind", "control", "fill", "submitControl", "submit", "complete"}
ProbePcs == {"reset", "probe", "attest"}

SessionPage == [kind : {"none", "status", "login"}, pc : {"idle"} \cup LoginPcs \cup ProbePcs,
         owner : Requests \cup {"none"},
         otherwise : {"none", "entry", "entry2", "entry3", "unknown"},
         seen : Tenants \cup {"none"}, fresh : BOOLEAN]

InStatus == {"firstHealth", "health", "confirm", "ensure"}
Guarded == {"health", "confirm", "ensure", "login", "persist"}
Latched == {"ensure", "login", "persist"}

(* Beyond the first look every reconnect holds the runtime's lock, and from
   the decision to log in on it relies on the latch being open. *)
EntranceInv ==
    \A r \in Requests :
        /\ request[r] \in Guarded => runtimeLock = r
        /\ request[r] \in Latched => ~runtimeLatch

(* An operation works for the request that waits for it; a login nobody
   waits for any more runs behind the closed latch. *)
OwnerInv ==
    /\ page.kind = "none" => page.pc = "idle" /\ page.owner = "none"
    /\ page.kind = "status" =>
         /\ page.pc \in ProbePcs /\ page.otherwise = "none"
         /\ page.owner # "none" => request[page.owner] \in InStatus
    /\ page.kind = "login" =>
         /\ page.pc \in LoginPcs \cup ProbePcs
         /\ page.pc \in ProbePcs => page.otherwise # "none"
         /\ page.owner # "none" => request[page.owner] = "login"
         /\ page.owner = "none" => runtimeLatch

(* Before its submission a login has seen DIC without a session, and nothing
   submitted earlier is open. *)
LoginInv ==
    /\ \A r \in Requests :
         request[r] = "login" /\ page.kind # "login" => web = "out" /\ ~unresolved
    /\ page.kind = "login" /\ ~Submitted => web = "out" /\ ~unresolved

(* A submission whose outcome nothing has shown keeps the next one away. *)
UnresolvedInv ==
    unresolved => \/ runtimeLatch
                  \/ page.kind = "login"
                  \/ \E r \in Requests : request[r] = "persist"

(* The identity provider opens a session where there is none, and not behind
   a page that has already shown one. *)
AcceptInv ==
    /\ accepting => unresolved /\ web = "out"
    /\ page.pc = "attest" /\ page.seen = "expected" => ~accepting /\ web # "other"
    /\ \A r \in Requests : request[r] = "persist" => ~accepting /\ web # "other"

FreshInv ==
    /\ page.fresh = TRUE
    /\ page.pc = "probe" => late = "none"

SessionInv ==
    /\ SessionTypeOK /\ page \in SessionPage
    /\ EntranceInv /\ OwnerInv /\ LoginInv /\ UnresolvedInv /\ AcceptInv /\ FreshInv
    /\ NeverSubmittedBlindly /\ OnlyVerifiedSessions /\ SecretOnTrustedForm

(* The guards of the session alone, whoever is expected to come. *)
SessionSpec ==
    (\E expected \in SUBSET Requests : SessionInit(expected)) /\ [][SessionNext]_sessionVars
-----------------------------------------------------------------------------
USE SessionAssumption DEF Requests

LEMMA InitSessionInv ==
    ASSUME NEW expected \in SUBSET Requests, SessionInit(expected)
    PROVE  SessionInv
<1> USE DEF SessionInit, NoOperation, Tenants
<1>1. SessionTypeOK
  <2>1. request \in [Requests -> {"new", "ended"}] /\ page = NoOperation
    OBVIOUS
  <2>2. {appLatch, runtimeLatch, accepting, unresolved, blind} \subseteq BOOLEAN
    OBVIOUS
  <2> QED
    BY <2>1, <2>2 DEF SessionTypeOK
<1>2. page \in SessionPage
  BY DEF SessionPage
<1>3. EntranceInv /\ LoginInv
  BY DEF EntranceInv, LoginInv, Guarded, Latched
<1>4. OwnerInv /\ UnresolvedInv /\ AcceptInv /\ FreshInv
  BY DEF OwnerInv, UnresolvedInv, AcceptInv, FreshInv
<1>5. NeverSubmittedBlindly /\ OnlyVerifiedSessions /\ SecretOnTrustedForm
  BY DEF NeverSubmittedBlindly, OnlyVerifiedSessions, SecretOnTrustedForm
<1> QED
  BY <1>1, <1>2, <1>3, <1>4, <1>5 DEF SessionInv

RequestPcs == {"new", "firstHealth", "lock", "health", "confirm", "ensure", "login", "persist", "ended"}

GuardTypes ==
    /\ request \in [Requests -> RequestPcs]
    /\ {appLock, runtimeLock} \subseteq Requests \cup {"none"}
    /\ {appLatch, runtimeLatch} \subseteq BOOLEAN

(* What the guards keep when one request moves on. *)
SessionMoves(r) ==
    /\ GuardTypes' /\ EntranceInv'
    /\ \A q \in Requests \ {r} : request'[q] = request[q]
    /\ runtimeLatch => runtimeLatch'

LEMMA GoToMoves ==
    ASSUME SessionInv, NEW r \in Requests, NEW pc \in RequestPcs, GoTo(r, pc),
           pc \in Guarded => request[r] \in Guarded,
           pc \in Latched => ~runtimeLatch
    PROVE  SessionMoves(r) /\ request'[r] = pc /\ runtimeLatch' = runtimeLatch
BY DEF SessionInv, SessionTypeOK, GoTo, SessionMoves, GuardTypes, RequestPcs, EntranceInv, Guarded, Latched

Outcomes == {"authenticated", "unknown", "failed", "cancelled"}

LEMMA LeaveMoves ==
    ASSUME SessionInv, NEW r \in Requests, NEW outcome \in Outcomes, NEW told \in Outcomes,
           LeaveRuntime(r, outcome), LeaveCoordinator(r, told),
           outcome = "unknown" => request[r] \in Guarded
    PROVE  SessionMoves(r) /\ request'[r] = "ended" /\ (outcome = "unknown" => runtimeLatch')
BY DEF SessionInv, SessionTypeOK, LeaveRuntime, LeaveCoordinator, Latches, SessionMoves, GuardTypes,
   RequestPcs, EntranceInv, Guarded, Latched, Outcomes

LEMMA StatusMoves ==
    ASSUME SessionInv, NEW r \in Requests, request[r] \in InStatus,
           NEW result \in {"yes", "no", "error"}, AfterStatus(r, result)
    PROVE  /\ SessionMoves(r)
           /\ request'[r] \in {"ended", "lock", "confirm", "ensure", "persist", "login"}
           /\ request'[r] = "persist" => result = "yes"
           /\ request'[r] = "login" => result = "no" /\ request[r] = "ensure"
<1> DEFINE Goal ==
        /\ SessionMoves(r)
        /\ request'[r] \in {"ended", "lock", "confirm", "ensure", "persist", "login"}
        /\ request'[r] = "persist" => result = "yes"
        /\ request'[r] = "login" => result = "no" /\ request[r] = "ensure"
<1> SUFFICES Goal
  OBVIOUS
<1>1. (Leave(r, "authenticated") => Goal) /\ (Leave(r, "failed") => Goal)
  BY LeaveMoves DEF Leave, Outcomes
<1>2. CASE request[r] = "firstHealth"
  <2>1. GoTo(r, "lock") => Goal
    BY GoToMoves DEF RequestPcs, Guarded, Latched
  <2> HIDE DEF Goal
  <2> QED
    BY <1>1, <1>2, <2>1 DEF AfterStatus, AfterFirstHealth
<1>3. CASE request[r] = "health"
  <2>1. GoTo(r, "confirm") => Goal
    BY <1>3, GoToMoves DEF RequestPcs, Guarded, Latched
  <2>2. ~runtimeLatch /\ GoTo(r, "ensure") => Goal
    BY <1>3, GoToMoves DEF RequestPcs, Guarded, Latched
  <2>3. Leave(r, "unknown") => Goal
    BY <1>3, LeaveMoves DEF Leave, Outcomes, Guarded
  <2> HIDE DEF Goal
  <2> QED
    BY <1>1, <1>3, <2>1, <2>2, <2>3 DEF AfterStatus
<1>4. CASE request[r] = "confirm"
  <2>1. LeaveRuntime(r, "failed") /\ LeaveCoordinator(r, "unknown") => Goal
    BY LeaveMoves DEF Outcomes
  <2> HIDE DEF Goal
  <2> QED
    BY <1>1, <1>4, <2>1 DEF AfterStatus
<1>5. CASE request[r] = "ensure"
  <2>1. ~runtimeLatch
    BY <1>5 DEF SessionInv, EntranceInv, Latched
  <2>2. result = "yes" /\ GoTo(r, "persist") => Goal
    BY <1>5, <2>1, GoToMoves DEF RequestPcs, Guarded, Latched
  <2>3. result = "no" /\ GoTo(r, "login") => Goal
    BY <1>5, <2>1, GoToMoves DEF RequestPcs, Guarded, Latched
  <2> HIDE DEF Goal
  <2> QED
    BY <1>1, <1>5, <2>2, <2>3 DEF AfterStatus
<1> QED
  BY <1>2, <1>3, <1>4, <1>5 DEF InStatus

LEMMA LoginMoves ==
    ASSUME SessionInv, NEW r \in Requests, request[r] = "login",
           NEW result \in {"authenticated", "unknown", "failed"}, AfterLogin(r, result)
    PROVE  /\ SessionMoves(r)
           /\ request'[r] \in {"ended", "persist"}
           /\ request'[r] = "persist" <=> result = "authenticated"
           /\ result = "unknown" => runtimeLatch'
<1>1. request[r] \in Guarded /\ ~runtimeLatch
  BY DEF SessionInv, EntranceInv, Guarded, Latched
<1>2. CASE result = "authenticated"
  BY <1>1, <1>2, GoToMoves DEF AfterLogin, RequestPcs, Guarded
<1>3. CASE result # "authenticated"
  BY <1>1, <1>3, LeaveMoves DEF AfterLogin, Leave, Outcomes
<1> QED
  BY <1>2, <1>3
-----------------------------------------------------------------------------
(* The parts of the invariant that a step of the page can disturb. *)
PageInv == OwnerInv /\ LoginInv /\ UnresolvedInv /\ AcceptInv /\ FreshInv

(* Steps of the login before and after the submission. *)
LEMMA LoginStepInv ==
    ASSUME SessionInv, NEW from, NEW to \in SessionPage, LoginStep(from, to),
           to.kind = "login", to.owner = page.owner, to.fresh = TRUE,
           to.pc \in LoginPcs \cup {"reset"}, to.pc = "reset" => to.otherwise # "none",
           Submitted => to.pc \in {"complete", "reset"} /\ to.otherwise = "unknown"
    PROVE  SessionInv'
<1> USE DEF LoginStep, SessionInv
<1>1. SessionTypeOK' /\ page' \in SessionPage
  BY DEF SessionTypeOK, guardVars, loginVars, SessionPage
<1>2. EntranceInv' /\ FreshInv'
  BY DEF EntranceInv, guardVars, FreshInv, LoginPcs
<1>3. OwnerInv'
  BY DEF OwnerInv, guardVars, LoginPcs, ProbePcs
<1>4. LoginInv' /\ UnresolvedInv'
  BY DEF LoginInv, UnresolvedInv, Submitted, guardVars, loginVars
<1>5. AcceptInv'
  BY DEF AcceptInv, LoginPcs, guardVars, loginVars
<1>6. NeverSubmittedBlindly' /\ OnlyVerifiedSessions' /\ SecretOnTrustedForm'
  BY <1>1, <1>2 DEF NeverSubmittedBlindly, OnlyVerifiedSessions, SecretOnTrustedForm, loginVars, FreshInv
<1> QED
  BY <1>1, <1>2, <1>3, <1>4, <1>5, <1>6

LEMMA AtInv ==
    ASSUME SessionInv, NEW from \in LoginPcs, NEW pc \in LoginPcs, LoginStep(from, At(pc)),
           from = "complete" => pc = "complete"
    PROVE  SessionInv'
<1>1. page \in SessionPage /\ page.pc = from /\ page.kind = "login" /\ page.fresh = TRUE
  BY DEF SessionInv, FreshInv, LoginStep
<1>2. At(pc) \in SessionPage
  BY <1>1 DEF At, SessionPage
<1>3. At(pc).kind = "login" /\ At(pc).owner = page.owner /\ At(pc).fresh = TRUE
      /\ At(pc).pc = pc /\ At(pc).otherwise = page.otherwise /\ pc # "reset"
  BY <1>1 DEF At, SessionPage, LoginPcs
<1>4. Submitted => pc = "complete" /\ page.otherwise = "unknown"
  BY <1>1 DEF Submitted, LoginPcs
<1> HIDE DEF Requests
<1> QED
  BY <1>2, <1>3, <1>4, LoginStepInv

LEMMA AttestInv ==
    ASSUME SessionInv, NEW from \in LoginPcs,
           NEW otherwise \in {"entry", "entry2", "entry3", "unknown"},
           LoginStep(from, Attest(otherwise)), from = "complete" => otherwise = "unknown"
    PROVE  SessionInv'
<1>1. page \in SessionPage /\ page.pc = from /\ page.kind = "login" /\ page.fresh = TRUE
  BY DEF SessionInv, FreshInv, LoginStep
<1> DEFINE to == Attest(otherwise)
<1>2. to \in SessionPage
  BY <1>1 DEF Attest, SessionPage, ProbePcs
<1>3. /\ to.kind = "login" /\ to.owner = page.owner /\ to.fresh = TRUE
      /\ to.pc = "reset" /\ to.otherwise = otherwise /\ otherwise # "none"
  BY <1>1 DEF Attest, SessionPage
<1>4. LoginStep(from, to)
  OBVIOUS
<1> HIDE DEF to
<1>5. Submitted => otherwise = "unknown"
  BY <1>1 DEF Submitted, LoginPcs
<1> QED
  BY ONLY SessionInv, <1>2, <1>3, <1>4, <1>5, LoginStepInv

LEMMA LoginFormStepInv ==
    ASSUME SessionInv, NEW route \in Routes,
           \/ OpenLogin(route) \/ FindEntry(route) \/ EnterEmail(route) \/ BindAccount(route)
           \/ FindSubmit(route)
    PROVE  SessionInv'
<1> HIDE DEF Requests
<1>1. CASE OpenLogin(route)
  BY <1>1, AtInv, AttestInv DEF OpenLogin, LoginPcs
<1>2. CASE FindEntry(route)
  BY <1>2, AtInv, AttestInv DEF FindEntry, LoginPcs
<1>3. CASE EnterEmail(route)
  BY <1>3, AtInv, AttestInv DEF EnterEmail, LoginPcs
<1>4. CASE BindAccount(route)
  BY <1>4, AtInv DEF BindAccount, LoginPcs
<1>5. CASE FindSubmit(route)
  BY <1>5, AtInv DEF FindSubmit, LoginPcs
<1> QED
  BY <1>1, <1>2, <1>3, <1>4, <1>5
-----------------------------------------------------------------------------
LEMMA NoOperationIsPage ==
    /\ NoOperation \in SessionPage
    /\ NoOperation.kind = "none" /\ NoOperation.pc = "idle" /\ NoOperation.owner = "none"
    /\ NoOperation.fresh = TRUE
BY DEF NoOperation, SessionPage, Tenants

(* A status read ends, whoever waits for it. *)
LEMMA EndStatusInv ==
    ASSUME SessionInv, page.kind = "status", NEW result \in {"yes", "no", "error"},
           EndStatus(result), UNCHANGED <<web, accepting>>, unresolved' \in BOOLEAN,
           unresolved' => unresolved, accepting => unresolved',
           result = "yes" => ~accepting /\ web # "other",
           result = "no" => web = "out"
    PROVE  PageInv' /\ GuardTypes' /\ EntranceInv' /\ page' \in SessionPage
           /\ late' \in Tenants \cup {"none"}
<1> USE NoOperationIsPage DEF EndStatus
<1>1. page' \in SessionPage /\ late' \in Tenants \cup {"none"} /\ FreshInv'
  BY DEF SessionInv, SessionTypeOK, FreshInv
<1>2. CASE page.owner = "none"
  <2>1. UNCHANGED <<request, appLock, appLatch, runtimeLock, runtimeLatch>>
    BY <1>2 DEF guardVars
  <2>2. GuardTypes' /\ EntranceInv' /\ OwnerInv'
    BY <2>1 DEF SessionInv, SessionTypeOK, GuardTypes, RequestPcs, EntranceInv, OwnerInv
  <2>3. LoginInv' /\ UnresolvedInv' /\ AcceptInv'
    BY <2>1 DEF SessionInv, LoginInv, UnresolvedInv, AcceptInv
  <2> QED
    BY <1>1, <2>2, <2>3 DEF PageInv
<1>3. CASE page.owner # "none"
  <2> DEFINE r == page.owner
  <2>1. r \in Requests /\ request[r] \in InStatus /\ AfterStatus(r, result)
    BY <1>3 DEF SessionInv, OwnerInv, SessionPage
  <2>2. /\ SessionMoves(r)
        /\ request'[r] \in {"ended", "lock", "confirm", "ensure", "persist", "login"}
        /\ request'[r] = "persist" => result = "yes"
        /\ request'[r] = "login" => result = "no" /\ request[r] = "ensure"
    BY <2>1, StatusMoves
  <2> HIDE DEF r
  <2>3. GuardTypes' /\ EntranceInv' /\ OwnerInv'
    BY <2>2 DEF SessionMoves, OwnerInv
  <2>4. request'[r] = "login" => ~unresolved
    BY <2>1, <2>2 DEF SessionInv, UnresolvedInv, EntranceInv, Guarded, Latched
  <2>5. LoginInv'
    BY <2>1, <2>2, <2>4 DEF SessionInv, LoginInv, SessionMoves
  <2>6. UnresolvedInv'
    BY <2>1, <2>2 DEF SessionInv, UnresolvedInv, SessionMoves, InStatus
  <2>7. AcceptInv'
    BY <2>1, <2>2 DEF SessionInv, AcceptInv, SessionMoves
  <2> QED
    BY <1>1, <2>3, <2>5, <2>6, <2>7 DEF PageInv
<1> QED
  BY <1>2, <1>3

(* A login ends.  A submission is settled by then, or the latch closes, or
   the session it opened is about to be stored. *)
LEMMA EndLoginInv ==
    ASSUME SessionInv, page.kind = "login", NEW result \in {"authenticated", "unknown", "failed"},
           EndLogin(result), web' = web, unresolved' \in BOOLEAN, accepting' \in BOOLEAN,
           result = "failed" => ~unresolved',
           result = "authenticated" => ~accepting' /\ web # "other",
           accepting' => unresolved' /\ web = "out"
    PROVE  PageInv' /\ GuardTypes' /\ EntranceInv' /\ page' \in SessionPage
           /\ late' \in Tenants \cup {"none"}
<1> USE NoOperationIsPage DEF EndLogin
<1>1. page' \in SessionPage /\ late' \in Tenants \cup {"none"} /\ FreshInv'
  BY DEF SessionInv, SessionTypeOK, FreshInv
<1>2. CASE page.owner = "none"
  <2>1. UNCHANGED <<request, appLock, appLatch, runtimeLock, runtimeLatch>> /\ runtimeLatch
    BY <1>2 DEF guardVars, SessionInv, OwnerInv
  <2>2. \A q \in Requests : request[q] \notin Latched
    BY <2>1 DEF SessionInv, EntranceInv
  <2>3. GuardTypes' /\ EntranceInv' /\ OwnerInv'
    BY <2>1 DEF SessionInv, SessionTypeOK, GuardTypes, RequestPcs, EntranceInv, OwnerInv
  <2>4. LoginInv' /\ UnresolvedInv' /\ AcceptInv'
    BY <2>1, <2>2 DEF SessionInv, LoginInv, UnresolvedInv, AcceptInv, Latched
  <2> QED
    BY <1>1, <2>3, <2>4 DEF PageInv
<1>3. CASE page.owner # "none"
  <2> DEFINE r == page.owner
  <2>1. r \in Requests /\ request[r] = "login" /\ AfterLogin(r, result)
    BY <1>3 DEF SessionInv, OwnerInv, SessionPage
  <2>2. /\ SessionMoves(r)
        /\ request'[r] \in {"ended", "persist"}
        /\ request'[r] = "persist" <=> result = "authenticated"
        /\ result = "unknown" => runtimeLatch'
    BY <2>1, LoginMoves
  <2> HIDE DEF r
  <2>3. \A q \in Requests \ {r} : request[q] \notin Guarded
    BY <2>1 DEF SessionInv, EntranceInv, Guarded
  <2>4. GuardTypes' /\ EntranceInv' /\ OwnerInv'
    BY <2>2 DEF SessionMoves, OwnerInv
  <2>5. LoginInv'
    BY <2>2, <2>3 DEF LoginInv, SessionMoves, Guarded
  <2>6. UnresolvedInv'
    BY <2>1, <2>2 DEF UnresolvedInv
  <2>7. AcceptInv'
    BY <2>2, <2>3 DEF AcceptInv, SessionMoves, Guarded
  <2> QED
    BY <1>1, <2>4, <2>5, <2>6, <2>7 DEF PageInv
<1> QED
  BY <1>2, <1>3

(* What remains to be shown after an operation has ended. *)
LEMMA Assembled ==
    ASSUME PageInv', GuardTypes', EntranceInv', page' \in SessionPage, late' \in Tenants \cup {"none"},
           SessionInv, web' \in Tenants, vault' \in Tenants \cup {"none"}, vault' # "other",
           secretOn' \subseteq {"password"}, restarts' \in 0..Restarts,
           {accepting', unresolved'} \subseteq BOOLEAN, blind' = FALSE
    PROVE  SessionInv'
<1>1. SessionTypeOK'
  <2>1. page'.owner \in Requests \cup {"none"} /\ page'.kind \in {"none", "status", "login"}
        /\ page'.seen \in Tenants \cup {"none"}
    BY DEF SessionPage
  <2> QED
    BY <2>1 DEF SessionTypeOK, GuardTypes, RequestPcs, Routes
<1>2. OnlyVerifiedSessions'
  BY DEF OnlyVerifiedSessions, PageInv, FreshInv
<1> QED
  BY <1>1, <1>2 DEF SessionInv, PageInv, NeverSubmittedBlindly, SecretOnTrustedForm
-----------------------------------------------------------------------------
LEMMA FillInv ==
    ASSUME SessionInv, NEW route \in Routes, FillSecret(route)
    PROVE  SessionInv'
<1> USE DEF FillSecret
<1>1. page \in SessionPage /\ page' \in SessionPage /\ page' = At("submitControl")
  BY DEF SessionInv, SessionPage, At, LoginPcs
<1>2. page.kind = "login" /\ page'.kind = "login" /\ page'.owner = page.owner /\ page'.pc = "submitControl"
      /\ page'.fresh = TRUE /\ ~Submitted /\ ~Submitted'
  BY <1>1 DEF SessionInv, OwnerInv, FreshInv, SessionPage, At, ProbePcs, Submitted
<1>3. UNCHANGED <<request, appLock, appLatch, runtimeLock, runtimeLatch>>
  BY DEF guardVars
<1>4. GuardTypes' /\ EntranceInv'
  BY <1>3 DEF SessionInv, SessionTypeOK, GuardTypes, RequestPcs, EntranceInv
<1>5. OwnerInv' /\ FreshInv'
  BY <1>2, <1>3 DEF SessionInv, OwnerInv, FreshInv, LoginPcs, ProbePcs
<1>6. LoginInv' /\ UnresolvedInv' /\ AcceptInv'
  BY <1>2, <1>3 DEF SessionInv, LoginInv, UnresolvedInv, AcceptInv
<1>7. secretOn' \subseteq {"password"}
  BY DEF SessionInv, SecretOnTrustedForm, TrustedForm
<1> QED
  BY <1>1, <1>4, <1>5, <1>6, <1>7, Assembled DEF PageInv, SessionInv, SessionTypeOK,
     OnlyVerifiedSessions, NeverSubmittedBlindly

LEMMA SubmitInv ==
    ASSUME SessionInv, NEW route \in Routes, SubmitSecret(route)
    PROVE  SessionInv'
<1> USE DEF SubmitSecret
<1>1. page \in SessionPage /\ page.kind = "login" /\ ~Submitted
  BY DEF SessionInv, OwnerInv, SessionPage, ProbePcs, Submitted
<1>2. web = "out" /\ ~unresolved
  BY <1>1 DEF SessionInv, LoginInv
<1>3. ASSUME PageInv', GuardTypes', EntranceInv', page' \in SessionPage, late' \in Tenants \cup {"none"},
             {accepting', unresolved'} \subseteq BOOLEAN, blind' = blind
      PROVE  SessionInv'
  BY <1>3, Assembled DEF SessionInv, SessionTypeOK, OnlyVerifiedSessions, NeverSubmittedBlindly,
     SecretOnTrustedForm
<1>4. {accepting, unresolved} \subseteq BOOLEAN /\ blind = FALSE /\ (accepting => unresolved /\ web = "out")
  BY DEF SessionInv, SessionTypeOK, NeverSubmittedBlindly, AcceptInv
<1>5. CASE EndLogin("unknown")
  <2>1. unresolved' \in BOOLEAN /\ accepting' \in BOOLEAN /\ blind' = blind
        /\ (accepting' => unresolved' /\ web = "out") /\ web' = web
    <3>1. CASE Dispatch
      BY <1>2, <1>4, <3>1 DEF Dispatch
    <3>2. CASE UNCHANGED <<blind, unresolved, accepting>>
      BY <1>4, <3>2
    <3> QED
      BY <3>1, <3>2
  <2>2. PageInv' /\ GuardTypes' /\ EntranceInv' /\ page' \in SessionPage /\ late' \in Tenants \cup {"none"}
    BY <1>1, <1>5, <2>1, EndLoginInv
  <2> QED
    BY <1>3, <2>1, <2>2
<1>6. CASE /\ Dispatch
           /\ page' = [page EXCEPT !.pc = "complete", !.otherwise = "unknown"]
           /\ UNCHANGED <<guardVars, late>>
  <2>1. page' \in SessionPage /\ page'.kind = "login" /\ page'.owner = page.owner /\ page'.pc = "complete"
        /\ page'.fresh = TRUE /\ Submitted'
    BY <1>1, <1>6 DEF SessionInv, FreshInv, SessionPage, LoginPcs, Submitted
  <2>2. UNCHANGED <<request, appLock, appLatch, runtimeLock, runtimeLatch>>
    BY <1>6 DEF guardVars
  <2>3. GuardTypes' /\ EntranceInv'
    BY <2>2 DEF SessionInv, SessionTypeOK, GuardTypes, RequestPcs, EntranceInv
  <2>4. OwnerInv' /\ FreshInv' /\ LoginInv' /\ UnresolvedInv'
    BY <1>1, <2>1, <2>2 DEF SessionInv, OwnerInv, FreshInv, LoginInv, UnresolvedInv, LoginPcs,
       ProbePcs
  <2>5. \A r \in Requests : request[r] # "persist"
    BY <1>1 DEF SessionInv, OwnerInv, EntranceInv, Guarded, Latched, SessionPage
  <2>6. AcceptInv'
    BY <1>2, <1>6, <2>1, <2>2, <2>5 DEF AcceptInv, Dispatch
  <2> QED
    BY <1>2, <1>3, <1>4, <1>6, <2>1, <2>3, <2>4, <2>6
       DEF PageInv, Dispatch, SessionInv, SessionTypeOK
<1> QED
  BY <1>5, <1>6

LEMMA CompleteInv ==
    ASSUME SessionInv, NEW route \in Routes, CompleteLogin(route)
    PROVE  SessionInv'
<1> USE DEF CompleteLogin
<1>1. CASE LoginStep("complete", At("complete"))
  BY ONLY <1>1, AtInv, SessionInv DEF LoginPcs
<1>2. CASE LoginStep("complete", Attest("unknown"))
  BY ONLY <1>2, AttestInv, SessionInv DEF LoginPcs
<1>3. CASE /\ EndLogin("failed")
           /\ unresolved' = FALSE /\ accepting' = FALSE
           /\ UNCHANGED <<web, vault, restarts, secretOn, blind>>
  <2>1. page.kind = "login"
    BY DEF SessionInv, OwnerInv, SessionPage, ProbePcs
  <2>2. PageInv' /\ GuardTypes' /\ EntranceInv' /\ page' \in SessionPage /\ late' \in Tenants \cup {"none"}
    BY <1>3, <2>1, EndLoginInv
  <2> QED
    BY <1>3, <2>2, Assembled DEF SessionInv, SessionTypeOK, OnlyVerifiedSessions,
       NeverSubmittedBlindly, SecretOnTrustedForm
<1> QED
  BY <1>1, <1>2, <1>3
-----------------------------------------------------------------------------
(* The other operations on the page. *)
LEMMA StartStatusInv ==
    ASSUME SessionInv, (\E r \in Requests : StartStatus(r)) \/ StartOtherStatus
    PROVE  SessionInv'
<1>1. UNCHANGED <<guardVars, web, late, vault, restarts, loginVars>> /\ page.kind = "none"
  BY DEF StartStatus, StartOtherStatus
<1>2. /\ page' \in SessionPage /\ page'.fresh = TRUE /\ page'.otherwise = "none"
      /\ page'.kind = "status" /\ page'.pc = "reset"
      /\ page'.owner # "none" => request[page'.owner] \in InStatus
  <2> USE DEF NoOperation, SessionPage, Tenants, ProbePcs
  <2>1. CASE StartOtherStatus
    BY <2>1 DEF StartOtherStatus
  <2>2. CASE \E r \in Requests : StartStatus(r)
    BY <2>2 DEF StartStatus, InStatus
  <2> QED
    BY <2>1, <2>2
<1>3. UNCHANGED <<request, appLock, appLatch, runtimeLock, runtimeLatch>>
  BY <1>1 DEF guardVars
<1>4. GuardTypes' /\ EntranceInv' /\ OwnerInv'
  BY <1>2, <1>3 DEF SessionInv, SessionTypeOK, GuardTypes, RequestPcs, EntranceInv, OwnerInv, ProbePcs
<1>5. LoginInv' /\ UnresolvedInv' /\ AcceptInv' /\ FreshInv'
  BY <1>1, <1>2, <1>3 DEF SessionInv, LoginInv, UnresolvedInv, AcceptInv, FreshInv, loginVars
<1> QED
  BY <1>1, <1>2, <1>4, <1>5, Assembled DEF PageInv, SessionInv, SessionTypeOK, loginVars,
     OnlyVerifiedSessions, NeverSubmittedBlindly, SecretOnTrustedForm

LEMMA StartLoginInv ==
    ASSUME SessionInv, NEW r \in Requests, StartLogin(r)
    PROVE  SessionInv'
<1> USE DEF StartLogin
<1>1. /\ page' \in SessionPage /\ page'.fresh = TRUE /\ page'.otherwise = "none"
      /\ page'.kind = "login" /\ page'.pc = "open" /\ page'.owner = r /\ ~Submitted'
  BY DEF NoOperation, SessionPage, Tenants, LoginPcs, Submitted
<1>2. UNCHANGED <<request, appLock, appLatch, runtimeLock, runtimeLatch>>
  BY DEF guardVars
<1>3. UNCHANGED <<accepting, secretOn, unresolved, blind>>
  BY DEF loginVars
<1>4. GuardTypes' /\ EntranceInv' /\ OwnerInv'
  BY <1>1, <1>2 DEF SessionInv, SessionTypeOK, GuardTypes, RequestPcs, EntranceInv, OwnerInv,
     LoginPcs, ProbePcs
<1>5. LoginInv' /\ UnresolvedInv' /\ AcceptInv' /\ FreshInv'
  BY <1>1, <1>2, <1>3 DEF SessionInv, LoginInv, UnresolvedInv, AcceptInv, FreshInv
<1> QED
  BY <1>1, <1>3, <1>4, <1>5, Assembled DEF PageInv, SessionInv, SessionTypeOK,
     OnlyVerifiedSessions, NeverSubmittedBlindly, SecretOnTrustedForm

(* A probe between its beginning and its end. *)
LEMMA ProbeInv ==
    ASSUME SessionInv, ResetDocument \/ CaptureCompany
    PROVE  SessionInv'
<1>1. /\ page' \in SessionPage /\ page'.fresh = TRUE /\ page'.pc \in {"probe", "attest"}
      /\ page'.kind = page.kind /\ page'.owner = page.owner /\ page'.otherwise = page.otherwise
      /\ page'.pc = "attest" /\ page'.seen = "expected" => web = "expected"
      /\ page'.pc = "probe" => late' = "none"
      /\ page.pc \in ProbePcs /\ late' \in Tenants \cup {"none"}
  <2>1. page \in SessionPage /\ page.fresh = TRUE /\ late \in Tenants \cup {"none"}
    BY DEF SessionInv, SessionTypeOK, FreshInv
  <2>2. CASE ResetDocument
    BY <2>1, <2>2 DEF ResetDocument, AfterReset, SessionPage, ProbePcs
  <2>3. CASE CaptureCompany
    <3>1. late = "none"
      BY <2>3 DEF SessionInv, FreshInv, CaptureCompany
    <3>2. PICK old \in BOOLEAN, tenant \in ({web, late} \cap Tenants) :
            /\ tenant = IF old THEN late ELSE web
            /\ page' = [page EXCEPT !.pc = "attest", !.seen = tenant, !.fresh = ~old]
      BY <2>3 DEF CaptureCompany
    <3>3. old = FALSE /\ tenant = web
      BY <3>1, <3>2 DEF Tenants
    <3> QED
      BY <2>1, <2>3, <3>2, <3>3 DEF CaptureCompany, SessionPage, ProbePcs
  <2> QED
    BY <2>2, <2>3
<1>2. UNCHANGED <<guardVars, web, vault, restarts, loginVars>>
  BY DEF ResetDocument, CaptureCompany
<1>3. UNCHANGED <<request, appLock, appLatch, runtimeLock, runtimeLatch>>
  BY <1>2 DEF guardVars
<1>4. UNCHANGED <<accepting, secretOn, unresolved, blind, web>>
  BY <1>2 DEF loginVars
<1>5. page.kind # "none" /\ (Submitted <=> Submitted')
  BY <1>1 DEF SessionInv, OwnerInv, ProbePcs, Submitted
<1>6. GuardTypes' /\ EntranceInv' /\ OwnerInv'
  BY <1>1, <1>3, <1>5 DEF SessionInv, SessionTypeOK, GuardTypes, RequestPcs, EntranceInv, OwnerInv, ProbePcs
<1>7. LoginInv' /\ UnresolvedInv' /\ FreshInv'
  BY <1>1, <1>3, <1>4, <1>5 DEF SessionInv, LoginInv, UnresolvedInv, FreshInv
<1>8. AcceptInv'
  BY <1>1, <1>3, <1>4 DEF SessionInv, AcceptInv
<1> QED
  BY <1>1, <1>2, <1>4, <1>6, <1>7, <1>8, Assembled DEF PageInv, SessionInv, SessionTypeOK,
     OnlyVerifiedSessions, NeverSubmittedBlindly, SecretOnTrustedForm

LEMMA ConfirmInv ==
    ASSUME SessionInv, ConfirmSession
    PROVE  SessionInv'
<1> USE DEF ConfirmSession
<1>1. page \in SessionPage /\ page.pc = "attest" /\ ~accepting /\ web # "other"
  BY DEF SessionInv, AcceptInv, Attested
<1>2. page.kind \in {"status", "login"}
  BY <1>1 DEF SessionInv, OwnerInv, SessionPage
<1>3. {unresolved, accepting} \subseteq BOOLEAN
  BY DEF SessionInv, SessionTypeOK
<1>4. ASSUME PageInv', GuardTypes', EntranceInv', page' \in SessionPage, late' \in Tenants \cup {"none"},
             vault' \in {web, vault}, unresolved' \in BOOLEAN
      PROVE  SessionInv'
  BY <1>1, <1>4, Assembled DEF SessionInv, SessionTypeOK, OnlyVerifiedSessions, NeverSubmittedBlindly,
     SecretOnTrustedForm
<1>5. CASE page.kind = "login"
  BY <1>1, <1>3, <1>4, <1>5, EndLoginInv
<1>6. CASE page.kind = "status"
  BY <1>1, <1>3, <1>4, <1>6, EndStatusInv
<1> QED
  BY <1>2, <1>5, <1>6

LEMMA FindNoneInv ==
    ASSUME SessionInv, FindNoSession
    PROVE  SessionInv'
<1> USE DEF FindNoSession
<1>1. page \in SessionPage /\ page.pc = "attest" /\ page.fresh = TRUE
  BY DEF SessionInv, FreshInv
<1>2. page.kind \in {"status", "login"}
  BY <1>1 DEF SessionInv, OwnerInv, SessionPage
<1>3. UNCHANGED <<web, vault, restarts, accepting, secretOn, unresolved, blind>>
  BY DEF loginVars
<1>4. /\ {unresolved, accepting} \subseteq BOOLEAN
      /\ accepting => unresolved /\ web = "out"
  BY DEF SessionInv, SessionTypeOK, AcceptInv
<1>5. ASSUME PageInv', GuardTypes', EntranceInv', page' \in SessionPage, late' \in Tenants \cup {"none"}
      PROVE  SessionInv'
  BY <1>3, <1>5, Assembled DEF SessionInv, SessionTypeOK, OnlyVerifiedSessions, NeverSubmittedBlindly,
     SecretOnTrustedForm
<1>6. CASE page.kind = "status"
  BY <1>3, <1>4, <1>5, <1>6, EndStatusInv
<1>7. CASE page.kind = "login" /\ page.otherwise = "unknown"
  BY <1>3, <1>4, <1>5, <1>7, EndLoginInv
<1>8. CASE page.kind = "login" /\ page.otherwise # "unknown"
  <2>1. page.otherwise \in {"entry", "entry2", "entry3"}
    BY <1>1, <1>8 DEF SessionInv, OwnerInv, SessionPage, ProbePcs
  <2>2. /\ page' \in SessionPage /\ page'.kind = "login" /\ page'.owner = page.owner
        /\ page'.pc = page.otherwise /\ page'.otherwise = page.otherwise /\ page'.fresh = TRUE
    <3>1. page' = [page EXCEPT !.pc = page.otherwise, !.seen = "none"]
      BY <1>8
    <3>2. page.otherwise \in LoginPcs
      BY <2>1 DEF LoginPcs
    <3> QED
      BY ONLY <1>1, <1>8, <3>1, <3>2 DEF SessionPage
  <2>3. UNCHANGED <<request, appLock, appLatch, runtimeLock, runtimeLatch, late>>
    BY <1>8 DEF guardVars
  <2>4. ~Submitted /\ ~Submitted'
    BY <1>8, <2>2 DEF Submitted
  <2>5. GuardTypes' /\ EntranceInv'
    BY <2>3 DEF SessionInv, SessionTypeOK, GuardTypes, RequestPcs, EntranceInv
  <2>6. OwnerInv' /\ FreshInv'
    BY <1>8, <2>1, <2>2, <2>3 DEF SessionInv, OwnerInv, FreshInv, LoginPcs, ProbePcs
  <2>7. LoginInv' /\ UnresolvedInv' /\ AcceptInv'
    BY <1>3, <1>8, <2>1, <2>2, <2>3, <2>4 DEF SessionInv, LoginInv, UnresolvedInv, AcceptInv
  <2> QED
    BY <1>5, <2>2, <2>3, <2>5, <2>6, <2>7 DEF PageInv, SessionInv, SessionTypeOK
<1> QED
  BY <1>2, <1>6, <1>7, <1>8

LEMMA FailInv ==
    ASSUME SessionInv, FailOperation
    PROVE  SessionInv'
<1> USE DEF FailOperation
<1>1. page.kind \in {"status", "login"}
  BY DEF SessionInv, SessionPage
<1>2. UNCHANGED <<web, vault, restarts, accepting, secretOn, unresolved, blind>>
  BY DEF loginVars
<1>3. /\ {unresolved, accepting} \subseteq BOOLEAN
      /\ accepting => unresolved /\ web = "out"
      /\ page.kind = "login" /\ ~Submitted => ~unresolved
  BY DEF SessionInv, SessionTypeOK, AcceptInv, LoginInv
<1>4. PageInv' /\ GuardTypes' /\ EntranceInv' /\ page' \in SessionPage /\ late' \in Tenants \cup {"none"}
  <2>1. CASE page.kind = "status"
    BY <1>2, <1>3, <2>1, EndStatusInv
  <2>2. CASE page.kind = "login" /\ Submitted
    BY <1>2, <1>3, <2>2, EndLoginInv
  <2>3. CASE page.kind = "login" /\ ~Submitted
    BY <1>2, <1>3, <2>3, EndLoginInv
  <2> QED
    BY <1>1, <2>1, <2>2, <2>3
<1> QED
  BY <1>2, <1>4, Assembled DEF SessionInv, SessionTypeOK, OnlyVerifiedSessions, NeverSubmittedBlindly,
     SecretOnTrustedForm
-----------------------------------------------------------------------------
(* Steps of the requests.  They leave the page alone, except that a cancelled
   one no longer waits for its operation. *)
LEMMA RequestStepInv ==
    ASSUME SessionInv, NEW r \in Requests, SessionMoves(r), request'[r] \notin {"login", "persist"},
           UNCHANGED <<web, late, restarts, accepting, secretOn, blind>>,
           page' = IF page.owner = r THEN [page EXCEPT !.owner = "none"] ELSE page,
           request[r] = "login" => runtimeLatch',
           request[r] = "persist" => runtimeLatch' \/ ~unresolved',
           unresolved' \in BOOLEAN, unresolved' => unresolved, accepting => unresolved',
           vault' \in {vault, "out", "expected"}
    PROVE  SessionInv'
<1> USE DEF SessionMoves
<1>1. /\ page \in SessionPage /\ page' \in SessionPage
      /\ page'.kind = page.kind /\ page'.pc = page.pc /\ page'.seen = page.seen
      /\ page'.otherwise = page.otherwise /\ page'.fresh = page.fresh
      /\ page'.owner = IF page.owner = r THEN "none" ELSE page.owner
  BY DEF SessionInv, SessionPage
<1>2. Submitted' <=> Submitted
  BY <1>1 DEF Submitted
<1>3. OwnerInv'
  <2>1. page'.owner # "none" => page'.owner \in Requests \ {r} /\ page'.owner = page.owner
    BY <1>1 DEF SessionPage
  <2>2. page.kind = "login" /\ page'.owner = "none" => runtimeLatch'
    BY <1>1 DEF SessionInv, OwnerInv, LoginInv
  <2> QED
    BY <1>1, <2>1, <2>2 DEF SessionInv, OwnerInv
<1>4. LoginInv' /\ FreshInv'
  BY <1>1, <1>2 DEF SessionInv, LoginInv, FreshInv
<1>5. UnresolvedInv'
  BY <1>1 DEF SessionInv, UnresolvedInv
<1>6. AcceptInv'
  BY <1>1 DEF SessionInv, AcceptInv
<1> QED
  BY <1>1, <1>3, <1>4, <1>5, <1>6, Assembled DEF PageInv, SessionInv, SessionTypeOK, Tenants,
     OnlyVerifiedSessions, NeverSubmittedBlindly, SecretOnTrustedForm

LEMMA EnterReconnectInv ==
    ASSUME SessionInv, NEW r \in Requests, EnterReconnect(r)
    PROVE  SessionInv'
<1> USE DEF EnterReconnect
<1>1. page.owner # r /\ UNCHANGED <<accepting, secretOn, unresolved, blind>>
  BY DEF SessionInv, OwnerInv, InStatus, loginVars, SessionPage
<1>2. {unresolved, accepting} \subseteq BOOLEAN /\ (accepting => unresolved)
  BY DEF SessionInv, SessionTypeOK, AcceptInv
<1>3. SessionMoves(r) /\ request'[r] \in {"firstHealth", "ended"}
  <2>1. CASE GoTo(r, "firstHealth") \/ GoTo(r, "ended")
    BY <2>1, GoToMoves DEF RequestPcs, Guarded, Latched
  <2>2. CASE /\ appLock' = r
             /\ request' = [request EXCEPT ![r] = "firstHealth"]
             /\ UNCHANGED <<appLatch, runtimeLock, runtimeLatch>>
    BY <2>2 DEF SessionInv, SessionTypeOK, SessionMoves, GuardTypes, RequestPcs, EntranceInv, Guarded, Latched
  <2> QED
    BY <2>1, <2>2
<1> QED
  BY <1>1, <1>2, <1>3, RequestStepInv

LEMMA EnterRuntimeInv ==
    ASSUME SessionInv, NEW r \in Requests, EnterRuntime(r)
    PROVE  SessionInv'
<1> USE DEF EnterRuntime
<1>1. page.owner # r /\ UNCHANGED <<accepting, secretOn, unresolved, blind>>
  BY DEF SessionInv, OwnerInv, InStatus, loginVars, SessionPage
<1>2. {unresolved, accepting} \subseteq BOOLEAN /\ (accepting => unresolved)
  BY DEF SessionInv, SessionTypeOK, AcceptInv
<1>3. SessionMoves(r) /\ request'[r] = "health"
  BY DEF SessionInv, SessionTypeOK, SessionMoves, GuardTypes, RequestPcs, EntranceInv, Guarded, Latched
<1> QED
  BY <1>1, <1>2, <1>3, RequestStepInv

LEMMA PersistInv ==
    ASSUME SessionInv, NEW r \in Requests, Persist(r)
    PROVE  SessionInv'
<1> USE DEF Persist
<1>1. page.owner # r
  BY DEF SessionInv, OwnerInv, InStatus, SessionPage
<1>2. {unresolved, accepting} \subseteq BOOLEAN /\ ~accepting /\ web \in {"out", "expected"}
  BY DEF SessionInv, SessionTypeOK, AcceptInv, Tenants
<1>3. CASE vault' = web /\ unresolved' = FALSE /\ Leave(r, "authenticated")
  BY <1>1, <1>2, <1>3, LeaveMoves, RequestStepInv DEF Leave, Outcomes
<1>4. CASE Leave(r, "unknown") /\ UNCHANGED <<vault, unresolved>>
  BY <1>1, <1>2, <1>4, LeaveMoves, RequestStepInv DEF Leave, Outcomes, Guarded
<1> QED
  BY <1>3, <1>4

LEMMA CancelInv ==
    ASSUME SessionInv, NEW r \in Requests, CancelRequest(r)
    PROVE  SessionInv'
<1> USE DEF CancelRequest
<1>1. CancelOutcome(r) \in Outcomes
      /\ (CancelOutcome(r) = "unknown" <=> request[r] \in {"login", "persist"})
  BY DEF CancelOutcome, Outcomes
<1>2. SessionMoves(r) /\ request'[r] = "ended" /\ (request[r] \in {"login", "persist"} => runtimeLatch')
  BY <1>1, LeaveMoves DEF Leave, Guarded
<1>3. {unresolved, accepting} \subseteq BOOLEAN /\ (accepting => unresolved)
      /\ UNCHANGED <<accepting, secretOn, unresolved, blind>>
  BY DEF SessionInv, SessionTypeOK, AcceptInv, loginVars
<1> QED
  BY <1>2, <1>3, RequestStepInv

LEMMA AgainInv ==
    ASSUME SessionInv, StartupAgain
    PROVE  SessionInv'
<1> USE DEF StartupAgain
<1>1. page.owner # "startup" /\ UNCHANGED <<accepting, secretOn, unresolved, blind>>
  BY DEF SessionInv, OwnerInv, InStatus, loginVars, SessionPage
<1>2. {unresolved, accepting} \subseteq BOOLEAN /\ (accepting => unresolved)
  BY DEF SessionInv, SessionTypeOK, AcceptInv
<1>3. SessionMoves("startup") /\ request'["startup"] = "new"
  BY DEF SessionInv, SessionTypeOK, SessionMoves, GuardTypes, RequestPcs, EntranceInv, Guarded, Latched
<1> QED
  BY <1>1, <1>2, <1>3, RequestStepInv
-----------------------------------------------------------------------------
(* What happens in DIC, and a restart. *)
LEMMA WebInv ==
    ASSUME SessionInv, Accept \/ Expire
    PROVE  SessionInv'
<1>1. UNCHANGED <<guardVars, page, late, vault, restarts, secretOn, unresolved, blind>>
  BY DEF Accept, Expire, loginVars
<1>2. UNCHANGED <<request, appLock, appLatch, runtimeLock, runtimeLatch>>
  BY <1>1 DEF guardVars
<1>3. /\ web' \in Tenants /\ accepting' \in BOOLEAN
      /\ web' = "out" \/ (accepting /\ ~accepting')
      /\ accepting' => accepting
  <2>1. accepting \in BOOLEAN
    BY DEF SessionInv, SessionTypeOK
  <2>2. CASE Accept
    BY <2>2 DEF Accept, Tenants
  <2>3. CASE Expire
    <3>1. web' = "out" /\ accepting' = accepting
      BY <2>3 DEF Expire, loginVars
    <3> QED
      BY <2>1, <3>1 DEF Tenants
  <2> QED
    BY <2>2, <2>3
<1>4. accepting => unresolved
  BY DEF SessionInv, AcceptInv
<1>5. Submitted' <=> Submitted
  BY <1>1 DEF Submitted
<1>6. GuardTypes' /\ EntranceInv' /\ OwnerInv' /\ FreshInv'
  BY <1>1, <1>2 DEF SessionInv, SessionTypeOK, GuardTypes, RequestPcs, EntranceInv, OwnerInv, FreshInv
<1>7. LoginInv' /\ UnresolvedInv'
  BY <1>1, <1>2, <1>3, <1>4, <1>5 DEF SessionInv, LoginInv, UnresolvedInv
<1>8. AcceptInv'
  BY <1>1, <1>2, <1>3 DEF SessionInv, AcceptInv
<1> QED
  BY <1>1, <1>3, <1>6, <1>7, <1>8, Assembled DEF PageInv, SessionInv, SessionTypeOK,
     OnlyVerifiedSessions, NeverSubmittedBlindly, SecretOnTrustedForm

LEMMA RestartInv ==
    ASSUME SessionInv, Restart
    PROVE  SessionInv'
<1> USE NoOperationIsPage DEF Restart
<1>1. request' \in [Requests -> {"new", "ended"}]
  BY DEF SessionInv, SessionTypeOK
<1>2. GuardTypes' /\ EntranceInv'
  BY <1>1 DEF SessionInv, SessionTypeOK, GuardTypes, RequestPcs, EntranceInv, Guarded, Latched
<1>3. PageInv'
  BY <1>1 DEF PageInv, OwnerInv, LoginInv, UnresolvedInv, AcceptInv, FreshInv
<1>4. web' \in Tenants /\ restarts' \in 0..Restarts
  BY DEF SessionInv, SessionTypeOK, Tenants
<1> QED
  BY <1>2, <1>3, <1>4, Assembled DEF SessionInv, SessionTypeOK,
     OnlyVerifiedSessions, NeverSubmittedBlindly, SecretOnTrustedForm

LEMMA StepSessionInv == SessionInv /\ [SessionNext]_sessionVars => SessionInv'
<1> SUFFICES ASSUME SessionInv, [SessionNext]_sessionVars PROVE SessionInv'
  OBVIOUS
<1>1. ASSUME NEW r \in Requests,
             \/ EnterReconnect(r) \/ EnterRuntime(r) \/ Persist(r) \/ CancelRequest(r)
             \/ StartStatus(r) \/ StartLogin(r)
      PROVE  SessionInv'
  BY ONLY SessionInv, <1>1, EnterReconnectInv, EnterRuntimeInv, PersistInv, CancelInv,
     StartStatusInv, StartLoginInv
<1>2. CASE Login
  BY ONLY SessionInv, <1>2, LoginFormStepInv, FillInv, SubmitInv, CompleteInv DEF Login
<1>3. CASE UNCHANGED sessionVars
  <2>1. UNCHANGED <<request, appLock, appLatch, runtimeLock, runtimeLatch, page, web, late, vault,
                    restarts, accepting, secretOn, unresolved, blind>>
    BY <1>3 DEF sessionVars, guardVars, loginVars
  <2> QED
    BY <2>1 DEF SessionInv, SessionTypeOK, EntranceInv, OwnerInv, LoginInv, Submitted, UnresolvedInv,
       AcceptInv, FreshInv, NeverSubmittedBlindly, OnlyVerifiedSessions, SecretOnTrustedForm
<1> QED
  BY ONLY SessionInv, [SessionNext]_sessionVars, <1>1, <1>2, <1>3, StartStatusInv, FailInv, ProbeInv,
     ConfirmInv, FindNoneInv, WebInv, AgainInv, RestartInv DEF SessionNext
-----------------------------------------------------------------------------
(* The invariant, for any administrators and restarts. *)
THEOREM SessionInvariantHolds == SessionSpec => []SessionInv
<1>1. (\E expected \in SUBSET Requests : SessionInit(expected)) => SessionInv
  BY InitSessionInv
<1> QED
  BY <1>1, StepSessionInv, PTL DEF SessionSpec

(* _authenticate_flow, reconnect_dic and reconnect_dic_session: the secret is
   put into the password form of the configured account and into no other
   page, and one process never submits the credentials while the outcome of a
   submission is still unknown to it. *)
THEOREM CredentialsStayGuarded == SessionSpec => []CredentialsAreGuarded
<1>1. SessionInv => CredentialsAreGuarded
  BY DEF SessionInv, CredentialsAreGuarded
<1> QED
  BY <1>1, SessionInvariantHolds, PTL

(* _probe_authenticated_session: what attests a session belongs to the
   document just opened, and the vault keeps no other tenant's session. *)
THEOREM OnlyVerifiedStored == SessionSpec => []OnlyVerifiedSessions
BY SessionInvariantHolds, PTL DEF SessionInv

-----------------------------------------------------------------------------
HIDE SessionAssumption DEF Requests

StageNames ==
    {"settings", "playwright", "chromium", "context", "restore", "sign in",
     "services", "router", "coordinator", "responder", "bot"}

Boundaries == {"bot", "adapter", "browser", "responder", "router", "database"}


(* The stage that may come next: without Chromium the services come at once. *)
Follows(live) ==
    {<<"settings", IF live THEN "playwright" ELSE "services">>, <<"playwright", "chromium">>,
     <<"chromium", "context">>, <<"context", "restore">>, <<"restore", "sign in">>,
     <<"restore", "services">>, <<"sign in", "services">>, <<"services", "router">>,
     <<"router", "coordinator">>, <<"coordinator", "responder">>, <<"coordinator", "bot">>,
     <<"responder", "bot">>}

Planned(todo, live) ==
    /\ todo \in Seq(StageNames) /\ todo # <<>> /\ todo[Len(todo)] = "bot"
    /\ \A i \in 1..Len(todo) - 1 : <<todo[i], todo[i + 1]>> \in Follows(live)

(* What may be held when a stage begins. *)
MayHold(stage) ==
    CASE stage = "settings"    -> {}
      [] stage = "playwright"  -> {"database"}
      [] stage = "chromium"    -> {"database", "playwright"}
      [] stage = "context"     -> {"database", "playwright", "chromium"}
      [] stage \in {"restore", "sign in"} -> {"database", "playwright", "chromium", "context"}
      [] stage \in {"services", "router"} -> {"database", "playwright", "chromium", "context", "workers"}
      [] stage \in {"coordinator", "responder"} ->
           {"database", "playwright", "chromium", "context", "workers", "router"}
      [] stage = "bot" -> Resources \ {"bot"}

BeforeContext == {"settings", "playwright", "chromium", "context"}

(* Workers have a page as long as nothing is released. *)
BuildInv ==
    /\ life.phase = "building" =>
         /\ Planned(life.todo, life.live)
         /\ held \in SUBSET MayHold(Head(life.todo))
         /\ Head(life.todo) \in {"restore", "sign in"} => "context" \in held
         /\ life.live /\ Head(life.todo) \notin BeforeContext => "context" \in held
    /\ life.phase = "running" /\ life.live => "context" \in held
    /\ life.phase \in {"building", "running"} =>
         /\ life.failed = "none"
         /\ "workers" \in held => "context" \in held

Released(boundary) ==
    CASE boundary = "adapter" -> {"workers"}
      [] boundary = "browser" -> {"context", "chromium", "playwright"}
      [] OTHER -> {boundary}

(* Whatever is held is still to be released, was tried or is forgotten. *)
LeftOver ==
    {p \in held : p \notin kept /\ p \notin Forgotten}

ReleaseInv ==
    /\ life.phase = "releasing" =>
         /\ \A p \in LeftOver : \E i \in 1..Len(life.releasing) : p \in Released(life.releasing[i])
         /\ "workers" \in LeftOver =>
              /\ "context" \in held
              /\ \E i \in 1..Len(life.releasing) :
                   /\ life.releasing[i] = "adapter"
                   /\ \A j \in 1..Len(life.releasing) : life.releasing[j] = "browser" => i < j
    /\ life.phase = "over" => LeftOver = {}

LifecycleTypes ==
    /\ life = [phase |-> life.phase, live |-> life.live, todo |-> life.todo,
               failed |-> life.failed, releasing |-> life.releasing]
    /\ life.phase \in {"building", "running", "releasing", "over"} /\ life.live \in BOOLEAN
    /\ life.failed \in StageNames \cup {"none"}
    /\ life.releasing \in Seq(Boundaries)
    /\ held \in SUBSET Resources

LifecycleInv == LifecycleTypes /\ BuildInv /\ ReleaseInv

LifecycleSpec == (\E builds \in BOOLEAN : LifecycleInit(builds)) /\ [][LifecycleNext]_lifeVars
-----------------------------------------------------------------------------
LEMMA HeadAndTail ==
    ASSUME NEW T, NEW s \in Seq(T), s # <<>>
    PROVE  /\ Len(s) \in Nat \ {0} /\ Head(s) = s[1] /\ Head(s) \in T
           /\ Tail(s) \in Seq(T) /\ Len(Tail(s)) = Len(s) - 1
           /\ \A i \in 1..Len(Tail(s)) : Tail(s)[i] = s[i + 1]
<1>1. Len(s) \in Nat \ {0}
  BY EmptySeq
<1> QED
  BY <1>1, HeadTailProperties

(* Stages that follow each other, from one to another. *)
Chain(s, live, from, upto) ==
    /\ s \in Seq(StageNames) /\ s # <<>> /\ s[1] = from /\ s[Len(s)] = upto
    /\ \A i \in 1..Len(s) - 1 : <<s[i], s[i + 1]>> \in Follows(live)

LEMMA ChainsJoin ==
    ASSUME NEW live, NEW a, NEW b, NEW c, NEW d, NEW s, NEW t,
           Chain(s, live, a, b), Chain(t, live, c, d), <<b, c>> \in Follows(live)
    PROVE  Chain(s \o t, live, a, d)
<1> DEFINE both == s \o t
<1>1. /\ s \in Seq(StageNames) /\ s # <<>> /\ t \in Seq(StageNames) /\ t # <<>>
      /\ s[1] = a /\ s[Len(s)] = b /\ t[1] = c /\ t[Len(t)] = d
      /\ \A i \in 1..Len(s) - 1 : <<s[i], s[i + 1]>> \in Follows(live)
      /\ \A i \in 1..Len(t) - 1 : <<t[i], t[i + 1]>> \in Follows(live)
  BY DEF Chain
<1>2. /\ Len(s) \in Nat /\ Len(t) \in Nat /\ Len(s) > 0 /\ Len(t) > 0
      /\ both \in Seq(StageNames) /\ Len(both) = Len(s) + Len(t)
      /\ \A i \in 1..Len(both) : both[i] = IF i <= Len(s) THEN s[i] ELSE t[i - Len(s)]
  <2>1. Len(s) \in Nat /\ Len(t) \in Nat /\ Len(s) # 0 /\ Len(t) # 0
    BY <1>1, EmptySeq
  <2>2. /\ both \in Seq(StageNames) /\ Len(both) = Len(s) + Len(t)
        /\ \A i \in 1..Len(s) + Len(t) : both[i] = IF i <= Len(s) THEN s[i] ELSE t[i - Len(s)]
    BY <1>1, ConcatProperties
  <2> QED
    BY <2>1, <2>2
<1> HIDE DEF both
<1>3. both # <<>>
  BY <1>2, EmptySeq
<1>4. both[1] = a
  <2>1. 1 \in 1..Len(both) /\ 1 <= Len(s)
    BY <1>2
  <2> QED
    BY <1>1, <1>2, <2>1
<1>5. both[Len(both)] = d
  <2>1. Len(both) \in 1..Len(both) /\ ~(Len(both) <= Len(s)) /\ Len(both) - Len(s) = Len(t)
    BY <1>2
  <2> QED
    BY <1>1, <1>2, <2>1
<1>6. ASSUME NEW i \in 1..Len(both) - 1
      PROVE  <<both[i], both[i + 1]>> \in Follows(live)
  <2>1. i \in 1..Len(both) /\ i + 1 \in 1..Len(both) /\ i \in Nat
    BY <1>2
  <2>2. CASE i < Len(s)
    <3>1. i <= Len(s) /\ i + 1 <= Len(s) /\ i \in 1..Len(s) - 1
      BY <1>2, <2>1, <2>2
    <3> QED
      BY <1>1, <1>2, <2>1, <3>1
  <2>3. CASE i = Len(s)
    <3>1. i <= Len(s) /\ ~(i + 1 <= Len(s)) /\ (i + 1) - Len(s) = 1
      BY <1>2, <2>3
    <3> QED
      BY <1>1, <1>2, <2>1, <2>3, <3>1
  <2>4. CASE i > Len(s)
    <3>1. /\ ~(i <= Len(s)) /\ ~(i + 1 <= Len(s)) /\ i - Len(s) \in 1..Len(t) - 1
          /\ (i + 1) - Len(s) = (i - Len(s)) + 1
      BY <1>2, <2>1, <2>4
    <3> QED
      BY <1>1, <1>2, <2>1, <3>1
  <2> QED
    BY <1>2, <2>1, <2>2, <2>3, <2>4
<1> QED
  BY <1>2, <1>3, <1>4, <1>5, <1>6 DEF Chain, both

LEMMA StagesPlanned ==
    ASSUME NEW mock \in BOOLEAN, NEW signIn \in BOOLEAN, NEW public \in BOOLEAN
    PROVE  Planned(Stages(mock, signIn, public), ~mock) /\ Head(Stages(mock, signIn, public)) = "settings"
<1> DEFINE live == ~mock
           adapter == IF mock THEN <<>> ELSE LiveAdapter \o (IF signIn THEN <<"sign in">> ELSE <<>>)
           middle == <<"services", "router", "coordinator">>
           answer == IF public THEN <<"responder">> ELSE <<>>
<1>1. \A st \in StageNames : Chain(<<st>>, live, st, st)
  BY DEF Chain
<1>2. Chain(LiveAdapter, TRUE, "playwright", "restore")
  <2>1. LiveAdapter \in Seq(StageNames) /\ LiveAdapter # <<>>
    BY DEF LiveAdapter, StageNames
  <2>2. /\ Len(LiveAdapter) = 4 /\ LiveAdapter[1] = "playwright" /\ LiveAdapter[2] = "chromium"
        /\ LiveAdapter[3] = "context" /\ LiveAdapter[4] = "restore"
    BY DEF LiveAdapter
  <2>3. /\ <<"playwright", "chromium">> \in Follows(TRUE) /\ <<"chromium", "context">> \in Follows(TRUE)
        /\ <<"context", "restore">> \in Follows(TRUE)
    BY DEF Follows
  <2>4. ASSUME NEW i \in 1..4 - 1
        PROVE  <<LiveAdapter[i], LiveAdapter[i + 1]>> \in Follows(TRUE)
    <3>1. \/ i = 1 /\ i + 1 = 2
          \/ i = 2 /\ i + 1 = 3
          \/ i = 3 /\ i + 1 = 4
      OBVIOUS
    <3> QED
      BY <2>2, <2>3, <3>1
  <2> QED
    BY <2>1, <2>2, <2>4 DEF Chain
<1>3. Chain(middle, live, "services", "coordinator")
  <2>1. middle \in Seq(StageNames) /\ middle # <<>>
    BY DEF StageNames
  <2>2. Len(middle) = 3 /\ middle[1] = "services" /\ middle[2] = "router" /\ middle[3] = "coordinator"
    OBVIOUS
  <2>3. <<"services", "router">> \in Follows(live) /\ <<"router", "coordinator">> \in Follows(live)
    BY DEF Follows
  <2> HIDE DEF middle, live
  <2>4. ASSUME NEW i \in 1..3 - 1
        PROVE  <<middle[i], middle[i + 1]>> \in Follows(live)
    <3>1. \/ i = 1 /\ i + 1 = 2
          \/ i = 2 /\ i + 1 = 3
      OBVIOUS
    <3> QED
      BY <2>2, <2>3, <3>1
  <2> QED
    BY <2>1, <2>2, <2>4 DEF Chain
<1> HIDE DEF middle
<1>4. Chain(<<"settings">>, live, "settings", "settings") /\ Chain(<<"sign in">>, live, "sign in", "sign in")
      /\ Chain(<<"responder">>, live, "responder", "responder") /\ Chain(<<"bot">>, live, "bot", "bot")
  BY <1>1 DEF StageNames
<1>5. \E last \in {"settings", "restore", "sign in"} :
        /\ <<last, "services">> \in Follows(live)
        /\ Chain(<<"settings">> \o adapter, live, "settings", last)
  <2>1. CASE mock
    <3>1. <<"settings">> \o adapter = <<"settings">> /\ <<"settings", "services">> \in Follows(live)
      BY <2>1 DEF Follows
    <3> QED
      BY <1>4, <3>1
  <2>2. CASE ~mock /\ signIn
    <3>1. live = TRUE /\ adapter = LiveAdapter \o <<"sign in">>
      BY <2>2
    <3>2. /\ <<"restore", "sign in">> \in Follows(live) /\ <<"sign in", "services">> \in Follows(live)
          /\ <<"settings", "playwright">> \in Follows(live)
      BY <3>1 DEF Follows
    <3> HIDE DEF live, adapter
    <3>3. Chain(adapter, live, "playwright", "sign in")
      BY <1>2, <1>4, <3>1, <3>2, ChainsJoin
    <3> QED
      BY <1>4, <3>2, <3>3, ChainsJoin
  <2>3. CASE ~mock /\ ~signIn
    <3>1. live = TRUE /\ adapter = LiveAdapter
      BY <2>3 DEF LiveAdapter
    <3>2. <<"settings", "playwright">> \in Follows(live) /\ <<"restore", "services">> \in Follows(live)
      BY <3>1 DEF Follows
    <3> HIDE DEF live, adapter
    <3> QED
      BY <1>2, <1>4, <3>1, <3>2, ChainsJoin
  <2> QED
    BY <2>1, <2>2, <2>3
<1>6. /\ <<"coordinator", "responder">> \in Follows(live) /\ <<"coordinator", "bot">> \in Follows(live)
      /\ <<"responder", "bot">> \in Follows(live)
  BY DEF Follows
<1>7. Stages(mock, signIn, public) = (((<<"settings">> \o adapter) \o middle) \o answer) \o <<"bot">>
  BY DEF Stages, middle
<1> HIDE DEF live, adapter
<1>8. Chain((<<"settings">> \o adapter) \o middle, live, "settings", "coordinator")
  BY <1>3, <1>5, ChainsJoin
<1> DEFINE before == (<<"settings">> \o adapter) \o middle
<1>9. \E last \in {"coordinator", "responder"} : Chain(before \o answer, live, "settings", last)
  <2>1. CASE public
    BY <1>4, <1>6, <1>8, <2>1, ChainsJoin
  <2>2. CASE ~public
    <3>1. before \in Seq(StageNames) /\ answer = <<>>
      BY <1>8, <2>2 DEF Chain
    <3> HIDE DEF before, answer
    <3>2. before \o answer = before
      BY <3>1, ConcatEmptySeq
    <3> QED
      BY <1>8, <3>2 DEF before
  <2> QED
    BY <2>1, <2>2
<1>10. Chain(Stages(mock, signIn, public), live, "settings", "bot")
  BY <1>4, <1>6, <1>7, <1>9, ChainsJoin
<1>11. Head(Stages(mock, signIn, public)) = "settings"
  BY <1>10, HeadAndTail DEF Chain
<1> QED
  BY <1>10, <1>11 DEF Planned, Chain, live

LEMMA InitLifecycleInv == (\E builds \in BOOLEAN : LifecycleInit(builds)) => LifecycleInv
<1> SUFFICES ASSUME NEW builds \in BOOLEAN, LifecycleInit(builds) PROVE LifecycleInv
  OBVIOUS
<1>1. PICK mock \in BOOLEAN, signIn \in BOOLEAN, public \in BOOLEAN :
        life = [phase |-> IF builds THEN "building" ELSE "over", live |-> ~mock,
                todo |-> Stages(mock, signIn, public), failed |-> "none", releasing |-> <<>>]
  BY DEF LifecycleInit
<1>2. held = {} /\ kept = {}
  BY DEF LifecycleInit
<1>3. LifecycleTypes
  BY <1>1, <1>2 DEF LifecycleTypes
<1>4. Planned(life.todo, life.live) /\ Head(life.todo) = "settings"
  BY <1>1, StagesPlanned
<1>5. BuildInv
  BY <1>1, <1>2, <1>4 DEF BuildInv, BeforeContext
<1>6. ReleaseInv
  BY <1>1, <1>2 DEF ReleaseInv, LeftOver
<1> QED
  BY <1>3, <1>5, <1>6 DEF LifecycleInv

(* A stage that succeeds is followed by one before which as much may be held. *)
LEMMA BuildKeeps ==
    ASSUME LifecycleInv, BuildStage
    PROVE  LifecycleInv'
<1> DEFINE stage == Head(life.todo)
           next == Head(Tail(life.todo))
<1>1. /\ life.phase = "building" /\ Planned(life.todo, life.live) /\ held \in SUBSET MayHold(stage)
      /\ life.failed = "none" /\ life.releasing \in Seq(Boundaries) /\ life.live \in BOOLEAN
      /\ stage \in {"restore", "sign in"} => "context" \in held
      /\ life.live /\ stage \notin BeforeContext => "context" \in held
      /\ "workers" \in held => "context" \in held
  BY DEF LifecycleInv, LifecycleTypes, BuildInv, BuildStage
<1>2. /\ life.todo \in Seq(StageNames) /\ life.todo # <<>> /\ life.todo[Len(life.todo)] = "bot"
      /\ \A i \in 1..Len(life.todo) - 1 : <<life.todo[i], life.todo[i + 1]>> \in Follows(life.live)
  BY <1>1 DEF Planned
<1>3. stage \in StageNames /\ Len(life.todo) \in Nat \ {0} /\ stage = life.todo[1]
  BY <1>2, HeadAndTail
<1>4. /\ held' = held \cup Gains(stage) /\ kept' = kept
      /\ life' = [phase |-> IF Len(life.todo) = 1 THEN "running" ELSE "building", live |-> life.live,
                  todo |-> Tail(life.todo), failed |-> "none", releasing |-> life.releasing]
  BY <1>1 DEF BuildStage, LifecycleInv, LifecycleTypes
<1>5. Gains(stage) \in SUBSET Resources
  BY <1>3 DEF Gains, Resources, StageNames
<1>6. LifecycleTypes' /\ ReleaseInv'
  BY <1>1, <1>4, <1>5 DEF LifecycleTypes, ReleaseInv, LifecycleInv
<1>7. "workers" \in held' => "context" \in held'
  BY <1>1, <1>2, <1>3, <1>4 DEF Gains, StageNames
<1>8. CASE Len(life.todo) = 1
  <2>1. life.live => "context" \in held'
    BY <1>1, <1>2, <1>3, <1>4, <1>8 DEF BeforeContext, Gains
  <2> QED
    BY <1>4, <1>6, <1>7, <1>8, <2>1 DEF LifecycleInv, BuildInv
<1>9. CASE Len(life.todo) # 1
  <2>1. /\ Tail(life.todo) \in Seq(StageNames) /\ Tail(life.todo) # <<>>
        /\ Len(Tail(life.todo)) = Len(life.todo) - 1
        /\ \A i \in 1..Len(Tail(life.todo)) : Tail(life.todo)[i] = life.todo[i + 1]
    <3>1. /\ Tail(life.todo) \in Seq(StageNames) /\ Len(Tail(life.todo)) = Len(life.todo) - 1
          /\ \A i \in 1..Len(Tail(life.todo)) : Tail(life.todo)[i] = life.todo[i + 1]
      BY <1>2, HeadAndTail
    <3>2. Len(Tail(life.todo)) # 0
      BY <1>3, <1>9, <3>1
    <3> QED
      BY <3>1, <3>2, EmptySeq
  <2>2. Planned(Tail(life.todo), life.live)
    <3>1. ASSUME NEW i \in 1..Len(Tail(life.todo)) - 1
          PROVE  <<life.todo[i + 1], life.todo[i + 2]>> \in Follows(life.live)
      <4>1. i + 1 \in 1..Len(life.todo) - 1 /\ (i + 1) + 1 = i + 2
        BY <1>2, <1>3, <2>1
      <4> QED
        BY <1>2, <4>1
    <3>2. ASSUME NEW i \in 1..Len(Tail(life.todo)) - 1
          PROVE  Tail(life.todo)[i] = life.todo[i + 1] /\ Tail(life.todo)[i + 1] = life.todo[i + 2]
      BY <1>2, <1>3, <2>1
    <3>3. Tail(life.todo)[Len(Tail(life.todo))] = "bot"
      <4>1. Len(Tail(life.todo)) \in 1..Len(Tail(life.todo))
        BY <1>3, <1>9, <2>1
      <4>2. Len(Tail(life.todo)) + 1 = Len(life.todo)
        BY <1>3, <2>1
      <4> QED
        BY <1>2, <2>1, <4>1, <4>2
    <3> QED
      BY <2>1, <3>1, <3>2, <3>3 DEF Planned
  <2>3. <<stage, next>> \in Follows(life.live) /\ next \in StageNames
    <3>1. next = life.todo[2] /\ next \in StageNames
      <4>1. 1 \in 1..Len(Tail(life.todo)) /\ 1 + 1 = 2
        BY <1>3, <1>9, <2>1
      <4> QED
        BY <2>1, <4>1, HeadAndTail
    <3>2. 1 \in 1..Len(life.todo) - 1
      <4> DEFINE k == Len(life.todo)
      <4>1. k \in Nat /\ k # 0 /\ k # 1
        BY <1>3, <1>9
      <4> HIDE DEF k
      <4>2. 1 \in 1..k - 1
        BY <4>1
      <4> QED
        BY <4>2 DEF k
    <3>3. 1 + 1 = 2
      OBVIOUS
    <3> QED
      BY <1>2, <1>3, <3>1, <3>2, <3>3
  <2> HIDE DEF stage, next
  <2>4. held' \in SUBSET MayHold(next)
    BY <1>1, <1>4, <2>3 DEF Follows, MayHold, Gains, Resources
  <2>5. /\ next \in {"restore", "sign in"} => "context" \in held'
        /\ life.live /\ next \notin BeforeContext => "context" \in held'
    BY <1>1, <1>4, <2>3 DEF Follows, Gains, BeforeContext
  <2> QED
    BY <1>4, <1>6, <1>7, <1>9, <2>2, <2>4, <2>5 DEF LifecycleInv, BuildInv, next
<1> QED
  BY <1>8, <1>9

(* What a failed build leaves is handed to its cleanup, or forgotten. *)
(* The adapter's workers are stopped before its browser closes. *)
Places(s, n, adapter) ==
    /\ 1..Len(s) = 1..n /\ \A i \in 1..n : i \in Nat
    /\ s[adapter] = "adapter" /\ \A j \in 1..n : s[j] = "browser" => adapter < j

LEMMA LiveStages == ToSet(LiveAdapter) = {"playwright", "chromium", "context", "restore"}
<1> DEFINE s == LiveAdapter
<1>1. /\ DOMAIN s = 1..4 /\ s[1] = "playwright" /\ s[2] = "chromium"
      /\ s[3] = "context" /\ s[4] = "restore"
  BY DEF LiveAdapter
<1> HIDE DEF s
<1>2. ToSet(s) = {s[i] : i \in 1..4}
  BY <1>1 DEF ToSet
<1>3. 1..4 = {1, 2, 3, 4}
  OBVIOUS
<1> QED
  BY <1>1, <1>2, <1>3 DEF s

LEMMA FailKeeps ==
    ASSUME LifecycleInv, FailStage
    PROVE  LifecycleInv'
<1> DEFINE stage == Head(life.todo)
<1>1. /\ life.phase = "building" /\ Planned(life.todo, life.live) /\ held \in SUBSET MayHold(stage)
      /\ life.live \in BOOLEAN
      /\ "workers" \in held => "context" \in held
  BY DEF LifecycleInv, LifecycleTypes, BuildInv, FailStage
<1>2. stage \in StageNames
  BY <1>1, HeadAndTail DEF Planned
<1>3. /\ kept' = kept
      /\ life' = [phase |-> "releasing", live |-> life.live, todo |-> life.todo,
                  failed |-> stage, releasing |-> Cleanup(stage)]
  BY <1>1 DEF FailStage, LifecycleInv, LifecycleTypes
<1>4. PICK gained \in GainsFailing(stage) : held' = held \cup gained
  BY DEF FailStage
<1> HIDE DEF stage
<1>5. Forgotten' = (IF stage = "sign in" THEN {"workers"} ELSE {})
                     \cup (IF stage = "settings" THEN {"database"} ELSE {})
  BY <1>3 DEF Forgotten, Fails
<1>6. LeftOver' \in SUBSET MayHold(stage) /\ (stage = "settings" => LeftOver' = {})
      /\ ("workers" \in LeftOver' => "context" \in held')
  BY <1>1, <1>2, <1>4, <1>5 DEF LeftOver, GainsFailing, MayHold, StageNames
<1>7. held' \in SUBSET Resources
  BY <1>2, <1>4 DEF LifecycleInv, LifecycleTypes, GainsFailing, Resources, StageNames
<1>8. LifecycleTypes'
  <2>1. Cleanup(stage) \in Seq(Boundaries)
    <3>1. /\ << >> \in Seq(Boundaries) /\ <<"browser", "database">> \in Seq(Boundaries)
          /\ <<"adapter", "browser", "database">> \in Seq(Boundaries)
          /\ <<"router", "adapter", "browser", "database">> \in Seq(Boundaries)
          /\ <<"responder", "router", "adapter", "browser", "database">> \in Seq(Boundaries)
      BY DEF Boundaries
    <3> QED
      BY <1>2, <3>1, LiveStages DEF Cleanup, StageNames
  <2> QED
    BY <1>1, <1>2, <1>3, <1>7, <2>1 DEF LifecycleTypes
<1>9. BuildInv'
  BY <1>3 DEF BuildInv
<1>10. CASE stage = "settings"
  BY <1>3, <1>6, <1>8, <1>9, <1>10 DEF LifecycleInv, ReleaseInv
<1>11. CASE stage \in {"playwright", "chromium", "context", "restore", "sign in"}
  <2>1. life.releasing' = <<"browser", "database">>
    BY <1>3, <1>11, LiveStages DEF Cleanup
  <2>2. LeftOver' \in SUBSET {"database", "playwright", "chromium", "context"}
    BY <1>6, <1>11 DEF MayHold
  <2>3. ReleaseInv'
    BY <1>3, <2>1, <2>2 DEF ReleaseInv, Released
  <2> QED
    BY <1>8, <1>9, <2>3 DEF LifecycleInv
<1>12. CASE stage \in {"services", "router"}
  <2>1. life.releasing' = <<"adapter", "browser", "database">>
    BY <1>3, <1>12, LiveStages DEF Cleanup
  <2>2. LeftOver' \in SUBSET {"database", "playwright", "chromium", "context", "workers"}
    BY <1>6, <1>12 DEF MayHold
  <2>3. ReleaseInv'
    BY <1>3, <1>6, <2>1, <2>2 DEF ReleaseInv, Released
  <2> QED
    BY <1>8, <1>9, <2>3 DEF LifecycleInv
<1>13. CASE stage = "coordinator"
  <2>1. life.releasing' = <<"router", "adapter", "browser", "database">>
    BY <1>3, <1>13, LiveStages DEF Cleanup
  <2>2. LeftOver' \in SUBSET {"database", "playwright", "chromium", "context", "workers", "router"}
    BY <1>6, <1>13 DEF MayHold
  <2>3. Places(life.releasing', 4, 2)
    BY <2>1 DEF Places
  <2>4. /\ life.releasing'[1] = "router" /\ life.releasing'[2] = "adapter"
        /\ life.releasing'[3] = "browser" /\ life.releasing'[4] = "database"
    BY <2>1
  <2>5. ReleaseInv'
    BY <1>3, <1>6, <2>2, <2>3, <2>4 DEF ReleaseInv, Released, Places
  <2> QED
    BY <1>8, <1>9, <2>5 DEF LifecycleInv
<1>14. CASE stage \in {"responder", "bot"}
  <2>1. life.releasing' = <<"responder", "router", "adapter", "browser", "database">>
    BY <1>3, <1>14, LiveStages DEF Cleanup
  <2>2. LeftOver' \in SUBSET {"database", "playwright", "chromium", "context", "workers", "router", "responder"}
    BY <1>6, <1>14 DEF MayHold, Resources
  <2>3. Places(life.releasing', 5, 3)
    BY <2>1 DEF Places
  <2>4. /\ life.releasing'[1] = "responder" /\ life.releasing'[2] = "router"
        /\ life.releasing'[3] = "adapter" /\ life.releasing'[4] = "browser"
        /\ life.releasing'[5] = "database"
    BY <2>1
  <2>5. ReleaseInv'
    BY <1>3, <1>6, <2>2, <2>3, <2>4 DEF ReleaseInv, Released, Places
  <2> QED
    BY <1>8, <1>9, <2>5 DEF LifecycleInv
<1> QED
  BY <1>2, <1>10, <1>11, <1>12, <1>13, <1>14 DEF StageNames

LEMMA RunningKeeps ==
    ASSUME LifecycleInv, Operate \/ \E closed \in BOOLEAN : StopRunning(closed)
    PROVE  LifecycleInv'
<1>1. /\ life.phase = "running" /\ life.live \in BOOLEAN /\ life.failed = "none"
      /\ life.live => "context" \in held
      /\ "workers" \in held => "context" \in held
      /\ held \in SUBSET Resources /\ life.releasing \in Seq(Boundaries)
  BY DEF LifecycleInv, LifecycleTypes, BuildInv, Operate, StopRunning
<1>2. CASE Operate
  <2>1. life' = life /\ kept' = kept /\ held' = held \cup {"workers"} /\ life.live
    BY <1>2 DEF Operate
  <2> QED
    BY <1>1, <2>1 DEF LifecycleInv, LifecycleTypes, BuildInv, ReleaseInv, Resources
<1>3. ASSUME NEW closed \in BOOLEAN, StopRunning(closed) PROVE LifecycleInv'
  <2>1. /\ held' \in SUBSET held /\ ("context" \in held => "context" \in held')
        /\ life' = [phase |-> "releasing", live |-> life.live, todo |-> life.todo,
                    failed |-> life.failed, releasing |-> Closing]
    BY <1>3 DEF StopRunning, LifecycleInv, LifecycleTypes
  <2>2. life.releasing' = <<"bot", "adapter", "browser", "responder", "router", "database">>
    BY <2>1 DEF Closing
  <2>3. LifecycleTypes'
    <3>1. Closing \in Seq(Boundaries)
      BY DEF Closing, Boundaries
    <3> QED
      BY <1>1, <2>1, <3>1 DEF LifecycleTypes
  <2>4. LeftOver' \in SUBSET Resources /\ ("workers" \in LeftOver' => "context" \in held')
    BY <1>1, <2>1 DEF LeftOver
  <2>5. Places(life.releasing', 6, 2)
    BY <2>2 DEF Places
  <2>6. /\ life.releasing'[1] = "bot" /\ life.releasing'[2] = "adapter"
        /\ life.releasing'[3] = "browser" /\ life.releasing'[4] = "responder"
        /\ life.releasing'[5] = "router" /\ life.releasing'[6] = "database"
    BY <2>2
  <2>7. life'.phase = "releasing"
    BY <2>1
  <2>8. ReleaseInv'
    BY <2>4, <2>5, <2>6, <2>7 DEF ReleaseInv, Released, Resources, Places
  <2> QED
    BY <2>1, <2>3, <2>8 DEF LifecycleInv, BuildInv
<1> QED
  BY <1>2, <1>3

(* What a boundary does not release, it has tried. *)
LEMMA ReleaseKeeps ==
    ASSUME LifecycleInv, Release
    PROVE  LifecycleInv'
<1> DEFINE boundary == Head(life.releasing)
           todo == Tail(life.releasing)
           parts == PartsOf(boundary)
<1>1. /\ life.phase = "releasing" /\ life.releasing \in Seq(Boundaries) /\ life.releasing # <<>>
      /\ held \in SUBSET Resources
  BY DEF LifecycleInv, LifecycleTypes, Release
<1>2. /\ boundary \in Boundaries /\ boundary = life.releasing[1]
      /\ Len(life.releasing) \in Nat \ {0}
      /\ todo \in Seq(Boundaries) /\ Len(todo) = Len(life.releasing) - 1
      /\ \A i \in 1..Len(todo) : todo[i] = life.releasing[i + 1]
  BY <1>1
<1>3. PICK n \in 0..Len(parts) :
        /\ n < Len(parts) => parts[n + 1] \in held
        /\ held' = held \ {parts[i] : i \in 1..n}
        /\ kept' = kept \cup (held \cap {parts[i] : i \in n + 1..Len(parts)})
        /\ life' = [life EXCEPT !.releasing = GoesOn(@, n = Len(parts))]
  BY DEF Release
<1>4. life' = [phase |-> "releasing", live |-> life.live, todo |-> life.todo,
               failed |-> life.failed, releasing |-> todo]
  BY <1>1, <1>3 DEF LifecycleInv, LifecycleTypes, GoesOn
<1>5. Forgotten' = Forgotten
  BY <1>4 DEF Forgotten, Fails
<1>6. Len(parts) \in Nat /\ {parts[i] : i \in 1..Len(parts)} = Released(boundary)
  <2>1. CASE boundary = "adapter"
    BY <2>1 DEF PartsOf, Released
  <2>2. CASE boundary = "browser"
    <3>1. parts = <<"context", "chromium", "playwright">> /\ Len(parts) = 3
      BY <2>2 DEF PartsOf
    <3>2. parts[1] = "context" /\ parts[2] = "chromium" /\ parts[3] = "playwright"
      BY <3>1
    <3> HIDE DEF parts
    <3>3. 1..Len(parts) = {1, 2, 3}
      BY <3>1
    <3>4. {parts[i] : i \in {1, 2, 3}} = {parts[1], parts[2], parts[3]}
      OBVIOUS
    <3> QED
      BY <2>2, <3>1, <3>2, <3>3, <3>4 DEF Released
  <2>3. CASE boundary \notin {"adapter", "browser"}
    BY <2>3 DEF PartsOf, Released
  <2> QED
    BY <2>1, <2>2, <2>3
<1> HIDE DEF parts
<1>7. /\ held' \in SUBSET held /\ \A p \in held : p \notin held' => p \in Released(boundary)
      /\ \A p \in held' : p \in Released(boundary) => p \in kept'
      /\ kept \in SUBSET kept'
  BY <1>3, <1>6
<1>8. LeftOver' \in SUBSET LeftOver /\ \A p \in LeftOver' : p \notin Released(boundary)
  BY <1>5, <1>7 DEF LeftOver
<1> HIDE DEF boundary, todo
<1>9. LifecycleTypes'
  BY <1>1, <1>2, <1>4, <1>7 DEF LifecycleInv, LifecycleTypes
<1>10. ASSUME NEW p \in LeftOver'
       PROVE  \E i \in 1..Len(todo) : p \in Released(todo[i])
  <2>1. PICK i \in 1..Len(life.releasing) : p \in Released(life.releasing[i])
    BY <1>1, <1>8, <1>10 DEF LifecycleInv, ReleaseInv
  <2>2. i # 1
    BY <1>2, <1>8, <2>1
  <2>3. i - 1 \in 1..Len(todo) /\ (i - 1) + 1 = i
    BY <1>2, <2>2
  <2>4. todo[i - 1] = life.releasing[i]
    BY <1>2, <2>3
  <2> QED
    BY <2>1, <2>3, <2>4
<1>11. ASSUME "workers" \in LeftOver'
       PROVE  /\ "context" \in held'
              /\ \E i \in 1..Len(todo) :
                   /\ todo[i] = "adapter"
                   /\ \A j \in 1..Len(todo) : todo[j] = "browser" => i < j
  <2>1. "workers" \in LeftOver /\ "workers" \notin Released(boundary)
    BY <1>8, <1>11
  <2>2. PICK i \in 1..Len(life.releasing) :
          /\ life.releasing[i] = "adapter"
          /\ \A j \in 1..Len(life.releasing) : life.releasing[j] = "browser" => i < j
    BY <1>1, <2>1 DEF LifecycleInv, ReleaseInv
  <2>3. boundary # "adapter"
    BY <2>1 DEF Released
  <2>4. i # 1 /\ boundary # "browser"
    BY <1>2, <2>2, <2>3
  <2>5. "context" \in held'
    <3>1. "context" \in held
      BY <1>1, <2>1 DEF LifecycleInv, ReleaseInv
    <3>2. "context" \notin Released(boundary)
      BY <1>2, <2>4 DEF Released, Boundaries
    <3> QED
      BY <1>7, <3>1, <3>2
  <2>6. i - 1 \in 1..Len(todo) /\ (i - 1) + 1 = i
    BY <1>2, <2>4
  <2>7. todo[i - 1] = "adapter"
    BY <1>2, <2>2, <2>6
  <2>8. ASSUME NEW j \in 1..Len(todo), todo[j] = "browser" PROVE i - 1 < j
    <3>1. j + 1 \in 1..Len(life.releasing) /\ life.releasing[j + 1] = "browser"
      BY <1>2, <2>8
    <3>2. i < j + 1
      BY <2>2, <3>1
    <3> QED
      BY <3>2
  <2> QED
    BY <2>5, <2>6, <2>7, <2>8
<1>12. ReleaseInv'
  BY <1>4, <1>10, <1>11 DEF ReleaseInv
<1> QED
  BY <1>4, <1>9, <1>12 DEF LifecycleInv, BuildInv

LEMMA NextLifecycleInv == LifecycleInv /\ [LifecycleNext]_lifeVars => LifecycleInv'
<1> SUFFICES ASSUME LifecycleInv, [LifecycleNext]_lifeVars PROVE LifecycleInv'
  OBVIOUS
<1>1. CASE EndRelease
  <2>1. /\ life' = [phase |-> "over", live |-> life.live, todo |-> life.todo,
                    failed |-> life.failed, releasing |-> life.releasing]
        /\ life.phase = "releasing" /\ life.releasing = <<>> /\ UNCHANGED <<held, kept>>
    BY <1>1 DEF EndRelease, LifecycleInv, LifecycleTypes
  <2>2. LifecycleTypes'
    BY <2>1 DEF LifecycleInv, LifecycleTypes
  <2>3. LeftOver = {} /\ LeftOver' = LeftOver
    <3>1. 1..Len(life.releasing) = {}
      BY <2>1
    <3>2. LeftOver = {}
      BY <2>1, <3>1 DEF LifecycleInv, ReleaseInv
    <3>3. Forgotten' = Forgotten
      BY <2>1 DEF Forgotten, Fails
    <3> QED
      BY <2>1, <3>2, <3>3 DEF LeftOver
  <2> QED
    BY <2>1, <2>2, <2>3 DEF LifecycleInv, BuildInv, ReleaseInv
<1>2. CASE UNCHANGED lifeVars
  BY <1>2 DEF lifeVars, LifecycleInv, LifecycleTypes, BuildInv, ReleaseInv, LeftOver, Forgotten, Fails
<1> QED
  BY <1>1, <1>2, BuildKeeps, FailKeeps, RunningKeeps, ReleaseKeeps DEF LifecycleNext

(* build_runtime and close: the boundaries still to be released cover what is
   held, in every behaviour. *)
THEOREM LifecycleInvariantHolds == LifecycleSpec => []LifecycleInv
BY InitLifecycleInv, NextLifecycleInv, PTL DEF LifecycleSpec

(* build_runtime, _cleanup_failed_runtime_build and close: whatever fails or
   is cancelled, in the end only what would not close is held, apart from the
   two leaks that are named, and no worker outlives its page. *)
THEOREM NothingIsForgotten == LifecycleSpec => []NothingIsLeft
<1>1. LifecycleInv => NothingIsLeft
  BY DEF LifecycleInv, LifecycleTypes, BuildInv, ReleaseInv, NothingIsLeft, LeftOver
<1> QED
  BY <1>1, LifecycleInvariantHolds, PTL
-----------------------------------------------------------------------------
(* What would not close is of a boundary that is not tried again. *)
KeptInv ==
    /\ kept \in SUBSET held
    /\ life.phase \in {"building", "running"} => kept = {}
    /\ \A i, j \in 1..Len(life.releasing) : life.releasing[i] = life.releasing[j] => i = j
    /\ \A i \in 1..Len(life.releasing) : kept \cap Released(life.releasing[i]) = {}

LEMMA NothingTwice ==
    ASSUME NEW stage \in StageNames
    PROVE  \A i, j \in 1..Len(Cleanup(stage)) : Cleanup(stage)[i] = Cleanup(stage)[j] => i = j
<1>1. CASE stage = "settings"
  BY <1>1 DEF Cleanup
<1>2. CASE stage \in ToSet(LiveAdapter) \cup {"sign in"} /\ stage # "settings"
  <2>1. Cleanup(stage) = <<"browser", "database">>
    BY <1>2, LiveStages DEF Cleanup
  <2> QED
    BY <2>1
<1>3. CASE stage \in {"services", "router"}
  <2>1. Cleanup(stage) = <<"adapter", "browser", "database">>
    BY <1>3, LiveStages DEF Cleanup
  <2> QED
    BY <2>1
<1>4. CASE stage = "coordinator"
  <2>1. Cleanup(stage) = <<"router", "adapter", "browser", "database">>
    BY <1>4, LiveStages DEF Cleanup
  <2> QED
    BY <2>1
<1>5. CASE stage \in {"responder", "bot"}
  <2>1. Cleanup(stage) = <<"responder", "router", "adapter", "browser", "database">>
    BY <1>5, LiveStages DEF Cleanup
  <2> QED
    BY <2>1
<1> QED
  BY <1>1, <1>2, <1>3, <1>4, <1>5, LiveStages DEF StageNames

LEMMA NextKeptInv == LifecycleInv /\ KeptInv /\ [LifecycleNext]_lifeVars => KeptInv'
<1> SUFFICES ASSUME LifecycleInv, KeptInv, [LifecycleNext]_lifeVars PROVE KeptInv'
  OBVIOUS
<1>1. /\ life = [phase |-> life.phase, live |-> life.live, todo |-> life.todo,
                 failed |-> life.failed, releasing |-> life.releasing]
      /\ life.releasing \in Seq(Boundaries) /\ held \in SUBSET Resources
  BY DEF LifecycleInv, LifecycleTypes
<1>2. CASE BuildStage
  <2>1. life.phase = "building" /\ kept' = kept /\ held' = held \cup Gains(Head(life.todo))
    BY <1>2 DEF BuildStage
  <2>2. life'.releasing = life.releasing
    BY <1>1, <1>2 DEF BuildStage
  <2> QED
    BY <2>1, <2>2 DEF KeptInv
<1>3. CASE FailStage
  <2> DEFINE stage == Head(life.todo)
  <2>1. life.phase = "building" /\ kept' = kept /\ life'.phase = "releasing" /\ life'.releasing = Cleanup(stage)
    BY <1>1, <1>3 DEF FailStage
  <2>2. kept' = {}
    BY <2>1 DEF KeptInv
  <2>3. stage \in StageNames
    BY <2>1, HeadAndTail DEF LifecycleInv, BuildInv, Planned
  <2> HIDE DEF stage
  <2> QED
    BY <2>1, <2>2, <2>3, NothingTwice DEF KeptInv
<1>4. CASE Operate
  BY <1>4 DEF Operate, KeptInv
<1>5. ASSUME NEW closed \in BOOLEAN, StopRunning(closed) PROVE KeptInv'
  <2>1. life.phase = "running" /\ kept' = kept /\ life'.phase = "releasing" /\ life'.releasing = Closing
    BY <1>1, <1>5 DEF StopRunning
  <2>2. kept' = {}
    BY <2>1 DEF KeptInv
  <2>3. \A i, j \in 1..Len(Closing) : Closing[i] = Closing[j] => i = j
    BY DEF Closing
  <2> QED
    BY <2>1, <2>2, <2>3 DEF KeptInv
<1>6. CASE Release
  <2> DEFINE boundary == Head(life.releasing)
             todo == Tail(life.releasing)
             parts == PartsOf(boundary)
  <2>1. life.phase = "releasing" /\ life.releasing # <<>>
    BY <1>6 DEF Release
  <2>2. /\ boundary \in Boundaries /\ boundary = life.releasing[1]
        /\ Len(life.releasing) \in Nat \ {0} /\ Len(todo) = Len(life.releasing) - 1
        /\ \A i \in 1..Len(todo) : todo[i] = life.releasing[i + 1] /\ i + 1 \in 1..Len(life.releasing)
    BY <1>1, <2>1
  <2>3. PICK n \in 0..Len(parts) :
          /\ held' = held \ {parts[i] : i \in 1..n}
          /\ kept' = kept \cup (held \cap {parts[i] : i \in n + 1..Len(parts)})
          /\ life' = [life EXCEPT !.releasing = GoesOn(@, n = Len(parts))]
    BY <1>6 DEF Release
  <2>4. life'.phase = "releasing" /\ life'.releasing = todo
    BY <1>1, <2>1, <2>3 DEF GoesOn
  <2>5. /\ Len(parts) \in Nat /\ \A i \in 1..Len(parts) : parts[i] \in Released(boundary)
        /\ \A i, j \in 1..Len(parts) : parts[i] = parts[j] => i = j
    <3>1. CASE boundary = "adapter"
      BY <3>1 DEF PartsOf, Released
    <3>2. CASE boundary = "browser"
      BY <3>2 DEF PartsOf, Released
    <3>3. CASE boundary \notin {"adapter", "browser"}
      BY <3>3 DEF PartsOf, Released
    <3> QED
      BY <3>1, <3>2, <3>3
  <2> HIDE DEF parts
  <2>6. kept' \in SUBSET held'
    <3>1. ASSUME NEW p \in kept' PROVE p \in held'
      <4>1. CASE p \in kept
        <5>1. p \notin Released(boundary) /\ p \in held
          BY <2>2, <4>1 DEF KeptInv
        <5> QED
          BY <2>3, <2>5, <5>1
      <4>2. CASE p \in held /\ p \in {parts[i] : i \in n + 1..Len(parts)}
        BY <2>3, <2>5, <4>2
      <4> QED
        BY <2>3, <3>1, <4>1, <4>2
    <3> QED
      BY <3>1
  <2>7. kept' \in SUBSET (kept \cup Released(boundary))
    BY <2>3, <2>5
  <2>8. \A i \in 1..Len(todo) : todo[i] # boundary /\ todo[i] \in Boundaries
    BY <1>1, <2>2 DEF KeptInv
  <2>9. \A b, c \in Boundaries : b # c => Released(b) \cap Released(c) = {}
    BY DEF Released, Boundaries
  <2>10. \A i \in 1..Len(todo) : kept' \cap Released(todo[i]) = {}
    <3>1. ASSUME NEW i \in 1..Len(todo) PROVE kept' \cap Released(todo[i]) = {}
      <4>1. kept \cap Released(todo[i]) = {}
        BY <2>2 DEF KeptInv
      <4>2. Released(boundary) \cap Released(todo[i]) = {}
        BY <2>2, <2>8, <2>9
      <4> QED
        BY <2>7, <4>1, <4>2
    <3> QED
      BY <3>1
  <2>11. \A i, j \in 1..Len(todo) : todo[i] = todo[j] => i = j
    <3>1. ASSUME NEW i \in 1..Len(todo), NEW j \in 1..Len(todo), todo[i] = todo[j] PROVE i = j
      <4>1. i + 1 = j + 1
        BY <2>2, <3>1 DEF KeptInv
      <4> QED
        BY <4>1
    <3> QED
      BY <3>1
  <2> HIDE DEF todo
  <2> QED
    BY <2>4, <2>6, <2>10, <2>11 DEF KeptInv
<1>7. CASE EndRelease
  BY <1>1, <1>7 DEF EndRelease, KeptInv
<1>8. CASE UNCHANGED lifeVars
  BY <1>8 DEF lifeVars, KeptInv
<1> QED
  BY <1>2, <1>3, <1>4, <1>5, <1>6, <1>7, <1>8 DEF LifecycleNext

LEMMA LifecycleTyped ==
    /\ (\E builds \in BOOLEAN : LifecycleInit(builds)) => KeptInv
    /\ LifecycleInv /\ KeptInv => LifecycleTypeOK
<1>1. (\E builds \in BOOLEAN : LifecycleInit(builds)) => KeptInv
  BY DEF LifecycleInit, KeptInv
<1>2. LifecycleInv /\ KeptInv => LifecycleTypeOK
  BY DEF LifecycleInv, LifecycleTypes, KeptInv, LifecycleTypeOK
<1> QED
  BY <1>1, <1>2
=============================================================================
