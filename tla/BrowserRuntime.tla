--------------------------- MODULE BrowserRuntime ---------------------------
(***************************************************************************)
(* BrowserOperationQueue, CircuitBreaker and BrowserCoordinator: how calls *)
(* share the one DIC page.                                                 *)
(*                                                                         *)
(* A call is put into a bounded asyncio queue, a worker runs it under the  *)
(* page lock and through the circuit breaker of its scope, and the result  *)
(* goes back through a future.  A caller may be cancelled at any await.    *)
(* What wakes whom, and in which order, is asyncio's: `putters` waits for  *)
(* a free place, `woken` is the order in which the loop resumes tasks.     *)
(*                                                                         *)
(* Every caller uses the key "dic-browser", so there is one keyed lock.    *)
(***************************************************************************)
EXTENDS Integers, Sequences, FiniteSets, Subsequences

CONSTANTS
    Calls,      \* submissions, one caller each
    KindOf,     \* read (retried), write (run_write, run_once), reconcile
    ScopeOf,    \* the circuit breaker of each call: its semantic name
    Scopes,
    Workers,    \* dic_max_concurrent_browser_operations of them
    QueueSize,  \* max_queue_size
    Attempts,   \* ReadRetryPolicy.attempts
    Threshold   \* failure_threshold of a breaker

ASSUME BrowserAssumption ==
    /\ KindOf \in [Calls -> {"read", "write", "reconcile"}]
    /\ ScopeOf \in [Calls -> Scopes]
    /\ {QueueSize, Attempts, Threshold} \subseteq Nat \ {0}
    /\ Workers # {} /\ IsFiniteSet(Workers)
    /\ {"stop", "closer", "none"} \cap (Calls \cup Workers) = {}

VARIABLES
    caller,     \* what each caller is doing; "late": queued after close() began
    queue,      \* the queue: calls and "stop" sentinels
    putters,    \* tasks waiting in queue.put, in order
    woken,      \* tasks the event loop is about to resume, in order
    unfinished, \* the queue's count of tasks not done
    closer,     \* the close() call: where it stands, sentinels still to put
    worker,     \* each worker: pc, its call, the attempt
    pageLock,   \* the worker that holds the lock of "dic-browser"
    breaker,    \* the circuit breakers
    runs        \* how often each call's operation was started

browserVars == <<caller, queue, putters, woken, unfinished, closer, worker, pageLock, breaker, runs>>
submitVars == <<caller, queue, putters, woken, unfinished, closer>>
pageVars == <<worker, pageLock, breaker, runs>>

Asleep == [pc |-> "idle", call |-> "none", attempt |-> 0]
NewBreaker == [state |-> "closed", failures |-> 0, inFlight |-> FALSE, elapsed |-> FALSE]

OneSentinel == 1    \* fault: close() puts one sentinel, whatever the number of workers

Sentinels == Cardinality(Workers)

(* With no calls expected the runtime stays as it is after construction. *)
BrowserInit(expected) ==
    /\ caller = [c \in Calls |-> IF c \in expected THEN "new" ELSE "absent"]
    /\ queue = <<>> /\ putters = <<>> /\ woken = <<>>
    /\ unfinished = 0
    /\ closer = [pc |-> "open", left |-> Sentinels]
    /\ worker = [w \in Workers |-> Asleep]
    /\ pageLock = "none"
    /\ breaker = [s \in Scopes |-> NewBreaker]
    /\ runs = [c \in Calls |-> 0]

Full == Len(queue) >= QueueSize
Started == \E c \in Calls : caller[c] \notin {"new", "absent", "refused"}
-----------------------------------------------------------------------------
(* asyncio.Queue *)
Enqueue(x) ==
    /\ queue' = Append(queue, x)
    /\ unfinished' = unfinished + 1

(* _wakeup_next(_putters), after `resumed` has left the head of `woken`. *)
WakePutter(resumed) ==
    IF putters = <<>> THEN woken' = resumed /\ UNCHANGED putters
    ELSE woken' = Append(resumed, Head(putters)) /\ putters' = Tail(putters)

(* submit.  A caller that finds room need not wait behind those just woken. *)
Submit(c) ==
    /\ caller[c] = "new"
    /\ \/ /\ closer.pc # "open"
          /\ caller' = [caller EXCEPT ![c] = "refused"]
          /\ UNCHANGED <<queue, putters, unfinished>>
       \/ /\ closer.pc = "open" /\ ~Full
          /\ Enqueue(c)
          /\ caller' = [caller EXCEPT ![c] = "queued"]
          /\ UNCHANGED putters
       \/ /\ closer.pc = "open" /\ Full
          /\ putters' = Append(putters, c)
          /\ caller' = [caller EXCEPT ![c] = "putting"]
          /\ UNCHANGED <<queue, unfinished>>
    /\ UNCHANGED <<woken, closer, pageVars>>

(* A cancelled caller leaves the putters at once; if it was already woken it
   learns of the cancellation when it is resumed. *)
CancelCaller(c) ==
    /\ caller[c] \in {"queued", "late", "putting"}
    /\ caller' = [caller EXCEPT ![c] = "cancelled"]
    /\ putters' = Kept(putters, {i \in DOMAIN putters : putters[i] # c})
    /\ UNCHANGED <<queue, woken, unfinished, closer, pageVars>>

(* The loop resumes a woken submitter: it puts, waits again, or hands the
   free place on because it was cancelled. *)
ResumePutter(c) ==
    /\ woken # <<>> /\ Head(woken) = c
    /\ \/ /\ caller[c] = "putting" /\ ~Full
          /\ Enqueue(c)
          /\ caller' = [caller EXCEPT ![c] = IF closer.pc = "open" THEN "queued" ELSE "late"]
          /\ woken' = Tail(woken) /\ UNCHANGED putters
       \/ /\ caller[c] = "putting" /\ Full
          /\ putters' = Append(putters, c) /\ woken' = Tail(woken)
          /\ UNCHANGED <<caller, queue, unfinished>>
       \/ /\ caller[c] = "cancelled"
          /\ IF Full THEN woken' = Tail(woken) /\ UNCHANGED putters ELSE WakePutter(Tail(woken))
          /\ UNCHANGED <<caller, queue, unfinished>>
    /\ UNCHANGED <<closer, pageVars>>
-----------------------------------------------------------------------------
(* close: refuse new calls, join the queue, put one sentinel per worker,
   gather the workers.  It puts as many sentinels as there is room for before
   it waits. *)
PutSentinels(resumed) ==
    LET room == QueueSize - Len(queue)
        n == IF room < closer.left THEN room ELSE closer.left
    IN
    /\ woken' = resumed
    /\ queue' = queue \o [i \in 1..n |-> "stop"]
    /\ unfinished' = unfinished + n
    /\ closer' = [pc |-> IF n = closer.left THEN "gathering" ELSE "putting", left |-> closer.left - n]
    /\ putters' = IF n = closer.left THEN putters ELSE Append(putters, "closer")

Close ==
    /\ closer.pc = "open"
    /\ \/ ~Started /\ closer' = [closer EXCEPT !.pc = "closed"]
          /\ UNCHANGED <<queue, putters, woken, unfinished>>
       \/ Started /\ unfinished > 0 /\ closer' = [closer EXCEPT !.pc = "joining"]
          /\ UNCHANGED <<queue, putters, woken, unfinished>>
       \/ Started /\ unfinished = 0 /\ PutSentinels(woken)
    /\ UNCHANGED <<caller, pageVars>>

ResumeCloser ==
    /\ woken # <<>> /\ Head(woken) = "closer"
    /\ PutSentinels(Tail(woken))
    /\ UNCHANGED <<caller, pageVars>>

Gather ==
    /\ closer.pc = "gathering"
    /\ \A w \in Workers : worker[w].pc = "exited"
    /\ closer' = [closer EXCEPT !.pc = "closed"]
    /\ UNCHANGED <<caller, queue, putters, woken, unfinished, pageVars>>

(* task_done: the last one wakes close() out of join. *)
TaskDone(resumed) ==
    /\ unfinished' = unfinished - 1
    /\ IF unfinished = 1 /\ closer.pc = "joining"
       THEN closer' = [closer EXCEPT !.pc = "putting"] /\ woken' = Append(resumed, "closer")
       ELSE UNCHANGED closer /\ woken' = resumed
-----------------------------------------------------------------------------
(* CircuitBreaker *)
MayCall(b) == \/ b.state = "closed"
              \/ b.state = "open" /\ b.elapsed /\ ~b.inFlight
              \/ b.state = "half_open" /\ ~b.inFlight

AfterBeforeCall(b) ==
    IF b.state = "closed" \/ (b.state = "open" /\ ~b.elapsed) THEN b
    ELSE [b EXCEPT !.state = "half_open", !.inFlight = TRUE, !.elapsed = FALSE]

(* failures counts up to the threshold: beyond it the code only compares. *)
Failed(b) ==
    LET n == IF b.failures < Threshold THEN b.failures + 1 ELSE Threshold IN
    IF b.state = "half_open" \/ n = Threshold
    THEN [state |-> "open", failures |-> n, inFlight |-> FALSE, elapsed |-> FALSE]
    ELSE [b EXCEPT !.failures = n, !.inFlight = FALSE]

(* recovery_timeout_seconds have passed since the circuit opened. *)
Recover(s) ==
    /\ breaker[s].state = "open" /\ ~breaker[s].elapsed
    /\ breaker' = [breaker EXCEPT ![s].elapsed = TRUE]
    /\ UNCHANGED <<submitVars, worker, pageLock, runs>>
-----------------------------------------------------------------------------
(* The workers *)
NoLock == TRUE    \* fault: no keyed lock around the operation

LockFree == pageLock = "none"

Waiting == {w \in Workers : worker[w].pc = "locking"}

(* asyncio.Lock hands itself to the longest waiter. *)
ReleaseLock ==
    IF Waiting = {} THEN pageLock' = "none" ELSE \E w \in Waiting : pageLock' = w

Take(w) ==
    /\ worker[w].pc = "idle" /\ queue # <<>>
    /\ queue' = Tail(queue)
    /\ LET c == Head(queue) IN
       IF c = "stop" \/ caller[c] = "cancelled"
       THEN /\ worker' = [worker EXCEPT ![w].pc = IF c = "stop" THEN "exited" ELSE "idle"]
            /\ putters' = IF putters = <<>> THEN putters ELSE Tail(putters)
            /\ TaskDone(IF putters = <<>> THEN woken ELSE Append(woken, Head(putters)))
       ELSE /\ worker' = [worker EXCEPT ![w] = [pc |-> "locking", call |-> c, attempt |-> 1]]
            /\ WakePutter(woken) /\ UNCHANGED <<unfinished, closer>>
    /\ UNCHANGED <<caller, pageLock, breaker, runs>>

AcquireLock(w) ==
    /\ worker[w].pc = "locking"
    /\ LockFree \/ pageLock = w
    /\ pageLock' = w
    /\ worker' = [worker EXCEPT ![w].pc = "guard"]
    /\ UNCHANGED <<submitVars, breaker, runs>>

(* The call ends: its caller, if still there, gets the result or exception. *)
Finish(w) ==
    LET c == worker[w].call IN
    /\ caller' = [caller EXCEPT ![c] = IF @ = "cancelled" THEN @ ELSE "answered"]
    /\ worker' = [worker EXCEPT ![w] = Asleep]
    /\ ReleaseLock
    /\ TaskDone(woken)
    /\ UNCHANGED <<queue, putters>>

(* before_call and the start of the operation; a reconciliation reads even
   if the circuit is open. *)
StartOperation(w) ==
    LET c == worker[w].call
        b == breaker[ScopeOf[c]]
    IN
    /\ worker[w].pc = "guard"
    /\ \/ /\ KindOf[c] = "reconcile" \/ MayCall(b)
          /\ breaker' = [breaker EXCEPT ![ScopeOf[c]] =
                            IF KindOf[c] = "reconcile" THEN b ELSE AfterBeforeCall(b)]
          /\ worker' = [worker EXCEPT ![w].pc = "running"]
          /\ runs' = [runs EXCEPT ![c] = @ + 1]
          /\ UNCHANGED <<submitVars, pageLock>>
       \/ /\ KindOf[c] # "reconcile" /\ ~MayCall(b)
          /\ Finish(w)
          /\ UNCHANGED <<breaker, runs>>

(* How an operation ends.  "transient": DicTransientError, connection lost or
   the operation's time-out; "ui_changed": also an ambiguous write outcome;
   "refused": any other exception, which proves that DIC answers. *)
OperationResult == {"ok", "transient", "ui_changed", "refused"}

RetryAll(c, outcome) == outcome = "transient"    \* fault: writes are retried too

Retryable(c, outcome) == outcome = "transient" /\ KindOf[c] = "read"

IgnoresRefusals(c, outcome, b) ==    \* fault: a refusal is not recorded
    CASE outcome = "ok" -> NewBreaker [] outcome = "refused" -> b [] OTHER -> Failed(b)

(* record_success, record_failure; any exception of a reconciliation fails. *)
Recorded(c, outcome, b) ==
    IF outcome = "ok" \/ (outcome = "refused" /\ KindOf[c] # "reconcile")
    THEN NewBreaker ELSE Failed(b)

EndOperation(w, outcome) ==
    LET c == worker[w].call
        s == ScopeOf[c]
    IN
    /\ worker[w].pc = "running"
    /\ breaker' = [breaker EXCEPT ![s] = Recorded(c, outcome, @)]
    /\ IF Retryable(c, outcome) /\ worker[w].attempt < Attempts
       THEN /\ worker' = [worker EXCEPT ![w].pc = "backoff", ![w].attempt = @ + 1]
            /\ UNCHANGED <<submitVars, pageLock>>
       ELSE Finish(w)
    /\ UNCHANGED runs

(* asyncio.sleep(delay) is over; the lock was held all the time. *)
BackoffOver(w) ==
    /\ worker[w].pc = "backoff"
    /\ worker' = [worker EXCEPT ![w].pc = "guard"]
    /\ UNCHANGED <<submitVars, pageLock, breaker, runs>>

Work(w) ==
    \/ Take(w) \/ AcquireLock(w) \/ StartOperation(w) \/ BackoffOver(w)
    \/ \E outcome \in OperationResult : EndOperation(w, outcome)

(* What the event loop does by itself. *)
Loop ==
    \/ ResumeCloser \/ Gather
    \/ \E c \in Calls : ResumePutter(c)
    \/ \E w \in Workers : Work(w)

BrowserNext ==
    \/ Loop \/ Close
    \/ \E c \in Calls : Submit(c) \/ CancelCaller(c)
    \/ \E s \in Scopes : Recover(s)

(* The loop resumes what is ready, and wait_for ends every operation. *)
BrowserFairness ==
    /\ WF_browserVars(ResumeCloser \/ Gather \/ \E c \in Calls : ResumePutter(c))
    /\ \A w \in Workers : WF_browserVars(Work(w))
-----------------------------------------------------------------------------
CallState == {"absent", "new", "putting", "queued", "late", "answered", "refused", "cancelled"}

BrowserTypeOK ==
    /\ caller \in [Calls -> CallState]
    /\ queue \in Seq(Calls \cup {"stop"}) /\ Len(queue) <= QueueSize
    /\ putters \in Seq(Calls \cup {"closer"}) /\ woken \in Seq(Calls \cup {"closer"})
    /\ unfinished \in Nat
    /\ closer \in [pc : {"open", "joining", "putting", "gathering", "closed"},
                   left : 0..Cardinality(Workers)]
    /\ worker \in [Workers -> [pc : {"idle", "locking", "guard", "running", "backoff", "exited"},
                               call : Calls \cup {"none"}, attempt : 0..Attempts]]
    /\ pageLock \in Workers \cup {"none"}
    /\ breaker \in [Scopes -> [state : {"closed", "open", "half_open"}, failures : 0..Threshold,
                               inFlight : BOOLEAN, elapsed : BOOLEAN]]
    /\ runs \in [Calls -> Nat]

OnPage == {w \in Workers : worker[w].pc \in {"guard", "running", "backoff"}}

(* One page, however many workers the setting asks for: one operation at a
   time, waits between its attempts included, a write or reconciliation
   started once and a read at most read_retry.attempts times. *)
PageIsExclusive ==
    /\ \A v, w \in OnPage : v = w
    /\ \A c \in Calls : runs[c] <= IF KindOf[c] = "read" THEN Attempts ELSE 1

(* A breaker that waits for its half-open probe waits for a running
   operation: no way out of an operation leaves the flag set, which would
   refuse the scope until the process restarts. *)
ProbeOwned ==
    \A s \in Scopes : breaker[s].inFlight =>
        \E w \in Workers : worker[w].pc = "running" /\ ScopeOf[worker[w].call] = s

Waits(states) == \E c \in Calls : caller[c] \in states

(* Time and again everybody is served: nobody waits for room or for an answer,
   or the runtime is closed and nobody whose call was queued before close()
   still waits.  So no lost wake-up, cancelled submitter, exception or missing
   sentinel leaves a caller or close() waiting.  (A submitter that waited for
   room when close() was called is "late": it may be left behind the
   sentinels.) *)
EveryCallEnds ==
    []<>( /\ closer.pc \in {"open", "closed"}
          /\ ~Waits(IF closer.pc = "open" THEN {"queued", "putting"} ELSE {"queued"}) )
=============================================================================
