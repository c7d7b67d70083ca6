------------------------------ MODULE JobQueue ------------------------------
(***************************************************************************)
(* How a job reaches a pool goroutine: a Redis list (internal/queue), and  *)
(* the worker processes of one kind that share it. Each process has a main *)
(* goroutine (cmd/*-worker/main.go), a consumer (consumer.go) and a        *)
(* WorkerPool (internal/worker/pool.go). cmd/sync-worker and               *)
(* cmd/ingestion-worker differ in what a job does, which is left out: a    *)
(* job is a message, and it ends with nil or with an error.                *)
(*                                                                         *)
(* The pool's goroutines are interchangeable, so a pool is the set of the  *)
(* messages being run and the number of goroutines that have returned.     *)
(***************************************************************************)
EXTENDS Naturals, Sequences, FiniteSets

CONSTANTS
  Msgs,        \* the messages pushed on the list, each of them once: a push
               \* that the Redis client repeats is another message
  Malformed,   \* those that json.Unmarshal refuses
  Processes,
  Count,       \* workers.sync.count, workers.ingestion.count
  None         \* no message in the consumer's hand

ASSUME QueueAssumption ==
  /\ IsFiniteSet(Msgs)
  /\ Malformed \subseteq Msgs
  /\ IsFiniteSet(Processes)
  /\ Count \in Nat
  /\ None \notin Msgs

VARIABLES
  queue,     \* the Redis list, its left end first
  dlq,       \* messages on the dead-letter list
  main,      \* per process: where its main goroutine is, or how it ended
  consumer,  \* per process: where its consumer goroutine is
  hand,      \* per process: the message its consumer has popped
  jobChan,   \* per process: the buffered channel of the pool
  running,   \* per process: the messages whose job is being run
  returned   \* per process: how many pool goroutines have returned

\* History variables: only the properties read them.
VARIABLES
  sent,      \* messages in the order they were pushed
  started,   \* messages in the order their jobs were started
  done,      \* messages whose job returned nil
  failed,    \* messages whose job returned an error
  dropped,   \* messages Submit dropped
  lost       \* messages gone with a failed Redis call or with a process

redis   == <<queue, dlq>>
pool    == <<jobChan, running, returned>>
ends    == <<done, failed, dropped, lost>>
vars    == <<queue, dlq, main, consumer, hand, jobChan, running, returned,
             sent, started, done, failed, dropped, lost>>

Cap == 2 * Count   \* capacity of jobChan

Serving == "serving"
Stopped == {"exited", "fatal", "panicked", "killed"}
Mains == {Serving, "cancelled", "waiting"} \cup Stopped
Consumers == {"select", "brpop", "handle", "bury"}

TypeOK ==
  /\ queue \in Seq(Msgs)
  /\ dlq \subseteq Msgs
  /\ main \in [Processes -> Mains]
  /\ consumer \in [Processes -> Consumers]
  /\ hand \in [Processes -> Msgs \cup {None}]
  /\ jobChan \in [Processes -> Seq(Msgs)]
  /\ \A p \in Processes : Len(jobChan[p]) <= Cap
  /\ running \in [Processes -> SUBSET Msgs]
  /\ returned \in [Processes -> 0 .. Count]
  /\ \A p \in Processes : Cardinality(running[p]) + returned[p] <= Count
  /\ sent \in Seq(Msgs)
  /\ started \in Seq(Msgs)
  /\ done \subseteq Msgs
  /\ failed \subseteq Msgs
  /\ dropped \subseteq Msgs
  /\ lost \subseteq Msgs

Init ==
  /\ queue = <<>>
  /\ dlq = {}
  /\ main = [p \in Processes |-> Serving]
  /\ consumer = [p \in Processes |-> "select"]
  /\ hand = [p \in Processes |-> None]
  /\ jobChan = [p \in Processes |-> <<>>]
  /\ running = [p \in Processes |-> {}]
  /\ returned = [p \in Processes |-> 0]
  /\ sent = <<>>
  /\ started = <<>>
  /\ done = {}
  /\ failed = {}
  /\ dropped = {}
  /\ lost = {}

-----------------------------------------------------------------------------
Elements(s) == {s[i] : i \in DOMAIN s}

Up(p) == main[p] \notin Stopped

\* The context the goroutines of p share has been cancelled.
Cancelled(p) == main[p] # Serving

\* Mutant of Free: one goroutine too many.
FreeOneMore(p) == Cardinality(running[p]) + returned[p] <= Count

\* Mutant of Free: the goroutine does not wait for the job it runs.
FreeWhileRunning(p) == returned[p] < Count

\* A goroutine of p is free.
Free(p) == Cardinality(running[p]) + returned[p] < Count

\* What only the memory of process p holds.
Inside(p) == Elements(jobChan[p]) \cup running[p] \cup ({hand[p]} \ {None})

\* Process p ends: everything in its memory goes with it.
Ends(p, how) ==
  /\ main' = [main EXCEPT ![p] = how]
  /\ lost' = lost \cup Inside(p)
  /\ consumer' = [consumer EXCEPT ![p] = "select"]
  /\ hand' = [hand EXCEPT ![p] = None]
  /\ jobChan' = [jobChan EXCEPT ![p] = <<>>]
  /\ running' = [running EXCEPT ![p] = {}]
  /\ returned' = [returned EXCEPT ![p] = 0]
  /\ UNCHANGED <<redis, sent, started, done, failed, dropped>>

-----------------------------------------------------------------------------
\* Mutant of Enqueue: RPUSH, which makes the list a stack.
EnqueueAtRight(m) ==
  /\ m \notin Elements(sent)
  /\ queue' = Append(queue, m)
  /\ sent' = Append(sent, m)
  /\ UNCHANGED <<dlq, main, consumer, hand, pool, started, ends>>

(* EnqueueSyncJob, EnqueueIngestionJob: LPUSH.                             *)
Enqueue(m) ==
  /\ m \notin Elements(sent)
  /\ queue' = <<m>> \o queue
  /\ sent' = Append(sent, m)
  /\ UNCHANGED <<dlq, main, consumer, hand, pool, started, ends>>

(* The head of the consumer's loop. A cancelled context makes consume      *)
(* return ctx.Err(), Start returns it, and the goroutine in main.go turns  *)
(* it into log.Fatal: the process is over.                                 *)
Select(p) ==
  /\ Up(p)
  /\ consumer[p] = "select"
  /\ \/ /\ Cancelled(p)
        /\ Ends(p, "fatal")
     \/ /\ ~Cancelled(p)
        /\ consumer' = [consumer EXCEPT ![p] = "brpop"]
        /\ UNCHANGED <<redis, main, hand, pool, sent, started, ends>>

\* BRPOP takes the element at the right end of the list.
Popped == queue[Len(queue)]
PopQueue == queue' = SubSeq(queue, 1, Len(queue) - 1)

\* Mutant of Deliver: the message is read and left on the list.
DeliverUnpopped(p) ==
  /\ Up(p)
  /\ consumer[p] = "brpop"
  /\ queue # <<>>
  /\ hand' = [hand EXCEPT ![p] = Popped]
  /\ consumer' = [consumer EXCEPT ![p] = "handle"]
  /\ UNCHANGED <<redis, main, pool, sent, started, ends>>

(* BRPOP brings a message.                                                 *)
Deliver(p) ==
  /\ Up(p)
  /\ consumer[p] = "brpop"
  /\ queue # <<>>
  /\ hand' = [hand EXCEPT ![p] = Popped]
  /\ PopQueue
  /\ consumer' = [consumer EXCEPT ![p] = "handle"]
  /\ UNCHANGED <<dlq, main, pool, sent, started, ends>>

(* BRPOP times out or fails, the context cancelled or the connection       *)
(* broken; the server may have popped a message all the same.              *)
PopFails(p) ==
  /\ Up(p)
  /\ consumer[p] = "brpop"
  /\ consumer' = [consumer EXCEPT ![p] = "select"]
  /\ \/ UNCHANGED <<queue, lost>>
     \/ /\ queue # <<>>
        /\ PopQueue
        /\ lost' = lost \cup {Popped}
  /\ UNCHANGED <<dlq, main, hand, pool, sent, started, done, failed, dropped>>

-----------------------------------------------------------------------------
\* handleMessage has returned: the message is out of the consumer's hands.
Handled(p) ==
  /\ consumer' = [consumer EXCEPT ![p] = "select"]
  /\ hand' = [hand EXCEPT ![p] = None]

\* Mutant of Submit: the last slot of the channel is never used.
SubmitOffByOne(p) ==
  \/ /\ main[p] = "waiting"
     /\ Ends(p, "panicked")
  \/ /\ main[p] # "waiting"
     /\ Len(jobChan[p]) + 1 < Cap
     /\ jobChan' = [jobChan EXCEPT ![p] = Append(@, hand[p])]
     /\ Handled(p)
     /\ UNCHANGED <<redis, main, running, returned, sent, started, ends>>
  \/ /\ main[p] # "waiting"
     /\ Len(jobChan[p]) + 1 >= Cap
     /\ dropped' = dropped \cup {hand[p]}
     /\ Handled(p)
     /\ UNCHANGED <<redis, main, pool, sent, started, done, failed, lost>>

\* Submit never blocks: it drops the job when the channel is full. Sending on
\* the channel after close(jobChan) panics, which ends the process.
Submit(p) ==
  \/ /\ main[p] = "waiting"
     /\ Ends(p, "panicked")
  \/ /\ main[p] # "waiting"
     /\ Len(jobChan[p]) < Cap
     /\ jobChan' = [jobChan EXCEPT ![p] = Append(@, hand[p])]
     /\ Handled(p)
     /\ UNCHANGED <<redis, main, running, returned, sent, started, ends>>
  \/ /\ main[p] # "waiting"
     /\ Len(jobChan[p]) >= Cap
     /\ dropped' = dropped \cup {hand[p]}
     /\ Handled(p)
     /\ UNCHANGED <<redis, main, pool, sent, started, done, failed, lost>>

\* Mutant of HandleMessage: the error of json.Unmarshal is ignored.
HandleUnparsed(p) ==
  /\ Up(p)
  /\ consumer[p] = "handle"
  /\ Submit(p)

(* handleMessage: a message that cannot be unmarshalled is an error, any   *)
(* other is submitted to the pool and counts as handled.                   *)
HandleMessage(p) ==
  /\ Up(p)
  /\ consumer[p] = "handle"
  /\ \/ /\ hand[p] \in Malformed
        /\ consumer' = [consumer EXCEPT ![p] = "bury"]
        /\ UNCHANGED <<redis, main, hand, pool, sent, started, ends>>
     \/ /\ hand[p] \notin Malformed
        /\ Submit(p)

\* Mutant of MoveToDLQ: the error is logged and the message forgotten.
MoveNowhere(p) ==
  /\ Up(p)
  /\ consumer[p] = "bury"
  /\ Handled(p)
  /\ UNCHANGED <<redis, main, pool, sent, started, ends>>

(* The handler's error moves the message to the dead-letter list; that     *)
(* call can fail, applied or not.                                          *)
MoveToDLQ(p) ==
  /\ Up(p)
  /\ consumer[p] = "bury"
  /\ \/ dlq' = dlq \cup {hand[p]} /\ UNCHANGED lost
     \/ lost' = lost \cup {hand[p]} /\ UNCHANGED dlq
  /\ Handled(p)
  /\ UNCHANGED <<queue, main, pool, sent, started, done, failed, dropped>>

-----------------------------------------------------------------------------
(* A free pool goroutine takes the next job. When the context is done too, *)
(* its select may still choose the channel.                                *)
TakeJob(p) ==
  /\ Up(p)
  /\ Free(p)
  /\ jobChan[p] # <<>>
  /\ jobChan' = [jobChan EXCEPT ![p] = Tail(@)]
  /\ running' = [running EXCEPT ![p] = @ \cup {Head(jobChan[p])}]
  /\ started' = Append(started, Head(jobChan[p]))
  /\ UNCHANGED <<redis, main, consumer, hand, returned, sent, ends>>

\* Mutant of FinishJob: an error ends the goroutine as well.
FinishAndReturn(p) ==
  /\ Up(p)
  /\ \E m \in running[p] :
       /\ running' = [running EXCEPT ![p] = @ \ {m}]
       /\ \/ done' = done \cup {m} /\ UNCHANGED <<failed, returned>>
          \/ /\ failed' = failed \cup {m}
             /\ returned' = [returned EXCEPT ![p] = @ + 1]
             /\ UNCHANGED done
  /\ UNCHANGED <<redis, main, consumer, hand, jobChan, sent, started,
                 dropped, lost>>

(* A job returns; its error is logged and nothing else.                    *)
FinishJob(p) ==
  /\ Up(p)
  /\ \E m \in running[p] :
       /\ running' = [running EXCEPT ![p] = @ \ {m}]
       /\ \/ done' = done \cup {m} /\ UNCHANGED failed
          \/ failed' = failed \cup {m} /\ UNCHANGED done
  /\ UNCHANGED <<redis, main, consumer, hand, jobChan, returned, sent,
                 started, dropped, lost>>

(* A free pool goroutine returns: the context is done, or the channel is   *)
(* closed and drained.                                                     *)
WorkerReturns(p) ==
  /\ Up(p)
  /\ Free(p)
  /\ Cancelled(p) \/ (main[p] = "waiting" /\ jobChan[p] = <<>>)
  /\ returned' = [returned EXCEPT ![p] = @ + 1]
  /\ UNCHANGED <<redis, main, consumer, hand, jobChan, running, sent, started,
                 ends>>

-----------------------------------------------------------------------------
(* main receives SIGINT or SIGTERM and calls cancel().                     *)
Signal(p) ==
  /\ main[p] = Serving
  /\ main' = [main EXCEPT ![p] = "cancelled"]
  /\ UNCHANGED <<redis, consumer, hand, pool, sent, started, ends>>

(* main calls Stop: close(jobChan), then wg.Wait().                        *)
CloseChan(p) ==
  /\ main[p] = "cancelled"
  /\ main' = [main EXCEPT ![p] = "waiting"]
  /\ UNCHANGED <<redis, consumer, hand, pool, sent, started, ends>>

(* wg.Wait() returns, main returns, and with it the process.               *)
Exit(p) ==
  /\ main[p] = "waiting"
  /\ returned[p] = Count
  /\ Ends(p, "exited")

(* The process is killed.                                                  *)
Kill(p) ==
  /\ Up(p)
  /\ Ends(p, "killed")

(* Somebody starts the process again.                                      *)
Start(p) ==
  /\ ~Up(p)
  /\ main' = [main EXCEPT ![p] = Serving]
  /\ UNCHANGED <<redis, consumer, hand, pool, sent, started, ends>>

Consume(p) == Select(p) \/ PopFails(p) \/ HandleMessage(p) \/ MoveToDLQ(p)
Work(p) == TakeJob(p) \/ FinishJob(p) \/ WorkerReturns(p)
Main(p) == Signal(p) \/ CloseChan(p) \/ Exit(p)

Next ==
  \/ \E m \in Msgs : Enqueue(m)
  \/ \E p \in Processes : Consume(p) \/ Deliver(p) \/ Work(p) \/ Main(p)
  \/ \E p \in Processes : Kill(p) \/ Start(p)

\* The goroutines of a process run, every job ends (SyncService!JobEnds), and
\* Redis answers a BRPOP again and again while the list is not empty.
Fairness ==
  \A p \in Processes :
    /\ WF_vars(Consume(p))
    /\ SF_vars(Deliver(p))
    /\ WF_vars(TakeJob(p))
    /\ WF_vars(FinishJob(p))
    /\ WF_vars(WorkerReturns(p))
    /\ WF_vars(CloseChan(p))
    /\ WF_vars(Exit(p))

Spec == Init /\ [][Next]_vars /\ Fairness

-----------------------------------------------------------------------------
(* A message's job is started at most once, whatever process pops it and   *)
(* whatever crashes: the pop is the acknowledgement (consumer.go:44).      *)
StartedOnce == \A i, j \in DOMAIN started : started[i] = started[j] => i = j

\* Where a message may be. One whose job failed is set aside: whether on the
\* dead-letter list is what FailedIsRetried asks.
Whereabouts ==
  [list     |-> Elements(queue),
   hand     |-> {hand[p] : p \in Processes} \ {None},
   channel  |-> UNION {Elements(jobChan[p]) : p \in Processes},
   running  |-> UNION {running[p] : p \in Processes},
   ended    |-> done,
   setAside |-> dlq \cup failed,
   dropped  |-> dropped,
   lost     |-> lost]

(* Every message pushed is in exactly one place, or its fate is known: no  *)
(* path through the consumer and the pool loses or duplicates one without  *)
(* a drop, a broken Redis call or the end of a process (consumer.go:38-68, *)
(* pool.go:43-49).                                                         *)
Accounted ==
  \A m \in Msgs :
    Cardinality({place \in DOMAIN Whereabouts : m \in Whereabouts[place]})
      = IF m \in Elements(sent) THEN 1 ELSE 0

(* With a single process, jobs are started in the order they were pushed   *)
(* (LPUSH and BRPOP, and one channel).                                     *)
Position(m) == CHOOSE i \in DOMAIN sent : sent[i] = m
StartedInOrder ==
  Cardinality(Processes) = 1
    => \A i, j \in DOMAIN started :
         i < j => Position(started[i]) < Position(started[j])

(* A job is dropped only behind a full channel: as long as no more than    *)
(* its capacity has been pushed, none is (pool.go:22, 43-49).              *)
DropsOnlyOverCapacity == dropped # {} => Len(sent) > Cap

(* When main returns, no job is being run (pool.go:36-41, main.go:69-72).  *)
ExitIsQuiet ==
  [][\A p \in Processes :
       main[p] # "exited" /\ main'[p] = "exited" => running[p] = {}]_vars

(* "graceful shutdown" (cmd/sync-worker/main.go:50): a signal never cuts a *)
(* running job off.                                                        *)
GracefulShutdown ==
  [][\A p \in Processes :
       Up(p) /\ main'[p] \in {"exited", "fatal", "panicked"}
         => running[p] = {}]_vars

(* While a process serves, every message pushed is settled: its job ended, *)
(* or it was dropped, buried or lost (consumer.go:38-68, pool.go:51-72).   *)
Settled(m) == m \in dlq \cup done \cup failed \cup dropped \cup lost
EverySentIsSettled ==
  \A m \in Msgs :
    m \in Elements(sent)
      ~> Settled(m) \/ \A p \in Processes : main[p] # Serving

\* What may still reach a goroutine.
UnderWay ==
  Elements(queue)
    \cup UNION {Elements(jobChan[p]) \cup ({hand[p]} \ {None}) : p \in Processes}

(* "Network/API errors -> retry automatically with exponential backoff     *)
(* (via Redis DLQ)" (prompt.md:45, summary.md:46): while a process serves, *)
(* a message whose job failed comes to be on that list, on its way again,  *)
(* running, or ended well.                                                 *)
FailedIsRetried ==
  \A m \in Msgs :
    m \in failed
      ~> \/ m \in dlq \cup UnderWay \cup done
         \/ \E p \in Processes : m \in running[p]
         \/ \A p \in Processes : main[p] # Serving

Delivery ==
  INSTANCE JobDelivery
    WITH Messages <- Msgs, Unreadable <- Malformed,
         received <- Elements(sent), underWay <- UnderWay,
         begun <- Elements(started)

(* The list, the consumers and the pools keep the promise of JobDelivery:  *)
(* a message comes to at most one goroutine, in a readable form, and never *)
(* back, through crashes, restarts and lost answers (consumer.go:38-68,    *)
(* sync.go:56-75, pool.go:43-72).                                          *)
ImplementsDelivery == Delivery!Spec
=============================================================================
