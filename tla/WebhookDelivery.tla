--------------------------- MODULE WebhookDelivery ---------------------------
(***************************************************************************)
(* One delivery of an event to one endpoint: WebhooksService.emit,         *)
(* processDelivery and markPermanentlyFailed with the worker that calls    *)
(* them.  emit makes the row and then adds a job to the queue.  An attempt *)
(* posts the event, writes the outcome to the row, reads the row, updates  *)
(* the counters of its endpoint, and throws if the outcome was bad; the    *)
(* queue tries again until the attempts are used up, and a listener then   *)
(* marks the row.  Removing the endpoint removes the row, but not the job. *)
(*                                                                         *)
(* The queue (BullMQ) is external: it counts the attempts that threw, and  *)
(* gives a job whose worker died to the next one, but only so often.       *)
(***************************************************************************)
EXTENDS Integers

CONSTANTS
    Attempts,       \* attempts of the job, 5 in the code
    StallLimit,     \* how often the queue restarts a job whose worker died
    MaxQueryErrors, MaxWorkerDeaths  \* bounds

ASSUME WebhookAssumption ==
    /\ Attempts \in Nat \ {0} /\ StallLimit \in Nat
    /\ MaxQueryErrors \in Nat /\ MaxWorkerDeaths \in Nat

VARIABLES
    delivery,    \* the row: there or not, succeededAt, failedPermanentlyAt
    emit,        \* where emit is
    job,         \* where the job is, the attempts that threw, the restarts,
                 \* and the outcome of the attempt under way
    queryErrors, workerDeaths,
    posts,       \* history: how often the event was posted
    arrived      \* history: the receiver has it

webhookVars == <<delivery, emit, job, queryErrors, workerDeaths, posts, arrived>>

WebhookTypeOK ==
    /\ delivery \in [there : {"no", "yes"}, succeeded : {"no", "yes"}, failed : {"no", "yes"}]
    /\ emit \in {"start", "add", "done", "dead"}
    /\ job \in [at : {"none", "waiting", "post", "record", "find", "mirror", "listener",
                      "completed", "failed"},
                threw : 0..Attempts, restarts : Nat, ok : {"no", "yes"}]
    /\ queryErrors \in 0..MaxQueryErrors /\ workerDeaths \in 0..MaxWorkerDeaths
    /\ posts \in Nat /\ arrived \in {"no", "yes"}

WebhookInit ==
    /\ delivery = [there |-> "no", succeeded |-> "no", failed |-> "no"]
    /\ emit = "start"
    /\ job = [at |-> "none", threw |-> 0, restarts |-> 0, ok |-> "no"]
    /\ queryErrors = 0 /\ workerDeaths = 0 /\ posts = 0 /\ arrived = "no"

CreateDelivery ==
    /\ emit = "start" /\ emit' = "add"
    /\ delivery' = [delivery EXCEPT !.there = "yes"]
    /\ UNCHANGED <<job, queryErrors, workerDeaths, posts, arrived>>

AddJob ==
    /\ emit = "add" /\ emit' = "done"
    /\ job' = [job EXCEPT !.at = "waiting"]
    /\ UNCHANGED <<delivery, queryErrors, workerDeaths, posts, arrived>>

\* The process dies, or the queue does not answer: the row stays without a job.
EmitDies ==
    /\ emit = "add" /\ emit' = "dead"
    /\ UNCHANGED <<delivery, job, queryErrors, workerDeaths, posts, arrived>>

\* The endpoint is removed, and its deliveries with it.
RemoveEndpoint ==
    /\ delivery.there = "yes"
    /\ delivery' = [delivery EXCEPT !.there = "no"]
    /\ UNCHANGED <<emit, job, queryErrors, workerDeaths, posts, arrived>>

TakeJob ==
    /\ job.at = "waiting"
    /\ job' = [job EXCEPT !.at = "post"]
    /\ UNCHANGED <<delivery, emit, queryErrors, workerDeaths, posts, arrived>>

\* The receiver answers well, badly, or not in time; in the last two cases the
\* event may have arrived all the same.
Post ==
    /\ job.at = "post" /\ posts' = posts + 1
    /\ \E ok \in {"yes", "no"}, got \in {"yes", "no"} :
         /\ ok = "yes" => got = "yes"
         /\ job' = [job EXCEPT !.at = "record", !.ok = ok]
         /\ arrived' = IF got = "yes" THEN "yes" ELSE arrived
    /\ UNCHANGED <<delivery, emit, queryErrors, workerDeaths>>

\* What the queue does with an attempt that throws.
LastAttempt_Slip == job.threw + 1 > Attempts
LastAttempt == job.threw + 1 >= Attempts
Thrown_Slip == [job EXCEPT !.at = IF LastAttempt THEN "listener" ELSE "waiting"]
Thrown == [job EXCEPT !.threw = @ + 1, !.at = IF LastAttempt THEN "listener" ELSE "waiting"]

\* The outcome is written by id; without the row this throws.
RecordOutcome ==
    /\ job.at = "record"
    /\ IF delivery.there = "yes"
       THEN /\ delivery' = [delivery EXCEPT !.succeeded = IF job.ok = "yes" THEN "yes" ELSE @]
            /\ job' = [job EXCEPT !.at = "find"]
       ELSE job' = Thrown /\ UNCHANGED delivery
    /\ UNCHANGED <<emit, queryErrors, workerDeaths, posts, arrived>>

\* A bad outcome throws only now.
Mirror_Slip == [job EXCEPT !.at = "completed"]
Mirror == IF job.ok = "yes" THEN [job EXCEPT !.at = "completed"] ELSE Thrown

\* The counters are those of the endpoint of the row, if the row is still found.
FindRow ==
    /\ job.at = "find"
    /\ job' = IF delivery.there = "yes" THEN [job EXCEPT !.at = "mirror"] ELSE Mirror
    /\ UNCHANGED <<delivery, emit, queryErrors, workerDeaths, posts, arrived>>

\* They are updated by id, which throws, after a success too, if the endpoint was
\* removed since.
MirrorOutcome ==
    /\ job.at = "mirror"
    /\ job' = IF delivery.there = "yes" THEN Mirror ELSE Thrown
    /\ UNCHANGED <<delivery, emit, queryErrors, workerDeaths, posts, arrived>>

\* onFailed marks the row when the attempts are used up.
MarkPermanentlyFailed ==
    /\ job.at = "listener"
    /\ delivery' = [delivery EXCEPT !.failed = IF delivery.there = "yes" THEN "yes" ELSE @]
    /\ job' = [job EXCEPT !.at = "failed"]
    /\ UNCHANGED <<emit, queryErrors, workerDeaths, posts, arrived>>

\* A query of the attempt fails, which throws, or the one of the listener,
\* after which nothing comes.
QueryFails ==
    /\ queryErrors < MaxQueryErrors /\ queryErrors' = queryErrors + 1
    /\ \/ job.at \in {"record", "find", "mirror"} /\ job' = Thrown
       \/ job.at = "listener" /\ job' = [job EXCEPT !.at = "failed"]
    /\ UNCHANGED <<delivery, emit, workerDeaths, posts, arrived>>

\* The worker dies.  The job goes back to the queue, or fails there when that
\* has happened too often, which onFailed does not take for the last attempt.
WorkerDies ==
    /\ workerDeaths < MaxWorkerDeaths /\ workerDeaths' = workerDeaths + 1
    /\ \/ /\ job.at \in {"post", "record", "find", "mirror"}
          /\ job' = [job EXCEPT !.restarts = @ + 1,
                                !.at = IF job.restarts < StallLimit THEN "waiting" ELSE "failed"]
       \/ job.at = "listener" /\ job' = [job EXCEPT !.at = "failed"]
    /\ UNCHANGED <<delivery, emit, queryErrors, posts, arrived>>

Deliver == TakeJob \/ Post \/ RecordOutcome \/ FindRow \/ MirrorOutcome \/ MarkPermanentlyFailed

WebhookNext == CreateDelivery \/ AddJob \/ EmitDies \/ RemoveEndpoint
               \/ Deliver \/ QueryFails \/ WorkerDies

\* A worker takes the jobs that wait, and goes on with those it took.
WebhookSpec == WebhookInit /\ [][WebhookNext]_webhookVars /\ WF_webhookVars(Deliver)

Ended == job.at \in {"completed", "failed"}
Faultless == queryErrors = 0 /\ workerDeaths = 0

(***************************************************************************)
(* Properties.                                                             *)
(***************************************************************************)

\* A row says what happened: success only of an event that arrived, and, unless
\* a query failed or a worker died, the success and the final failure exclude
\* each other and one of them is there when the job is over.
RowTellsOutcome ==
    /\ delivery.succeeded = "yes" => arrived = "yes"
    /\ Faultless => ~(delivery.succeeded = "yes" /\ delivery.failed = "yes")
    /\ Faultless /\ Ended /\ delivery.there = "yes" =>
          "yes" \in {delivery.succeeded, delivery.failed}

\* Every step leaves the row so, an event is posted once for each attempt and
\* each restart at most, and not again once its success was recorded, unless a
\* query failed, a worker died or the row was removed with its endpoint.
DeliveriesAreRight ==
    [][/\ RowTellsOutcome'
       /\ posts' <= Attempts + StallLimit
       /\ Faultless' /\ delivery.there = "yes" /\ delivery.succeeded = "yes" =>
             posts' = posts]_webhookVars

\* Every job that was added comes to an end, whatever fails.
JobLeft == job.at # "none" /\ ~Ended
DeliveryEnds == []<>~JobLeft
=============================================================================
