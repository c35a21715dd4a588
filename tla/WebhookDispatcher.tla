------------------------- MODULE WebhookDispatcher -------------------------
(***************************************************************************)
(* The webhook dispatcher of the Go API: a loop that claims the due rows   *)
(* of webhook_deliveries (GetPendingWebhooks) and starts a goroutine for   *)
(* each, which POSTs the payload and records the outcome                   *)
(* (deliverWebhook, handleFailure, UpdateWebhookDelivery).                 *)
(*                                                                         *)
(* Deliveries are numbered in the order of their created_at.  For each     *)
(* server and delivery the model counts the goroutines that are about to   *)
(* post, that were accepted, and that were refused, so that nothing in the *)
(* model itself keeps two of them from working on one delivery.            *)
(*                                                                         *)
(* UpdateWebhookDelivery gives the column status, a VARCHAR, the parameter *)
(* $1 and compares $1 with text in its CASE.  Whether PostgreSQL takes the *)
(* statement depends on who names the types of the parameters: pgx, unless *)
(* DATABASE_URL says otherwise, prepares it and leaves them to the server, *)
(* which refuses it (42P08).  Init chooses between the two.                *)
(***************************************************************************)
EXTENDS Integers, FiniteSets

CONSTANTS
    N,             \* bound: deliveries 1..N are inserted
    Servers,       \* API processes on one database
    Limit,         \* rows claimed per tick: the 10 of processPendingWebhooks
    MaxAttempts,   \* max_attempts of a row, 5 by the schema's default
    MaxFaults,     \* bound: stops, crashes and broken SQL calls
    Modes,         \* what `prepared` may be: TRUE is pgx's default
    Alive          \* deliveries whose receiver accepts sooner or later

ASSUME DispatcherAssumption ==
    /\ N \in Nat
    /\ Limit \in Nat \ {0}
    /\ MaxAttempts \in Nat \ {0}
    /\ MaxFaults \in Nat
    /\ Modes \subseteq BOOLEAN
    /\ Alive \subseteq 1..N

VARIABLES
    delivery,   \* webhook_deliveries: status, attempt, next_retry_at
    fly,        \* goroutines of each server on each delivery, by what they do
    server,     \* is the API running, shutting down or not there?
    prepared,   \* does the server infer the parameters of a statement?
    faults      \* faults spent so far

\* History, for the properties only.
VARIABLES
    answered,   \* how the receiver has answered: not yet, refused, or accepted
    doubt       \* deliveries handed out by a claim that was rolled back

history == <<answered, doubt>>
vars == <<delivery, fly, server, prepared, faults, answered, doubt>>

Deliveries == 1..N
Settled == {"success", "failed"}
NotInserted == [status |-> "none", attempt |-> 1, due |-> "now"]
Phases == {"post", "ok", "bad"}
NoFlight == [x \in Phases |-> 0]

-----------------------------------------------------------------------------
Init ==
    /\ delivery = [d \in Deliveries |-> NotInserted]
    /\ fly = [a \in Servers |-> [d \in Deliveries |-> NoFlight]]
    /\ server = [a \in Servers |-> "down"]
    /\ prepared \in Modes
    /\ faults = 0
    /\ answered = [d \in Deliveries |-> "no"]
    /\ doubt = {}

Fault == faults < MaxFaults /\ faults' = faults + 1

\* Goroutines of a on d that do x, and all of them.
Flying(a, d, x) == fly[a][d][x] > 0
Busy(a, d) == \E x \in Phases : Flying(a, d, x)

\* One goroutine more, or one less, in phase x of f.
Gain(f, x) == [f EXCEPT ![x] = f[x] + 1]
Lose(f, x) == [f EXCEPT ![x] = f[x] - 1]

\* One goroutine of a on d goes from doing x to doing y, or ends.
SetFlight(a, d, f) == fly' = [fly EXCEPT ![a][d] = f]
Turn(a, d, x, y) == SetFlight(a, d, Gain(Lose(fly[a][d], x), y))
End(a, d, x) == SetFlight(a, d, Lose(fly[a][d], x))

-----------------------------------------------------------------------------
(* The worker's side: complete_job and fail_job insert the row              *)

InsertDelivery(d) ==
    /\ delivery[d].status = "none"
    /\ \A e \in 1..(d - 1) : delivery[e].status # "none"
    /\ delivery' = [delivery EXCEPT ![d].status = "pending"]
    /\ UNCHANGED <<fly, server, prepared, faults, history>>

-----------------------------------------------------------------------------
(* The loop                                                                *)

\* Mutant: a claimed row can be claimed again.
ClaimableTwice(d) ==
    delivery[d].status \in {"pending", "retrying", "delivering"}
        /\ delivery[d].due = "now"
\* Mutant: only rows that were never tried are claimed.
ClaimableOnce(d) == delivery[d].status = "pending" /\ delivery[d].due = "now"
Claimable(d) ==
    delivery[d].status \in {"pending", "retrying"} /\ delivery[d].due = "now"

\* ORDER BY created_at ASC LIMIT $1
Batch == {d \in Deliveries :
             /\ Claimable(d)
             /\ Cardinality({e \in 1..(d - 1) : Claimable(e)}) < Limit}

ClaimedDeliveries == [d \in Deliveries |->
    IF d \in Batch THEN [delivery[d] EXCEPT !.status = "delivering"]
    ELSE delivery[d]]

\* Each of the rows D gets a goroutine of a.
Started(a, D) ==
    fly' = [fly EXCEPT ![a] = [d \in Deliveries |->
               IF d \in D THEN Gain(fly[a][d], "post") ELSE fly[a][d]]]

\* A tick: the batch is marked, and each row of it gets a goroutine.
GetPendingWebhooks(a) ==
    /\ server[a] = "up"
    /\ delivery' = ClaimedDeliveries
    /\ Started(a, Batch)
    /\ UNCHANGED <<server, prepared, faults, history>>

\* The connection breaks while the rows are read.  Nobody asks rows.Err(): what
\* was read so far is started, whether the claim is committed or rolled back.
ClaimCutShort(a) ==
    /\ server[a] = "up"
    /\ Batch # {}
    /\ Fault
    /\ \E seen \in SUBSET Batch :
          /\ Started(a, seen)
          /\ \/ /\ delivery' = ClaimedDeliveries
                /\ UNCHANGED doubt
             \/ /\ UNCHANGED delivery
                /\ doubt' = doubt \cup seen
    /\ UNCHANGED <<server, prepared, answered>>

\* next_retry_at passes.
Due(d) ==
    /\ delivery[d].status = "retrying"
    /\ delivery[d].due = "later"
    /\ delivery' = [delivery EXCEPT ![d].due = "now"]
    /\ UNCHANGED <<fly, server, prepared, faults, history>>

-----------------------------------------------------------------------------
(* deliverWebhook                                                          *)

\* The POST has come to its end; what a receiver accepted stays accepted.
Posted(a, d, outcome, answer) ==
    /\ server[a] = "up"
    /\ Flying(a, d, "post")
    /\ Turn(a, d, "post", outcome)
    /\ answered' = [answered EXCEPT ![d] = IF @ = "accepted" THEN @ ELSE answer]
    /\ UNCHANGED <<delivery, server, prepared, faults, doubt>>

\* Mutant: any answer counts as success.
PostAnswered(a, d) ==
    Posted(a, d, "ok", "accepted") \/ Posted(a, d, "ok", "refused")

\* The receiver answers 2xx.
PostAccepted(a, d) == Posted(a, d, "ok", "accepted")

\* No connection, a timeout, or an answer outside 2xx.
PostRefused(a, d) == Posted(a, d, "bad", "refused")

\* The row is written, unless the statement is refused: no caller looks at the
\* error.  Without a nextRetry next_retry_at becomes NULL, which is due.
UpdateWebhookDelivery(d, status, due) ==
    delivery' = IF prepared THEN delivery
                ELSE [delivery EXCEPT ![d].status = status, ![d].due = due]

\* The goroutine ends with what it calls.
RecordSuccess(a, d) ==
    /\ server[a] = "up"
    /\ Flying(a, d, "ok")
    /\ End(a, d, "ok")
    /\ UpdateWebhookDelivery(d, "success", "now")
    /\ UNCHANGED <<server, prepared, faults, history>>

\* Mutant: the failure is logged and nothing recorded.
handleFailureSilent(a, d) ==
    /\ server[a] = "up"
    /\ Flying(a, d, "bad")
    /\ End(a, d, "bad")
    /\ UNCHANGED <<delivery, server, prepared, faults, history>>

\* Mutant: attempts are counted, and compared with <=.
handleFailureOneMore(a, d) ==
    /\ server[a] = "up"
    /\ Flying(a, d, "bad")
    /\ End(a, d, "bad")
    /\ delivery' = [delivery EXCEPT ![d] =
                      IF @.attempt <= MaxAttempts
                      THEN [status |-> "retrying", attempt |-> @.attempt + 1,
                            due |-> "later"]
                      ELSE [@ EXCEPT !.status = "failed"]]
    /\ UNCHANGED <<server, prepared, faults, history>>

\* task.Attempt is the row's attempt at the claim; nobody writes that column.
handleFailure(a, d) ==
    /\ server[a] = "up"
    /\ Flying(a, d, "bad")
    /\ End(a, d, "bad")
    /\ \/ /\ delivery[d].attempt < MaxAttempts
          /\ UpdateWebhookDelivery(d, "retrying", "later")
       \/ /\ delivery[d].attempt >= MaxAttempts
          /\ UpdateWebhookDelivery(d, "failed", "now")
    /\ UNCHANGED <<server, prepared, faults, history>>

\* The statement does not get through, and its error is discarded too.
UpdateFails(a, d) ==
    /\ server[a] = "up"
    /\ Fault
    /\ \E x \in {"ok", "bad"} : Flying(a, d, x) /\ End(a, d, x)
    /\ UNCHANGED <<delivery, server, prepared, history>>

-----------------------------------------------------------------------------
(* Life of an API process                                                  *)

\* Nothing is recovered at the start of the dispatcher.
StartServer(a) ==
    /\ server[a] = "down"
    /\ server' = [server EXCEPT ![a] = "up"]
    /\ UNCHANGED <<delivery, fly, prepared, faults, history>>

\* SIGTERM cancels the context every goroutine works under.
Shutdown(a) ==
    /\ server[a] = "up"
    /\ Fault
    /\ server' = [server EXCEPT ![a] = "stopping"]
    /\ UNCHANGED <<delivery, fly, prepared, history>>

\* Under a cancelled context the POST and the UPDATE both fail at once.
Abandon(a, d) ==
    /\ server[a] = "stopping"
    /\ \E x \in Phases : Flying(a, d, x) /\ End(a, d, x)
    /\ UNCHANGED <<delivery, server, prepared, faults, history>>

Gone(a) ==
    /\ server' = [server EXCEPT ![a] = "down"]
    /\ fly' = [fly EXCEPT ![a] = [d \in Deliveries |-> NoFlight]]

\* main returns without waiting for the goroutines.
Exit(a) ==
    /\ server[a] = "stopping"
    /\ Gone(a)
    /\ UNCHANGED <<delivery, prepared, faults, history>>

CrashServer(a) ==
    /\ server[a] = "up"
    /\ Fault
    /\ Gone(a)
    /\ UNCHANGED <<delivery, prepared, history>>

-----------------------------------------------------------------------------
Goroutine(a, d) ==
    PostAccepted(a, d) \/ PostRefused(a, d) \/ RecordSuccess(a, d) \/ handleFailure(a, d)

Next ==
    \/ \E d \in Deliveries : InsertDelivery(d) \/ Due(d)
    \/ \E a \in Servers, d \in Deliveries :
          Goroutine(a, d) \/ UpdateFails(a, d) \/ Abandon(a, d)
    \/ \E a \in Servers :
          \/ GetPendingWebhooks(a)
          \/ ClaimCutShort(a)
          \/ StartServer(a)
          \/ Shutdown(a)
          \/ Exit(a)
          \/ CrashServer(a)

Spec == Init /\ [][Next]_vars

(***************************************************************************)
(* Fairness: the ticker fires, goroutines run to their end (the client has *)
(* a timeout), time passes, systemd restarts the API.                      *)
(***************************************************************************)
Fairness ==
    /\ \A a \in Servers : /\ WF_vars(GetPendingWebhooks(a))
                          /\ WF_vars(StartServer(a))
                          /\ WF_vars(Exit(a))
    /\ \A a \in Servers, d \in Deliveries : WF_vars(Goroutine(a, d))
    /\ \A d \in Deliveries : WF_vars(Due(d))

\* A receiver that is alive, posted to again and again, accepts at last.
ReceiverFairness ==
    \A d \in Alive : SF_vars(\E a \in Servers : PostAccepted(a, d))

FairSpec == Spec /\ Fairness
LiveReceiverSpec == FairSpec /\ ReceiverFairness

-----------------------------------------------------------------------------
(* Correctness                                                             *)

\* Every variable stays in its type.
TypeOK ==
    /\ delivery \in [Deliveries ->
          [status: {"none", "pending", "delivering", "retrying"} \cup Settled,
           attempt: 1..MaxAttempts, due: {"now", "later"}]]
    /\ fly \in [Servers -> [Deliveries -> [Phases -> Nat]]]
    /\ server \in [Servers -> {"up", "stopping", "down"}]
    /\ prepared \in BOOLEAN
    /\ faults \in 0..MaxFaults
    /\ answered \in [Deliveries -> {"no", "refused", "accepted"}]
    /\ doubt \subseteq Deliveries

\* At most one goroutine, of all servers, works on a delivery, and while one
\* does the row says 'delivering': FOR UPDATE SKIP LOCKED and the status change
\* in one statement never hand a delivery out twice.  The one way round that is
\* a claim whose rows arrived in part and which the server then rolled back.
SingleFlight ==
    \A a \in Servers, d \in Deliveries \ doubt :
        Busy(a, d) =>
            /\ delivery[d].status = "delivering"
            /\ fly[a][d]["post"] + fly[a][d]["ok"] + fly[a][d]["bad"] = 1
            /\ \A b \in Servers \ {a} : ~Busy(b, d)

\* A delivery recorded as a success was accepted by its receiver.
SuccessIsReal ==
    \A d \in Deliveries : delivery[d].status = "success" => answered[d] = "accepted"

\* Without a stop, a crash or a broken call a claimed delivery has its goroutine
\* until its outcome is recorded; and where recording is refused, the goroutine
\* has at least posted before the row is left in 'delivering'.
NothingForgotten ==
    faults = 0 => \A d \in Deliveries :
        delivery[d].status = "delivering" =>
            \/ \E a \in Servers : Busy(a, d)
            \/ prepared /\ answered[d] # "no"

\* What a delivery can count on: a POST, and where outcomes are recorded and the
\* receiver is alive, a success.
Served(d) ==
    /\ answered[d] # "no"
    /\ ~prepared /\ d \in Alive => delivery[d].status = "success"

\* As long as no fault interferes every inserted delivery is served, also those
\* a batch has no room for and those behind one that is refused for ever (as
\* long as fewer of these than Limit are due at each tick).
DeliveredWithoutFaults ==
    [](faults = 0) =>
        \A d \in Deliveries : delivery[d].status = "pending" ~> Served(d)

\* "resilient webhook retries", and "Max attempts exhausted" at their end: once
\* inserted, a delivery comes to success or to failure.
EventuallySettled ==
    \A d \in Deliveries :
        delivery[d].status = "pending" ~> delivery[d].status \in Settled

=============================================================================
