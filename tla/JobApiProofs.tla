---------------------------- MODULE JobApiProofs ----------------------------
(***************************************************************************)
(* TLAPS proofs about JobApi: for any set of jobs, any finite set of       *)
(* clients, any submissions and keys, and every bound on failures.         *)
(***************************************************************************)
EXTENDS JobApi, FiniteSetTheorems, TLAPS

-----------------------------------------------------------------------------
(* The inductive invariant                                                 *)

\* The call of c carries the id of a job that the answer will name.
Carries(c) == \/ call[c].pc = "autostart"
              \/ call[c].pc = "reply" /\ call[c].code = 202

\* The job c was told, or is about to be told.
Told(c) == IF known[c] # NoJob THEN known[c]
           ELSE IF Carries(c) THEN call[c].job
           ELSE NoJob

\* An answer 202 names a job.
CarriesJob == \A c \in Clients : Carries(c) => call[c].job # NoJob

\* A client submits only while it has no id.
AskingUnknown == \A c \in Clients : call[c].pc # "idle" => known[c] = NoJob

\* Only a key can conflict.
LookupKeyed == \A c \in Clients : call[c].pc = "lookup" => EffectiveKey(want[c]) # NoKey

\* What a client is told is a row, stored under the key of its submission.
ToldRows == \A c \in Clients : Told(c) # NoJob =>
                /\ Exists(Told(c))
                /\ key[Told(c)] = EffectiveKey(want[c])

\* The unique index on idempotency_key.
UniqueKeys == \A i, j \in Jobs :
                  Exists(i) /\ Exists(j) /\ key[i] = key[j] /\ key[i] # NoKey => i = j

\* Only a key makes two clients share a row.
OwnRows == \A c, d \in Clients :
               c # d /\ Told(c) # NoJob /\ Told(c) = Told(d) => EffectiveKey(want[c]) # NoKey

\* A completed row has its result; the row behind a promise is completed and
\* nobody executes it.
Promises ==
    /\ \A j \in Jobs : state[j] = "completed" => result[j]
    /\ \A c \in promised : /\ known[c] # NoJob
                           /\ ResultAvailable(known[c])
                           /\ executing[known[c]] = {}

\* The rows without a key that this API made, and the clients that account for one.
Keyless == Holders(NoKey) \ LegacyJobs
Served == {c \in Clients : EffectiveKey(want[c]) = NoKey /\ Told(c) # NoJob}

\* Every row without a key is the one of a client, or was paid for with a fault.
KeylessCounted ==
    /\ IsFiniteSet(Keyless)
    /\ Cardinality(Keyless) <= faults + Cardinality(Served)

IndInv ==
    /\ TypeOK
    /\ CarriesJob
    /\ AskingUnknown
    /\ LookupKeyed
    /\ ToldRows
    /\ UniqueKeys
    /\ OwnRows
    /\ RowsAskedFor
    /\ Promises
    /\ KeylessCounted

-----------------------------------------------------------------------------
(* The operators of the model                                              *)

\* A submission has an effective key of the right type and a body.
LEMMA SubmissionTypes ==
    ASSUME NEW r \in Submissions
    PROVE  /\ EffectiveKey(r) \in Keys \cup {NoKey}
           /\ r.body \in Bodies
           /\ r.token \in BOOLEAN
           /\ r.parses \in BOOLEAN
BY ApiAssumption DEF EffectiveKey, AllSubmissions

\* The validator's rewriting of an accepted body: it stays a body and accepted, has no blank
\* text left, and a second rewriting changes nothing.
LEMMA NormalForm ==
    ASSUME NEW b \in Bodies, Accepted(b)
    PROVE  /\ Normal(b) \in Bodies
           /\ Accepted(Normal(b))
           /\ Normal(Normal(b)) = Normal(b)
           /\ \A f \in DOMAIN Normal(b) \ {"translate"} : Normal(b)[f] # "blank"
<1> DEFINE n == Normal(b)
<1>1. /\ n.audio = "ok"
      /\ n.mode \in {"fast", "accurate"}
      /\ n.format \in {"plain_text", "json"}
      /\ n.callback \in {"nil", "ok"}
      /\ n.language \in {"nil", "en", "fr"}
      /\ n.target \in {"nil", "en", "fr"}
      /\ n.translate \in BOOLEAN
      /\ n.target # "nil" /\ n.target # n.language => n.translate
  BY DEF Normal, Default, Accepted, Bodies
<1>2. n \in Bodies
  BY <1>1 DEF Normal, Bodies
<1>3. Accepted(n)
  BY <1>1 DEF Accepted
<1>4. Normal(n) = n
  <2> HIDE DEF n
  <2>1. /\ Default(n.mode, "fast") = n.mode
        /\ Default(n.format, "plain_text") = n.format
        /\ Default(n.callback, "nil") = n.callback
        /\ Default(n.language, "nil") = n.language
        /\ Default(n.target, "nil") = n.target
    BY <1>1 DEF Default
  <2>2. n.translate = (n.translate \/ (n.target # "nil" /\ n.target # n.language))
    BY <1>1
  <2>3. n = [audio |-> n.audio, mode |-> n.mode, format |-> n.format,
             callback |-> n.callback, language |-> n.language, target |-> n.target,
             translate |-> n.translate]
    BY <1>2 DEF Bodies
  <2> QED BY <2>1, <2>2, <2>3, Zenon DEF Normal
<1>5. DOMAIN n = {"audio", "mode", "format", "callback", "language", "target", "translate"}
  BY <1>2 DEF Bodies
<1>6. \A f \in DOMAIN n \ {"translate"} : n[f] # "blank"
  <2> HIDE DEF n
  <2> QED BY <1>1, <1>5
<1> QED BY <1>2, <1>3, <1>4, <1>6

\* uuid.New() gives an id that no row has.
LEMMA NewIdFresh ==
    ASSUME Fresh # {}
    PROVE  NewId \in Jobs /\ state[NewId] = "absent"
BY DEF NewId, Fresh, Exists

\* GetResult's answer and result_available agree on a completed row with a result.
LEMMA ResultCodeOK ==
    ASSUME LifeTypes, NEW j \in Jobs
    PROVE  ResultCode(j) = 200 <=> state[j] = "completed"
<1>1. state[j] \in {"absent", "queued", "processing", "completed", "failed", "cancelled"}
  BY DEF LifeTypes, States, Open, Settled
<1>2. state[j] = "absent" => ResultCode(j) = 404
  BY Zenon DEF ResultCode, Exists, Open
<1>3. state[j] = "queued" => ResultCode(j) = 202
  BY Zenon DEF ResultCode, Exists, Open
<1>4. state[j] = "processing" => ResultCode(j) = 202
  BY Zenon DEF ResultCode, Exists, Open
<1>5. state[j] = "failed" => ResultCode(j) = 422
  BY Zenon DEF ResultCode, Exists, Open
<1>6. state[j] = "cancelled" => ResultCode(j) = 410
  BY Zenon DEF ResultCode, Exists, Open
<1>7. state[j] = "completed" => ResultCode(j) = 200
  BY Zenon DEF ResultCode, Exists, Open
<1> QED BY <1>1, <1>2, <1>3, <1>4, <1>5, <1>6, <1>7

-----------------------------------------------------------------------------
(* What a step does to the rows                                            *)

\* One row is added, and only that.
LEMMA InsertEffect ==
    ASSUME TypeOK, NEW r \in Submissions, Insert(r)
    PROVE  /\ NewId \in Jobs
           /\ state[NewId] = "absent"
           /\ state' = [state EXCEPT ![NewId] = "queued"]
           /\ result' = result
           /\ executing' = executing
           /\ revivable' = revivable
           /\ key' = [key EXCEPT ![NewId] = EffectiveKey(r)]
           /\ request' = [request EXCEPT ![NewId] = {Normal(r.body)}]
<1> DEFINE n == NewId
<1>1. n \in Jobs /\ state[n] = "absent"
  BY NewIdFresh DEF Insert
<1> HIDE DEF n
<1>2. OnlyRow(n) /\ Submit(n) /\ UNCHANGED revivable
  BY DEF Insert, n
<1>3. state' = [state EXCEPT ![n] = "queued"]
  <2>1. PICK st \in States : state' = [state EXCEPT ![n] = st]
    BY <1>2 DEF OnlyRow
  <2>2. state'[n] = "queued"
    BY <1>2 DEF Submit, To
  <2> QED BY <1>1, <2>1, <2>2 DEF TypeOK, LifeTypes
<1>4. result' = result
  <2>1. PICK res \in BOOLEAN : result' = [result EXCEPT ![n] = res]
    BY <1>2 DEF OnlyRow
  <2>2. result'[n] = result[n]
    BY <1>2 DEF Submit, To
  <2> QED BY <1>1, <2>1, <2>2 DEF TypeOK, LifeTypes
<1>5. executing' = executing
  <2>1. PICK ex \in SUBSET Executors : executing' = [executing EXCEPT ![n] = ex]
    BY <1>2 DEF OnlyRow
  <2>2. executing'[n] = executing[n]
    BY <1>2 DEF Submit
  <2> QED BY <1>1, <2>1, <2>2 DEF TypeOK, LifeTypes
<1> QED BY <1>1, <1>2, <1>3, <1>4, <1>5 DEF Insert, n

\* What a cancellation, a worker or the watchdog makes of a row that is there.
LifeStep(j) ==
    /\ OnlyRow(j)
    /\ \/ (Cancel(j) \/ Lease(j) \/ Reclaim(j) \/ Settle(j) \/ Leave(j)) /\ UNCHANGED revivable
       \/ Revive(j) /\ revivable' = revivable \ {j}

\* No row appears or disappears, a completed row has its result, and a completed row
\* that nobody executes stays as it is.
LEMMA LifeStepEffect ==
    ASSUME TypeOK, NEW j \in Jobs, Exists(j), LifeStep(j),
           \A i \in Jobs : state[i] = "completed" => result[i]
    PROVE  /\ LifeTypes'
           /\ \A i \in Jobs : state'[i] # "absent" <=> state[i] # "absent"
           /\ \A i \in Jobs : state'[i] = "completed" => result'[i]
           /\ \A i \in Jobs : state[i] = "completed" /\ result[i] /\ executing[i] = {} =>
                 state'[i] = "completed" /\ result'[i] /\ executing'[i] = {}
<1> USE DEF TypeOK, LifeTypes
<1>1. PICK st \in States : state' = [state EXCEPT ![j] = st]
  BY DEF LifeStep, OnlyRow
<1>2. PICK res \in BOOLEAN : result' = [result EXCEPT ![j] = res]
  BY DEF LifeStep, OnlyRow
<1>3. PICK ex \in SUBSET Executors : executing' = [executing EXCEPT ![j] = ex]
  BY DEF LifeStep, OnlyRow
<1>4. LifeTypes'
  BY <1>1, <1>2, <1>3 DEF LifeStep
<1>5. state'[j] = st /\ result'[j] = res /\ executing'[j] = ex
  BY <1>1, <1>2, <1>3
<1>6. \A i \in Jobs : i # j => state'[i] = state[i] /\ result'[i] = result[i]
                               /\ executing'[i] = executing[i]
  BY <1>1, <1>2, <1>3
<1>7. /\ st # "absent"
      /\ st = "completed" => res
      /\ state[j] = "completed" /\ result[j] /\ executing[j] = {} =>
            st = "completed" /\ res /\ ex = {}
  <2>1. Cancel(j) \/ Lease(j) \/ Reclaim(j) \/ Settle(j) \/ Leave(j) \/ Revive(j)
    BY DEF LifeStep
  <2>2. CASE Cancel(j) \/ Lease(j) \/ Reclaim(j) \/ Revive(j)
    BY <1>5, <2>2 DEF Cancel, Lease, Reclaim, Revive, To, Open
  <2>3. CASE Settle(j)
    BY <1>5, <2>3 DEF Settle, To
  <2>4. CASE Leave(j)
    BY <1>5, <2>4 DEF Leave, Same, To, NoNewExecution, Exists
  <2> QED BY <2>1, <2>2, <2>3, <2>4
<1>8. state[j] # "absent"
  BY DEF Exists
<1> QED BY <1>4, <1>5, <1>6, <1>7, <1>8

-----------------------------------------------------------------------------
(* What a step does to the calls                                           *)

CallTypes ==
    /\ call \in [Clients -> [pc: {"idle", "lookup", "autostart", "reply"},
                             job: Jobs \cup {NoJob}, code: Codes]]
    /\ known \in [Clients -> Jobs \cup {NoJob}]
    /\ want \in [Clients -> Submissions]

CallParts == CallTypes /\ CarriesJob /\ AskingUnknown /\ LookupKeyed

\* Nobody is told anything new.
TellsNothing == \A d \in Clients : Told(d)' = Told(d)

\* Only c is told something new: j.
Tells(c, j) == /\ Told(c)' = j
               /\ \A d \in Clients \ {c} : Told(d)' = Told(d)

\* A failed answer tells nothing.
LEMMA AnswerFailure ==
    ASSUME CallParts, NEW c \in Clients, known[c] = NoJob, ~Carries(c),
           NEW code \in Codes \ {202}, Answer(c, code, NoJob),
           UNCHANGED <<known, want>>
    PROVE  CallParts' /\ TellsNothing
<1> USE DEF CallParts, CallTypes
<1>1. call' = [call EXCEPT ![c] = [pc |-> "reply", job |-> NoJob, code |-> code]]
  BY DEF Answer
<1>2. CallTypes'
  BY <1>1
<1>3. \A d \in Clients \ {c} : call'[d] = call[d]
  BY <1>1
<1>4. call'[c].pc = "reply" /\ call'[c].code # 202
  BY <1>1
<1>5. CarriesJob' /\ AskingUnknown' /\ LookupKeyed'
  BY <1>3, <1>4 DEF CarriesJob, Carries, AskingUnknown, LookupKeyed
<1>6. TellsNothing
  BY <1>3, <1>4 DEF TellsNothing, Told, Carries
<1> QED BY <1>2, <1>5, <1>6

\* A call that got its row carries it to the answer.
LEMMA GotoAutostart ==
    ASSUME CallParts, NEW c \in Clients, known[c] = NoJob, NEW j \in Jobs,
           Goto(c, "autostart", j), UNCHANGED <<known, want>>
    PROVE  CallParts' /\ Tells(c, j)
<1> USE DEF CallParts, CallTypes
<1>1. call' = [call EXCEPT ![c] = [call[c] EXCEPT !.pc = "autostart", !.job = j]]
  BY DEF Goto
<1>2. CallTypes'
  BY <1>1
<1>3. \A d \in Clients \ {c} : call'[d] = call[d]
  BY <1>1
<1>4. call'[c].pc = "autostart" /\ call'[c].job = j
  BY <1>1
<1>5. j # NoJob
  BY ApiAssumption
<1>6. CarriesJob' /\ AskingUnknown' /\ LookupKeyed'
  BY <1>3, <1>4, <1>5 DEF CarriesJob, Carries, AskingUnknown, LookupKeyed
<1>7. Tells(c, j)
  BY <1>3, <1>4, <1>5 DEF Tells, Told, Carries
<1> QED BY <1>2, <1>6, <1>7

\* A conflict sends the call to the lookup.
LEMMA GotoLookup ==
    ASSUME CallParts, NEW c \in Clients, known[c] = NoJob, ~Carries(c),
           EffectiveKey(want[c]) # NoKey,
           Goto(c, "lookup", NoJob), UNCHANGED <<known, want>>
    PROVE  CallParts' /\ TellsNothing
<1> USE DEF CallParts, CallTypes
<1>1. call' = [call EXCEPT ![c] = [call[c] EXCEPT !.pc = "lookup", !.job = NoJob]]
  BY DEF Goto
<1>2. CallTypes'
  BY <1>1
<1>3. \A d \in Clients \ {c} : call'[d] = call[d]
  BY <1>1
<1>4. call'[c].pc = "lookup"
  BY <1>1
<1>5. CarriesJob' /\ AskingUnknown' /\ LookupKeyed'
  BY <1>3, <1>4 DEF CarriesJob, Carries, AskingUnknown, LookupKeyed
<1>6. TellsNothing
  BY <1>3, <1>4 DEF TellsNothing, Told, Carries
<1> QED BY <1>2, <1>5, <1>6

\* The answer 202 carries what the call carried.
LEMMA AnswerAccepted ==
    ASSUME CallParts, NEW c \in Clients, call[c].pc = "autostart",
           Answer(c, 202, call[c].job), UNCHANGED <<known, want>>
    PROVE  CallParts' /\ TellsNothing
<1> USE DEF CallParts, CallTypes
<1>1. call' = [call EXCEPT ![c] = [pc |-> "reply", job |-> call[c].job, code |-> 202]]
  BY DEF Answer
<1>2. CallTypes'
  BY <1>1 DEF Codes
<1>3. \A d \in Clients \ {c} : call'[d] = call[d]
  BY <1>1
<1>4. call'[c].pc = "reply" /\ call'[c].code = 202 /\ call'[c].job = call[c].job
  BY <1>1
<1>5. CarriesJob' /\ AskingUnknown' /\ LookupKeyed'
  BY <1>3, <1>4 DEF CarriesJob, Carries, AskingUnknown, LookupKeyed
<1>6. TellsNothing
  BY <1>3, <1>4 DEF TellsNothing, Told, Carries
<1> QED BY <1>2, <1>5, <1>6

\* Reading the answer changes who knows, not who is told.
LEMMA ReceiveParts ==
    ASSUME CallParts, NEW c \in Clients, Receive(c)
    PROVE  CallParts' /\ TellsNothing
<1> USE DEF CallParts, CallTypes
<1>1. /\ call[c].pc = "reply"
      /\ call' = [call EXCEPT ![c] = [call[c] EXCEPT !.pc = "idle"]]
      /\ known' = [known EXCEPT ![c] = IF call[c].code = 202 THEN call[c].job ELSE known[c]]
      /\ want' = want
  BY DEF Receive
<1>2. CallTypes'
  BY <1>1
<1>3. \A d \in Clients \ {c} : call'[d] = call[d] /\ known'[d] = known[d]
  BY <1>1
<1>4. /\ call'[c].pc = "idle"
      /\ known'[c] = IF call[c].code = 202 THEN call[c].job ELSE known[c]
  BY <1>1
<1>5. CarriesJob' /\ AskingUnknown' /\ LookupKeyed'
  BY <1>1, <1>3, <1>4 DEF CarriesJob, Carries, AskingUnknown, LookupKeyed
<1>6. TellsNothing
  <2>1. known[c] = NoJob
    BY <1>1 DEF AskingUnknown
  <2>2. Told(c)' = Told(c)
    BY <1>1, <1>4, <2>1 DEF Told, Carries, CarriesJob
  <2> QED BY <1>3, <2>2 DEF TellsNothing, Told, Carries
<1> QED BY <1>2, <1>5, <1>6

\* A lost call forgets what it carried.
LEMMA LoseCallParts ==
    ASSUME CallParts, NEW c \in Clients, LoseCall(c)
    PROVE  CallParts' /\ Tells(c, NoJob)
<1> USE DEF CallParts, CallTypes
<1>1. call' = [call EXCEPT ![c] = IdleCall] /\ known' = known /\ want' = want
  BY DEF LoseCall
<1>2. CallTypes'
  BY <1>1 DEF IdleCall, Codes
<1>3. \A d \in Clients \ {c} : call'[d] = call[d]
  BY <1>1
<1>4. call'[c].pc = "idle"
  BY <1>1 DEF IdleCall
<1>5. CarriesJob' /\ AskingUnknown' /\ LookupKeyed'
  BY <1>1, <1>3, <1>4 DEF CarriesJob, Carries, AskingUnknown, LookupKeyed
<1>6. known[c] = NoJob
  BY DEF LoseCall, AskingUnknown
<1>7. Tells(c, NoJob)
  BY <1>1, <1>3, <1>4, <1>6 DEF Tells, Told, Carries
<1> QED BY <1>2, <1>5, <1>7

\* A step that touches no call.
LEMMA QuietParts ==
    ASSUME CallParts, UNCHANGED <<call, known, want>>
    PROVE  CallParts' /\ TellsNothing
BY DEF CallParts, CallTypes, CarriesJob, Carries, AskingUnknown, LookupKeyed,
       TellsNothing, Told

-----------------------------------------------------------------------------
(* What a step makes of the rows and of who is told them                   *)

\* No row appears or disappears, or changes its key.
KeepsRows == /\ key' = key
             /\ \A j \in Jobs : Exists(j)' <=> Exists(j)

\* A row n appears under the key k, which no other row has.
AddsRow(n, k) == /\ n \in Jobs /\ ~Exists(n)
                 /\ ~Conflict(k)
                 /\ key' = [key EXCEPT ![n] = k]
                 /\ \A j \in Jobs : Exists(j)' <=> Exists(j) \/ j = n

\* The part of the invariant that relates the clients to the rows.
RowInv == ToldRows /\ UniqueKeys /\ OwnRows

\* What is told is a job.
LEMMA ToldType ==
    ASSUME CallParts, NEW c \in Clients
    PROVE  Told(c) \in Jobs \cup {NoJob}
BY DEF CallParts, CallTypes, Told

\* Rows as they were, and nobody told anything else than before.
LEMMA RowsKept ==
    ASSUME CallParts, RowInv, KeepsRows, want' = want,
           \A d \in Clients : Told(d)' = Told(d) \/ Told(d)' = NoJob
    PROVE  RowInv'
<1>1. ToldRows'
  BY ToldType DEF RowInv, ToldRows, KeepsRows
<1>2. UniqueKeys'
  BY DEF RowInv, UniqueKeys, KeepsRows
<1>3. OwnRows'
  BY DEF RowInv, OwnRows
<1> QED BY <1>1, <1>2, <1>3 DEF RowInv

\* The lookup finds the row of the key.
LEMMA RowsLookedUp ==
    ASSUME CallParts, RowInv, KeepsRows, want' = want,
           NEW c \in Clients, EffectiveKey(want[c]) # NoKey,
           NEW j \in Holders(EffectiveKey(want[c])), Tells(c, j)
    PROVE  RowInv'
<1>0. j \in Jobs /\ Exists(j) /\ key[j] = EffectiveKey(want[c])
  BY DEF Holders
<1>1. ToldRows'
  BY <1>0, ToldType DEF RowInv, ToldRows, KeepsRows, Tells
<1>2. UniqueKeys'
  BY DEF RowInv, UniqueKeys, KeepsRows
<1>3. OwnRows'
  <2> SUFFICES ASSUME NEW a \in Clients, NEW b \in Clients,
                      a # b, Told(a)' # NoJob, Told(a)' = Told(b)'
               PROVE  EffectiveKey(want[a]) # NoKey
    BY DEF OwnRows
  <2>1. CASE a = c
    BY <2>1
  <2>2. CASE b = c
    <3>1. Told(a) = j
      BY <2>2 DEF Tells
    <3>2. key[j] = EffectiveKey(want[a])
      BY <1>0, <3>1, ApiAssumption DEF RowInv, ToldRows
    <3> QED BY <1>0, <3>2
  <2>3. CASE a # c /\ b # c
    BY <2>3 DEF RowInv, OwnRows, Tells
  <2> QED BY <2>1, <2>2, <2>3
<1> QED BY <1>1, <1>2, <1>3 DEF RowInv

\* The insert makes a row that nobody is told but, perhaps, its client.
LEMMA RowsAdded ==
    ASSUME CallParts, RowInv, want' = want, key \in [Jobs -> Keys \cup {NoKey}],
           NEW c \in Clients, NEW n, AddsRow(n, EffectiveKey(want[c])),
           TellsNothing \/ Tells(c, n)
    PROVE  RowInv'
<1> DEFINE k == EffectiveKey(want[c])
<1> HIDE DEF k
<1>0. /\ n \in Jobs /\ ~Exists(n)
      /\ key' = [key EXCEPT ![n] = k]
      /\ \A j \in Jobs : Exists(j)' <=> Exists(j) \/ j = n
      /\ \A j \in Jobs : Exists(j) /\ k # NoKey => key[j] # k
  BY DEF AddsRow, Conflict, Holders, k
<1>1. key'[n] = k /\ \A j \in Jobs \ {n} : key'[j] = key[j]
  BY <1>0
<1>2. \A d \in Clients : Told(d) # n
  BY <1>0, ApiAssumption DEF RowInv, ToldRows
<1>3. \A d \in Clients \ {c} : Told(d)' = Told(d)
  BY DEF TellsNothing, Tells
<1>4. Told(c)' = Told(c) \/ Told(c)' = n
  BY DEF TellsNothing, Tells
<1>5. ToldRows'
  <2> SUFFICES ASSUME NEW d \in Clients, Told(d)' # NoJob
               PROVE  Exists(Told(d))' /\ key'[Told(d)'] = EffectiveKey(want[d])
    BY DEF ToldRows
  <2>1. CASE Told(d)' = Told(d)
    BY <1>0, <1>1, <1>2, <2>1, ToldType DEF RowInv, ToldRows
  <2>2. CASE d = c /\ Told(d)' = n
    BY <1>0, <1>1, <2>2 DEF k
  <2> QED BY <1>3, <1>4, <2>1, <2>2
<1>6. UniqueKeys'
  BY <1>0, <1>1 DEF RowInv, UniqueKeys
<1>7. OwnRows'
  <2> SUFFICES ASSUME NEW a \in Clients, NEW b \in Clients,
                      a # b, Told(a)' # NoJob, Told(a)' = Told(b)'
               PROVE  EffectiveKey(want[a]) # NoKey
    BY DEF OwnRows
  <2> QED BY <1>2, <1>3, <1>4 DEF RowInv, OwnRows
<1> QED BY <1>5, <1>6, <1>7 DEF RowInv

-----------------------------------------------------------------------------
(* The count of the rows without a key                                     *)

LEMMA ServedFinite == IsFiniteSet(Served) /\ IsFiniteSet(Served')
<1>1. Served \in SUBSET Clients /\ Served' \in SUBSET Clients
  BY DEF Served
<1> QED BY <1>1, FiniteClients, FS_Subset

\* The rows as they were; at most one client fewer, for one fault more.
LEMMA CountKept ==
    ASSUME KeylessCounted, KeepsRows, want' = want, faults \in Nat, NEW c \in Clients,
           \/ faults' = faults /\ \A d \in Clients : Told(d) # NoJob => Told(d)' # NoJob
           \/ faults' = faults + 1 /\ \A d \in Clients \ {c} : Told(d) # NoJob => Told(d)' # NoJob
    PROVE  KeylessCounted'
<1>1. Keyless' = Keyless
  BY DEF Keyless, Holders, KeepsRows
<1>2. Served \ {c} \in SUBSET Served'
  BY DEF Served
<1>3. /\ Cardinality(Served) \in Nat /\ Cardinality(Served') \in Nat
      /\ Cardinality(Keyless) \in Nat
  BY ServedFinite, FS_CardinalityType DEF KeylessCounted
<1>4. Cardinality(Served \ {c}) <= Cardinality(Served')
  BY <1>2, ServedFinite, FS_Subset
<1>5. IsFiniteSet(Served \ {c}) /\ Cardinality(Served) <= Cardinality(Served \ {c}) + 1
  BY <1>3, ServedFinite, FS_RemoveElement
<1>6. Cardinality(Served \ {c}) \in Nat
  BY <1>5, FS_CardinalityType
<1>7. CASE faults' = faults /\ \A d \in Clients : Told(d) # NoJob => Told(d)' # NoJob
  <2>1. Served \in SUBSET Served'
    BY <1>7 DEF Served
  <2>2. Cardinality(Served) <= Cardinality(Served')
    BY <2>1, ServedFinite, FS_Subset
  <2> QED BY <1>1, <1>3, <1>7, <2>2 DEF KeylessCounted
<1>8. CASE faults' = faults + 1
  BY <1>1, <1>3, <1>4, <1>5, <1>6, <1>8 DEF KeylessCounted
<1> QED BY <1>7, <1>8

\* A row more, for a client more or for a fault more.
LEMMA CountAdded ==
    ASSUME KeylessCounted, want' = want, faults \in Nat,
           key \in [Jobs -> Keys \cup {NoKey}],
           NEW c \in Clients, NEW n, AddsRow(n, EffectiveKey(want[c])), n # NoJob,
           \/ faults' = faults /\ Told(c) = NoJob /\ Tells(c, n)
           \/ faults' = faults + 1 /\ TellsNothing
    PROVE  KeylessCounted'
<1> DEFINE k == EffectiveKey(want[c])
<1> HIDE DEF k
<1>0. /\ n \in Jobs /\ ~Exists(n)
      /\ key' = [key EXCEPT ![n] = k]
      /\ \A j \in Jobs : Exists(j)' <=> Exists(j) \/ j = n
  BY DEF AddsRow, k
<1>1. key'[n] = k /\ \A j \in Jobs \ {n} : key'[j] = key[j]
  BY <1>0
<1>2. Keyless' \in SUBSET (Keyless \cup {n})
  BY <1>0, <1>1 DEF Keyless, Holders
<1>3. k # NoKey => Keyless' = Keyless
  BY <1>0, <1>1 DEF Keyless, Holders
<1>4. /\ Cardinality(Served) \in Nat /\ Cardinality(Served') \in Nat
      /\ Cardinality(Keyless) \in Nat
  BY ServedFinite, FS_CardinalityType DEF KeylessCounted
<1>5. /\ IsFiniteSet(Keyless \cup {n})
      /\ Cardinality(Keyless \cup {n}) <= Cardinality(Keyless) + 1
      /\ Cardinality(Keyless \cup {n}) \in Nat
  <2>1. IsFiniteSet(Keyless)
    BY DEF KeylessCounted
  <2>2. /\ IsFiniteSet(Keyless \cup {n})
        /\ Cardinality(Keyless \cup {n}) =
              IF n \in Keyless THEN Cardinality(Keyless) ELSE Cardinality(Keyless) + 1
    BY <2>1, FS_AddElement
  <2> QED BY <1>4, <2>2
<1>6. /\ IsFiniteSet(Keyless')
      /\ Cardinality(Keyless') <= Cardinality(Keyless \cup {n})
  BY <1>2, <1>5, FS_Subset
<1>7. Cardinality(Keyless') \in Nat
  BY <1>6, FS_CardinalityType
<1>8. CASE faults' = faults + 1 /\ TellsNothing
  <2>1. Served' = Served
    BY <1>8 DEF Served, TellsNothing
  <2> QED BY <1>4, <1>5, <1>6, <1>7, <1>8, <2>1 DEF KeylessCounted
<1>9. CASE faults' = faults /\ Told(c) = NoJob /\ Tells(c, n)
  <2>1. CASE k = NoKey
    <3>1. Served' = Served \cup {c} /\ c \notin Served
      BY <1>9, <2>1 DEF Served, Tells, k
    <3>2. Cardinality(Served') = Cardinality(Served) + 1
      BY <3>1, ServedFinite, FS_AddElement
    <3> QED BY <1>4, <1>5, <1>6, <1>7, <1>9, <3>2 DEF KeylessCounted
  <2>2. CASE k # NoKey
    <3>1. Served' = Served
      BY <1>9, <2>2 DEF Served, Tells, k
    <3> QED BY <1>3, <1>9, <2>2, <3>1 DEF KeylessCounted
  <2> QED BY <2>1, <2>2
<1> QED BY <1>8, <1>9

-----------------------------------------------------------------------------
(* Each action preserves the invariant                                     *)

LEMMA IndInvParts ==
    ASSUME IndInv
    PROVE  /\ CallParts
           /\ RowInv
           /\ RowsAskedFor
           /\ Promises
           /\ KeylessCounted
           /\ TypeOK
           /\ key \in [Jobs -> Keys \cup {NoKey}]
           /\ faults \in Nat
           /\ \A c \in Clients : call[c].pc \in {"idle", "lookup"} /\ known[c] = NoJob
                                    => Told(c) = NoJob /\ ~Carries(c)
BY ApiAssumption DEF IndInv, CallParts, CallTypes, RowInv, TypeOK, Told, Carries

LEMMA IndInvIntro ==
    ASSUME TypeOK', CallParts', RowInv', RowsAskedFor', Promises', KeylessCounted'
    PROVE  IndInv'
BY DEF IndInv, CallParts, RowInv

\* A fault is counted up to the bound.
LEMMA FaultType ==
    ASSUME TypeOK, Fault
    PROVE  faults' \in 0..MaxFaults /\ faults' = faults + 1
BY ApiAssumption DEF TypeOK, Fault

\* A step of a submission that leaves the rows alone.
LEMMA CallStep ==
    ASSUME IndInv, UNCHANGED <<lifeVars, key, request, want, promised>>,
           CallParts', RowInv', KeylessCounted', faults' \in 0..MaxFaults,
           resumed' \in SUBSET Jobs, \A j \in resumed' : Exists(j),
           \A d \in Clients : known[d] # NoJob => known'[d] = known[d]
    PROVE  IndInv'
<1>0. UNCHANGED <<state, result, executing, revivable, key, request, want, promised>>
  BY DEF lifeVars
<1>1. TypeOK'
  BY <1>0 DEF IndInv, TypeOK, LifeTypes, CallParts, CallTypes
<1>2. RowsAskedFor'
  BY <1>0 DEF IndInv, RowsAskedFor, Exists
<1>3. Promises'
  BY <1>0 DEF IndInv, TypeOK, Promises, ResultAvailable
<1> QED BY <1>1, <1>2, <1>3, IndInvIntro

\* A step of a submission that leaves the rows alone and tells nothing.
LEMMA SilentStep ==
    ASSUME IndInv, UNCHANGED <<lifeVars, key, request, want, promised>>,
           CallParts', TellsNothing, NEW c \in Clients,
           faults' \in 0..MaxFaults, faults' = faults \/ faults' = faults + 1,
           resumed' \in SUBSET Jobs, \A j \in resumed' : Exists(j),
           \A d \in Clients : known[d] # NoJob => known'[d] = known[d]
    PROVE  IndInv'
<1>0. UNCHANGED <<state, key, want>>
  BY DEF lifeVars
<1>1. KeepsRows
  BY <1>0 DEF KeepsRows, Exists
<1>2. RowInv'
  BY <1>0, <1>1, IndInvParts, RowsKept DEF TellsNothing
<1>3. KeylessCounted'
  BY <1>0, <1>1, IndInvParts, CountKept DEF TellsNothing
<1> QED BY <1>2, <1>3, CallStep

\* The insert, acknowledged or not.
LEMMA InsertStep ==
    ASSUME IndInv, NEW c \in Clients, Serveable(want[c]),
           ~Conflict(EffectiveKey(want[c])), Insert(want[c]),
           UNCHANGED <<want, known, promised, resumed>>, CallParts',
           faults' \in 0..MaxFaults,
           \/ faults' = faults /\ Told(c) = NoJob /\ Tells(c, NewId)
           \/ faults' = faults + 1 /\ TellsNothing
    PROVE  IndInv'
<1> DEFINE n == NewId
           k == EffectiveKey(want[c])
           b == want[c].body
<1>0. want[c] \in Submissions /\ TypeOK
  BY DEF IndInv, TypeOK
<1>1. /\ n \in Jobs
      /\ state[n] = "absent"
      /\ state' = [state EXCEPT ![n] = "queued"]
      /\ result' = result
      /\ executing' = executing
      /\ revivable' = revivable
      /\ key' = [key EXCEPT ![n] = k]
      /\ request' = [request EXCEPT ![n] = {Normal(b)}]
  BY <1>0, InsertEffect
<1>2. k \in Keys \cup {NoKey} /\ b \in Bodies /\ Accepted(b)
  BY <1>0, SubmissionTypes DEF Serveable
<1> HIDE DEF n, k, b
<1>3. Normal(b) \in Bodies
  BY <1>2, NormalForm
<1>4. TypeOK'
  BY <1>0, <1>1, <1>2, <1>3 DEF TypeOK, LifeTypes, States, Open, CallParts, CallTypes
<1>5. AddsRow(n, k)
  BY <1>0, <1>1 DEF AddsRow, Exists, TypeOK, LifeTypes, k
<1>6. RowInv'
  BY <1>5, IndInvParts, RowsAdded DEF n, k
<1>7. n # NoJob
  BY <1>1, ApiAssumption
<1>8. KeylessCounted'
  BY <1>5, <1>7, IndInvParts, CountAdded DEF n, k
<1>9. RowsAskedFor'
  <2> USE <1>0 DEF TypeOK, LifeTypes
  <2>1. ASSUME NEW j \in Jobs \ LegacyJobs, Exists(j)'
        PROVE  \E d \in Clients :
                   /\ want[d].token /\ want[d].parses /\ Accepted(want[d].body)
                   /\ EffectiveKey(want[d]) = key'[j]
    <3>1. CASE j = n
      BY <1>1, <3>1 DEF Serveable, k
    <3>2. CASE j # n
      <4>1. Exists(j) /\ key'[j] = key[j]
        BY <1>1, <2>1, <3>2 DEF Exists
      <4> QED BY <4>1, IndInvParts DEF RowsAskedFor
    <3> QED BY <3>1, <3>2
  <2>2. ASSUME NEW j \in Jobs, NEW x \in request'[j]
        PROVE  /\ Accepted(x)
               /\ Normal(x) = x
               /\ \A f \in DOMAIN x \ {"translate"} : x[f] # "blank"
    <3>1. CASE j = n
      <4>1. x = Normal(b)
        BY <1>1, <2>2, <3>1
      <4> QED BY <1>2, <4>1, NormalForm
    <3>2. CASE j # n
      <4>1. x \in request[j]
        BY <1>1, <2>2, <3>2
      <4> QED BY <4>1, IndInvParts DEF RowsAskedFor
    <3> QED BY <3>1, <3>2
  <2>3. \A j \in resumed' : Exists(j)'
    BY <1>1, IndInvParts DEF RowsAskedFor, Exists
  <2> QED BY <2>1, <2>2, <2>3 DEF RowsAskedFor
<1>10. Promises'
  BY <1>0, <1>1, IndInvParts DEF Promises, ResultAvailable, TypeOK, LifeTypes
<1> QED BY <1>4, <1>6, <1>8, <1>9, <1>10, IndInvIntro

\* A row a client knows of is cancelled or processed.
LEMMA RowStep ==
    ASSUME IndInv, NEW c \in Clients, known[c] # NoJob, LifeStep(known[c]),
           UNCHANGED <<key, request, want, call, known, promised, resumed, faults>>
    PROVE  IndInv'
<1> DEFINE j == known[c]
<1>0. TypeOK /\ CallParts /\ RowInv /\ Promises
  BY IndInvParts
<1>1. j \in Jobs /\ Exists(j)
  BY <1>0 DEF TypeOK, RowInv, ToldRows, Told
<1>2. /\ LifeTypes'
      /\ \A i \in Jobs : state'[i] # "absent" <=> state[i] # "absent"
      /\ \A i \in Jobs : state'[i] = "completed" => result'[i]
      /\ \A i \in Jobs : state[i] = "completed" /\ result[i] /\ executing[i] = {} =>
            state'[i] = "completed" /\ result'[i] /\ executing'[i] = {}
  BY <1>0, <1>1, LifeStepEffect DEF Promises
<1>3. CallParts' /\ TellsNothing
  BY <1>0, QuietParts
<1>4. TypeOK'
  BY <1>0, <1>2 DEF TypeOK
<1>5. KeepsRows
  BY <1>2 DEF KeepsRows, Exists
<1>6. RowInv'
  BY <1>0, <1>3, <1>5, RowsKept DEF TellsNothing
<1>7. KeylessCounted'
  BY <1>3, <1>5, IndInvParts, CountKept DEF TellsNothing
<1>8. RowsAskedFor'
  BY <1>0, <1>2, IndInvParts DEF RowsAskedFor, Exists, TypeOK
<1>9. Promises'
  BY <1>0, <1>2, ApiAssumption DEF Promises, ResultAvailable, TypeOK
<1> QED BY <1>3, <1>4, <1>6, <1>7, <1>8, <1>9, IndInvIntro

LEMMA InvInit == Init => IndInv
<1> SUFFICES ASSUME Init PROVE IndInv
  OBVIOUS
<1>0. LegacyJobs \subseteq Jobs /\ NoJob \notin Jobs
  BY ApiAssumption
<1>1. TypeOK
  <2>1. LifeTypes
    BY <1>0 DEF Init, LifeInit, LifeTypes, States, Settled
  <2>2. call \in [Clients -> [pc: {"idle", "lookup", "autostart", "reply"},
                              job: Jobs \cup {NoJob}, code: Codes]]
    BY DEF Init, IdleCall, Codes
  <2>3. 0 \in 0..MaxFaults
    BY ApiAssumption
  <2> QED BY <2>1, <2>2, <2>3 DEF Init, TypeOK
<1>2. \A c \in Clients : call[c].pc = "idle" /\ known[c] = NoJob
  BY DEF Init, IdleCall
<1>3. CarriesJob /\ AskingUnknown /\ LookupKeyed
  BY <1>2 DEF CarriesJob, Carries, AskingUnknown, LookupKeyed
<1>4. \A c \in Clients : Told(c) = NoJob
  BY <1>2 DEF Told, Carries
<1>5. ToldRows /\ OwnRows
  BY <1>4 DEF ToldRows, OwnRows
<1>6. \A j \in Jobs : Exists(j) <=> j \in LegacyJobs
  BY DEF Init, LifeInit, Exists
<1>7. UniqueKeys
  BY <1>6 DEF UniqueKeys, Init
<1>8. RowsAskedFor
  BY <1>6 DEF RowsAskedFor, Init
<1>9. Promises
  BY DEF Promises, Init, LifeInit
<1>10. KeylessCounted
  <2>1. Keyless = {}
    BY <1>6 DEF Keyless, Holders
  <2>2. Served = {}
    BY <1>4 DEF Served
  <2> QED BY <2>1, <2>2, FS_EmptySet DEF KeylessCounted, Init
<1> QED BY <1>1, <1>3, <1>5, <1>7, <1>8, <1>9, <1>10 DEF IndInv

LEMMA InvNext == IndInv /\ [Next]_apiVars => IndInv'
<1> SUFFICES ASSUME IndInv, [Next]_apiVars PROVE IndInv'
  OBVIOUS
<1>0. /\ CallParts /\ RowInv /\ TypeOK /\ RowsAskedFor
      /\ faults \in 0..MaxFaults /\ resumed \in SUBSET Jobs
      /\ \A j \in resumed : Exists(j)
  BY IndInvParts DEF TypeOK, RowsAskedFor
<1>1. ASSUME NEW c \in Clients, Refuse(c) PROVE IndInv'
  <2>1. known[c] = NoJob /\ ~Carries(c)
    BY <1>1, IndInvParts DEF Refuse, Submits
  <2>2. PICK code \in {400, 401} : Answer(c, code, NoJob)
    BY <1>1 DEF Refuse
  <2>3. code \in Codes \ {202}
    BY DEF Codes
  <2>4. CallParts' /\ TellsNothing
    BY <1>0, <1>1, <2>1, <2>2, <2>3, AnswerFailure DEF Refuse
  <2> QED BY <1>0, <1>1, <2>4, SilentStep DEF Refuse
<1>2. ASSUME NEW c \in Clients, CreateJob(c) PROVE IndInv'
  <2>1. known[c] = NoJob /\ ~Carries(c) /\ Told(c) = NoJob
    BY <1>2, IndInvParts DEF CreateJob, Submits
  <2>2. CASE Conflict(EffectiveKey(want[c]))
    <3>1. /\ EffectiveKey(want[c]) # NoKey
          /\ Goto(c, "lookup", NoJob)
          /\ UNCHANGED <<lifeVars, key, request, want, known, promised, resumed, faults>>
      BY <1>2, <2>2 DEF CreateJob, Conflict
    <3>2. CallParts' /\ TellsNothing
      BY <1>0, <2>1, <3>1, GotoLookup
    <3> QED BY <1>0, <3>1, <3>2, SilentStep
  <2>3. CASE ~Conflict(EffectiveKey(want[c]))
    <3>1. /\ Serveable(want[c])
          /\ Goto(c, "autostart", NewId) /\ Insert(want[c])
          /\ UNCHANGED <<want, known, promised, resumed, faults>>
      BY <1>2, <2>3 DEF CreateJob
    <3>2. NewId \in Jobs
      BY <3>1, NewIdFresh DEF Insert
    <3>3. CallParts' /\ Tells(c, NewId)
      BY <1>0, <2>1, <3>1, <3>2, GotoAutostart
    <3> QED BY <1>0, <2>1, <2>3, <3>1, <3>3, InsertStep
  <2> QED BY <2>2, <2>3
<1>3. ASSUME NEW c \in Clients, InsertFails(c) PROVE IndInv'
  <2>1. known[c] = NoJob /\ ~Carries(c)
    BY <1>3, IndInvParts DEF InsertFails, Submits
  <2>2. faults' \in 0..MaxFaults /\ faults' = faults + 1
    BY <1>0, <1>3, FaultType DEF InsertFails
  <2>3. 500 \in Codes \ {202}
    BY DEF Codes
  <2>4. Answer(c, 500, NoJob) /\ UNCHANGED <<want, known, promised, resumed>>
    BY <1>3 DEF InsertFails
  <2>5. CallParts' /\ TellsNothing
    BY <1>0, <2>1, <2>3, <2>4, AnswerFailure
  <2>6. CASE UNCHANGED <<lifeVars, key, request>>
    BY <1>0, <2>2, <2>4, <2>5, <2>6, SilentStep
  <2>7. CASE ~Conflict(EffectiveKey(want[c])) /\ Insert(want[c])
    <3>1. Serveable(want[c])
      BY <1>3 DEF InsertFails
    <3> QED BY <2>2, <2>4, <2>5, <2>7, <3>1, InsertStep
  <2> QED BY <1>3, <2>6, <2>7 DEF InsertFails
<1>4. ASSUME NEW c \in Clients, GetJobByIdempotencyKey(c) PROVE IndInv'
  <2>1. /\ call[c].pc = "lookup"
        /\ UNCHANGED <<lifeVars, key, request, want, known, promised, resumed, faults>>
    BY <1>4 DEF GetJobByIdempotencyKey
  <2>2. PICK j \in Holders(EffectiveKey(want[c])) : Goto(c, "autostart", j)
    BY <1>4 DEF GetJobByIdempotencyKey
  <2>3. known[c] = NoJob /\ EffectiveKey(want[c]) # NoKey
    BY <2>1 DEF IndInv, AskingUnknown, LookupKeyed
  <2>4. Told(c) = NoJob
    BY <2>1, <2>3, IndInvParts
  <2>5. j \in Jobs
    BY DEF Holders
  <2>6. CallParts' /\ Tells(c, j)
    BY <1>0, <2>1, <2>2, <2>3, <2>5, GotoAutostart
  <2>7. KeepsRows
    BY <2>1 DEF KeepsRows, Exists, lifeVars
  <2>8. RowInv'
    BY <1>0, <2>1, <2>3, <2>6, <2>7, RowsLookedUp
  <2>9. KeylessCounted'
    BY <2>1, <2>4, <2>6, <2>7, IndInvParts, CountKept DEF Tells
  <2> QED BY <1>0, <2>1, <2>6, <2>8, <2>9, CallStep
<1>5. ASSUME NEW c \in Clients, LookupFails(c) PROVE IndInv'
  <2>1. /\ call[c].pc = "lookup"
        /\ Answer(c, 500, NoJob)
        /\ UNCHANGED <<lifeVars, key, request, want, known, promised, resumed>>
    BY <1>5 DEF LookupFails
  <2>2. known[c] = NoJob /\ ~Carries(c)
    BY <2>1 DEF IndInv, AskingUnknown, Carries
  <2>3. faults' \in 0..MaxFaults /\ faults' = faults + 1
    BY <1>0, <1>5, FaultType DEF LookupFails
  <2>4. 500 \in Codes \ {202}
    BY DEF Codes
  <2>5. CallParts' /\ TellsNothing
    BY <1>0, <2>1, <2>2, <2>4, AnswerFailure
  <2> QED BY <1>0, <2>1, <2>3, <2>5, SilentStep
<1>6. ASSUME NEW c \in Clients, AutoStart(c) PROVE IndInv'
  <2>1. /\ call[c].pc = "autostart"
        /\ Answer(c, 202, call[c].job)
        /\ UNCHANGED <<lifeVars, key, request, want, known, promised, faults>>
        /\ resumed' = resumed \/ resumed' = resumed \cup {call[c].job}
    BY <1>6 DEF AutoStart
  <2>2. CallParts' /\ TellsNothing
    BY <1>0, <2>1, AnswerAccepted
  <2>3. call[c].job \in Jobs /\ Exists(call[c].job)
    <3>1. known[c] = NoJob /\ call[c].job # NoJob
      BY <2>1 DEF IndInv, AskingUnknown, CarriesJob, Carries
    <3>2. Told(c) = call[c].job
      BY <2>1, <3>1 DEF Told, Carries
    <3> QED BY <1>0, <3>1, <3>2 DEF RowInv, ToldRows, TypeOK
  <2> QED BY <1>0, <2>1, <2>2, <2>3, SilentStep
<1>7. ASSUME NEW c \in Clients, Receive(c) PROVE IndInv'
  <2>1. CallParts' /\ TellsNothing
    BY <1>0, <1>7, ReceiveParts
  <2>2. /\ known' = [known EXCEPT ![c] = IF call[c].code = 202 THEN call[c].job ELSE @]
        /\ UNCHANGED <<lifeVars, key, request, want, promised, resumed, faults>>
    BY <1>7 DEF Receive
  <2>3. known[c] = NoJob
    BY <1>7 DEF Receive, IndInv, AskingUnknown
  <2>4. \A d \in Clients : known[d] # NoJob => known'[d] = known[d]
    BY <1>0, <2>2, <2>3 DEF TypeOK
  <2> QED BY <1>0, <2>1, <2>2, <2>4, SilentStep
<1>8. ASSUME NEW c \in Clients, LoseCall(c) PROVE IndInv'
  <2>1. CallParts' /\ Tells(c, NoJob)
    BY <1>0, <1>8, LoseCallParts
  <2>2. faults' \in 0..MaxFaults /\ faults' = faults + 1
    BY <1>0, <1>8, FaultType DEF LoseCall
  <2>3. UNCHANGED <<lifeVars, key, request, want, known, promised, resumed>>
    BY <1>8 DEF LoseCall
  <2>4. KeepsRows
    BY <2>3 DEF KeepsRows, Exists, lifeVars
  <2>5. RowInv'
    BY <1>0, <2>1, <2>3, <2>4, RowsKept DEF Tells
  <2>6. KeylessCounted'
    BY <2>1, <2>2, <2>3, <2>4, IndInvParts, CountKept DEF Tells
  <2> QED BY <1>0, <2>1, <2>2, <2>3, <2>5, <2>6, CallStep
<1>9. ASSUME NEW c \in Clients, GetStatus(c) PROVE IndInv'
  <2>1. /\ known[c] # NoJob
        /\ promised' = IF ResultAvailable(known[c]) /\ executing[known[c]] = {}
                       THEN promised \cup {c} ELSE promised
        /\ UNCHANGED <<lifeVars, key, request, want, call, known, resumed, faults>>
    BY <1>9 DEF GetStatus
  <2>2. UNCHANGED <<state, result, executing, revivable>>
    BY <2>1 DEF lifeVars
  <2>3. TypeOK'
    BY <1>0, <2>1, <2>2 DEF TypeOK, LifeTypes
  <2>4. CallParts' /\ TellsNothing
    BY <1>0, <2>1, QuietParts
  <2>5. KeepsRows
    BY <2>1, <2>2 DEF KeepsRows, Exists
  <2>6. RowInv'
    BY <1>0, <2>1, <2>4, <2>5, RowsKept DEF TellsNothing
  <2>7. KeylessCounted'
    BY <2>1, <2>4, <2>5, IndInvParts, CountKept DEF TellsNothing
  <2>8. RowsAskedFor'
    BY <1>0, <2>1, <2>2 DEF RowsAskedFor, Exists
  <2>9. Promises'
    BY <2>1, <2>2, IndInvParts DEF Promises, ResultAvailable
  <2> QED BY <2>3, <2>4, <2>6, <2>7, <2>8, <2>9, IndInvIntro
<1>10. ASSUME NEW c \in Clients, DeleteJob(c) PROVE IndInv'
  <2>1. /\ known[c] # NoJob
        /\ LifeStep(known[c])
        /\ UNCHANGED <<key, request, want, call, known, promised, resumed, faults>>
    BY <1>10 DEF DeleteJob, LifeStep
  <2> QED BY <2>1, RowStep
<1>11. ASSUME NEW j \in Jobs, Processing(j) PROVE IndInv'
  <2>1. PICK c \in Clients : known[c] = j
    BY <1>11 DEF Processing
  <2>2. /\ known[c] # NoJob
        /\ LifeStep(known[c])
        /\ UNCHANGED <<key, request, want, call, known, promised, resumed, faults>>
    BY <1>11, <2>1, ApiAssumption DEF Processing, LifeStep
  <2> QED BY <2>2, RowStep
<1>12. CASE UNCHANGED apiVars
  <2>1. UNCHANGED <<state, result, executing, revivable, key, request, want, call, known,
                    promised, resumed, faults>>
    BY <1>12 DEF apiVars, lifeVars
  <2> QED BY <2>1 DEF IndInv, TypeOK, LifeTypes, CarriesJob, Carries, AskingUnknown,
             LookupKeyed, ToldRows, Told, UniqueKeys, OwnRows, RowsAskedFor, Promises,
             ResultAvailable, KeylessCounted, Keyless, Served, Holders, Exists
<1>13. CASE Next
  <2>1. CASE \E c \in Clients : SubmitStep(c)
    BY <2>1, <1>1, <1>2, <1>4, <1>6, <1>7 DEF SubmitStep
  <2> QED BY <1>13, <2>1, <1>3, <1>5, <1>8, <1>9, <1>10, <1>11 DEF Next
<1> QED BY <1>12, <1>13

LEMMA InvHolds == ApiSpec => []IndInv
BY InvInit, InvNext, PTL DEF ApiSpec

-----------------------------------------------------------------------------
(* The results                                                             *)

\* Every variable of the API stays in its type, for any jobs, clients and keys.
THEOREM ApiTypesOK == ApiSpec => []TypeOK
<1>1. IndInv => TypeOK
  BY DEF IndInv
<1> QED BY <1>1, InvHolds, PTL

\* CreateJob and SubmitTranscription: two clients are told the same job exactly when they submitted
\* under the same idempotency key, whatever fails, is lost or is repeated.
THEOREM KeyDecidesSharing == ApiSpec => []OneJobPerKey
<1>1. IndInv => OneJobPerKey
  <2> SUFFICES ASSUME IndInv, NEW c \in Clients, NEW d \in Clients,
                      c # d, known[c] # NoJob, known[d] # NoJob
               PROVE  known[c] = known[d]
                         <=> /\ EffectiveKey(want[c]) = EffectiveKey(want[d])
                             /\ EffectiveKey(want[c]) # NoKey
    BY DEF OneJobPerKey
  <2>1. Told(c) = known[c] /\ Told(d) = known[d]
    BY DEF Told
  <2>2. known[c] \in Jobs /\ known[d] \in Jobs
    BY DEF IndInv, TypeOK
  <2>3. /\ Exists(known[c]) /\ key[known[c]] = EffectiveKey(want[c])
        /\ Exists(known[d]) /\ key[known[d]] = EffectiveKey(want[d])
    BY <2>1 DEF IndInv, ToldRows
  <2>4. known[c] = known[d] => EffectiveKey(want[c]) # NoKey
    BY <2>1 DEF IndInv, OwnRows
  <2> QED BY <2>2, <2>3, <2>4 DEF IndInv, UniqueKeys
<1> QED BY <1>1, InvHolds, PTL

\* A key has at most one row; the rows without a key are no more than the clients without one
\* and the commits and answers that were lost.
THEOREM WorkIsNotDuplicated == ApiSpec => []NoDuplicateWork
<1>1. IndInv => NoDuplicateWork
  <2> SUFFICES ASSUME IndInv PROVE NoDuplicateWork
    OBVIOUS
  <2>1. ASSUME NEW k \in Keys PROVE Cardinality(Holders(k)) <= 1
    <3>1. k # NoKey
      BY ApiAssumption
    <3>2. \A i, j \in Holders(k) : i = j
      BY <3>1 DEF Holders, IndInv, UniqueKeys
    <3>3. CASE Holders(k) = {}
      BY <3>3, FS_EmptySet
    <3>4. CASE Holders(k) # {}
      <4>1. PICK j : Holders(k) = {j}
        BY <3>2, <3>4
      <4> QED BY <4>1, FS_Singleton
    <3> QED BY <3>3, <3>4
  <2>2. Cardinality(Keyless)
          <= faults + Cardinality({c \in Clients : EffectiveKey(want[c]) = NoKey})
    <3> DEFINE All == {c \in Clients : EffectiveKey(want[c]) = NoKey}
    <3>1. All \in SUBSET Clients /\ Served \in SUBSET All
      BY DEF Served
    <3>2. IsFiniteSet(All)
      BY <3>1, FiniteClients, FS_Subset
    <3>3. Cardinality(Served) <= Cardinality(All)
      BY <3>1, <3>2, FS_Subset
    <3>4. /\ Cardinality(All) \in Nat /\ Cardinality(Served) \in Nat
          /\ Cardinality(Keyless) \in Nat
      BY <3>2, ServedFinite, FS_CardinalityType DEF IndInv, KeylessCounted
    <3> HIDE DEF All
    <3>5. Cardinality(Keyless) <= faults + Cardinality(All)
      BY <3>3, <3>4, IndInvParts DEF KeylessCounted
    <3> QED BY <3>5 DEF All
  <2> QED BY <2>1, <2>2 DEF NoDuplicateWork, Keyless
<1> QED BY <1>1, InvHolds, PTL

\* A row the API made was asked for under its key by a client it had to serve, its body is in
\* the validator's normal form, and the pod is resumed only for a row that is there.
THEOREM RowsWereAskedFor == ApiSpec => []RowsAskedFor
<1>1. IndInv => RowsAskedFor
  BY DEF IndInv
<1> QED BY <1>1, InvHolds, PTL

\* A result that GetStatus announced, when nobody executed the job any more, is served by
\* GetResult for good; and GetResult answers 200 exactly when there is a result.
THEOREM PromiseIsKept == ApiSpec => []PromiseKept
<1>1. IndInv => PromiseKept
  <2> SUFFICES ASSUME IndInv PROVE PromiseKept
    OBVIOUS
  <2>1. LifeTypes /\ Promises
    BY DEF IndInv, TypeOK
  <2>2. \A j \in Jobs : ResultCode(j) = 200 <=> state[j] = "completed"
    BY <2>1, ResultCodeOK
  <2>3. \A c \in promised : known[c] \in Jobs /\ state[known[c]] = "completed"
    BY <2>1 DEF Promises, ResultAvailable, IndInv, TypeOK
  <2> QED BY <2>1, <2>2, <2>3 DEF PromiseKept, Promises, ResultAvailable
<1> QED BY <1>1, InvHolds, PTL

\* The handlers, and the steps the workers take between them, keep to the life of a job
\* that JobLifecycle promises: the specification JobQueue is proved to implement as well.
THEOREM ApiImplementsLifecycle == ApiSpec => LifeSpec
<1>1. Init => LifeInit
  BY DEF Init
<1>2. ASSUME IndInv, IndInv', [Next]_apiVars
      PROVE  [LifeNext]_lifeVars
  <2>0. TypeOK /\ LifeTypes'
    BY <1>2 DEF IndInv, TypeOK
  <2>1. ASSUME NEW j \in Jobs, OnlyRow(j), JobStep(j), revivable' \subseteq revivable
        PROVE  LifeNext
    <3>1. ASSUME NEW i \in Jobs \ {j} PROVE JobStep(i)
      <4>1. state'[i] = state[i] /\ result'[i] = result[i] /\ executing'[i] = executing[i]
        BY <2>0, <2>1 DEF OnlyRow, TypeOK, LifeTypes
      <4> QED BY <4>1 DEF JobStep, Leave, Same, To, NoNewExecution
    <3> QED BY <2>0, <2>1, <3>1 DEF LifeNext
  <2>2. ASSUME NEW r, Insert(r) PROVE LifeNext
    <3>1. NewId \in Jobs
      BY <2>2, NewIdFresh DEF Insert
    <3>2. OnlyRow(NewId) /\ JobStep(NewId) /\ revivable' = revivable
      BY <2>2 DEF Insert, JobStep
    <3> QED BY <2>1, <3>1, <3>2
  <2>3. ASSUME NEW c \in Clients, DeleteJob(c) PROVE LifeNext
    <3>1. known[c] \in Jobs
      BY <2>0, <2>3 DEF DeleteJob, TypeOK
    <3>2. OnlyRow(known[c]) /\ JobStep(known[c]) /\ revivable' = revivable
      BY <2>3 DEF DeleteJob, JobStep
    <3> QED BY <2>1, <3>1, <3>2
  <2>4. ASSUME NEW j \in Jobs, Processing(j) PROVE LifeNext
    <3>1. OnlyRow(j) /\ JobStep(j) /\ revivable' \subseteq revivable
      BY <2>4 DEF Processing, JobStep
    <3> QED BY <2>1, <3>1
  <2>5. ASSUME NEW c \in Clients,
               \/ Refuse(c) \/ GetJobByIdempotencyKey(c) \/ AutoStart(c) \/ Receive(c)
               \/ LookupFails(c) \/ LoseCall(c) \/ GetStatus(c)
        PROVE  UNCHANGED lifeVars
    BY <2>5 DEF Refuse, GetJobByIdempotencyKey, AutoStart, Receive, LookupFails, LoseCall,
                GetStatus
  <2>6. ASSUME NEW c \in Clients, CreateJob(c) \/ InsertFails(c)
        PROVE  UNCHANGED lifeVars \/ Insert(want[c])
    BY <2>6 DEF CreateJob, InsertFails
  <2>7. CASE UNCHANGED apiVars
    BY <2>7 DEF apiVars
  <2> QED BY <1>2, <2>2, <2>3, <2>4, <2>5, <2>6, <2>7 DEF Next, SubmitStep
<1> QED BY <1>1, <1>2, InvHolds, PTL DEF ApiSpec, LifeSpec

=============================================================================
