---------------------- MODULE WebhookDispatcherProofs ----------------------
(***************************************************************************)
(* TLAPS proofs about WebhookDispatcher, for every number of deliveries    *)
(* and of API processes, every batch limit and every bound on the faults.  *)
(***************************************************************************)
EXTENDS WebhookDispatcher, TLAPS

-----------------------------------------------------------------------------
(* The inductive invariant                                                 *)

\* Only a goroutine whose post the receiver accepted is about to record success.
AcceptedIsReal ==
    \A a \in Servers, d \in Deliveries : Flying(a, d, "ok") => answered[d] = "accepted"

\* A goroutine that is about to record anything has posted.
AnsweredIsKnown ==
    \A a \in Servers, d \in Deliveries :
        Flying(a, d, "ok") \/ Flying(a, d, "bad") => answered[d] # "no"

\* A server that shuts down has cost a fault, and so has a claim rolled back.
StoppingIsFault == \A a \in Servers : server[a] = "stopping" => faults # 0
DoubtIsFault == doubt # {} => faults # 0

IndInv ==
    /\ TypeOK
    /\ SingleFlight
    /\ AcceptedIsReal
    /\ AnsweredIsKnown
    /\ SuccessIsReal
    /\ StoppingIsFault
    /\ DoubtIsFault
    /\ NothingForgotten

-----------------------------------------------------------------------------
(* How the goroutines of one server and delivery change                    *)

FlyType == fly \in [Servers -> [Deliveries -> [Phases -> Nat]]]

\* A step that replaces the counts f of one server and delivery.
LEMMA FlightUpdate ==
    ASSUME FlyType, NEW a \in Servers, NEW d \in Deliveries,
           NEW f \in [Phases -> Nat], SetFlight(a, d, f)
    PROVE  /\ FlyType'
           /\ fly'[a][d] = f
           /\ \A b \in Servers, e \in Deliveries :
                 b # a \/ e # d => fly'[b][e] = fly[b][e]
<1> DEFINE g == [fly[a] EXCEPT ![d] = f]
<1>1. g \in [Deliveries -> [Phases -> Nat]]
  BY DEF FlyType
<1>2. fly' = [fly EXCEPT ![a] = g]
  BY DEF SetFlight
<1>3. g[d] = f /\ \A e \in Deliveries : e # d => g[e] = fly[a][e]
  BY DEF FlyType
<1> HIDE DEF g
<1> QED BY <1>1, <1>2, <1>3 DEF FlyType

\* A goroutine that turns from x to y.
LEMMA TurnFlight ==
    ASSUME FlyType, NEW a \in Servers, NEW d \in Deliveries,
           NEW x \in Phases, NEW y \in Phases, x # y,
           Flying(a, d, x), Turn(a, d, x, y)
    PROVE  /\ FlyType'
           /\ fly'[a][d] = Gain(Lose(fly[a][d], x), y)
           /\ \A b \in Servers, e \in Deliveries :
                 b # a \/ e # d => fly'[b][e] = fly[b][e]
<1>1. Gain(Lose(fly[a][d], x), y) \in [Phases -> Nat]
  BY DEF FlyType, Flying, Gain, Lose
<1> QED BY <1>1, FlightUpdate DEF Turn

\* A goroutine that ends.
LEMMA EndFlight ==
    ASSUME FlyType, NEW a \in Servers, NEW d \in Deliveries, NEW x \in Phases,
           Flying(a, d, x), End(a, d, x)
    PROVE  /\ FlyType'
           /\ fly'[a][d] = Lose(fly[a][d], x)
           /\ \A b \in Servers, e \in Deliveries :
                 b # a \/ e # d => fly'[b][e] = fly[b][e]
<1>1. Lose(fly[a][d], x) \in [Phases -> Nat]
  BY DEF FlyType, Flying, Lose
<1> QED BY <1>1, FlightUpdate DEF End

-----------------------------------------------------------------------------
(* The invariant, action by action                                         *)

\* With at most one goroutine per delivery, the phases exclude one another.
LEMMA PhasesExclude ==
    ASSUME IndInv, NEW a \in Servers, NEW d \in Deliveries \ doubt, NEW x \in Phases,
           Flying(a, d, x)
    PROVE  /\ fly[a][d] = [y \in Phases |-> IF y = x THEN 1 ELSE 0]
           /\ delivery[d].status = "delivering"
           /\ \A b \in Servers \ {a} : ~Busy(b, d)
<1>1. fly[a][d] \in [Phases -> Nat]
  BY DEF IndInv, TypeOK
<1>2. Busy(a, d)
  BY DEF Busy
<1>3. /\ delivery[d].status = "delivering"
      /\ fly[a][d]["post"] + fly[a][d]["ok"] + fly[a][d]["bad"] = 1
      /\ \A b \in Servers \ {a} : ~Busy(b, d)
  BY <1>2 DEF IndInv, SingleFlight
<1>4. fly[a][d][x] > 0
  BY DEF Flying
<1>5. fly[a][d] = [y \in Phases |-> IF y = x THEN 1 ELSE 0]
  BY <1>1, <1>3, <1>4 DEF Phases
<1> QED BY <1>3, <1>5

\* A server and delivery with no goroutine.
LEMMA NotBusy ==
    ASSUME FlyType, NEW a \in Servers, NEW d \in Deliveries
    PROVE  ~Busy(a, d) <=> fly[a][d] = NoFlight
BY DEF FlyType, Busy, Flying, NoFlight

\* The goroutine ends and the delivery leaves 'delivering', or its outcome is
\* refused after the POST, or it is forgotten at the price of a fault.
LEMMA EndKept ==
    ASSUME IndInv, NEW a \in Servers, NEW d \in Deliveries, NEW x \in Phases,
           Flying(a, d, x), End(a, d, x),
           UNCHANGED <<server, prepared, answered, doubt>>,
           TypeOK', SuccessIsReal',
           \A e \in Deliveries : e # d => delivery'[e] = delivery[e],
           \/ /\ UNCHANGED faults
              /\ \/ delivery'[d].status # "delivering"
                 \/ prepared /\ x # "post"
           \/ faults' # 0
    PROVE  IndInv'
<1>0. FlyType /\ \A y \in {"post", "ok", "bad"} : y \in Phases
  BY DEF IndInv, TypeOK, FlyType, Phases
<1>1. /\ fly'[a][d] = Lose(fly[a][d], x)
      /\ \A b \in Servers, e \in Deliveries :
            b # a \/ e # d => fly'[b][e] = fly[b][e]
  BY <1>0, EndFlight
<1>2. ASSUME d \notin doubt PROVE \A b \in Servers : ~Busy(b, d)'
  <2>1. fly'[a][d] = NoFlight
    <3>1. fly[a][d] = [y \in Phases |-> IF y = x THEN 1 ELSE 0]
      BY <1>2, PhasesExclude
    <3>2. Lose(fly[a][d], x) = [y \in Phases |-> 0]
      BY <3>1 DEF Lose
    <3> QED BY <1>1, <3>2 DEF NoFlight
  <2>2. ~Busy(a, d)'
    BY <2>1 DEF Busy, Flying, NoFlight
  <2>3. ASSUME NEW b \in Servers, b # a PROVE ~Busy(b, d)'
    <3>1. ~Busy(b, d) /\ fly'[b][d] = fly[b][d]
      BY <1>1, <1>2, <2>3, PhasesExclude
    <3> QED BY <3>1 DEF Busy, Flying
  <2> QED BY <2>2, <2>3
<1>3. \A b \in Servers, e \in Deliveries : e # d => (Busy(b, e)' <=> Busy(b, e))
  BY <1>1 DEF Busy, Flying
<1>4. ASSUME NEW b \in Servers, NEW e \in Deliveries, NEW y \in Phases, Flying(b, e, y)'
      PROVE  Flying(b, e, y)
  <2>1. CASE b = a /\ e = d
    <3>1. fly[a][d] \in [Phases -> Nat] /\ fly'[a][d][y] > 0
      BY <1>0, <1>4, <2>1 DEF FlyType, Flying
    <3>2. Lose(fly[a][d], x)[y] <= fly[a][d][y]
      BY <3>1 DEF Lose
    <3> QED BY <1>1, <2>1, <3>1, <3>2 DEF Flying, Lose
  <2>2. CASE b # a \/ e # d
    BY <1>1, <1>4, <2>2 DEF Flying
  <2> QED BY <2>1, <2>2
<1>5. SingleFlight'
  <2> SUFFICES ASSUME NEW b \in Servers, NEW e \in Deliveries, e \notin doubt, Busy(b, e)'
               PROVE  /\ delivery'[e].status = "delivering"
                      /\ fly'[b][e]["post"] + fly'[b][e]["ok"] + fly'[b][e]["bad"] = 1
                      /\ \A c \in Servers \ {b} : ~Busy(c, e)'
    BY DEF SingleFlight
  <2>1. e # d
    BY <1>2
  <2> QED BY <1>1, <1>3, <2>1 DEF IndInv, SingleFlight
<1>6. AcceptedIsReal' /\ AnsweredIsKnown'
  BY <1>0, <1>4 DEF IndInv, AcceptedIsReal, AnsweredIsKnown
<1>7. StoppingIsFault' /\ DoubtIsFault'
  BY DEF IndInv, StoppingIsFault, DoubtIsFault
<1>8. NothingForgotten'
  <2> SUFFICES ASSUME faults' = 0, NEW e \in Deliveries, delivery'[e].status = "delivering"
               PROVE  \/ \E b \in Servers : Busy(b, e)'
                      \/ prepared' /\ answered'[e] # "no"
    BY DEF NothingForgotten
  <2>1. CASE e = d
    <3>1. prepared /\ x \in {"ok", "bad"}
      BY <2>1 DEF Phases
    <3> QED BY <2>1, <3>1 DEF IndInv, AnsweredIsKnown
  <2>2. CASE e # d
    BY <1>3, <2>2 DEF IndInv, NothingForgotten
  <2> QED BY <2>1, <2>2
<1> QED BY <1>5, <1>6, <1>7, <1>8 DEF IndInv

\* A goroutine that was answered, with what the answer leaves behind.
LEMMA TurnKept ==
    ASSUME IndInv, NEW a \in Servers, NEW d \in Deliveries,
           NEW y \in {"ok", "bad"}, NEW answer \in {"refused", "accepted"},
           Posted(a, d, y, answer), y = "ok" => answer = "accepted"
    PROVE  IndInv'
<1>0. /\ FlyType /\ "post" \in Phases /\ y \in Phases
      /\ Flying(a, d, "post") /\ Turn(a, d, "post", y)
      /\ delivery' = delivery /\ server' = server /\ prepared' = prepared
      /\ faults' = faults /\ doubt' = doubt
      /\ \A x \in {"post", "ok", "bad"} : x \in Phases
  BY DEF IndInv, TypeOK, FlyType, Phases, Posted
<1>1. /\ FlyType'
      /\ fly'[a][d] = Gain(Lose(fly[a][d], "post"), y)
      /\ \A b \in Servers, e \in Deliveries :
            b # a \/ e # d => fly'[b][e] = fly[b][e]
  BY <1>0, TurnFlight
<1>t. /\ answered' \in [Deliveries -> {"no", "refused", "accepted"}]
      /\ answered'[d] # "no"
      /\ y = "ok" => answered'[d] = "accepted"
  BY DEF IndInv, TypeOK, Posted
<1>2. \A e \in Deliveries :
         /\ answered[e] = "accepted" => answered'[e] = "accepted"
         /\ answered[e] # "no" => answered'[e] # "no"
  BY DEF IndInv, TypeOK, Posted
<1>3. /\ Flying(a, d, y)'
      /\ \A x \in Phases : Flying(a, d, x)' => x = y \/ Flying(a, d, x)
  <2>1. fly[a][d] \in [Phases -> Nat] /\ fly[a][d]["post"] > 0
    BY <1>0 DEF FlyType, Flying
  <2>2. \A x \in Phases : fly'[a][d][x] =
           IF x = y THEN fly[a][d][x] + 1
           ELSE IF x = "post" THEN fly[a][d][x] - 1 ELSE fly[a][d][x]
    BY <1>0, <1>1, <2>1 DEF Gain, Lose
  <2> QED BY <1>0, <2>1, <2>2 DEF Flying
<1>4. \A b \in Servers, e \in Deliveries : b # a \/ e # d =>
         /\ Busy(b, e)' <=> Busy(b, e)
         /\ \A x \in Phases : Flying(b, e, x)' <=> Flying(b, e, x)
  BY <1>1 DEF Busy, Flying
<1>5. Busy(a, d)'
  BY <1>0, <1>3 DEF Busy
<1>6. TypeOK'
  BY <1>0, <1>1, <1>t DEF IndInv, TypeOK, FlyType
<1>7. SingleFlight'
  <2> SUFFICES ASSUME NEW b \in Servers, NEW e \in Deliveries \ doubt, Busy(b, e)'
               PROVE  /\ delivery'[e].status = "delivering"
                      /\ fly'[b][e]["post"] + fly'[b][e]["ok"] + fly'[b][e]["bad"] = 1
                      /\ \A c \in Servers \ {b} : ~Busy(c, e)'
    BY <1>0 DEF SingleFlight
  <2>1. CASE e = d
    <3>1. /\ fly[a][d] = [x \in Phases |-> IF x = "post" THEN 1 ELSE 0]
          /\ delivery[d].status = "delivering"
          /\ \A c \in Servers \ {a} : ~Busy(c, d)
      BY <1>0, <2>1, PhasesExclude
    <3>2. b = a
      BY <1>4, <2>1, <3>1
    <3>3. fly'[a][d] = [x \in Phases |-> IF x = y THEN 1 ELSE 0]
      <4>1. Lose(fly[a][d], "post") = [x \in Phases |-> 0]
        BY <3>1 DEF Lose
      <4>2. Gain([x \in Phases |-> 0], y) = [x \in Phases |-> IF x = y THEN 1 ELSE 0]
        BY DEF Gain
      <4> QED BY <1>1, <4>1, <4>2
    <3>4. fly'[a][d]["post"] + fly'[a][d]["ok"] + fly'[a][d]["bad"] = 1
      BY <1>0, <3>3
    <3> QED BY <1>0, <1>4, <2>1, <3>1, <3>2, <3>4
  <2>2. CASE e # d
    BY <1>0, <1>1, <1>4, <2>2 DEF IndInv, SingleFlight
  <2> QED BY <2>1, <2>2
<1>8. AcceptedIsReal' /\ AnsweredIsKnown'
  <2> SUFFICES ASSUME NEW b \in Servers, NEW e \in Deliveries
               PROVE  /\ Flying(b, e, "ok")' => answered'[e] = "accepted"
                      /\ Flying(b, e, "ok")' \/ Flying(b, e, "bad")' => answered'[e] # "no"
    BY DEF AcceptedIsReal, AnsweredIsKnown
  <2>0. /\ Flying(b, e, "ok") => answered[e] = "accepted"
        /\ Flying(b, e, "ok") \/ Flying(b, e, "bad") => answered[e] # "no"
    BY DEF IndInv, AcceptedIsReal, AnsweredIsKnown
  <2>1. CASE b = a /\ e = d
    <3>1. Flying(a, d, "ok")' => y = "ok" \/ Flying(a, d, "ok")
      BY <1>0, <1>3
    <3> QED BY <1>t, <1>2, <2>0, <2>1, <3>1 DEF Flying
  <2>2. CASE b # a \/ e # d
    <3>1. /\ Flying(b, e, "ok")' => Flying(b, e, "ok")
          /\ Flying(b, e, "bad")' => Flying(b, e, "bad")
      BY <1>0, <1>4, <2>2
    <3> QED BY <1>2, <2>0, <3>1 DEF Flying
  <2> QED BY <2>1, <2>2
<1>9. SuccessIsReal' /\ StoppingIsFault' /\ DoubtIsFault'
  BY <1>0, <1>2 DEF IndInv, SuccessIsReal, StoppingIsFault, DoubtIsFault
<1>10. NothingForgotten'
  <2> SUFFICES ASSUME faults' = 0, NEW e \in Deliveries, delivery'[e].status = "delivering"
               PROVE  \/ \E b \in Servers : Busy(b, e)'
                      \/ prepared' /\ answered'[e] # "no"
    BY DEF NothingForgotten
  <2>1. CASE e = d
    BY <1>5, <2>1
  <2>2. CASE e # d
    <3>1. \/ \E b \in Servers : Busy(b, e)
          \/ prepared /\ answered[e] # "no"
      BY <1>0 DEF IndInv, NothingForgotten
    <3> QED BY <1>0, <1>2, <1>4, <2>2, <3>1 DEF Busy, Flying
  <2> QED BY <2>1, <2>2
<1> QED BY <1>6, <1>7, <1>8, <1>9, <1>10 DEF IndInv

\* New goroutines for rows that may be claimed.
LEMMA StartFlight ==
    ASSUME IndInv, NEW a \in Servers, NEW D \in SUBSET Batch, Started(a, D)
    PROVE  /\ FlyType'
           /\ AcceptedIsReal /\ UNCHANGED answered => AcceptedIsReal'
           /\ AnsweredIsKnown /\ UNCHANGED answered => AnsweredIsKnown'
           /\ \A b \in Servers, d \in Deliveries : d \notin D =>
                 fly'[b][d] = fly[b][d] /\ (Busy(b, d)' <=> Busy(b, d))
           /\ \A d \in D : Busy(a, d)'
           /\ \A d \in D \ doubt :
                 /\ fly'[a][d]["post"] + fly'[a][d]["ok"] + fly'[a][d]["bad"] = 1
                 /\ \A b \in Servers \ {a} : ~Busy(b, d)'
<1>0. /\ FlyType /\ D \subseteq Deliveries
      /\ \A d \in D : delivery[d].status \in {"pending", "retrying"}
      /\ \A x \in {"post", "ok", "bad"} : x \in Phases
  BY DEF IndInv, TypeOK, FlyType, Phases, Batch, Claimable
<1>1. /\ FlyType'
      /\ \A d \in Deliveries : fly'[a][d] = IF d \in D
                                THEN Gain(fly[a][d], "post") ELSE fly[a][d]
      /\ \A b \in Servers, d \in Deliveries : b # a => fly'[b][d] = fly[b][d]
  <2> DEFINE g == [d \in Deliveries |->
                     IF d \in D THEN Gain(fly[a][d], "post") ELSE fly[a][d]]
  <2>1. \A d \in Deliveries : Gain(fly[a][d], "post") \in [Phases -> Nat]
    BY <1>0 DEF FlyType, Gain
  <2>2. g \in [Deliveries -> [Phases -> Nat]]
    BY <1>0, <2>1 DEF FlyType
  <2>3. fly' = [fly EXCEPT ![a] = g]
    BY DEF Started
  <2>4. \A d \in Deliveries : g[d] = IF d \in D
                                     THEN Gain(fly[a][d], "post") ELSE fly[a][d]
    OBVIOUS
  <2> HIDE DEF g
  <2> QED BY <1>0, <2>2, <2>3, <2>4 DEF FlyType
<1>2. \A b \in Servers, d \in Deliveries : d \notin D =>
         fly'[b][d] = fly[b][d] /\ (Busy(b, d)' <=> Busy(b, d))
  BY <1>1 DEF Busy, Flying
<1>3. ASSUME NEW d \in D
      PROVE  /\ fly'[a][d]["post"] = fly[a][d]["post"] + 1
             /\ fly'[a][d]["ok"] = fly[a][d]["ok"]
             /\ fly'[a][d]["bad"] = fly[a][d]["bad"]
             /\ fly[a][d]["post"] \in Nat
  <2>1. fly[a][d] \in [Phases -> Nat] /\ fly'[a][d] = Gain(fly[a][d], "post")
    BY <1>0, <1>1 DEF FlyType
  <2> QED BY <1>0, <2>1 DEF Gain
<1>4. \A b \in Servers, d \in Deliveries :
         /\ Flying(b, d, "ok")' <=> Flying(b, d, "ok")
         /\ Flying(b, d, "bad")' <=> Flying(b, d, "bad")
  <2> SUFFICES ASSUME NEW b \in Servers, NEW d \in Deliveries
               PROVE  /\ fly'[b][d]["ok"] = fly[b][d]["ok"]
                      /\ fly'[b][d]["bad"] = fly[b][d]["bad"]
    BY DEF Flying
  <2>1. CASE b = a /\ d \in D
    BY <1>3, <2>1
  <2>2. CASE b # a \/ d \notin D
    BY <1>1, <1>2, <2>2
  <2> QED BY <2>1, <2>2
<1>5. \A d \in D : Busy(a, d)'
  <2> SUFFICES ASSUME NEW d \in D PROVE Flying(a, d, "post")'
    BY <1>0 DEF Busy
  <2> QED BY <1>3 DEF Flying
<1>6. ASSUME NEW d \in D, d \notin doubt
      PROVE  /\ fly'[a][d]["post"] + fly'[a][d]["ok"] + fly'[a][d]["bad"] = 1
             /\ \A b \in Servers \ {a} : ~Busy(b, d)'
  <2>1. \A b \in Servers : ~Busy(b, d)
    BY <1>0, <1>6 DEF IndInv, SingleFlight
  <2>2. fly[a][d] = NoFlight
    BY <1>0, <2>1, NotBusy
  <2>3. fly[a][d]["post"] = 0 /\ fly[a][d]["ok"] = 0 /\ fly[a][d]["bad"] = 0
    BY <1>0, <2>2 DEF NoFlight
  <2>4. \A b \in Servers \ {a} : ~Busy(b, d)'
    <3> SUFFICES ASSUME NEW b \in Servers, b # a PROVE ~Busy(b, d)'
      OBVIOUS
    <3>1. fly'[b][d] = fly[b][d] /\ ~Busy(b, d)
      BY <1>0, <1>1, <2>1
    <3> QED BY <3>1 DEF Busy, Flying
  <2> QED BY <1>3, <2>3, <2>4
<1>7. /\ AcceptedIsReal /\ UNCHANGED answered => AcceptedIsReal'
      /\ AnsweredIsKnown /\ UNCHANGED answered => AnsweredIsKnown'
  BY <1>4 DEF AcceptedIsReal, AnsweredIsKnown
<1> QED BY <1>1, <1>2, <1>5, <1>6, <1>7

\* The fault counter stays within its bound.
LEMMA FaultType ==
    ASSUME faults \in 0..MaxFaults, Fault
    PROVE  faults' \in 0..MaxFaults /\ faults' # 0
BY DispatcherAssumption DEF Fault

\* The rows of a batch are claimed, the others left alone.
LEMMA Claimed ==
    ASSUME TypeOK, delivery' = ClaimedDeliveries
    PROVE  /\ delivery' \in [Deliveries ->
                 [status: {"none", "pending", "delivering", "retrying"} \cup Settled,
                  attempt: 1..MaxAttempts, due: {"now", "later"}]]
           /\ Batch \subseteq Deliveries
           /\ \A d \in Deliveries :
                 \/ /\ d \in Batch
                    /\ delivery[d].status \in {"pending", "retrying"}
                    /\ delivery'[d].status = "delivering"
                 \/ d \notin Batch /\ delivery'[d] = delivery[d]
BY DEF TypeOK, ClaimedDeliveries, Batch, Claimable

\* The invariant is inductive.
LEMMA NextInv == IndInv /\ [Next]_vars => IndInv'
<1> SUFFICES ASSUME IndInv, [Next]_vars PROVE IndInv'
  OBVIOUS
<1>0. /\ TypeOK /\ FlyType /\ SuccessIsReal /\ AcceptedIsReal /\ AnsweredIsKnown
      /\ \A x \in {"post", "ok", "bad"} : x \in Phases
  BY DEF IndInv, TypeOK, FlyType, Phases
<1>f. Fault => faults' \in 0..MaxFaults /\ faults' # 0
  BY <1>0, FaultType DEF TypeOK
<1>1. ASSUME NEW d \in Deliveries, InsertDelivery(d) \/ Due(d) PROVE IndInv'
  <2>1. /\ UNCHANGED <<fly, server, prepared, faults, answered, doubt>>
        /\ delivery[d].status \notin {"delivering", "success"}
        /\ delivery'[d].status \notin {"delivering", "success"}
        /\ \A e \in Deliveries : e # d => delivery'[e] = delivery[e]
    BY <1>0, <1>1 DEF TypeOK, InsertDelivery, Due, history
  <2>2. TypeOK'
    <3>1. delivery' \in [Deliveries ->
                [status: {"none", "pending", "delivering", "retrying"} \cup Settled,
                 attempt: 1..MaxAttempts, due: {"now", "later"}]]
      BY <1>0, <1>1 DEF TypeOK, InsertDelivery, Due
    <3> QED BY <1>0, <2>1, <3>1 DEF TypeOK
  <2>3. SingleFlight' /\ AcceptedIsReal' /\ AnsweredIsKnown'
    BY <2>1 DEF IndInv, SingleFlight, AcceptedIsReal, AnsweredIsKnown, Busy, Flying
  <2>4. SuccessIsReal' /\ StoppingIsFault' /\ DoubtIsFault' /\ NothingForgotten'
    BY <2>1 DEF IndInv, SuccessIsReal, StoppingIsFault, DoubtIsFault,
                NothingForgotten, Busy, Flying
  <2> QED BY <2>2, <2>3, <2>4 DEF IndInv
<1>2. ASSUME NEW a \in Servers, GetPendingWebhooks(a) PROVE IndInv'
  <2>1. /\ Batch \subseteq Deliveries
        /\ \A d \in Deliveries :
                 \/ /\ d \in Batch
                    /\ delivery[d].status \in {"pending", "retrying"}
                    /\ delivery'[d].status = "delivering"
                 \/ d \notin Batch /\ delivery'[d] = delivery[d]
    BY <1>0, <1>2, Claimed DEF GetPendingWebhooks
  <2>2. UNCHANGED <<server, prepared, faults, answered, doubt>>
    BY <1>2 DEF GetPendingWebhooks, history
  <2>3. /\ FlyType' /\ AcceptedIsReal' /\ AnsweredIsKnown'
        /\ \A b \in Servers, d \in Deliveries : d \notin Batch =>
              fly'[b][d] = fly[b][d] /\ (Busy(b, d)' <=> Busy(b, d))
        /\ \A d \in Batch : Busy(a, d)'
        /\ \A d \in Batch \ doubt :
              /\ fly'[a][d]["post"] + fly'[a][d]["ok"] + fly'[a][d]["bad"] = 1
              /\ \A b \in Servers \ {a} : ~Busy(b, d)'
    BY <1>0, <1>2, <2>2, StartFlight DEF GetPendingWebhooks
  <2>4. TypeOK'
    BY <1>0, <1>2, <2>2, <2>3, Claimed DEF TypeOK, FlyType, GetPendingWebhooks
  <2>5. SingleFlight'
    <3> SUFFICES ASSUME NEW b \in Servers, NEW d \in Deliveries \ doubt, Busy(b, d)'
                 PROVE  /\ delivery'[d].status = "delivering"
                        /\ fly'[b][d]["post"] + fly'[b][d]["ok"] + fly'[b][d]["bad"] = 1
                        /\ \A c \in Servers \ {b} : ~Busy(c, d)'
      BY <2>2 DEF SingleFlight
    <3>1. CASE d \in Batch
      BY <2>1, <2>3, <3>1
    <3>2. CASE d \notin Batch
      BY <2>1, <2>3, <3>2 DEF IndInv, SingleFlight
    <3> QED BY <3>1, <3>2
  <2>6. SuccessIsReal' /\ StoppingIsFault' /\ DoubtIsFault'
    BY <2>1, <2>2 DEF IndInv, SuccessIsReal, StoppingIsFault, DoubtIsFault
  <2>7. NothingForgotten'
    BY <2>1, <2>2, <2>3 DEF IndInv, NothingForgotten
  <2> QED BY <2>3, <2>4, <2>5, <2>6, <2>7 DEF IndInv
<1>3. ASSUME NEW a \in Servers, ClaimCutShort(a) PROVE IndInv'
  <2>1. PICK seen \in SUBSET Batch :
            /\ Started(a, seen)
            /\ \/ delivery' = ClaimedDeliveries /\ UNCHANGED doubt
               \/ UNCHANGED delivery /\ doubt' = doubt \cup seen
    BY <1>3 DEF ClaimCutShort
  <2>2. /\ UNCHANGED <<server, prepared, answered>>
        /\ faults' \in 0..MaxFaults /\ faults' # 0
    BY <1>3, <1>f DEF ClaimCutShort
  <2>3. /\ FlyType' /\ AcceptedIsReal' /\ AnsweredIsKnown'
        /\ \A b \in Servers, d \in Deliveries : d \notin seen =>
              fly'[b][d] = fly[b][d] /\ (Busy(b, d)' <=> Busy(b, d))
        /\ \A d \in seen \ doubt :
              /\ fly'[a][d]["post"] + fly'[a][d]["ok"] + fly'[a][d]["bad"] = 1
              /\ \A b \in Servers \ {a} : ~Busy(b, d)'
    BY <1>0, <2>1, <2>2, StartFlight
  <2>4. /\ Batch \subseteq Deliveries
        /\ delivery' = ClaimedDeliveries =>
              \A d \in Deliveries :
                 \/ /\ d \in Batch
                    /\ delivery[d].status \in {"pending", "retrying"}
                    /\ delivery'[d].status = "delivering"
                 \/ d \notin Batch /\ delivery'[d] = delivery[d]
    BY <1>0, Claimed DEF Batch
  <2>5. /\ doubt \subseteq doubt'
        /\ doubt' \subseteq Deliveries
        /\ \A d \in seen : d \in doubt' \/ delivery'[d].status = "delivering"
        /\ \A d \in Deliveries : delivery'[d].status = "success"
                                  => delivery[d].status = "success"
        /\ \A d \in Deliveries : delivery[d].status = "delivering"
                                  => delivery'[d].status = "delivering"
    BY <1>0, <2>1, <2>4 DEF TypeOK
  <2>6. TypeOK'
    BY <1>0, <2>1, <2>2, <2>3, <2>5, Claimed DEF TypeOK, FlyType
  <2>7. SingleFlight'
    <3> SUFFICES ASSUME NEW b \in Servers, NEW d \in Deliveries, d \notin doubt',
                        Busy(b, d)'
                 PROVE  /\ delivery'[d].status = "delivering"
                        /\ fly'[b][d]["post"] + fly'[b][d]["ok"] + fly'[b][d]["bad"] = 1
                        /\ \A c \in Servers \ {b} : ~Busy(c, d)'
      BY DEF SingleFlight
    <3>0. d \notin doubt
      BY <2>5
    <3>1. CASE d \in seen
      BY <2>3, <2>5, <3>0, <3>1
    <3>2. CASE d \notin seen
      <4>1. Busy(b, d)
        BY <2>3, <3>2
      <4>2. /\ delivery[d].status = "delivering"
            /\ fly[b][d]["post"] + fly[b][d]["ok"] + fly[b][d]["bad"] = 1
            /\ \A c \in Servers \ {b} : ~Busy(c, d)
        BY <3>0, <4>1 DEF IndInv, SingleFlight
      <4> QED BY <2>3, <2>5, <3>2, <4>2
    <3> QED BY <3>1, <3>2
  <2>8. SuccessIsReal' /\ StoppingIsFault' /\ DoubtIsFault' /\ NothingForgotten'
    BY <1>0, <2>2, <2>5 DEF SuccessIsReal, StoppingIsFault, DoubtIsFault, NothingForgotten
  <2> QED BY <2>3, <2>6, <2>7, <2>8 DEF IndInv
<1>4. ASSUME NEW a \in Servers, NEW d \in Deliveries,
             PostAccepted(a, d) \/ PostRefused(a, d)
      PROVE  IndInv'
  BY <1>4, TurnKept DEF PostAccepted, PostRefused
<1>u. ASSUME NEW d \in Deliveries, NEW status \in {"retrying"} \cup Settled,
             NEW due \in {"now", "later"}, UpdateWebhookDelivery(d, status, due)
      PROVE  /\ delivery' \in [Deliveries ->
                    [status: {"none", "pending", "delivering", "retrying"} \cup Settled,
                     attempt: 1..MaxAttempts, due: {"now", "later"}]]
             /\ \A e \in Deliveries : e # d => delivery'[e] = delivery[e]
             /\ \/ prepared /\ delivery' = delivery
                \/ delivery'[d].status = status
  <2> DEFINE R == [status: {"none", "pending", "delivering", "retrying"} \cup Settled,
                   attempt: 1..MaxAttempts, due: {"now", "later"}]
             r == [delivery[d] EXCEPT !.status = status, !.due = due]
  <2>1. delivery \in [Deliveries -> R]
    BY <1>0 DEF TypeOK
  <2>2. r \in R /\ r.status = status
    BY <2>1 DEF Settled
  <2>3. CASE prepared
    BY <1>u, <2>1, <2>3 DEF UpdateWebhookDelivery
  <2>4. CASE ~prepared
    <3>1. delivery' = [delivery EXCEPT ![d] = r]
      BY <1>u, <2>1, <2>4 DEF UpdateWebhookDelivery
    <3> HIDE DEF R, r
    <3>2. delivery' \in [Deliveries -> R] /\ delivery'[d] = r
          /\ \A e \in Deliveries : e # d => delivery'[e] = delivery[e]
      BY <2>1, <2>2, <3>1
    <3> QED BY <2>2, <3>2 DEF R
  <2> QED BY <2>3, <2>4
<1>5. ASSUME NEW a \in Servers, NEW d \in Deliveries, RecordSuccess(a, d)
      PROVE  IndInv'
  <2>1. /\ Flying(a, d, "ok") /\ End(a, d, "ok")
        /\ UNCHANGED <<server, prepared, faults, answered, doubt>>
        /\ UpdateWebhookDelivery(d, "success", "now")
    BY <1>5 DEF RecordSuccess, history
  <2>2. FlyType'
    BY <1>0, <2>1, EndFlight
  <2>3. /\ delivery' \in [Deliveries ->
               [status: {"none", "pending", "delivering", "retrying"} \cup Settled,
                attempt: 1..MaxAttempts, due: {"now", "later"}]]
        /\ \A e \in Deliveries : e # d => delivery'[e] = delivery[e]
        /\ \/ prepared /\ delivery' = delivery
           \/ delivery'[d].status = "success"
    BY <1>u, <2>1 DEF Settled
  <2>4. TypeOK'
    BY <1>0, <2>1, <2>2, <2>3 DEF TypeOK, FlyType
  <2>5. SuccessIsReal'
    BY <1>0, <2>1, <2>3 DEF AcceptedIsReal, SuccessIsReal
  <2> QED BY <1>0, <2>1, <2>3, <2>4, <2>5, EndKept
<1>6. ASSUME NEW a \in Servers, NEW d \in Deliveries, handleFailure(a, d)
      PROVE  IndInv'
  <2>1. /\ Flying(a, d, "bad") /\ End(a, d, "bad")
        /\ UNCHANGED <<server, prepared, faults, answered, doubt>>
    BY <1>6 DEF handleFailure, history
  <2>2. FlyType'
    BY <1>0, <2>1, EndFlight
  <2>3. /\ delivery' \in [Deliveries ->
               [status: {"none", "pending", "delivering", "retrying"} \cup Settled,
                attempt: 1..MaxAttempts, due: {"now", "later"}]]
        /\ \A e \in Deliveries : e # d => delivery'[e] = delivery[e]
        /\ \/ prepared /\ delivery' = delivery
           \/ delivery'[d].status \in {"retrying", "failed"}
    <3>1. CASE UpdateWebhookDelivery(d, "retrying", "later")
      BY <1>u, <3>1
    <3>2. CASE UpdateWebhookDelivery(d, "failed", "now")
      BY <1>u, <3>2 DEF Settled
    <3> QED BY <1>6, <3>1, <3>2 DEF handleFailure
  <2>4. TypeOK'
    BY <1>0, <2>1, <2>2, <2>3 DEF TypeOK, FlyType
  <2>5. SuccessIsReal'
    BY <1>0, <2>1, <2>3 DEF SuccessIsReal
  <2> QED BY <1>0, <2>1, <2>3, <2>4, <2>5, EndKept
<1>7. ASSUME NEW a \in Servers, NEW d \in Deliveries, UpdateFails(a, d)
      PROVE  IndInv'
  <2>1. PICK x \in {"ok", "bad"} : Flying(a, d, x) /\ End(a, d, x)
    BY <1>7 DEF UpdateFails
  <2>2. /\ UNCHANGED <<delivery, server, prepared, answered, doubt>>
        /\ faults' \in 0..MaxFaults /\ faults' # 0
    BY <1>7, <1>f DEF UpdateFails, history
  <2>3. FlyType' /\ x \in Phases
    BY <1>0, <2>1, EndFlight
  <2>4. TypeOK' /\ SuccessIsReal'
    BY <1>0, <2>2, <2>3 DEF TypeOK, FlyType, SuccessIsReal
  <2> QED BY <2>1, <2>2, <2>3, <2>4, EndKept
<1>8. ASSUME NEW a \in Servers, NEW d \in Deliveries, Abandon(a, d)
      PROVE  IndInv'
  <2>1. PICK x \in Phases : Flying(a, d, x) /\ End(a, d, x)
    BY <1>8 DEF Abandon
  <2>2. UNCHANGED <<delivery, server, prepared, faults, answered, doubt>> /\ faults # 0
    BY <1>8 DEF Abandon, IndInv, StoppingIsFault, history
  <2>3. FlyType'
    BY <1>0, <2>1, EndFlight
  <2>4. TypeOK' /\ SuccessIsReal'
    BY <1>0, <2>2, <2>3 DEF TypeOK, FlyType, SuccessIsReal
  <2> QED BY <2>1, <2>2, <2>4, EndKept
<1>9. ASSUME NEW a \in Servers, StartServer(a) \/ Shutdown(a) PROVE IndInv'
  <2>1. UNCHANGED <<delivery, fly, prepared, answered, doubt>>
    BY <1>9 DEF StartServer, Shutdown, history
  <2>2. /\ TypeOK' /\ StoppingIsFault' /\ DoubtIsFault'
        /\ faults' = 0 => faults = 0
    BY <1>0, <1>9, <1>f, <2>1 DEF TypeOK, StartServer, Shutdown, IndInv,
                                  StoppingIsFault, DoubtIsFault
  <2>3. SingleFlight' /\ AcceptedIsReal' /\ AnsweredIsKnown' /\ SuccessIsReal'
    BY <2>1 DEF IndInv, SingleFlight, AcceptedIsReal, AnsweredIsKnown, SuccessIsReal,
                Busy, Flying
  <2>4. NothingForgotten'
    BY <2>1, <2>2 DEF IndInv, NothingForgotten, Busy, Flying
  <2> QED BY <2>2, <2>3, <2>4 DEF IndInv
<1>10. ASSUME NEW a \in Servers, Exit(a) \/ CrashServer(a) PROVE IndInv'
  <2>1. /\ UNCHANGED <<delivery, prepared, answered, doubt>> /\ Gone(a)
        /\ faults' \in 0..MaxFaults /\ faults' # 0
    BY <1>0, <1>10, <1>f DEF Exit, CrashServer, IndInv, StoppingIsFault, TypeOK, history
  <2>2. /\ FlyType'
        /\ \A d \in Deliveries : fly'[a][d] = NoFlight
        /\ \A b \in Servers, d \in Deliveries : b # a => fly'[b][d] = fly[b][d]
    BY <1>0, <2>1 DEF FlyType, Gone, NoFlight
  <2>3. TypeOK'
    BY <1>0, <2>1, <2>2 DEF TypeOK, FlyType, Gone
  <2>4. /\ \A d \in Deliveries :
              ~Busy(a, d)' /\ ~Flying(a, d, "ok")' /\ ~Flying(a, d, "bad")'
        /\ \A b \in Servers, d \in Deliveries : b # a =>
              /\ Busy(b, d)' <=> Busy(b, d)
              /\ Flying(b, d, "ok")' <=> Flying(b, d, "ok")
              /\ Flying(b, d, "bad")' <=> Flying(b, d, "bad")
    BY <1>0, <2>2 DEF Busy, Flying, NoFlight
  <2>5. SingleFlight'
    BY <2>1, <2>2, <2>4 DEF IndInv, SingleFlight
  <2>6. AcceptedIsReal' /\ AnsweredIsKnown'
    BY <2>1, <2>4 DEF IndInv, AcceptedIsReal, AnsweredIsKnown
  <2>7. SuccessIsReal' /\ StoppingIsFault' /\ DoubtIsFault' /\ NothingForgotten'
    BY <2>1 DEF IndInv, SuccessIsReal, StoppingIsFault, DoubtIsFault, NothingForgotten
  <2> QED BY <2>3, <2>5, <2>6, <2>7 DEF IndInv
<1>11. ASSUME UNCHANGED vars PROVE IndInv'
  BY <1>11 DEF vars, IndInv, TypeOK, SingleFlight, AcceptedIsReal, AnsweredIsKnown,
               SuccessIsReal, StoppingIsFault, DoubtIsFault, NothingForgotten, Busy, Flying
<1> QED
  BY <1>1, <1>2, <1>3, <1>4, <1>5, <1>6, <1>7, <1>8, <1>9, <1>10, <1>11
     DEF Next, Goroutine

-----------------------------------------------------------------------------
(* The theorems                                                            *)

\* Nothing is claimed, sent or settled before the first step.
LEMMA InitInv == Init => IndInv
<1> SUFFICES ASSUME Init PROVE IndInv
  OBVIOUS
<1>1. TypeOK
  BY DispatcherAssumption DEF Init, TypeOK, NotInserted, NoFlight
<1>2. \A a \in Servers, d \in Deliveries :
         ~Busy(a, d) /\ ~Flying(a, d, "ok") /\ ~Flying(a, d, "bad")
  BY DEF Init, Busy, Flying, NoFlight, Phases
<1>3. SingleFlight /\ AcceptedIsReal /\ AnsweredIsKnown
  BY <1>2 DEF SingleFlight, AcceptedIsReal, AnsweredIsKnown
<1>4. SuccessIsReal /\ StoppingIsFault /\ DoubtIsFault /\ NothingForgotten
  BY DEF Init, NotInserted, SuccessIsReal, StoppingIsFault, DoubtIsFault, NothingForgotten
<1> QED BY <1>1, <1>3, <1>4 DEF IndInv

\* IndInv is an invariant of the dispatcher.
THEOREM Inductive == Spec => []IndInv
BY InitInv, NextInv, PTL DEF Spec

\* Rows, goroutines, answers and servers keep their types under every fault.
THEOREM TypeCorrect == Spec => []TypeOK
<1>1. IndInv => TypeOK
  BY DEF IndInv
<1> QED BY <1>1, Inductive, PTL

\* However many API processes tick on one database, a delivery is in the hands
\* of at most one goroutine and its row says so, unless a claim that gave it out
\* was cut short and rolled back.
THEOREM FlightSafe == Spec => []SingleFlight
<1>1. IndInv => SingleFlight
  BY DEF IndInv
<1> QED BY <1>1, Inductive, PTL

\* No delivery is recorded as a success that its receiver has not accepted.
THEOREM SuccessSafe == Spec => []SuccessIsReal
<1>1. IndInv => SuccessIsReal
  BY DEF IndInv
<1> QED BY <1>1, Inductive, PTL

\* Without a stop, a crash or a broken call, a claimed delivery has a goroutine or,
\* where the server refuses to record outcomes, has at least been posted.
THEOREM ForgottenSafe == Spec => []NothingForgotten
<1>1. IndInv => NothingForgotten
  BY DEF IndInv
<1> QED BY <1>1, Inductive, PTL

=============================================================================
