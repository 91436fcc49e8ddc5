------------------------ MODULE ExamCoordinatorProofs ------------------------
(***************************************************************************)
(* Proofs about ExamCoordinator for every number of clients, all delays,   *)
(* every deployment and any number of requests, rounds and failures.       *)
(***************************************************************************)
EXTENDS ExamCoordinator, FiniteSetTheorems, TLAPS

-----------------------------------------------------------------------------
(* The inductive invariant.                                                *)

\* Failures are taken from a stock, and only a waiting handler is woken.
Bookkeeping ==
  /\ left.fails <= MaxFails
  /\ \A c \in Client : h[c].woken => h[c].pc = "wait"

\* A send time is that of a registered client, and the entry of a waiting
\* handler, if a reset has not taken it away, is the delay it came with.
Registered ==
  \A c \in Client :
    /\ tSends[c] # None => registry[c] # None
    /\ h[c].pc = "wait" /\ registry[c] # None => registry[c] = h[c].D

\* A waiting handler belongs to the round to come, a woken one to the round
\* just finished: no other can end before it has run.
RoundsNumbered ==
  \A c \in Client :
    /\ h[c].pc # "wait" => h[c].round <= round
    /\ h[c].pc = "wait" => h[c].round = IF h[c].woken THEN round ELSE round + 1
    /\ h[c].woken => task = None \/ now < task
    /\ h[c].pc = "new" => h[c].round = 0

\* A handler whose send time is settled: it is awake, or woken and scheduled.
Settled(c) ==
  \/ h[c].pc \in {"stagger", "deliver", "idle"} /\ h[c].round # 0
  \/ h[c].woken /\ tSends[c] # None

SendTime(c) == IF h[c].woken THEN tSends[c] ELSE h[c].tSend

\* SameArrival, of the handlers that have still to run as well.
SettledTogether ==
  \A c, d \in Client :
    /\ Settled(c) => SendTime(c) \in Int
    /\ Settled(c) /\ Settled(d) /\ h[c].round = h[d].round
         => SendTime(c) + h[c].D = SendTime(d) + h[d].D

IInv ==
  /\ TypeOK
  /\ Bookkeeping
  /\ WaitersCovered
  /\ Registered
  /\ RoundsNumbered
  /\ SettledTogether
  /\ ReleasedInTime

-----------------------------------------------------------------------------
(* Lemmas about the operators.                                             *)

Estimate == [rtt : Nat \cup {None}, sample : Samples \cup {None},
             offset : Int \cup {None}]
Handler == [pc : {"new", "idle", "wait", "stagger", "deliver", "closed"},
            woken : BOOLEAN, D : Nat, tSend : Int \cup {None}, round : Nat]

\* The types of the two tables that have records.
LEMMA TableTypes ==
  TypeOK => est \in [Client -> Estimate] /\ h \in [Client -> Handler]
BY DEF TypeOK, Estimate, Handler

\* A report keeps the estimates typed.
LEMMA ReportedType ==
  ASSUME TypeOK, NEW c \in Client, NEW s \in Samples \cup {None}
  PROVE  Reported(c, s) \in [Client -> Estimate]
<1>1. CASE s = None
  BY <1>1, TableTypes DEF Reported
<1>2. CASE s # None
  <2>1. s \in Samples /\ s.med \in Nat /\ s.off \in Int \cup {None}
    BY <1>2, ConstantsOK
  <2>2. est[c].offset \in Int \cup {None}
    BY TableTypes DEF Estimate
  <2> DEFINE e == [rtt |-> s.med, sample |-> s,
                   offset |-> IF s.off = None THEN est[c].offset ELSE s.off]
  <2>3. e \in Estimate
    BY <2>1, <2>2 DEF Estimate
  <2>4. Reported(c, s) = [est EXCEPT ![c] = e]
    BY <1>2 DEF Reported
  <2>5. QED BY <2>3, <2>4, TableTypes
<1>3. QED BY <1>1, <1>2

\* The delay computed from an estimate is a natural, whatever the clock offset.
LEMMA ComputeDType ==
  ASSUME NEW e \in Estimate
  PROVE  ComputeD(e) \in Nat
<1>1. CASE e.sample = None
  <2>1. e.rtt \in Nat \cup {None} /\ DefaultRtt \in Nat
    BY ConstantsOK DEF Estimate
  <2>2. \A n \in Nat : n \div 2 \in Nat
    OBVIOUS
  <2>3. QED BY <1>1, <2>1, <2>2 DEF ComputeD
<1>2. CASE e.sample # None
  <2>1. e.sample \in Samples /\ e.offset \in Int \cup {None}
    BY <1>2 DEF Estimate
  <2>2. e.sample.med \in Nat /\ e.sample.jit \in Nat
    BY <2>1, ConstantsOK
  <2>3. ASSUME NEW m \in Nat, NEW j \in Nat, NEW o \in Int
        PROVE  /\ (m + j) \div 2 \in Nat
               /\ m \div 2 - o + j \div 2 \in Int
    OBVIOUS
  <2>4. (e.sample.med + e.sample.jit) \div 2 \in Nat
    BY <2>2, <2>3
  <2>5. CASE e.offset = None
    BY <1>2, <2>4, <2>5 DEF ComputeD
  <2>6. CASE e.offset # None
    <3> DEFINE down == e.sample.med \div 2 - e.offset + e.sample.jit \div 2
    <3>1. down \in Int
      BY <2>1, <2>2, <2>3, <2>6
    <3>2. ComputeD(e) = IF down < 1 THEN 1 ELSE down
      BY <1>2, <2>6 DEF ComputeD
    <3> HIDE DEF down
    <3>3. QED BY <3>1, <3>2
  <2>7. QED BY <2>5, <2>6
<1>3. QED BY <1>1, <1>2

\* Of finitely many integers one is the largest: otherwise a smallest set of
\* them without a largest would still lack one when an element is taken away.
LEMMA FiniteMax ==
  ASSUME NEW S, IsFiniteSet(S), S # {}, NEW f, \A x \in S : f[x] \in Int
  PROVE  \E m \in S : \A x \in S : f[x] <= f[m]
<1> DEFINE HasMax(T) == \E m \in T : \A x \in T : f[x] <= f[m]
           Bad == {T \in SUBSET S : T # {} /\ ~HasMax(T)}
<1> SUFFICES ASSUME Bad # {} PROVE FALSE
  OBVIOUS
<1>1. IsWellFoundedOn(StrictSubsetOrdering(S), SUBSET S)
  BY FS_StrictSubsetOrderingWellFounded, FS_FiniteSubsetsOfFinite
<1>2. PICK T \in Bad : \A U \in Bad : <<U, T>> \notin StrictSubsetOrdering(S)
  <2>1. Bad \subseteq SUBSET S
    OBVIOUS
  <2> HIDE DEF Bad
  <2>2. QED BY <1>1, <2>1, WFMin
<1>3. PICK x \in T : TRUE
  OBVIOUS
<1> DEFINE U == T \ {x}
<1>4. U \notin Bad
  <2>1. <<U, T>> \in StrictSubsetOrdering(S)
    BY <1>3 DEF StrictSubsetOrdering
  <2>2. QED BY <1>2, <2>1
<1>5. CASE U = {}
  <2>1. T = {x}
    BY <1>5
  <2>2. HasMax(T)
    BY <2>1
  <2>3. QED BY <1>2, <2>2
<1>6. CASE U # {}
  <2>1. PICK m \in U : \A y \in U : f[y] <= f[m]
    BY <1>4, <1>6
  <2>2. HasMax(T)
    <3>1. f[m] \in Int /\ f[x] \in Int /\ \A y \in T : f[y] \in Int
      BY <1>2, <1>3
    <3>2. CASE f[x] <= f[m]
      BY <2>1, <3>2
    <3>3. CASE f[m] < f[x]
      <4>1. \A y \in T : f[y] <= f[x]
        BY <2>1, <3>1, <3>3
      <4>2. QED BY <1>3, <4>1
    <3>4. QED BY <3>1, <3>2, <3>3
  <2>3. QED BY <1>2, <2>2
<1>7. QED BY <1>5, <1>6

\* The largest delay of a round that collected somebody.
LEMMA MaxDMax ==
  ASSUME TypeOK, Items # {}
  PROVE  /\ MaxD \in Nat
         /\ \A c \in Items : registry[c] <= MaxD
<1> DEFINE S == {registry[c] : c \in Items}
<1>1. IsFiniteSet(Items)
  BY ConstantsOK, FS_Subset DEF Items
<1>2. \A c \in Items : registry[c] \in Nat
  BY DEF TypeOK, Items
<1>3. \E m \in Items : \A c \in Items : registry[c] <= registry[m]
  BY <1>1, <1>2, FiniteMax
<1>4. \E d \in S : \A c \in Items : registry[c] <= d
  BY <1>3
<1>5. MaxD \in S /\ \A c \in Items : registry[c] <= MaxD
  BY <1>4 DEF MaxD
<1>6. QED BY <1>2, <1>5

\* What a round announces: no client collected is late for it, nor does
\* anything arrive before the start.
LEMMA ArrivalFacts ==
  ASSUME TypeOK, Items # {}, NEW start \in Nat
  PROVE  /\ Arrival(start, MaxD) \in Nat
         /\ Arrival(start, MaxD) >= start
         /\ \A c \in Items : Arrival(start, MaxD) - registry[c] >= now + Margin
<1> DEFINE n == Cardinality(Items)
<1>1. n \in Nat
  BY ConstantsOK, FS_Subset, FS_CardinalityType DEF Items
<1>2. CSend \in Nat /\ Margin \in Nat /\ now \in Nat
  BY ConstantsOK DEF TypeOK
<1>3. n * CSend \in Nat
  BY <1>1, <1>2
<1>4. MaxD \in Nat /\ \A c \in Items : registry[c] <= MaxD
  BY MaxDMax
<1>5. \A c \in Items : registry[c] \in Nat
  BY DEF TypeOK, Items
<1> DEFINE k == n * CSend
<1>6. Arrival(start, MaxD) = IF start < now + MaxD + Margin
                               THEN now + MaxD + k + Margin ELSE start
  BY DEF Arrival
<1> HIDE DEF k
<1>7. QED BY <1>2, <1>3, <1>4, <1>5, <1>6 DEF k

\* A handler that goes on keeps its delay, and takes the send time that there is.
LEMMA ScheduledFacts ==
  ASSUME TypeOK, NEW c \in Client, NEW hc \in Handler, NEW r \in Nat
  PROVE  /\ Scheduled(hc, c, r) \in Handler
         /\ ~Scheduled(hc, c, r).woken
         /\ Scheduled(hc, c, r).pc \in {"stagger", "deliver"}
         /\ Scheduled(hc, c, r).D = hc.D
         /\ tSends[c] = None => Scheduled(hc, c, r).round = 0
         /\ tSends[c] # None => /\ Scheduled(hc, c, r).round = r
                                /\ Scheduled(hc, c, r).tSend = tSends[c]
<1> DEFINE t == IF tSends[c] = None THEN now ELSE tSends[c]
           p == IF t > now THEN "stagger" ELSE "deliver"
           n == IF tSends[c] = None THEN 0 ELSE r
           new == [hc EXCEPT !.pc = p, !.woken = FALSE, !.tSend = t, !.round = n]
<1>1. now \in Nat /\ tSends[c] \in Int \cup {None}
  BY DEF TypeOK
<1>2. t \in Int \cup {None} /\ p \in {"stagger", "deliver"} /\ n \in Nat
  BY <1>1
<1>3. Scheduled(hc, c, r) = new
  BY DEF Scheduled
<1>4. /\ tSends[c] = None => n = 0
      /\ tSends[c] # None => n = r /\ t = tSends[c]
  OBVIOUS
<1> HIDE DEF t, p, n
<1>5. /\ new \in Handler /\ ~new.woken /\ new.pc = p /\ new.D = hc.D
      /\ new.round = n /\ new.tSend = t
  BY <1>2 DEF Handler
<1>6. QED BY <1>2, <1>3, <1>4, <1>5

-----------------------------------------------------------------------------
(* Steps.                                                                  *)

LEMMA InitInv == Init => IInv
<1> SUFFICES ASSUME Init PROVE IInv
  OBVIOUS
<1>1. TypeOK
  BY ConstantsOK DEF Init, TypeOK, Blank, Nobody
<1>2. \A c \in Client : /\ h[c].pc = "new" /\ ~h[c].woken /\ h[c].round = 0
                        /\ tSends[c] = None
  BY DEF Init, Nobody
<1>3. Bookkeeping /\ WaitersCovered /\ Registered /\ ReleasedInTime
  BY <1>1, <1>2, ConstantsOK
     DEF Init, Bookkeeping, WaitersCovered, Registered, ReleasedInTime, TypeOK
<1>4. RoundsNumbered
  BY <1>2 DEF Init, RoundsNumbered
<1>5. SettledTogether
  BY <1>2 DEF SettledTogether, Settled
<1>6. QED BY <1>1, <1>3, <1>4, <1>5 DEF IInv

\* A handler that goes to hc, between the ends of two rounds, keeps to its
\* round or leaves rounds altogether; a reset may take the send times away.
LEMMA HandlerStep ==
  ASSUME IInv, NEW c \in Client, NEW hc \in Handler,
         h' = [h EXCEPT ![c] = hc],
         ~hc.woken,
         \/ hc.pc = "wait" /\ hc.round = round + 1
         \/ hc.pc \in {"idle", "stagger", "deliver"} /\ hc.round = 0
         \/ /\ hc.pc \in {"idle", "stagger", "deliver", "closed"}
            /\ hc.round <= round
            /\ Settled(c) /\ hc.round = h[c].round
            /\ hc.tSend = SendTime(c) /\ hc.D = h[c].D
         \/ hc.pc = "closed" /\ hc.round <= round,
         round' = round, now' = now,
         tSends' \in {tSends, Nobody},
         task' = task \/ task' = now + Window
  PROVE  /\ h' \in [Client -> Handler]
         /\ \A d \in Client : d # c => h'[d] = h[d]
         /\ h'[c] = hc
         /\ RoundsNumbered'
         /\ SettledTogether'
<1>1. h \in [Client -> Handler]
  BY TableTypes DEF IInv
<1>2. h' \in [Client -> Handler] /\ h'[c] = hc
  BY <1>1
<1>3. \A d \in Client : d # c => h'[d] = h[d]
  BY <1>1
<1>4. Window \in Nat \ {0} /\ now \in Nat /\ round \in Nat /\ None \notin Int
  BY ConstantsOK DEF IInv, TypeOK
<1>5. RoundsNumbered'
  <2> SUFFICES ASSUME NEW d \in Client
               PROVE  /\ h'[d].pc # "wait" => h'[d].round <= round
                      /\ h'[d].pc = "wait" => h'[d].round = IF h'[d].woken
                                                THEN round ELSE round + 1
                      /\ h'[d].woken => task' = None \/ now < task'
                      /\ h'[d].pc = "new" => h'[d].round = 0
    BY DEF RoundsNumbered
  <2>1. CASE d = c
    BY <1>2, <1>4, <2>1
  <2>2. CASE d # c
    <3>1. h'[d] = h[d]
      BY <1>3, <2>2
    <3>2. h[d].woken => task' = None \/ now < task'
      BY <1>4 DEF IInv, RoundsNumbered
    <3>3. QED BY <3>1, <3>2 DEF IInv, RoundsNumbered
  <2>3. QED BY <2>1, <2>2
<1>6. ASSUME NEW d \in Client, Settled(d)'
      PROVE  /\ Settled(d)
             /\ SendTime(d)' = SendTime(d)
             /\ h'[d].D = h[d].D /\ h'[d].round = h[d].round
  <2>1. CASE d = c
    <3>1. hc.pc \in {"stagger", "deliver", "idle"} /\ hc.round # 0
      BY <1>2, <1>6, <2>1 DEF Settled
    <3>2. SendTime(d)' = hc.tSend
      BY <1>2, <2>1 DEF SendTime
    <3>3. Settled(c) /\ hc.round = h[c].round /\ hc.tSend = SendTime(c) /\ hc.D = h[c].D
      BY <3>1
    <3>4. QED BY <1>2, <2>1, <3>2, <3>3
  <2>2. CASE d # c
    <3>1. h'[d] = h[d]
      BY <1>3, <2>2
    <3>2. tSends'[d] \in {tSends[d], None}
      BY DEF Nobody
    <3>3. Settled(d) /\ SendTime(d)' = SendTime(d)
      BY <1>6, <3>1, <3>2 DEF Settled, SendTime, IInv, Bookkeeping
    <3>4. QED BY <3>1, <3>3
  <2>3. QED BY <2>1, <2>2
<1>7. SettledTogether'
  <2> SUFFICES ASSUME NEW d \in Client, NEW e \in Client
               PROVE  /\ Settled(d)' => SendTime(d)' \in Int
                      /\ Settled(d)' /\ Settled(e)' /\ h'[d].round = h'[e].round
                         => SendTime(d)' + h'[d].D = SendTime(e)' + h'[e].D
    BY DEF SettledTogether
  <2>1. QED BY <1>6 DEF IInv, SettledTogether
<1>8. QED BY <1>2, <1>3, <1>5, <1>7

\* A step of a handler that is not waiting afterwards, and that changes
\* nothing of the process but an estimate.
LEMMA AwakeStep ==
  ASSUME IInv, NEW c \in Client, NEW hc \in Handler,
         h' = [h EXCEPT ![c] = hc],
         ~hc.woken,
         \/ hc.pc \in {"idle", "stagger", "deliver"} /\ hc.round = 0
         \/ /\ hc.pc \in {"idle", "stagger", "deliver"}
            /\ hc.round <= round
            /\ Settled(c) /\ hc.round = h[c].round
            /\ hc.tSend = SendTime(c) /\ hc.D = h[c].D,
         UNCHANGED <<kind, now, startFile, startCache, registry, tSends, event,
                     task, round>>,
         est' \in [Client -> Estimate],
         left' \in [schedules : [Client -> Nat], exams : [Client -> Nat],
                    sets : Nat, fails : Nat],
         left'.fails = left.fails
  PROVE  IInv'
<1>1. /\ h' \in [Client -> Handler]
      /\ \A d \in Client : d # c => h'[d] = h[d]
      /\ h'[c] = hc
      /\ RoundsNumbered' /\ SettledTogether'
  BY HandlerStep, Zenon
<1>2. TypeOK'
  BY <1>1 DEF IInv, TypeOK, Estimate, Handler
<1>3. hc.pc # "wait"
  OBVIOUS
<1>4. Bookkeeping'
  BY <1>1, <1>3 DEF IInv, Bookkeeping
<1>5. WaitersCovered'
  BY <1>1, <1>3 DEF IInv, WaitersCovered, Items
<1>6. Registered'
  BY <1>1, <1>3 DEF IInv, Registered
<1>7. ReleasedInTime'
  BY <1>1 DEF IInv, ReleasedInTime
<1>8. QED BY <1>1, <1>2, <1>4, <1>5, <1>6, <1>7 DEF IInv

LEMMA HelloInv ==
  ASSUME IInv, NEW c \in Client, NEW r \in Rtts, Hello(c, r)
  PROVE  IInv'
<1>1. est \in [Client -> Estimate] /\ h \in [Client -> Handler] /\ TypeOK
  BY TableTypes DEF IInv
<1> DEFINE hc == [h[c] EXCEPT !.pc = "idle"]
<1>2. /\ hc \in Handler /\ ~hc.woken /\ hc.pc = "idle" /\ hc.round = 0
      /\ h' = [h EXCEPT ![c] = hc]
  <2>1. h[c].pc = "new" /\ h[c] \in Handler
    BY <1>1 DEF Hello
  <2>2. ~h[c].woken /\ h[c].round = 0
    BY <2>1 DEF IInv, Bookkeeping, RoundsNumbered
  <2>3. QED BY <2>1, <2>2, <1>1 DEF Hello, Handler
<1>3. est' \in [Client -> Estimate]
  <2>1. r \in Nat
    BY ConstantsOK
  <2>2. [est EXCEPT ![c].rtt = r] \in [Client -> Estimate]
    BY <1>1, <2>1 DEF Estimate
  <2>3. est' \in {est, [est EXCEPT ![c].rtt = r]}
    BY DEF Hello, RudpHello, TcpHello
  <2>4. QED BY <1>1, <2>2, <2>3
<1>4. /\ UNCHANGED <<kind, now, startFile, startCache, registry, tSends, event,
                     task, round>>
      /\ left' = left
  BY DEF Hello
<1> HIDE DEF hc
<1>5. QED BY <1>1, <1>2, <1>3, <1>4, AwakeStep DEF TypeOK

LEMMA WakeInv ==
  ASSUME IInv, NEW c \in Client, Wake(c)
  PROVE  IInv'
<1>1. est \in [Client -> Estimate] /\ h \in [Client -> Handler] /\ TypeOK
  BY TableTypes DEF IInv
<1> DEFINE hc == Scheduled(h[c], c, h[c].round)
<1>2. h[c].woken /\ h[c].pc = "wait" /\ h[c].round = round
  BY DEF Wake, IInv, RoundsNumbered
<1>3. now \in Nat /\ tSends[c] \in Int \cup {None} /\ round \in Nat
  BY <1>1 DEF TypeOK
<1>4. /\ hc \in Handler /\ ~hc.woken /\ hc.pc \in {"stagger", "deliver"}
      /\ hc.D = h[c].D
      /\ tSends[c] = None => hc.round = 0
      /\ tSends[c] # None => hc.round = h[c].round /\ hc.tSend = tSends[c]
  <2>1. h[c] \in Handler /\ h[c].round \in Nat
    BY <1>1, <1>2, <1>3
  <2>2. QED BY <1>1, <2>1, ScheduledFacts
<1>5. tSends[c] # None => Settled(c) /\ SendTime(c) = tSends[c]
  BY <1>2 DEF Settled, SendTime
<1>6. /\ h' = [h EXCEPT ![c] = hc]
      /\ UNCHANGED <<kind, now, startFile, startCache, registry, tSends, event,
                     task, round>>
      /\ left' = left /\ est' = est
  BY DEF Wake, coord
<1>7. hc.round <= round
  BY <1>2, <1>3, <1>4
<1> HIDE DEF hc
<1>8. QED BY <1>1, <1>4, <1>5, <1>6, <1>7, AwakeStep DEF TypeOK

\* A handler goes on, as it was scheduled.
LEMMA GoOnInv ==
  ASSUME IInv, NEW c \in Client, StaggerEnds(c) \/ Deliver(c)
  PROVE  IInv'
<1>1. est \in [Client -> Estimate] /\ h \in [Client -> Handler] /\ TypeOK
  BY TableTypes DEF IInv
<1>2. PICK p \in {"deliver", "idle"} : h' = [h EXCEPT ![c].pc = p]
  BY DEF StaggerEnds, Deliver
<1> DEFINE hc == [h[c] EXCEPT !.pc = p]
<1>3. h[c].pc \in {"stagger", "deliver"} /\ h[c] \in Handler
  BY <1>1 DEF StaggerEnds, Deliver
<1>4. ~h[c].woken /\ h[c].round <= round
  BY <1>3 DEF IInv, Bookkeeping, RoundsNumbered
<1>5. /\ hc \in Handler /\ ~hc.woken /\ hc.pc \in {"deliver", "idle"}
      /\ hc.round = h[c].round /\ hc.tSend = h[c].tSend /\ hc.D = h[c].D
      /\ h' = [h EXCEPT ![c] = hc]
  BY <1>2, <1>3, <1>4 DEF Handler
<1>6. h[c].round # 0 => Settled(c) /\ SendTime(c) = h[c].tSend
  BY <1>3, <1>4 DEF Settled, SendTime
<1>7. /\ UNCHANGED <<kind, now, startFile, startCache, registry, tSends, event,
                     task, round>>
      /\ left' = left /\ est' = est
  BY DEF StaggerEnds, Deliver, coord
<1> HIDE DEF hc
<1>8. QED BY <1>1, <1>4, <1>5, <1>6, <1>7, AwakeStep DEF TypeOK

LEMMA ExamReqInv ==
  ASSUME IInv, NEW c \in Client, NEW s \in Samples \cup {None}, ExamReq(c, s)
  PROVE  IInv'
<1>1. est \in [Client -> Estimate] /\ h \in [Client -> Handler] /\ TypeOK
  BY TableTypes DEF IInv
<1>2. h[c].pc = "idle" /\ h[c] \in Handler /\ left.exams[c] > 0
  BY <1>1 DEF ExamReq
<1>3. ~h[c].woken
  BY <1>2 DEF IInv, Bookkeeping
<1>4. /\ UNCHANGED <<kind, now, startFile, startCache, tSends, event, round>>
      /\ left'.fails = left.fails
      /\ left' \in [schedules : [Client -> Nat], exams : [Client -> Nat],
                    sets : Nat, fails : Nat]
  <2>1. left.exams \in [Client -> Nat] /\ left.exams[c] - 1 \in Nat
    BY <1>1, <1>2 DEF TypeOK
  <2>2. [left.exams EXCEPT ![c] = left.exams[c] - 1] \in [Client -> Nat]
    BY <2>1
  <2>3. left' = [left EXCEPT !.exams = [left.exams EXCEPT ![c] = left.exams[c] - 1]]
    BY DEF ExamReq
  <2>4. QED BY <1>1, <2>2, <2>3 DEF ExamReq, TypeOK
<1>5. CASE SyncExamReq(c, s)
  <2> DEFINE e == Reported(c, s)
             D == ComputeD(e[c])
             waiting == [h[c] EXCEPT !.pc = "wait", !.D = D, !.round = round + 1]
             hc == IF event THEN Scheduled(waiting, c, 0) ELSE waiting
  <2>1. e \in [Client -> Estimate] /\ D \in Nat
    BY <1>1, ReportedType, ComputeDType
  <2>2. /\ now \in Nat /\ round \in Nat /\ registry \in [Client -> Nat \cup {None}]
        /\ task \in Nat \cup {None} /\ Window \in Nat \ {0} /\ None \notin Int
    BY <1>1, ConstantsOK DEF TypeOK
  <2>4. /\ est' = e
        /\ registry' = [registry EXCEPT ![c] = D]
        /\ task' = IF task = None THEN now + Window ELSE task
        /\ h' = [h EXCEPT ![c] = hc]
    BY <1>5 DEF SyncExamReq, Register
  <2> HIDE DEF D, e
  <2>3. waiting \in Handler /\ ~waiting.woken /\ waiting.pc = "wait"
        /\ waiting.round = round + 1 /\ waiting.D = D
    <3> DEFINE n == round + 1
    <3>1. n \in Nat
      BY <2>2
    <3> HIDE DEF n
    <3>2. [h[c] EXCEPT !.pc = "wait", !.D = D, !.round = n] \in Handler
      BY <1>2, <2>1, <3>1 DEF Handler
    <3>3. QED BY <1>2, <1>3, <2>1, <3>2 DEF n, Handler
  <2> HIDE DEF waiting
  <2>5. /\ hc \in Handler /\ ~hc.woken
        /\ \/ event /\ hc.pc \in {"stagger", "deliver"} /\ hc.round = 0
           \/ ~event /\ hc.pc = "wait" /\ hc.round = round + 1 /\ hc.D = D
    <3>1. CASE event
      <4>1. 0 \in Nat
        OBVIOUS
      <4>2. /\ Scheduled(waiting, c, 0) \in Handler
            /\ ~Scheduled(waiting, c, 0).woken
            /\ Scheduled(waiting, c, 0).pc \in {"stagger", "deliver"}
            /\ Scheduled(waiting, c, 0).round = 0
        BY <1>1, <2>3, <4>1, ScheduledFacts
      <4>3. QED BY <3>1, <4>2
    <3>2. CASE ~event
      BY <2>3, <3>2
    <3>3. QED BY <3>1, <3>2
  <2> HIDE DEF hc
  <2>6. /\ h' \in [Client -> Handler]
        /\ \A d \in Client : d # c => h'[d] = h[d]
        /\ h'[c] = hc
        /\ RoundsNumbered' /\ SettledTogether'
    BY <1>4, <2>4, <2>5, HandlerStep
  <2>7. /\ registry' \in [Client -> Nat \cup {None}]
        /\ registry'[c] = D
        /\ \A d \in Client : d # c => registry'[d] = registry[d]
        /\ task' \in Nat
        /\ task # None => task' = task
    BY <2>1, <2>2, <2>4
  <2>8. D # None
    BY <2>1, <2>2
  <2>9. TypeOK'
    BY <1>1, <1>4, <2>1, <2>4, <2>6, <2>7 DEF TypeOK, Estimate, Handler
  <2>10. Bookkeeping'
    BY <1>4, <2>5, <2>6 DEF IInv, Bookkeeping
  <2>11. WaitersCovered'
    <3>1. Items' # {}
      BY <2>7, <2>8 DEF Items
    <3>2. ASSUME NEW d \in Client, h'[d].pc = "wait", ~h'[d].woken
          PROVE  /\ ~event
                 /\ \/ registry'[d] = h'[d].D /\ task' # None
                    \/ left'.fails < MaxFails
      <4>1. CASE d = c
        BY <2>2, <2>5, <2>6, <2>7, <3>2, <4>1
      <4>2. CASE d # c
        BY <1>4, <2>2, <2>6, <2>7, <3>2, <4>2 DEF IInv, WaitersCovered
      <4>3. QED BY <4>1, <4>2
    <3>3. QED BY <1>4, <3>1, <3>2 DEF WaitersCovered
  <2>12. Registered'
    <3>1. ASSUME NEW d \in Client
          PROVE  /\ tSends'[d] # None => registry'[d] # None
                 /\ h'[d].pc = "wait" /\ registry'[d] # None
                      => registry'[d] = h'[d].D
      <4>1. CASE d = c
        BY <2>5, <2>6, <2>7, <2>8, <4>1
      <4>2. CASE d # c
        BY <1>4, <2>6, <2>7, <4>2 DEF IInv, Registered
      <4>3. QED BY <4>1, <4>2
    <3>2. QED BY <3>1 DEF Registered
  <2>13. ReleasedInTime'
    BY <1>4, <2>5, <2>6 DEF IInv, ReleasedInTime
  <2>14. QED BY <2>6, <2>9, <2>10, <2>11, <2>12, <2>13 DEF IInv
<1>6. CASE TcpExamReq(c, s) /\ ~SyncExamReq(c, s)
  <2> DEFINE hc == [h[c] EXCEPT !.pc = "deliver"]
  <2>1. /\ UNCHANGED <<est, registry, task>>
        /\ h' = [h EXCEPT ![c] = hc]
    BY <1>6 DEF TcpExamReq
  <2>2. /\ hc \in Handler /\ ~hc.woken /\ hc.pc = "deliver"
        /\ hc.round = h[c].round /\ hc.tSend = h[c].tSend /\ hc.D = h[c].D
    BY <1>2, <1>3 DEF Handler
  <2>3. h[c].round <= round
    BY <1>2 DEF IInv, RoundsNumbered
  <2>4. h[c].round # 0 => Settled(c) /\ SendTime(c) = h[c].tSend
    BY <1>2, <1>3 DEF Settled, SendTime
  <2> HIDE DEF hc
  <2>5. QED BY <1>1, <1>4, <2>1, <2>2, <2>3, <2>4, AwakeStep
<1>7. QED BY <1>5, <1>6 DEF ExamReq, RudpExamReq

\* Asking for the start caches one, and only what was not cached can raise.
LEMMA StartFacts ==
  ASSUME TypeOK, NEW cache \in Nat \cup {None}, NEW fails \in BOOLEAN,
         GetStart(cache, fails)
  PROVE  /\ StartAt(cache) \in Nat /\ startCache' = StartAt(cache)
         /\ startFile' \in Nat \cup {None}
         /\ cache # None => startCache' = cache
         /\ fails => left.fails > 0 /\ cache = None
<1>1. now \in Nat /\ startFile \in Nat \cup {None} /\ StartOffset \in Nat
  BY ConstantsOK DEF TypeOK
<1>2. StartAt(cache) \in Nat
  BY <1>1 DEF StartAt
<1>3. cache # None => StartAt(cache) = cache
  BY DEF StartAt
<1>4. QED BY <1>1, <1>2, <1>3 DEF GetStart

\* What a schedule_req does to the process: it leaves the round alone, or
\* empties it while no task collects.
LEMMA ResetFacts ==
  ASSUME TypeOK, NEW c \in Client, NEW s \in Samples \cup {None},
         NEW fails \in BOOLEAN,
         RudpScheduleReq(c, s, fails) \/ TcpScheduleReq(c, s, fails)
  PROVE  /\ est' \in [Client -> Estimate]
         /\ startCache' \in Nat /\ startFile' \in Nat \cup {None}
         /\ fails => left.fails > 0
         /\ \/ /\ UNCHANGED <<registry, tSends, event>>
               /\ startCache # None => startCache' = startCache
            \/ /\ task = None
               /\ registry' = Nobody /\ tSends' = Nobody /\ event' = FALSE
<1>1. /\ est \in [Client -> Estimate]
      /\ Reported(c, s) \in [Client -> Estimate]
      /\ startCache \in Nat \cup {None}
  BY TableTypes, ReportedType DEF TypeOK
<1>2. [d \in Client |-> Blank] \in [Client -> Estimate]
  BY DEF Blank, Estimate
<1>3. CASE ResetRound /\ GetStart(CacheAfterReset, fails)
           /\ est' \in {Reported(c, s), [d \in Client |-> Blank]}
  <2>1. CacheAfterReset \in Nat \cup {None}
    BY <1>1 DEF CacheAfterReset
  <2>2. /\ startCache' \in Nat /\ startFile' \in Nat \cup {None}
        /\ CacheAfterReset # None => startCache' = CacheAfterReset
        /\ fails => left.fails > 0
    BY <1>3, <2>1, StartFacts
  <2>3. QED BY <1>1, <1>2, <1>3, <2>2 DEF ResetRound, CacheAfterReset
<1>4. CASE GetStart(startCache, fails) /\ UNCHANGED <<est, registry, tSends, event>>
  <2>1. /\ startCache' \in Nat /\ startFile' \in Nat \cup {None}
        /\ startCache # None => startCache' = startCache
        /\ fails => left.fails > 0
    BY <1>1, <1>4, StartFacts
  <2>2. QED BY <1>1, <1>4, <2>1
<1>5. QED
  BY <1>3, <1>4 DEF RudpScheduleReq, TcpScheduleReq, RudpReset, TcpReset

LEMMA ScheduleInv ==
  ASSUME IInv, NEW c \in Client, NEW s \in Samples \cup {None},
         NEW fails \in BOOLEAN, ScheduleReq(c, s, fails)
  PROVE  IInv'
<1>1. h \in [Client -> Handler] /\ TypeOK
  BY TableTypes DEF IInv
<1>2. h[c].pc = "idle" /\ h[c] \in Handler /\ left.schedules[c] > 0
  BY <1>1 DEF ScheduleReq
<1>3. ~h[c].woken /\ h[c].round <= round
  BY <1>2 DEF IInv, Bookkeeping, RoundsNumbered
<1>4. UNCHANGED <<kind, now, task, round>>
  BY DEF ScheduleReq
<1>5. /\ est' \in [Client -> Estimate]
      /\ startCache' \in Nat /\ startFile' \in Nat \cup {None}
      /\ fails => left.fails > 0
      /\ \/ /\ UNCHANGED <<registry, tSends, event>>
            /\ startCache # None => startCache' = startCache
         \/ /\ task = None
            /\ registry' = Nobody /\ tSends' = Nobody /\ event' = FALSE
  BY <1>1, ResetFacts DEF ScheduleReq
<1>6. /\ left' \in [schedules : [Client -> Nat], exams : [Client -> Nat],
                    sets : Nat, fails : Nat]
      /\ left'.fails <= left.fails
  <2> DEFINE sched == [left.schedules EXCEPT ![c] = left.schedules[c] - 1]
             f == IF fails THEN left.fails - 1 ELSE left.fails
  <2>1. left.schedules \in [Client -> Nat] /\ left.schedules[c] - 1 \in Nat
    BY <1>1, <1>2 DEF TypeOK
  <2>2. sched \in [Client -> Nat]
    BY <2>1
  <2>3. left.fails \in Nat /\ f \in Nat /\ f <= left.fails
    BY <1>1, <1>5 DEF TypeOK
  <2>4. left' = [left EXCEPT !.schedules = sched, !.fails = f]
    BY DEF ScheduleReq
  <2> HIDE DEF sched, f
  <2>5. QED BY <1>1, <2>2, <2>3, <2>4 DEF TypeOK
<1> DEFINE p == IF fails THEN "closed" ELSE "idle"
           hc == [h[c] EXCEPT !.pc = p]
<1>7. /\ hc \in Handler /\ ~hc.woken /\ hc.pc \in {"closed", "idle"}
      /\ hc.round = h[c].round /\ hc.tSend = h[c].tSend /\ hc.D = h[c].D
  BY <1>2, <1>3 DEF Handler
<1>8. h' = [h EXCEPT ![c] = hc]
  BY DEF ScheduleReq
<1>9. h[c].round # 0 => Settled(c) /\ SendTime(c) = h[c].tSend
  BY <1>2, <1>3 DEF Settled, SendTime
<1> HIDE DEF hc
<1>10. /\ h' \in [Client -> Handler]
       /\ \A d \in Client : d # c => h'[d] = h[d]
       /\ h'[c] = hc
       /\ RoundsNumbered' /\ SettledTogether'
  BY <1>3, <1>4, <1>5, <1>7, <1>8, <1>9, HandlerStep
<1>11. Nobody \in [Client -> {None}]
  BY DEF Nobody
<1>12. TypeOK'
  <2>1. registry' \in [Client -> Nat \cup {None}]
    BY <1>1, <1>5, <1>11 DEF TypeOK
  <2>2. tSends' \in [Client -> Int \cup {None}]
    BY <1>1, <1>5, <1>11 DEF TypeOK
  <2>3. event' \in BOOLEAN
    BY <1>1, <1>5 DEF TypeOK
  <2>4. QED BY <1>1, <1>4, <1>5, <1>6, <1>10, <2>1, <2>2, <2>3
            DEF TypeOK, Estimate, Handler
<1>13. Bookkeeping'
  <2>1. left.fails \in Nat /\ left'.fails \in Nat /\ MaxFails \in Nat
    BY <1>1, <1>6, ConstantsOK DEF TypeOK
  <2>2. left'.fails <= MaxFails
    BY <1>6, <2>1 DEF IInv, Bookkeeping
  <2>3. QED BY <1>7, <1>10, <2>2 DEF IInv, Bookkeeping
<1>14. WaitersCovered'
  <2>1. left.fails \in Nat /\ left'.fails \in Nat /\ MaxFails \in Nat
    BY <1>1, <1>6, ConstantsOK DEF TypeOK
  <2>2. task' # None => Items' # {}
    BY <1>4, <1>5 DEF IInv, WaitersCovered, Items
  <2>3. ASSUME NEW d \in Client, h'[d].pc = "wait", ~h'[d].woken
        PROVE  /\ ~event'
               /\ \/ registry'[d] = h'[d].D /\ task' # None
                  \/ left'.fails < MaxFails
    <3>1. h'[d] = h[d]
      BY <1>7, <1>10, <2>3
    <3>2. /\ ~event
          /\ \/ registry[d] = h[d].D /\ task # None
             \/ left.fails < MaxFails
      BY <2>3, <3>1 DEF IInv, WaitersCovered
    <3>3. left.fails < MaxFails => left'.fails < MaxFails
      BY <1>6, <2>1
    <3>4. QED BY <1>4, <1>5, <3>1, <3>2, <3>3
  <2>4. QED BY <2>2, <2>3 DEF WaitersCovered
<1>15. Registered'
  <2>1. ASSUME NEW d \in Client
        PROVE  /\ tSends'[d] # None => registry'[d] # None
               /\ h'[d].pc = "wait" /\ registry'[d] # None
                    => registry'[d] = h'[d].D
    <3>1. h'[d].pc = "wait" => h'[d] = h[d]
      BY <1>7, <1>10
    <3>2. \/ registry'[d] = registry[d] /\ tSends'[d] = tSends[d]
          \/ registry'[d] = None /\ tSends'[d] = None
      BY <1>5 DEF Nobody
    <3>3. QED BY <3>1, <3>2 DEF IInv, Registered
  <2>2. QED BY <2>1 DEF Registered
<1>16. ReleasedInTime'
  <2>1. ASSUME NEW d \in Client, h'[d].woken, tSends'[d] # None
        PROVE  /\ tSends'[d] >= now' + Margin
               /\ startCache' # None /\ tSends'[d] + h'[d].D >= startCache'
    <3>1. h'[d] = h[d]
      BY <1>7, <1>10, <2>1
    <3>2. tSends' = tSends /\ (startCache # None => startCache' = startCache)
      BY <1>5, <2>1 DEF Nobody
    <3>3. QED BY <1>4, <2>1, <3>1, <3>2 DEF IInv, ReleasedInTime
  <2>2. QED BY <2>1 DEF ReleasedInTime
<1>17. QED BY <1>10, <1>12, <1>13, <1>14, <1>15, <1>16 DEF IInv

\* The round that ends: everybody who waits is woken, with a send time if its
\* entry is still there; nobody was awake and unheard before.
LEMMA CoordinateInv ==
  ASSUME IInv, NEW fails \in BOOLEAN, Coordinate(fails)
  PROVE  IInv'
<1>1. h \in [Client -> Handler] /\ TypeOK
  BY TableTypes DEF IInv
<1>2. /\ now \in Nat /\ task \in Nat /\ round \in Nat /\ left.fails \in Nat
      /\ startCache \in Nat \cup {None} /\ MaxFails \in Nat
      /\ None \notin Int /\ Margin \in Nat
  BY <1>1, ConstantsOK DEF Coordinate, TypeOK
<1>3. \A c \in Client : ~h[c].woken
  BY <1>2 DEF Coordinate, IInv, RoundsNumbered
<1>4. /\ StartAt(startCache) \in Nat /\ startCache' = StartAt(startCache)
      /\ startFile' \in Nat \cup {None}
      /\ fails => left.fails > 0
  BY <1>1, <1>2, StartFacts DEF Coordinate
<1>5. /\ left' = [left EXCEPT !.fails = IF fails THEN left.fails - 1 ELSE left.fails]
      /\ task' = None
      /\ UNCHANGED <<kind, now, est, registry>>
  BY DEF Coordinate
<1>6. /\ left' \in [schedules : [Client -> Nat], exams : [Client -> Nat],
                    sets : Nat, fails : Nat]
      /\ left'.fails <= left.fails
      /\ fails => left'.fails < left.fails
  <2> DEFINE f == IF fails THEN left.fails - 1 ELSE left.fails
  <2>1. f \in Nat /\ f <= left.fails
    BY <1>2, <1>4
  <2>2. fails => f < left.fails
    BY <1>2, <1>4
  <2> HIDE DEF f
  <2>3. left' = [left EXCEPT !.fails = f]
    BY <1>5 DEF f
  <2>4. QED BY <1>1, <2>1, <2>2, <2>3 DEF TypeOK
<1>7. left.fails <= MaxFails
  BY DEF IInv, Bookkeeping
<1>8. CASE fails
  <2>1. UNCHANGED <<tSends, event, h, round>>
    BY <1>8 DEF Coordinate
  <2>2. TypeOK'
    BY <1>1, <1>4, <1>5, <1>6, <2>1 DEF TypeOK
  <2>3. Bookkeeping'
    BY <1>2, <1>3, <1>6, <1>7, <2>1, <2>2 DEF Bookkeeping, TypeOK
  <2>4. WaitersCovered'
    <3>1. left'.fails < MaxFails
      BY <1>2, <1>6, <1>7, <1>8, <2>2 DEF TypeOK
    <3>2. QED BY <1>5, <2>1, <3>1 DEF IInv, WaitersCovered
  <2>5. Registered'
    BY <1>5, <2>1 DEF IInv, Registered
  <2>6. RoundsNumbered'
    BY <1>3, <2>1 DEF IInv, RoundsNumbered
  <2>7. SettledTogether'
    BY <1>3, <2>1 DEF IInv, SettledTogether, Settled, SendTime
  <2>8. ReleasedInTime'
    BY <1>3, <2>1 DEF ReleasedInTime
  <2>9. QED BY <2>2, <2>3, <2>4, <2>5, <2>6, <2>7, <2>8 DEF IInv
<1>9. CASE ~fails
  <2> DEFINE A == Arrival(StartAt(startCache), MaxD)
  <2>1. /\ tSends' = [c \in Client |-> IF c \in Items THEN A - registry[c]
                                       ELSE tSends[c]]
        /\ event' = TRUE /\ round' = round + 1 /\ h' = WakeAll
    BY <1>9 DEF Coordinate, SendTimes
  <2>2. Items # {}
    BY <1>2 DEF IInv, WaitersCovered
  <2>3. /\ A \in Nat /\ A >= StartAt(startCache)
        /\ \A c \in Items : A - registry[c] >= now + Margin
    BY <1>1, <1>4, <2>2, ArrivalFacts
  <2> HIDE DEF A
  <2>4. \A c \in Client : c \notin Items => tSends[c] = None
    BY DEF IInv, Registered, Items
  <2>5. \A c \in Items : registry[c] \in Nat
    BY <1>1 DEF TypeOK, Items
  <2>6. \A c \in Client :
          /\ h[c].pc = "wait" => h'[c] = [h[c] EXCEPT !.woken = TRUE]
          /\ h[c].pc # "wait" => h'[c] = h[c]
    BY <2>1 DEF WakeAll
  <2>7. \A c \in Client :
          /\ h'[c].pc = h[c].pc /\ h'[c].D = h[c].D /\ h'[c].tSend = h[c].tSend
          /\ h'[c].round = h[c].round
          /\ h'[c].woken <=> h[c].pc = "wait"
    BY <1>1, <1>3, <2>6 DEF Handler
  <2>8. \A c \in Client : h'[c] \in Handler
    <3>1. \A x \in Handler : [x EXCEPT !.woken = TRUE] \in Handler
      BY DEF Handler
    <3>2. QED BY <1>1, <2>6, <3>1
  <2>9. TypeOK'
    <3>1. h' \in [Client -> Handler]
      BY <2>1, <2>8 DEF WakeAll
    <3>2. tSends' \in [Client -> Int \cup {None}]
      BY <1>1, <2>1, <2>3, <2>5 DEF TypeOK
    <3>3. round' \in Nat
      BY <1>2, <2>1
    <3>4. QED BY <1>1, <1>4, <1>5, <1>6, <2>1, <3>1, <3>2, <3>3
              DEF TypeOK, Handler
  <2>10. Bookkeeping'
    <3>1. left'.fails <= MaxFails
      BY <1>2, <1>6, <1>7, <2>9 DEF TypeOK
    <3>2. QED BY <2>7, <3>1 DEF Bookkeeping
  <2>11. WaitersCovered'
    BY <1>5, <2>7 DEF WaitersCovered
  <2>12. Registered'
    BY <1>5, <2>1, <2>4, <2>7 DEF IInv, Registered, Items
  <2>13. \A c \in Client :
           /\ h[c].pc # "wait" => h[c].round <= round
           /\ h[c].pc = "wait" => h[c].round = round + 1
    BY <1>3 DEF IInv, RoundsNumbered
  <2>14. RoundsNumbered'
    <3>1. ASSUME NEW c \in Client
          PROVE  /\ h'[c].pc # "wait" => h'[c].round <= round'
                 /\ h'[c].pc = "wait" => h'[c].round = IF h'[c].woken
                                           THEN round' ELSE round' + 1
                 /\ h'[c].woken => task' = None \/ now' < task'
                 /\ h'[c].pc = "new" => h'[c].round = 0
      <4>1. h[c].round \in Nat
        BY <1>1 DEF Handler
      <4>2. h[c].pc = "new" => h[c].round = 0
        BY DEF IInv, RoundsNumbered
      <4>3. QED BY <1>2, <1>5, <2>1, <2>7, <2>13, <4>1, <4>2
    <3>2. QED BY <3>1 DEF RoundsNumbered
  <2>15. \A c \in Items : h[c].pc = "wait" => registry[c] = h[c].D
    BY DEF IInv, Registered, Items
  <2>16. ASSUME NEW c \in Client, Settled(c)'
         PROVE  \/ /\ h'[c].woken /\ c \in Items /\ h[c].round = round + 1
                   /\ SendTime(c)' \in Int /\ SendTime(c)' + h[c].D = A
                \/ /\ Settled(c) /\ SendTime(c)' = SendTime(c)
                   /\ h[c].round <= round
    <3>1. CASE h[c].pc = "wait"
      <4>1. h'[c].woken /\ tSends'[c] # None
        BY <1>3, <2>7, <2>16, <3>1 DEF Settled
      <4>2. c \in Items
        BY <2>1, <2>4, <4>1
      <4>3. SendTime(c)' = A - registry[c]
        BY <2>1, <4>1, <4>2 DEF SendTime
      <4>4. QED BY <2>3, <2>5, <2>13, <2>15, <3>1, <4>1, <4>2, <4>3
    <3>2. CASE h[c].pc # "wait"
      BY <1>3, <2>6, <2>7, <2>13, <2>16, <3>2 DEF Settled, SendTime
    <3>3. QED BY <3>1, <3>2
  <2>17. SettledTogether'
    <3>1. ASSUME NEW c \in Client, NEW d \in Client
          PROVE  /\ Settled(c)' => SendTime(c)' \in Int
                 /\ Settled(c)' /\ Settled(d)' /\ h'[c].round = h'[d].round
                    => SendTime(c)' + h'[c].D = SendTime(d)' + h'[d].D
      <4>1. Settled(c) => SendTime(c) \in Int
        BY DEF IInv, SettledTogether
      <4>2. Settled(c) /\ Settled(d) /\ h[c].round = h[d].round
              => SendTime(c) + h[c].D = SendTime(d) + h[d].D
        BY DEF IInv, SettledTogether
      <4>3. h[c].round \in Nat /\ h[d].round \in Nat
        BY <1>1 DEF Handler
      <4>4. QED BY <1>2, <2>7, <2>16, <4>1, <4>2, <4>3
    <3>2. QED BY <3>1 DEF SettledTogether
  <2>18. ReleasedInTime'
    <3>1. ASSUME NEW c \in Client, h'[c].woken, tSends'[c] # None
          PROVE  /\ tSends'[c] >= now' + Margin
                 /\ startCache' # None /\ tSends'[c] + h'[c].D >= startCache'
      <4>1. c \in Items /\ tSends'[c] = A - registry[c]
        BY <2>1, <2>4, <3>1
      <4>2. registry[c] = h[c].D /\ registry[c] \in Nat
        BY <2>5, <2>7, <2>15, <3>1, <4>1
      <4>3. QED BY <1>2, <1>4, <1>5, <2>3, <2>7, <4>1, <4>2
    <3>2. QED BY <3>1 DEF ReleasedInTime
  <2>19. QED BY <2>9, <2>10, <2>11, <2>12, <2>14, <2>17, <2>18 DEF IInv
<1>10. QED BY <1>8, <1>9

\* Others rewrite the file, and time passes while nobody is about to run.
LEMMA EnvironmentInv ==
  ASSUME IInv, Tick \/ \E t \in StartTimes \cup {None} : SetStart(t)
  PROVE  IInv'
<1>1. /\ now \in Nat /\ StartTimes \subseteq Nat /\ TypeOK
      /\ left.fails \in Nat /\ left.sets \in Nat
  BY ConstantsOK DEF IInv, TypeOK
<1>2. CASE Tick
  <2>1. /\ now' = now + 1 /\ UNCHANGED <<kind, coord, h, left>>
        /\ \A c \in Client : ~h[c].woken
    BY <1>2 DEF Tick
  <2>2. TypeOK'
    BY <1>1, <2>1 DEF TypeOK, coord
  <2>3. Bookkeeping' /\ Registered' /\ WaitersCovered'
    BY <2>1 DEF coord, IInv, Bookkeeping, Registered, WaitersCovered, Items
  <2>4. RoundsNumbered' /\ SettledTogether' /\ ReleasedInTime'
    BY <2>1 DEF coord, IInv, RoundsNumbered, SettledTogether, Settled, SendTime,
                ReleasedInTime
  <2>5. QED BY <2>2, <2>3, <2>4 DEF IInv
<1>3. ASSUME NEW t \in StartTimes \cup {None}, SetStart(t)
      PROVE  IInv'
  <2>1. /\ UNCHANGED <<kind, now, startCache, est, registry, tSends, event, task,
                       round, h>>
        /\ startFile' \in Nat \cup {None} /\ left.sets > 0
        /\ left' = [left EXCEPT !.sets = left.sets - 1]
    BY <1>1, <1>3 DEF SetStart
  <2>2. /\ left' \in [schedules : [Client -> Nat], exams : [Client -> Nat],
                      sets : Nat, fails : Nat]
        /\ left'.fails = left.fails
    BY <1>1, <2>1 DEF TypeOK
  <2>3. TypeOK'
    BY <1>1, <2>1, <2>2 DEF TypeOK
  <2>4. Bookkeeping' /\ Registered' /\ WaitersCovered'
    BY <2>1, <2>2 DEF IInv, Bookkeeping, Registered, WaitersCovered, Items
  <2>5. RoundsNumbered' /\ SettledTogether' /\ ReleasedInTime'
    BY <2>1 DEF IInv, RoundsNumbered, SettledTogether, Settled, SendTime,
                ReleasedInTime
  <2>6. QED BY <2>3, <2>4, <2>5 DEF IInv
<1>4. QED BY <1>2, <1>3

LEMMA StutterInv ==
  ASSUME IInv, UNCHANGED vars
  PROVE  IInv'
BY DEF vars, coord, IInv, TypeOK, Bookkeeping, Registered, WaitersCovered, Items,
       RoundsNumbered, SettledTogether, Settled, SendTime, ReleasedInTime

-----------------------------------------------------------------------------
(* The refinement of SynchronizedRelease.                                  *)

\* What the mapping needs besides IInv: nobody delivers before its send time,
\* a woken handler has a round, and without coordination there are none.
Punctual ==
  \A c \in Client :
    /\ h[c].pc = "deliver" /\ h[c].round # 0 => h[c].tSend <= now
    /\ h[c].woken => h[c].round # 0
    /\ kind = "tcp_nosync" => h[c].round = 0 /\ h[c].pc # "wait"

\* Scheduled delivers at once only what is due.
LEMMA ScheduledPunctual ==
  ASSUME TypeOK, NEW c \in Client, NEW hc \in Handler, NEW r \in Nat,
         Scheduled(hc, c, r).pc = "deliver"
  PROVE  Scheduled(hc, c, r).tSend <= now
<1> DEFINE t == IF tSends[c] = None THEN now ELSE tSends[c]
<1>1. now \in Nat /\ tSends[c] \in Int \cup {None}
  BY DEF TypeOK
<1>2. t \in Int
  BY <1>1
<1>3. /\ Scheduled(hc, c, r).tSend = t
      /\ Scheduled(hc, c, r).pc = IF t > now THEN "stagger" ELSE "deliver"
  BY DEF Scheduled, Handler
<1> HIDE DEF t
<1>4. QED BY <1>1, <1>2, <1>3

\* What an exam_req does to its own handler, and to nobody else.
LEMMA ExamReqEffect ==
  ASSUME IInv, Punctual, NEW c \in Client, NEW s \in Samples \cup {None},
         ExamReq(c, s)
  PROVE  /\ h[c].pc = "idle" /\ ~h[c].woken /\ ~h'[c].woken
         /\ \A d \in Client : d # c => h'[d] = h[d]
         /\ UNCHANGED <<kind, now, tSends, round>> /\ left'.fails = left.fails
         /\ \/ h'[c].pc = "wait" /\ h'[c].D \in Nat /\ kind # "tcp_nosync"
            \/ h'[c].pc \in {"stagger", "deliver"} /\ h'[c].round = 0
<1>1. est \in [Client -> Estimate] /\ h \in [Client -> Handler] /\ TypeOK
  BY TableTypes DEF IInv
<1>2. h[c].pc = "idle" /\ h[c] \in Handler
  BY <1>1 DEF ExamReq
<1>3. ~h[c].woken
  BY <1>2 DEF IInv, Bookkeeping
<1>4. UNCHANGED <<kind, now, tSends, round>> /\ left'.fails = left.fails
  BY <1>1 DEF ExamReq, TypeOK
<1>5. CASE SyncExamReq(c, s) /\ kind # "tcp_nosync"
  <2> DEFINE D == ComputeD(Reported(c, s)[c])
             n == round + 1
             waiting == [h[c] EXCEPT !.pc = "wait", !.D = D, !.round = n]
  <2>1. D \in Nat /\ n \in Nat
    BY <1>1, ReportedType, ComputeDType DEF TypeOK
  <2>2. h' = [h EXCEPT ![c] = IF event THEN Scheduled(waiting, c, 0) ELSE waiting]
    BY <1>5 DEF SyncExamReq
  <2> HIDE DEF D, n
  <2>3. /\ waiting \in Handler /\ ~waiting.woken /\ waiting.pc = "wait"
        /\ waiting.D = D
    BY <1>2, <1>3, <2>1 DEF Handler
  <2> HIDE DEF waiting
  <2>4. CASE event
    <3>1. 0 \in Nat
      OBVIOUS
    <3>2. /\ ~Scheduled(waiting, c, 0).woken
          /\ Scheduled(waiting, c, 0).pc \in {"stagger", "deliver"}
          /\ Scheduled(waiting, c, 0).round = 0
      BY <1>1, <2>3, <3>1, ScheduledFacts
    <3>3. h' = [h EXCEPT ![c] = Scheduled(waiting, c, 0)]
      BY <2>2, <2>4
    <3>4. QED BY <1>1, <1>2, <1>3, <1>4, <3>2, <3>3
  <2>5. CASE ~event
    BY <1>1, <1>2, <1>3, <1>4, <1>5, <2>1, <2>2, <2>3, <2>5
  <2>6. QED BY <2>4, <2>5
<1>6. CASE h' = [h EXCEPT ![c].pc = "deliver"] /\ kind = "tcp_nosync"
  <2>1. h[c].round = 0
    BY <1>6 DEF Punctual
  <2>2. QED BY <1>1, <1>2, <1>3, <1>4, <1>6, <2>1 DEF Handler
<1>7. QED BY <1>5, <1>6 DEF ExamReq, RudpExamReq, TcpExamReq

\* What going on does to a woken handler, and to nobody else.
LEMMA WakeEffect ==
  ASSUME IInv, Punctual, NEW c \in Client, Wake(c)
  PROVE  /\ h[c].pc = "wait" /\ h[c].woken /\ ~h'[c].woken
         /\ \A d \in Client : d # c => h'[d] = h[d]
         /\ UNCHANGED <<kind, now, tSends, round, left>>
         /\ h'[c].pc \in {"stagger", "deliver"} /\ h'[c].D = h[c].D
         /\ h'[c].pc = "deliver" => h'[c].tSend <= now
         /\ IF tSends[c] = None THEN h'[c].round = 0
            ELSE h'[c].round # 0 /\ h'[c].tSend = tSends[c]
<1>1. h \in [Client -> Handler] /\ TypeOK
  BY TableTypes DEF IInv
<1>2. h[c].woken /\ h[c].pc = "wait" /\ h[c].round # 0
  BY DEF Wake, Punctual
<1>3. h[c] \in Handler /\ h[c].round \in Nat
  BY <1>1 DEF Handler
<1> DEFINE hc == Scheduled(h[c], c, h[c].round)
<1>4. /\ ~hc.woken /\ hc.pc \in {"stagger", "deliver"} /\ hc.D = h[c].D
      /\ tSends[c] = None => hc.round = 0
      /\ tSends[c] # None => hc.round = h[c].round /\ hc.tSend = tSends[c]
      /\ hc.pc = "deliver" => hc.tSend <= now
  BY <1>1, <1>3, ScheduledFacts, ScheduledPunctual
<1>5. h' = [h EXCEPT ![c] = hc] /\ UNCHANGED <<kind, now, tSends, round, left>>
  BY DEF Wake, coord
<1> HIDE DEF hc
<1>6. QED BY <1>1, <1>2, <1>4, <1>5

\* What the end of a round does to each handler.
LEMMA CoordinateEffect ==
  ASSUME IInv, Coordinate(FALSE)
  PROVE  /\ \A c \in Client :
              /\ ~h[c].woken
              /\ h[c].pc # "wait" => h'[c] = h[c]
              /\ h[c].pc = "wait" =>
                   /\ h'[c].pc = "wait" /\ h'[c].woken /\ h'[c].D = h[c].D
                   /\ h'[c].round = h[c].round
              /\ h[c].pc = "wait" /\ registry[c] = None => tSends'[c] = None
         /\ \E A \in Nat : \A c \in Client :
              h[c].pc = "wait" /\ registry[c] # None =>
                /\ tSends'[c] = A - h[c].D
                /\ A - h[c].D >= now + Margin
         /\ UNCHANGED <<kind, now, left>>
<1>1. h \in [Client -> Handler] /\ TypeOK
  BY TableTypes DEF IInv
<1>2. /\ now \in Nat /\ task \in Nat /\ task <= now
      /\ startCache \in Nat \cup {None} /\ None \notin Int
  BY <1>1, ConstantsOK DEF Coordinate, TypeOK
<1>3. \A c \in Client : ~h[c].woken
  BY <1>2 DEF IInv, RoundsNumbered
<1>4. StartAt(startCache) \in Nat
  BY <1>1, <1>2, StartFacts DEF Coordinate
<1> DEFINE A == Arrival(StartAt(startCache), MaxD)
<1>5. /\ tSends' = [c \in Client |-> IF c \in Items THEN A - registry[c]
                                     ELSE tSends[c]]
      /\ h' = WakeAll
      /\ UNCHANGED <<kind, now>>
  BY DEF Coordinate, SendTimes
<1>6. left' = left
  <2>1. left' = [left EXCEPT !.fails = left.fails]
    BY DEF Coordinate
  <2>2. QED BY <1>1, <2>1 DEF TypeOK
<1>7. Items # {}
  BY <1>2 DEF IInv, WaitersCovered
<1>8. A \in Nat /\ \A c \in Items : A - registry[c] >= now + Margin
  BY <1>1, <1>4, <1>7, ArrivalFacts
<1> HIDE DEF A
<1>9. \A c \in Client :
        /\ h[c].pc # "wait" => h'[c] = h[c]
        /\ h[c].pc = "wait" => h'[c] = [h[c] EXCEPT !.woken = TRUE]
  BY <1>5 DEF WakeAll
<1>10. ASSUME NEW c \in Client, h[c].pc = "wait"
       PROVE  /\ h'[c].pc = "wait" /\ h'[c].woken /\ h'[c].D = h[c].D
              /\ h'[c].round = h[c].round
  <2>1. h[c] \in Handler /\ h'[c] = [h[c] EXCEPT !.woken = TRUE]
    BY <1>1, <1>9, <1>10
  <2>2. QED BY <1>10, <2>1 DEF Handler
<1>11. ASSUME NEW c \in Client, registry[c] = None
       PROVE  tSends'[c] = None
  BY <1>5, <1>11 DEF IInv, Registered, Items
<1>12. ASSUME NEW c \in Client, h[c].pc = "wait", registry[c] # None
       PROVE  tSends'[c] = A - h[c].D /\ A - h[c].D >= now + Margin
  BY <1>5, <1>8, <1>12 DEF IInv, Registered, Items
<1>13. QED BY <1>3, <1>5, <1>6, <1>8, <1>9, <1>10, <1>11, <1>12

LEMMA InitPunctual == Init => Punctual
<1>1. Init => \A c \in Client : h[c].pc = "new" /\ ~h[c].woken /\ h[c].round = 0
  BY DEF Init
<1>2. QED BY <1>1 DEF Punctual

\* One handler moves and stays punctual; nothing else that matters does.
LEMMA PunctualFrame ==
  ASSUME Punctual, NEW c \in Client,
         \A d \in Client : d # c => h'[d] = h[d],
         kind' = kind, now' = now,
         h'[c].pc = "deliver" /\ h'[c].round # 0 => h'[c].tSend <= now,
         h'[c].woken => h'[c].round # 0,
         kind = "tcp_nosync" => h'[c].round = 0 /\ h'[c].pc # "wait"
  PROVE  Punctual'
BY DEF Punctual

LEMMA PunctualStep ==
  ASSUME IInv, Punctual, [Next]_vars
  PROVE  Punctual'
<1>1. h \in [Client -> Handler] /\ TypeOK
  BY TableTypes DEF IInv
<1>2. ASSUME NEW c \in Client, NEW r \in Rtts, Hello(c, r)
      PROVE  Punctual'
  <2>1. h[c].pc = "new" /\ h' = [h EXCEPT ![c].pc = "idle"] /\ h[c] \in Handler
        /\ UNCHANGED <<kind, now>>
    BY <1>1, <1>2 DEF Hello
  <2>2. /\ \A d \in Client : d # c => h'[d] = h[d]
        /\ h'[c].pc = "idle" /\ h'[c].woken = h[c].woken /\ h'[c].round = h[c].round
    BY <1>1, <2>1 DEF Handler
  <2>3. QED BY <2>1, <2>2 DEF Punctual
<1>3. ASSUME NEW c \in Client, NEW s \in Samples \cup {None},
             NEW fails \in BOOLEAN, ScheduleReq(c, s, fails)
      PROVE  Punctual'
  <2>1. /\ h' = [h EXCEPT ![c].pc = IF fails THEN "closed" ELSE "idle"]
        /\ UNCHANGED <<kind, now>>
    BY <1>3 DEF ScheduleReq
  <2>2. /\ \A d \in Client : d # c => h'[d] = h[d]
        /\ h'[c].pc \in {"idle", "closed"} /\ h'[c].woken = h[c].woken
        /\ h'[c].round = h[c].round
    BY <1>1, <2>1 DEF Handler
  <2>3. QED BY <2>1, <2>2 DEF Punctual
<1>4. ASSUME NEW c \in Client, NEW s \in Samples \cup {None}, ExamReq(c, s)
      PROVE  Punctual'
  <2>1. /\ ~h'[c].woken
        /\ \A d \in Client : d # c => h'[d] = h[d]
        /\ UNCHANGED <<kind, now>>
        /\ \/ h'[c].pc = "wait" /\ kind # "tcp_nosync"
           \/ h'[c].pc \in {"stagger", "deliver"} /\ h'[c].round = 0
    BY <1>4, ExamReqEffect
  <2>2. QED BY <2>1 DEF Punctual
<1>5. ASSUME NEW c \in Client, Wake(c)
      PROVE  Punctual'
  <2>1. /\ h[c].pc = "wait" /\ ~h'[c].woken
        /\ \A d \in Client : d # c => h'[d] = h[d]
        /\ UNCHANGED <<kind, now>>
        /\ h'[c].pc = "deliver" => h'[c].tSend <= now
    BY <1>5, WakeEffect
  <2>2. kind # "tcp_nosync"
    BY <2>1 DEF Punctual
  <2>3. QED BY <2>1, <2>2, PunctualFrame
<1>6. ASSUME NEW c \in Client, StaggerEnds(c)
      PROVE  Punctual'
  <2>1. /\ h[c].pc = "stagger" /\ h[c].tSend <= now /\ h[c] \in Handler
        /\ h' = [h EXCEPT ![c].pc = "deliver"] /\ UNCHANGED <<kind, now>>
    BY <1>1, <1>6 DEF StaggerEnds
  <2>2. /\ \A d \in Client : d # c => h'[d] = h[d]
        /\ h'[c].pc = "deliver" /\ h'[c].woken = h[c].woken
        /\ h'[c].round = h[c].round /\ h'[c].tSend = h[c].tSend
    BY <1>1, <2>1 DEF Handler
  <2>3. QED BY <2>1, <2>2 DEF Punctual
<1>7. ASSUME NEW c \in Client, Deliver(c)
      PROVE  Punctual'
  <2>1. h' = [h EXCEPT ![c].pc = "idle"] /\ UNCHANGED <<kind, now>>
    BY <1>7 DEF Deliver
  <2>2. /\ \A d \in Client : d # c => h'[d] = h[d]
        /\ h'[c].pc = "idle" /\ h'[c].woken = h[c].woken
        /\ h'[c].round = h[c].round
    BY <1>1, <2>1 DEF Handler
  <2>3. QED BY <2>1, <2>2 DEF Punctual
<1>8. CASE Coordinate(FALSE)
  <2> SUFFICES ASSUME NEW c \in Client
               PROVE  /\ h'[c].pc = "deliver" /\ h'[c].round # 0 => h'[c].tSend <= now'
                      /\ h'[c].woken => h'[c].round # 0
                      /\ kind' = "tcp_nosync" => h'[c].round = 0 /\ h'[c].pc # "wait"
    BY DEF Punctual
  <2>1. /\ ~h[c].woken /\ UNCHANGED <<kind, now>>
        /\ h[c].pc # "wait" => h'[c] = h[c]
        /\ h[c].pc = "wait" => h'[c].pc = "wait" /\ h'[c].round = h[c].round
    BY <1>8, CoordinateEffect
  <2>2. h[c].pc = "wait" => h[c].round = round + 1
    BY <2>1 DEF IInv, RoundsNumbered
  <2>3. round \in Nat
    BY <1>1 DEF TypeOK
  <2>4. QED BY <2>1, <2>2, <2>3 DEF Punctual
<1>9. CASE Coordinate(TRUE) \/ \E t \in StartTimes \cup {None} : SetStart(t)
  <2>1. UNCHANGED <<kind, now, h>>
    BY <1>9 DEF Coordinate, SetStart
  <2>2. QED BY <2>1 DEF Punctual
<1>10. CASE Tick
  <2>1. now' = now + 1 /\ UNCHANGED <<kind, h>> /\ now \in Nat
    BY <1>1, <1>10 DEF Tick, TypeOK
  <2>2. ASSUME NEW c \in Client, h[c].pc = "deliver", h[c].round # 0
        PROVE  h[c].tSend <= now + 1
    <3>1. Settled(c) /\ ~h[c].woken
      BY <2>2 DEF Settled, IInv, Bookkeeping
    <3>2. h[c].tSend \in Int /\ h[c].tSend <= now
      BY <2>2, <3>1 DEF IInv, SettledTogether, SendTime, Punctual
    <3>3. QED BY <2>1, <3>2
  <2>3. QED BY <2>1, <2>2 DEF Punctual
<1>11. CASE UNCHANGED vars
  BY <1>11 DEF vars, Punctual
<1>12. QED
  BY <1>2, <1>3, <1>4, <1>5, <1>6, <1>7, <1>8, <1>9, <1>10, <1>11 DEF Next

\* A step that moves one handler, and no send time, moves one request.
LEMMA OneMoves ==
  ASSUME NEW c \in Client, \A d \in Client : d # c => h'[d] = h[d],
         tSends' = tSends
  PROVE  /\ [d \in Client |-> PhaseOf(d)]'
              = [[d \in Client |-> PhaseOf(d)] EXCEPT ![c] = PhaseOf(c)']
         /\ [d \in Client |-> DelayOf(d)]'
              = [[d \in Client |-> DelayOf(d)] EXCEPT ![c] = DelayOf(c)']
         /\ [d \in Client |-> ReleaseOf(d)]'
              = [[d \in Client |-> ReleaseOf(d)] EXCEPT ![c] = ReleaseOf(c)']
<1>1. ASSUME NEW d \in Client, d # c
      PROVE  /\ PhaseOf(d)' = PhaseOf(d) /\ DelayOf(d)' = DelayOf(d)
             /\ ReleaseOf(d)' = ReleaseOf(d)
  <2>1. h'[d] = h[d] /\ tSends'[d] = tSends[d]
    BY <1>1
  <2>2. PhaseOf(d)' = PhaseOf(d)
    BY <2>1 DEF PhaseOf
  <2>3. QED BY <2>1, <2>2 DEF DelayOf, ReleaseOf
<1>2. QED BY <1>1

\* A request that is where it was leaves everything of the abstraction alone.
LEMMA NoneMoves ==
  ASSUME NEW c \in Client, \A d \in Client : d # c => h'[d] = h[d],
         tSends' = tSends, now' = now,
         PhaseOf(c)' = PhaseOf(c), DelayOf(c)' = DelayOf(c),
         ReleaseOf(c)' = ReleaseOf(c)
  PROVE  UNCHANGED <<now, [d \in Client |-> PhaseOf(d)],
                     [d \in Client |-> DelayOf(d)], [d \in Client |-> ReleaseOf(d)]>>
<1>1. /\ [d \in Client |-> PhaseOf(d)]'
           = [[d \in Client |-> PhaseOf(d)] EXCEPT ![c] = PhaseOf(c)]
      /\ [d \in Client |-> DelayOf(d)]'
           = [[d \in Client |-> DelayOf(d)] EXCEPT ![c] = DelayOf(c)]
      /\ [d \in Client |-> ReleaseOf(d)]'
           = [[d \in Client |-> ReleaseOf(d)] EXCEPT ![c] = ReleaseOf(c)]
  BY OneMoves
<1>2. QED BY <1>1

LEMMA RefinesWake ==
  ASSUME IInv, Punctual, NEW c \in Client, Wake(c)
  PROVE  [Abstract!Next]_Abstract!vars
<1>1. /\ h[c].pc = "wait" /\ h[c].woken /\ ~h'[c].woken
      /\ \A d \in Client : d # c => h'[d] = h[d]
      /\ UNCHANGED <<kind, now, tSends, round, left>>
      /\ h'[c].pc \in {"stagger", "deliver"} /\ h'[c].D = h[c].D
      /\ IF tSends[c] = None THEN h'[c].round = 0
         ELSE h'[c].round # 0 /\ h'[c].tSend = tSends[c]
  BY WakeEffect
<1>2. CASE tSends[c] = None
  <2>1. PhaseOf(c) = "astray" /\ PhaseOf(c)' = "astray"
    BY <1>1, <1>2 DEF PhaseOf
  <2>2. /\ DelayOf(c) = None /\ DelayOf(c)' = None
        /\ ReleaseOf(c) = None /\ ReleaseOf(c)' = None
    BY <2>1 DEF DelayOf, ReleaseOf
  <2>3. UNCHANGED <<now, [d \in Client |-> PhaseOf(d)],
                    [d \in Client |-> DelayOf(d)], [d \in Client |-> ReleaseOf(d)]>>
    BY <1>1, <2>1, <2>2, NoneMoves
  <2>4. QED BY <1>1, <2>3 DEF Abstract!vars
<1>3. CASE tSends[c] # None
  <2>1. PhaseOf(c) = "called" /\ PhaseOf(c)' = "due"
    BY <1>1, <1>3 DEF PhaseOf
  <2>2. DelayOf(c)' = DelayOf(c) /\ ReleaseOf(c)' = ReleaseOf(c)
    BY <1>1, <1>3, <2>1 DEF DelayOf, ReleaseOf
  <2>3. /\ [d \in Client |-> PhaseOf(d)]'
             = [[d \in Client |-> PhaseOf(d)] EXCEPT ![c] = "due"]
        /\ [d \in Client |-> DelayOf(d)]' = [d \in Client |-> DelayOf(d)]
        /\ [d \in Client |-> ReleaseOf(d)]' = [d \in Client |-> ReleaseOf(d)]
    BY <1>1, <2>1, <2>2, OneMoves
  <2>4. Abstract!Take(c)
    BY <1>1, <2>1, <2>3 DEF Abstract!Take
  <2>5. QED BY <2>4 DEF Abstract!Next
<1>4. QED BY <1>2, <1>3

LEMMA RefinesGoOn ==
  ASSUME IInv, Punctual, NEW c \in Client, StaggerEnds(c) \/ Deliver(c)
  PROVE  [Abstract!Next]_Abstract!vars
<1>1. h \in [Client -> Handler] /\ TypeOK
  BY TableTypes DEF IInv
<1>2. PICK p \in {"deliver", "idle"} :
        /\ h' = [h EXCEPT ![c].pc = p]
        /\ p = "deliver" => h[c].pc = "stagger"
        /\ p = "idle" => h[c].pc = "deliver"
        /\ UNCHANGED <<now, tSends, left>>
  BY DEF StaggerEnds, Deliver, coord
<1>3. ~h[c].woken
  BY <1>2 DEF IInv, Bookkeeping
<1>4. /\ \A d \in Client : d # c => h'[d] = h[d]
      /\ h'[c].pc = p /\ ~h'[c].woken /\ h'[c].D = h[c].D
      /\ h'[c].tSend = h[c].tSend /\ h'[c].round = h[c].round
  BY <1>1, <1>2, <1>3 DEF Handler
<1>5. CASE p = "deliver"
  <2>1. PhaseOf(c)' = PhaseOf(c) /\ PhaseOf(c) \in {"due", "astray"}
    BY <1>2, <1>3, <1>4, <1>5 DEF PhaseOf
  <2>2. DelayOf(c)' = DelayOf(c) /\ ReleaseOf(c)' = ReleaseOf(c)
    BY <1>4, <2>1 DEF DelayOf, ReleaseOf
  <2>3. UNCHANGED <<now, [d \in Client |-> PhaseOf(d)],
                    [d \in Client |-> DelayOf(d)], [d \in Client |-> ReleaseOf(d)]>>
    BY <1>2, <1>4, <2>1, <2>2, NoneMoves
  <2>4. QED BY <1>2, <2>3 DEF Abstract!vars
<1>6. CASE p = "idle"
  <2>1. PhaseOf(c)' = "away" /\ DelayOf(c)' = None /\ ReleaseOf(c)' = None
    <3>1. PhaseOf(c)' = "away"
      BY <1>4, <1>6 DEF PhaseOf
    <3>2. QED BY <3>1 DEF DelayOf, ReleaseOf
  <2>2. /\ [d \in Client |-> PhaseOf(d)]'
             = [[d \in Client |-> PhaseOf(d)] EXCEPT ![c] = "away"]
        /\ [d \in Client |-> DelayOf(d)]'
             = [[d \in Client |-> DelayOf(d)] EXCEPT ![c] = None]
        /\ [d \in Client |-> ReleaseOf(d)]'
             = [[d \in Client |-> ReleaseOf(d)] EXCEPT ![c] = None]
    BY <1>2, <1>4, <2>1, OneMoves
  <2>3. CASE h[c].round # 0
    <3>1. PhaseOf(c) = "due" /\ ReleaseOf(c) = h[c].tSend /\ h[c].tSend <= now
      <4>1. PhaseOf(c) = "due"
        BY <1>2, <1>3, <1>6, <2>3 DEF PhaseOf
      <4>2. QED BY <1>2, <1>6, <2>3, <4>1 DEF ReleaseOf, Punctual
    <3>2. Abstract!Release(c)
      BY <1>2, <2>2, <3>1 DEF Abstract!Release
    <3>3. QED BY <3>2 DEF Abstract!Next
  <2>4. CASE h[c].round = 0
    <3>1. PhaseOf(c) = "astray"
      BY <1>2, <1>3, <1>6, <2>4 DEF PhaseOf
    <3>2. DelayOf(c) = None /\ ReleaseOf(c) = None
      BY <3>1 DEF DelayOf, ReleaseOf
    <3>3. Abstract!AnswerStray(c)
      BY <1>2, <2>2, <3>1, <3>2 DEF Abstract!AnswerStray
    <3>4. QED BY <3>3 DEF Abstract!Next
  <2>5. QED BY <2>3, <2>4
<1>7. QED BY <1>5, <1>6

LEMMA RefinesHello ==
  ASSUME IInv, NEW c \in Client, NEW r \in Rtts, Hello(c, r)
  PROVE  [Abstract!Next]_Abstract!vars
<1>1. h \in [Client -> Handler] /\ TypeOK
  BY TableTypes DEF IInv
<1>2. /\ h[c].pc = "new" /\ h' = [h EXCEPT ![c].pc = "idle"]
      /\ UNCHANGED <<now, tSends, left>>
  BY DEF Hello
<1>3. ~h[c].woken
  BY <1>2 DEF IInv, Bookkeeping
<1>4. /\ \A d \in Client : d # c => h'[d] = h[d]
      /\ h'[c].pc = "idle" /\ ~h'[c].woken
  BY <1>1, <1>2, <1>3 DEF Handler
<1>5. PhaseOf(c) = "away" /\ PhaseOf(c)' = "away"
  BY <1>2, <1>3, <1>4 DEF PhaseOf
<1>6. DelayOf(c)' = DelayOf(c) /\ ReleaseOf(c)' = ReleaseOf(c)
  BY <1>5 DEF DelayOf, ReleaseOf
<1>7. UNCHANGED <<now, [d \in Client |-> PhaseOf(d)],
                  [d \in Client |-> DelayOf(d)], [d \in Client |-> ReleaseOf(d)]>>
  BY <1>2, <1>4, <1>5, <1>6, NoneMoves
<1>8. QED BY <1>2, <1>7 DEF Abstract!vars

LEMMA RefinesExamReq ==
  ASSUME IInv, Punctual, NEW c \in Client, NEW s \in Samples \cup {None},
         ExamReq(c, s)
  PROVE  [Abstract!Next]_Abstract!vars
<1>1. /\ h[c].pc = "idle" /\ ~h[c].woken /\ ~h'[c].woken
      /\ \A d \in Client : d # c => h'[d] = h[d]
      /\ UNCHANGED <<now, tSends>> /\ left'.fails = left.fails
      /\ \/ h'[c].pc = "wait" /\ h'[c].D \in Nat
         \/ h'[c].pc \in {"stagger", "deliver"} /\ h'[c].round = 0
  BY ExamReqEffect
<1>2. PhaseOf(c) = "away"
  BY <1>1 DEF PhaseOf
<1>3. DelayOf(c) = None /\ ReleaseOf(c) = None
  BY <1>2 DEF DelayOf, ReleaseOf
<1>4. /\ [d \in Client |-> PhaseOf(d)]'
           = [[d \in Client |-> PhaseOf(d)] EXCEPT ![c] = PhaseOf(c)']
      /\ [d \in Client |-> DelayOf(d)]'
           = [[d \in Client |-> DelayOf(d)] EXCEPT ![c] = DelayOf(c)']
      /\ [d \in Client |-> ReleaseOf(d)]'
           = [[d \in Client |-> ReleaseOf(d)] EXCEPT ![c] = ReleaseOf(c)']
  BY <1>1, OneMoves
<1>5. CASE h'[c].pc = "wait" /\ h'[c].D \in Nat
  <2>1. PhaseOf(c)' = "waiting"
    BY <1>1, <1>5 DEF PhaseOf
  <2>2. DelayOf(c)' = h'[c].D /\ ReleaseOf(c)' = None
    BY <2>1 DEF DelayOf, ReleaseOf
  <2>3. [d \in Client |-> ReleaseOf(d)]' = [d \in Client |-> ReleaseOf(d)]
    BY <1>3, <1>4, <2>2
  <2>4. /\ [d \in Client |-> PhaseOf(d)]'
             = [[d \in Client |-> PhaseOf(d)] EXCEPT ![c] = "waiting"]
        /\ [d \in Client |-> PhaseOf(d)][c] = "away"
        /\ [d \in Client |-> DelayOf(d)]'[c] = DelayOf(c)'
        /\ DelayOf(c)' \in Nat
    BY <1>2, <1>4, <1>5, <2>1, <2>2
  <2>5. Abstract!Ask(c)
    BY <1>1, <1>4, <2>3, <2>4 DEF Abstract!Ask
  <2>6. QED BY <2>5 DEF Abstract!Next
<1>6. CASE h'[c].pc \in {"stagger", "deliver"} /\ h'[c].round = 0
  <2>1. PhaseOf(c)' = "astray"
    BY <1>1, <1>6 DEF PhaseOf
  <2>2. DelayOf(c)' = None /\ ReleaseOf(c)' = None
    BY <2>1 DEF DelayOf, ReleaseOf
  <2>3. /\ [d \in Client |-> PhaseOf(d)]'
             = [[d \in Client |-> PhaseOf(d)] EXCEPT ![c] = "astray"]
        /\ [d \in Client |-> DelayOf(d)]' = [d \in Client |-> DelayOf(d)]
        /\ [d \in Client |-> ReleaseOf(d)]' = [d \in Client |-> ReleaseOf(d)]
    BY <1>3, <1>4, <2>1, <2>2
  <2>4. Abstract!Stray(c)
    BY <1>1, <1>2, <2>3 DEF Abstract!Stray
  <2>5. QED BY <2>4 DEF Abstract!Next
<1>7. QED BY <1>1, <1>5, <1>6

\* A schedule_req leaves the requests alone, or forgets those just called; and
\* the start it asks for may fail to be written.
LEMMA RefinesSchedule ==
  ASSUME IInv, NEW c \in Client, NEW s \in Samples \cup {None},
         NEW fails \in BOOLEAN, ScheduleReq(c, s, fails)
  PROVE  [Abstract!Next]_Abstract!vars
<1>1. h \in [Client -> Handler] /\ TypeOK /\ left.fails \in Nat /\ MaxFails \in Nat
  BY TableTypes, ConstantsOK DEF IInv, TypeOK
<1>2. /\ h[c].pc = "idle"
      /\ h' = [h EXCEPT ![c].pc = IF fails THEN "closed" ELSE "idle"]
      /\ now' = now
      /\ left'.fails = IF fails THEN left.fails - 1 ELSE left.fails
  BY <1>1 DEF ScheduleReq, TypeOK
<1>3. ~h[c].woken /\ left.fails <= MaxFails
  BY <1>2 DEF IInv, Bookkeeping
<1>4. /\ \A d \in Client : d # c => h'[d] = h[d]
      /\ h'[c].pc \in {"idle", "closed"} /\ ~h'[c].woken
  BY <1>1, <1>2, <1>3 DEF Handler
<1>5. fails => left.fails > 0
  BY <1>1, ResetFacts DEF ScheduleReq
<1>6. tSends' = tSends \/ tSends' = Nobody
  BY <1>1, ResetFacts DEF ScheduleReq
<1>7. /\ PhaseOf(c) = "away" /\ PhaseOf(c)' = "away"
      /\ DelayOf(c) = None /\ DelayOf(c)' = None
      /\ ReleaseOf(c) = None /\ ReleaseOf(c)' = None
  <2>1. PhaseOf(c) = "away" /\ PhaseOf(c)' = "away"
    BY <1>2, <1>3, <1>4 DEF PhaseOf
  <2>2. QED BY <2>1 DEF DelayOf, ReleaseOf
<1>8. (left.fails < MaxFails)' = (left.fails < MaxFails) \/ (left.fails < MaxFails)' = TRUE
  BY <1>1, <1>2, <1>3, <1>5
<1>9. CASE tSends' = tSends
  <2>1. UNCHANGED <<now, [d \in Client |-> PhaseOf(d)],
                    [d \in Client |-> DelayOf(d)], [d \in Client |-> ReleaseOf(d)]>>
    BY <1>2, <1>4, <1>7, <1>9, NoneMoves
  <2>2. Abstract!Fail \/ UNCHANGED Abstract!vars
    BY <1>8, <2>1 DEF Abstract!Fail, Abstract!vars
  <2>3. QED BY <2>2 DEF Abstract!Next
<1>10. CASE tSends' = Nobody
  <2>1. ASSUME NEW d \in Client
        PROVE  /\ PhaseOf(d)' = IF PhaseOf(d) = "called" THEN "astray" ELSE PhaseOf(d)
               /\ DelayOf(d)' = IF PhaseOf(d) = "called" THEN None ELSE DelayOf(d)
               /\ ReleaseOf(d)' = IF PhaseOf(d) = "called" THEN None ELSE ReleaseOf(d)
    <3>1. CASE d = c
      BY <1>7, <3>1
    <3>2. CASE d # c
      <4>1. h'[d] = h[d] /\ tSends'[d] = None
        BY <1>4, <1>10, <3>2 DEF Nobody
      <4>2. h[d].woken => h[d].pc = "wait"
        BY DEF IInv, Bookkeeping
      <4>3. PhaseOf(d)' = IF PhaseOf(d) = "called" THEN "astray" ELSE PhaseOf(d)
        BY <4>1, <4>2 DEF PhaseOf
      <4>4. QED BY <4>1, <4>3 DEF DelayOf, ReleaseOf
    <3>3. QED BY <3>1, <3>2
  <2>2. Abstract!Forget
    BY <1>2, <1>8, <2>1 DEF Abstract!Forget
  <2>3. QED BY <2>2 DEF Abstract!Next
<1>11. QED BY <1>6, <1>9, <1>10

\* The end of a round closes it for those whose entry is still there.
LEMMA RefinesCoordinate ==
  ASSUME IInv, Punctual, Coordinate(FALSE)
  PROVE  [Abstract!Next]_Abstract!vars
<1>1. /\ h \in [Client -> Handler] /\ TypeOK /\ None \notin Int
      /\ now \in Nat /\ Margin \in Nat
  BY TableTypes, ConstantsOK DEF IInv, TypeOK
<1>2. \A c \in Client :
        /\ ~h[c].woken
        /\ h[c].pc # "wait" => h'[c] = h[c]
        /\ h[c].pc = "wait" =>
             h'[c].pc = "wait" /\ h'[c].woken /\ h'[c].D = h[c].D
        /\ h[c].pc = "wait" /\ registry[c] = None => tSends'[c] = None
  BY CoordinateEffect
<1>3. PICK A \in Nat : \A c \in Client :
        h[c].pc = "wait" /\ registry[c] # None =>
          tSends'[c] = A - h[c].D /\ A - h[c].D >= now + Margin
  BY CoordinateEffect
<1>4. UNCHANGED <<now, left>>
  BY CoordinateEffect
<1>5. \A c \in Client : h[c].D \in Nat
  BY <1>1 DEF Handler
<1>6. \A c \in Client : /\ PhaseOf(c) # "called"
                        /\ PhaseOf(c) = "waiting" <=> h[c].pc = "wait"
  BY <1>2 DEF PhaseOf
<1>7. ASSUME NEW c \in Client, PhaseOf(c) = "waiting", c \in Items
      PROVE  /\ PhaseOf(c)' = "called" /\ DelayOf(c)' = DelayOf(c)
             /\ DelayOf(c) = h[c].D
             /\ ReleaseOf(c)' = A - h[c].D
             /\ A - h[c].D >= now + Margin
  <2>1. h[c].pc = "wait" /\ registry[c] # None
    BY <1>6, <1>7 DEF Items
  <2>2. tSends'[c] = A - h[c].D /\ A - h[c].D >= now + Margin
    BY <1>3, <2>1
  <2>3. tSends'[c] # None
    <3>1. A - h[c].D \in Int
      BY <1>5
    <3>2. QED BY <1>1, <2>2, <3>1
  <2>4. PhaseOf(c)' = "called"
    BY <1>2, <2>1, <2>3 DEF PhaseOf
  <2>5. QED BY <1>2, <1>7, <2>1, <2>2, <2>4 DEF DelayOf, ReleaseOf
<1>8. ASSUME NEW c \in Client, PhaseOf(c) = "waiting", c \notin Items
      PROVE  /\ PhaseOf(c)' = "astray" /\ DelayOf(c)' = None
             /\ ReleaseOf(c)' = None /\ ReleaseOf(c) = None
  <2>1. h[c].pc = "wait" /\ registry[c] = None
    BY <1>6, <1>8 DEF Items
  <2>2. PhaseOf(c)' = "astray"
    BY <1>2, <2>1 DEF PhaseOf
  <2>3. QED BY <1>8, <2>2 DEF DelayOf, ReleaseOf
<1>9. ASSUME NEW c \in Client, PhaseOf(c) # "waiting"
      PROVE  /\ PhaseOf(c)' = PhaseOf(c) /\ DelayOf(c)' = DelayOf(c)
             /\ ReleaseOf(c)' = ReleaseOf(c)
  <2>1. h'[c] = h[c] /\ ~h[c].woken /\ h[c].pc # "wait"
    BY <1>2, <1>6, <1>9
  <2>2. PhaseOf(c)' = PhaseOf(c)
    BY <2>1 DEF PhaseOf
  <2>3. QED BY <1>6, <2>1, <2>2 DEF DelayOf, ReleaseOf
<1>10. (left.fails < MaxFails) \/ \A c \in Client : PhaseOf(c) = "waiting" => c \in Items
  <2> SUFFICES ASSUME ~(left.fails < MaxFails), NEW c \in Client,
                      PhaseOf(c) = "waiting"
               PROVE  c \in Items
    OBVIOUS
  <2>1. registry[c] = h[c].D
    BY <1>2, <1>6 DEF IInv, WaitersCovered
  <2>2. QED BY <1>1, <1>5, <2>1 DEF Items
<1> DEFINE ph == [c \in Client |-> PhaseOf(c)]
           dl == [c \in Client |-> DelayOf(c)]
           rl == [c \in Client |-> ReleaseOf(c)]
           Joins(c) == ph[c] = "waiting" /\ c \in Items
<1>11. ph' = [c \in Client |-> IF Joins(c) THEN "called"
                               ELSE IF ph[c] = "waiting" THEN "astray" ELSE ph[c]]
  BY <1>7, <1>8, <1>9
<1>12. dl' = [c \in Client |-> IF ph[c] = "waiting" /\ c \notin Items THEN None
                               ELSE dl[c]]
  BY <1>7, <1>8, <1>9
<1>13. rl' = [c \in Client |-> IF Joins(c) THEN rl'[c] ELSE rl[c]]
  BY <1>8, <1>9
<1>14. ASSUME NEW c \in Client, NEW d \in Client, Joins(c), Joins(d)
       PROVE  rl'[c] + dl[c] = rl'[d] + dl[d] /\ rl'[c] >= now + Margin
  <2>1. /\ rl'[c] = A - h[c].D /\ dl[c] = h[c].D /\ A - h[c].D >= now + Margin
        /\ rl'[d] = A - h[d].D /\ dl[d] = h[d].D
    BY <1>7, <1>14
  <2> HIDE DEF rl, dl
  <2>2. QED BY <1>5, <2>1
<1>15. Abstract!Close(Items)
  <2>1. \A c \in Client : /\ ph[c] # "called"
                          /\ ph[c] = "waiting" /\ ~(left.fails < MaxFails) => c \in Items
    BY <1>6, <1>10
  <2>2. \A c \in Client : Joins(c) <=> Abstract!Calls(c, Items)
    BY DEF Abstract!Calls
  <2> HIDE DEF Joins
  <2>3. QED BY <1>4, <1>11, <1>12, <1>13, <1>14, <2>1, <2>2 DEF Abstract!Close
<1>16. Items \in SUBSET Client
  BY DEF Items
<1>17. QED BY <1>15, <1>16 DEF Abstract!Next

LEMMA RefinesEnvironment ==
  ASSUME IInv,
         \/ Tick \/ UNCHANGED vars \/ Coordinate(TRUE)
         \/ \E t \in StartTimes \cup {None} : SetStart(t)
  PROVE  [Abstract!Next]_Abstract!vars
<1>1. TypeOK /\ left.fails \in Nat /\ MaxFails \in Nat /\ left.fails <= MaxFails
  BY ConstantsOK DEF IInv, TypeOK, Bookkeeping
<1>2. h' = h /\ tSends' = tSends
  BY DEF Tick, vars, coord, Coordinate, SetStart
<1>3. \A c \in Client : PhaseOf(c)' = PhaseOf(c)
  BY <1>2 DEF PhaseOf
<1>4. \A c \in Client : DelayOf(c)' = DelayOf(c) /\ ReleaseOf(c)' = ReleaseOf(c)
  BY <1>2, <1>3 DEF DelayOf, ReleaseOf
<1>5. /\ [c \in Client |-> PhaseOf(c)]' = [c \in Client |-> PhaseOf(c)]
      /\ [c \in Client |-> DelayOf(c)]' = [c \in Client |-> DelayOf(c)]
      /\ [c \in Client |-> ReleaseOf(c)]' = [c \in Client |-> ReleaseOf(c)]
  BY <1>3, <1>4
<1>6. CASE Tick
  <2>1. now' = now + 1 /\ left' = left /\ \A c \in Client : ~h[c].woken
    BY <1>6 DEF Tick
  <2>2. \A c \in Client : PhaseOf(c) # "called"
    BY <2>1 DEF PhaseOf
  <2>3. Abstract!Pass
    BY <1>5, <2>1, <2>2 DEF Abstract!Pass
  <2>4. QED BY <2>3 DEF Abstract!Next
<1>7. CASE Coordinate(TRUE)
  <2>1. now' = now /\ left.fails > 0 /\ left' = [left EXCEPT !.fails = left.fails - 1]
    BY <1>7 DEF Coordinate, GetStart
  <2>2. left'.fails = left.fails - 1
    BY <1>1, <2>1 DEF TypeOK
  <2>3. (left.fails < MaxFails)' = TRUE
    BY <1>1, <2>1, <2>2
  <2>4. Abstract!Fail
    BY <1>5, <2>1, <2>3 DEF Abstract!Fail
  <2>5. QED BY <2>4 DEF Abstract!Next
<1>8. CASE UNCHANGED vars \/ \E t \in StartTimes \cup {None} : SetStart(t)
  <2>1. now' = now /\ left'.fails = left.fails
    BY <1>1, <1>8 DEF SetStart, vars, TypeOK
  <2>2. UNCHANGED Abstract!vars
    BY <1>5, <2>1 DEF Abstract!vars
  <2>3. QED BY <2>2
<1>9. QED BY <1>6, <1>7, <1>8

-----------------------------------------------------------------------------
(* Theorems.                                                               *)

\* Every step of the handlers, of the round and of the world keeps IInv.
THEOREM Inductive == Spec => []IInv
<1>1. Init => IInv
  BY InitInv
<1>2. IInv /\ [Next]_vars => IInv'
  <2> SUFFICES ASSUME IInv, [Next]_vars PROVE IInv'
    OBVIOUS
  <2>1. ASSUME NEW c \in Client,
               \/ \E r \in Rtts : Hello(c, r)
               \/ \E s \in Samples \cup {None}, fails \in BOOLEAN :
                    ScheduleReq(c, s, fails)
               \/ \E s \in Samples \cup {None} : ExamReq(c, s)
               \/ Wake(c) \/ StaggerEnds(c) \/ Deliver(c)
        PROVE  IInv'
    BY <2>1, HelloInv, ScheduleInv, ExamReqInv, WakeInv, GoOnInv
  <2>2. CASE \E fails \in BOOLEAN : Coordinate(fails)
    BY <2>2, CoordinateInv
  <2>3. CASE Tick \/ \E t \in StartTimes \cup {None} : SetStart(t)
    BY <2>3, EnvironmentInv
  <2>4. CASE UNCHANGED vars
    BY <2>4, StutterInv
  <2>5. QED BY <2>1, <2>2, <2>3, <2>4 DEF Next
<1>3. QED BY <1>1, <1>2, PTL DEF Spec

\* The process keeps its types, and no delay is ever negative.
THEOREM TypeCorrect == Spec => []TypeOK
<1>1. IInv => TypeOK
  BY DEF IInv
<1>2. QED BY <1>1, Inductive, PTL

\* Nobody waits for a round that does not come, unless one has raised.
THEOREM NobodyLeftBehind == Spec => []WaitersCovered
<1>1. IInv => WaitersCovered
  BY DEF IInv
<1>2. QED BY <1>1, Inductive, PTL

\* The handlers that one round released aim at one moment of arrival.
THEOREM ArriveTogether == Spec => []SameArrival
<1>1. IInv => SameArrival
  <2> SUFFICES ASSUME IInv, NEW c \in Client, NEW d \in Client,
                      {h[c].pc, h[d].pc} \subseteq {"stagger", "deliver", "idle"},
                      h[c].round # 0, h[c].round = h[d].round
               PROVE  h[c].tSend + h[c].D = h[d].tSend + h[d].D
    BY DEF SameArrival
  <2>1. Settled(c) /\ Settled(d)
    BY DEF Settled
  <2>2. ~h[c].woken /\ ~h[d].woken
    BY DEF IInv, Bookkeeping
  <2>3. SendTime(c) = h[c].tSend /\ SendTime(d) = h[d].tSend
    BY <2>2 DEF SendTime
  <2>4. QED BY <2>1, <2>3 DEF IInv, SettledTogether
<1>2. QED BY <1>1, Inductive, PTL

\* Who is woken has time left to send, and does not arrive before the start.
THEOREM NobodyLate == Spec => []ReleasedInTime
<1>1. IInv => ReleasedInTime
  BY DEF IInv
<1>2. QED BY <1>1, Inductive, PTL

\* The coordinator implements synchronized release: whoever waits when a round
\* closes is called, all aim at one arrival, and nobody is answered early.
THEOREM ReleaseRefinement == Spec => ImplementsRelease
<1>1. Init => Abstract!Init
  <2> SUFFICES ASSUME Init PROVE Abstract!Init
    OBVIOUS
  <2>1. now = 0 /\ left.fails = MaxFails
    BY DEF Init
  <2>2. \A c \in Client : h[c].pc = "new" /\ ~h[c].woken
    BY DEF Init
  <2>3. \A c \in Client : PhaseOf(c) = "away"
    BY <2>2 DEF PhaseOf
  <2>4. \A c \in Client : DelayOf(c) = None /\ ReleaseOf(c) = None
    BY <2>3 DEF DelayOf, ReleaseOf
  <2>5. (left.fails < MaxFails) = FALSE
    BY <2>1, ConstantsOK
  <2>6. QED BY <2>1, <2>3, <2>4, <2>5 DEF Abstract!Init
<1>2. IInv /\ Punctual /\ [Next]_vars => [Abstract!Next]_Abstract!vars
  <2> SUFFICES ASSUME IInv, Punctual, [Next]_vars
               PROVE  [Abstract!Next]_Abstract!vars
    OBVIOUS
  <2>1. ASSUME NEW c \in Client,
               \/ \E r \in Rtts : Hello(c, r)
               \/ \E s \in Samples \cup {None}, fails \in BOOLEAN :
                    ScheduleReq(c, s, fails)
               \/ \E s \in Samples \cup {None} : ExamReq(c, s)
               \/ Wake(c) \/ StaggerEnds(c) \/ Deliver(c)
        PROVE  [Abstract!Next]_Abstract!vars
    BY <2>1, RefinesHello, RefinesSchedule, RefinesExamReq, RefinesWake,
       RefinesGoOn
  <2>2. CASE Coordinate(FALSE)
    BY <2>2, RefinesCoordinate
  <2>3. CASE Tick \/ UNCHANGED vars \/ Coordinate(TRUE)
             \/ \E t \in StartTimes \cup {None} : SetStart(t)
    BY <2>3, RefinesEnvironment
  <2>4. QED BY <2>1, <2>2, <2>3 DEF Next
<1>3. Init => Punctual
  BY InitPunctual
<1>4. IInv /\ Punctual /\ [Next]_vars => Punctual'
  BY PunctualStep
<1>5. QED BY <1>1, <1>2, <1>3, <1>4, Inductive, PTL
          DEF Spec, ImplementsRelease, Abstract!Spec
=============================================================================
