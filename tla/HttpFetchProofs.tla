-------------------------- MODULE HttpFetchProofs --------------------------
(***************************************************************************)
(* Proofs about module HttpFetch, for any number of entries, workers and   *)
(* hosts and any limits: types, that the slots of a host match the         *)
(* requests to it, that the retry loop decides, that each entry is beside  *)
(* its own result.                                                         *)
(***************************************************************************)
EXTENDS HttpFetch, FiniteSetTheorems, TLAPS

(* The parts of the invariant: what is under way with the pool, *)
PoolOK ==
  /\ submitted \in 0..EntryCount
  /\ taken \in 0..submitted
  /\ collected \in 0..EntryCount
  /\ result \in [Entries -> Result \cup {NoResult}]
  /\ ordered \in [Entries -> Result \cup {NoResult}]
  /\ \A e \in Entries : result[e] # NoResult => result[e].entry = e
  /\ \A e \in Entries : e <= collected => ordered[e] # NoResult /\ ordered[e].entry = e

(* with each worker, *)
Calling == {"limiter", "waiting", "sending", "answered", "sleeping"}

WorkersOK ==
  /\ pc \in [Workers -> Steps]
  /\ entry \in [Workers -> Entries \cup {None}]
  /\ pages \in [Workers -> 0..MaxPages]
  /\ host \in [Workers -> Hosts \cup {NoHost}]
  /\ attempt \in [Workers -> 0..RetryCount]
  /\ answer \in [Workers -> Answers \cup {"none"}]
  /\ \A w \in Workers :
       /\ pc[w] # "idle" => entry[w] \in Entries
       /\ pc[w] \in Calling => host[w] \in Hosts /\ pages[w] < MaxPages
       /\ pc[w] = "sleeping" => attempt[w] < RetryCount
       /\ pc[w] # "exhausted"

(* and with the semaphores.                                                *)
SlotsOK ==
  /\ limited \in SUBSET Hosts
  /\ free \in [Hosts -> 0..PerHost]
  /\ \A w \in Workers : pc[w] \in {"waiting", "sending"} => host[w] \in limited
  /\ \A h \in limited : free[h] + Cardinality(InFlight(h)) = PerHost

HttpInv == PoolOK /\ WorkersOK /\ SlotsOK

LEMMA InFlightFinite ==
  ASSUME NEW h
  PROVE  IsFiniteSet(InFlight(h)) /\ Cardinality(InFlight(h)) \in Nat
<1>1. InFlight(h) \subseteq Workers
  BY DEF InFlight
<1> QED
  BY <1>1, HttpFetchAssumption, FS_Subset, FS_CardinalityType

LEMMA HttpInvInit == Init => HttpInv
<1> SUFFICES ASSUME Init PROVE HttpInv
  OBVIOUS
<1>1. PoolOK
  BY HttpFetchAssumption DEF Init, PoolOK, Entries
<1>2. WorkersOK
  BY HttpFetchAssumption DEF Init, WorkersOK, Steps, Calling
<1>3. SlotsOK
  BY HttpFetchAssumption DEF Init, SlotsOK
<1> QED
  BY <1>1, <1>2, <1>3 DEF HttpInv

-----------------------------------------------------------------------------
(* Each step keeps the pool, *)
LEMMA PoolStep == HttpInv /\ [Next]_vars => PoolOK'
<1> SUFFICES ASSUME HttpInv, [Next]_vars PROVE PoolOK'
  OBVIOUS
<1> USE HttpFetchAssumption
<1>1. CASE Submit
  BY <1>1 DEF Submit, HttpInv, PoolOK
<1>2. CASE Collect
  <2>1. collected + 1 \in Entries /\ collected' = collected + 1
    BY <1>2 DEF Collect, HttpInv, PoolOK, Entries
  <2>2. ordered' = [ordered EXCEPT ![collected + 1] = result[collected + 1]]
    BY <1>2 DEF Collect
  <2>3. result[collected + 1] # NoResult /\ result[collected + 1].entry = collected + 1
    BY <1>2, <2>1 DEF Collect, HttpInv, PoolOK
  <2>4. ordered' \in [Entries -> Result \cup {NoResult}]
    BY <2>1, <2>2 DEF HttpInv, PoolOK
  <2>5. \A e \in Entries : e <= collected + 1 => ordered'[e] # NoResult /\ ordered'[e].entry = e
    BY <2>1, <2>2, <2>3 DEF HttpInv, PoolOK, Entries
  <2>6. UNCHANGED <<submitted, taken, result>> /\ collected' \in 0..EntryCount
    BY <1>2, <2>1 DEF Collect, Entries
  <2> QED
    BY <2>1, <2>4, <2>5, <2>6 DEF HttpInv, PoolOK
<1>3. ASSUME NEW w \in Workers, Take(w) PROVE PoolOK'
  BY <1>3 DEF Take, HttpInv, PoolOK, caller
<1>4. ASSUME NEW w \in Workers, Found(w) \/ Raise(w) PROVE PoolOK'
  <2>1. PICK latest \in BOOLEAN : Return(w, latest)
    BY <1>4 DEF Found, Raise
  <2>2. entry[w] \in Entries
    BY <1>4 DEF Found, Raise, HttpInv, WorkersOK
  <2> DEFINE own == [entry |-> entry[w], latest |-> latest]
  <2>3. own \in Result /\ own.entry = entry[w]
    BY <2>2 DEF Result
  <2> HIDE DEF own
  <2>4. result' = [result EXCEPT ![entry[w]] = own] /\ UNCHANGED <<caller, taken>>
    BY <2>1 DEF Return, own
  <2>5. result' \in [Entries -> Result \cup {NoResult}]
    BY <2>2, <2>3, <2>4 DEF HttpInv, PoolOK
  <2>6. \A e \in Entries : result'[e] # NoResult => result'[e].entry = e
    BY <2>2, <2>3, <2>4 DEF HttpInv, PoolOK
  <2> QED
    BY <2>4, <2>5, <2>6 DEF HttpInv, PoolOK, caller
<1>5. ASSUME NEW w \in Workers,
             \/ GetText(w) \/ LimiterFor(w) \/ Acquire(w) \/ Receive(w)
             \/ Decode(w) \/ GiveUp(w) \/ Sleep(w) \/ Wake(w)
      PROVE  PoolOK'
  BY <1>5 DEF GetText, LimiterFor, Acquire, Receive, Decode, GiveUp, Sleep, Wake,
              HttpInv, PoolOK, caller
<1>6. CASE UNCHANGED vars
  BY <1>6 DEF vars, HttpInv, PoolOK
<1> QED
  BY <1>1, <1>2, <1>3, <1>4, <1>5, <1>6 DEF Next, Work

(* the workers, *)
LEMMA WorkersStep == HttpInv /\ [Next]_vars => WorkersOK'
<1> SUFFICES ASSUME HttpInv, [Next]_vars PROVE WorkersOK'
  OBVIOUS
<1> USE HttpFetchAssumption DEF HttpInv, WorkersOK, Goto, Steps, Calling
<1>1. CASE Submit \/ Collect \/ UNCHANGED vars
  BY <1>1 DEF Submit, Collect, vars, call
<1>2. ASSUME NEW w \in Workers, Take(w) PROVE WorkersOK'
  <2>1. taken + 1 \in Entries
    BY <1>2 DEF Take, PoolOK, Entries
  <2> QED
    BY <1>2, <2>1 DEF Take, call
<1>3. ASSUME NEW w \in Workers, Found(w) \/ Raise(w) PROVE WorkersOK'
  BY <1>3 DEF Found, Raise, Return
<1>4. ASSUME NEW w \in Workers, GetText(w) PROVE WorkersOK'
  BY <1>4 DEF GetText
<1>5. ASSUME NEW w \in Workers, LimiterFor(w) \/ Acquire(w) PROVE WorkersOK'
  BY <1>5 DEF LimiterFor, Acquire, call
<1>6. ASSUME NEW w \in Workers, Receive(w) PROVE WorkersOK'
  BY <1>6 DEF Receive
<1>7. ASSUME NEW w \in Workers, Decode(w) PROVE WorkersOK'
  BY <1>7 DEF Decode, call
<1>8. ASSUME NEW w \in Workers, GiveUp(w) \/ Sleep(w) PROVE WorkersOK'
  BY <1>8 DEF GiveUp, Sleep, MayRetry, call
<1>9. ASSUME NEW w \in Workers, Wake(w) PROVE WorkersOK'
  BY <1>9 DEF Wake
<1> QED
  BY <1>1, <1>2, <1>3, <1>4, <1>5, <1>6, <1>7, <1>8, <1>9 DEF Next, Work

(* and the semaphores: a step that neither sends nor receives,             *)
LEMMA SlotsStay ==
  ASSUME HttpInv, NEW w \in Workers, UNCHANGED limiters,
         pc[w] # "sending", NEW to \in Steps \ {"waiting", "sending"}, Goto(w, to),
         \A v \in Workers \ {w} : host'[v] = host[v]
  PROVE  SlotsOK'
<1>1. \A v \in Workers : pc'[v] = IF v = w THEN to ELSE pc[v]
  BY DEF Goto, HttpInv, WorkersOK
<1>2. \A h : InFlight(h)' = InFlight(h)
  BY <1>1 DEF InFlight
<1>3. \A v \in Workers : pc'[v] \in {"waiting", "sending"} => host'[v] \in limited
  BY <1>1 DEF HttpInv, SlotsOK
<1>4. \A h \in limited : free[h] + Cardinality(InFlight(h)') = PerHost
  BY <1>2 DEF HttpInv, SlotsOK
<1> QED
  BY <1>3, <1>4 DEF limiters, HttpInv, SlotsOK

(* one that finds or makes a semaphore, which nobody can have used before, *)
LEMMA SlotsMade ==
  ASSUME HttpInv, NEW w \in Workers, LimiterFor(w)
  PROVE  SlotsOK'
<1>1. /\ \A v \in Workers : pc'[v] = IF v = w THEN "waiting" ELSE pc[v]
      /\ host' = host /\ pc[w] = "limiter" /\ host[w] \in Hosts
      /\ limited' = limited \cup {host[w]}
  BY DEF LimiterFor, Goto, call, HttpInv, WorkersOK, Calling
<1>2. \A h : InFlight(h)' = InFlight(h)
  BY <1>1 DEF InFlight
<1>3. /\ limited' \in SUBSET Hosts
      /\ \A v \in Workers : pc'[v] \in {"waiting", "sending"} => host'[v] \in limited'
  BY <1>1 DEF HttpInv, SlotsOK
<1>4. CASE host[w] \in limited
  <2>1. limited' = limited /\ free' = free
    BY <1>1, <1>4 DEF LimiterFor
  <2>2. \A h \in limited : free[h] + Cardinality(InFlight(h)') = PerHost
    BY <1>2 DEF HttpInv, SlotsOK
  <2> QED
    BY <1>3, <2>1, <2>2 DEF HttpInv, SlotsOK
<1>5. CASE host[w] \notin limited
  <2>1. free' = [free EXCEPT ![host[w]] = PerHost]
    BY <1>5 DEF LimiterFor
  <2>2. free' \in [Hosts -> 0..PerHost]
    BY <1>1, <2>1, HttpFetchAssumption DEF HttpInv, SlotsOK
  <2>3. InFlight(host[w]) = {}
    BY <1>5 DEF InFlight, HttpInv, SlotsOK
  <2>4. Cardinality(InFlight(host[w])) = 0
    BY <2>3, FS_EmptySet
  <2>5. ASSUME NEW h \in limited' PROVE free'[h] + Cardinality(InFlight(h)') = PerHost
    <3>1. CASE h = host[w]
      BY <1>1, <1>2, <2>1, <2>4, <3>1, HttpFetchAssumption DEF HttpInv, SlotsOK
    <3>2. CASE h # host[w]
      <4>1. h \in limited /\ free'[h] = free[h]
        BY <1>1, <2>1, <3>2 DEF HttpInv, SlotsOK
      <4> QED
        BY <1>2, <4>1 DEF HttpInv, SlotsOK
    <3> QED
      BY <3>1, <3>2
  <2> QED
    BY <1>3, <2>2, <2>5 DEF SlotsOK
<1> QED
  BY <1>4, <1>5

(* one that takes a slot,                                                  *)
LEMMA SlotTaken ==
  ASSUME HttpInv, NEW w \in Workers, Acquire(w)
  PROVE  SlotsOK'
<1>1. /\ \A v \in Workers : pc'[v] = IF v = w THEN "sending" ELSE pc[v]
      /\ host' = host /\ pc[w] = "waiting" /\ limited' = limited
      /\ free' = [free EXCEPT ![host[w]] = @ - 1] /\ free[host[w]] > 0
  BY DEF Acquire, Goto, call, HttpInv, WorkersOK
<1>2. host[w] \in limited /\ host[w] \in Hosts /\ free \in [Hosts -> 0..PerHost]
  BY <1>1 DEF HttpInv, SlotsOK
<1>3. free' \in [Hosts -> 0..PerHost]
  BY <1>1, <1>2, HttpFetchAssumption
<1> PICK k \in Hosts : k = host[w]
  BY <1>2
<1>4. w \notin InFlight(k) /\ InFlight(k)' = InFlight(k) \cup {w}
  BY <1>1 DEF InFlight
<1>5. Cardinality(InFlight(k)') = Cardinality(InFlight(k)) + 1
  BY <1>4, InFlightFinite, FS_AddElement
<1>6. ASSUME NEW h \in limited PROVE free'[h] + Cardinality(InFlight(h)') = PerHost
  <2>1. h \in Hosts /\ free[h] + Cardinality(InFlight(h)) = PerHost
    BY DEF HttpInv, SlotsOK
  <2>2. CASE h = host[w]
    <3>1. free'[h] = free[h] - 1 /\ free[h] \in Nat
      BY <1>1, <1>2, <2>2, HttpFetchAssumption
    <3>2. Cardinality(InFlight(h)') = Cardinality(InFlight(h)) + 1
      BY <1>5, <2>2
    <3>3. Cardinality(InFlight(h)) \in Nat
      BY InFlightFinite
    <3> QED
      BY <2>1, <3>1, <3>2, <3>3, HttpFetchAssumption
  <2>3. CASE h # host[w]
    <3>1. InFlight(h)' = InFlight(h)
      BY <1>1, <2>3 DEF InFlight
    <3> QED
      BY <1>1, <1>2, <2>1, <2>3, <3>1
  <2> QED
    BY <2>2, <2>3
<1>7. \A v \in Workers : pc'[v] \in {"waiting", "sending"} => host'[v] \in limited
  BY <1>1, <1>2 DEF HttpInv, SlotsOK
<1> QED
  BY <1>1, <1>2, <1>3, <1>6, <1>7 DEF HttpInv, SlotsOK

(* and one that gives it back: it was in use, so there is room.            *)
LEMMA SlotReturned ==
  ASSUME HttpInv, NEW w \in Workers, Receive(w)
  PROVE  SlotsOK'
<1>1. /\ \A v \in Workers : pc'[v] = IF v = w THEN "answered" ELSE pc[v]
      /\ host' = host /\ pc[w] = "sending" /\ limited' = limited
      /\ free' = [free EXCEPT ![host[w]] = @ + 1]
  BY DEF Receive, Goto, HttpInv, WorkersOK
<1>2. host[w] \in limited /\ host[w] \in Hosts /\ free \in [Hosts -> 0..PerHost]
  BY <1>1 DEF HttpInv, SlotsOK
<1> PICK k \in Hosts : k = host[w]
  BY <1>2
<1>3. w \in InFlight(k) /\ InFlight(k)' = InFlight(k) \ {w}
  BY <1>1 DEF InFlight
<1>4. Cardinality(InFlight(k)') = Cardinality(InFlight(k)) - 1
  BY <1>3, InFlightFinite, FS_RemoveElement
<1>5. Cardinality(InFlight(k)) \in Nat /\ Cardinality(InFlight(k)') \in Nat
  <2>1. IsFiniteSet(InFlight(k)')
    BY <1>3, InFlightFinite, FS_RemoveElement
  <2> QED
    BY <2>1, InFlightFinite, FS_CardinalityType
<1>6. free[host[w]] + Cardinality(InFlight(k)) = PerHost /\ free[host[w]] \in Nat
  BY <1>2, HttpFetchAssumption DEF HttpInv, SlotsOK
<1>7. free[host[w]] + 1 \in 0..PerHost
  BY <1>4, <1>5, <1>6, HttpFetchAssumption
<1>8. free' \in [Hosts -> 0..PerHost]
  BY <1>1, <1>2, <1>7
<1>9. ASSUME NEW h \in limited PROVE free'[h] + Cardinality(InFlight(h)') = PerHost
  <2>1. h \in Hosts /\ free[h] + Cardinality(InFlight(h)) = PerHost
    BY DEF HttpInv, SlotsOK
  <2>2. CASE h = host[w]
    <3>1. free'[h] = free[h] + 1
      BY <1>1, <1>2, <2>2
    <3>2. Cardinality(InFlight(h)') = Cardinality(InFlight(h)) - 1
      BY <1>4, <2>2
    <3> QED
      BY <1>5, <1>6, <2>1, <2>2, <3>1, <3>2, HttpFetchAssumption
  <2>3. CASE h # host[w]
    <3>1. InFlight(h)' = InFlight(h)
      BY <1>1, <2>3 DEF InFlight
    <3> QED
      BY <1>1, <1>2, <2>1, <2>3, <3>1
  <2> QED
    BY <2>2, <2>3
<1>10. \A v \in Workers : pc'[v] \in {"waiting", "sending"} => host'[v] \in limited
  BY <1>1, <1>2 DEF HttpInv, SlotsOK
<1> QED
  BY <1>1, <1>2, <1>8, <1>9, <1>10 DEF HttpInv, SlotsOK

LEMMA SlotsStep == HttpInv /\ [Next]_vars => SlotsOK'
<1> SUFFICES ASSUME HttpInv, [Next]_vars PROVE SlotsOK'
  OBVIOUS
<1>1. CASE Submit \/ Collect \/ UNCHANGED vars
  <2>1. UNCHANGED <<pc, host, limited, free>>
    BY <1>1 DEF Submit, Collect, vars, call, limiters
  <2>2. \A h : InFlight(h)' = InFlight(h)
    BY <2>1 DEF InFlight
  <2> QED
    BY <2>1, <2>2 DEF HttpInv, SlotsOK
<1>2. ASSUME NEW w \in Workers, Take(w) \/ GetText(w) \/ Decode(w) \/ GiveUp(w) \/ Sleep(w)
      PROVE  SlotsOK'
  <2>1. /\ pc[w] # "sending" /\ UNCHANGED limiters
        /\ \A v \in Workers \ {w} : host'[v] = host[v]
    BY <1>2 DEF Take, GetText, Decode, GiveUp, Sleep, call, HttpInv, WorkersOK
  <2>2. \E to \in Steps \ {"waiting", "sending"} : Goto(w, to)
    BY <1>2 DEF Take, GetText, Decode, GiveUp, Sleep, Steps
  <2> QED
    BY <2>1, <2>2, SlotsStay
<1>3. ASSUME NEW w \in Workers, Found(w) \/ Raise(w) \/ Wake(w) PROVE SlotsOK'
  <2>1. /\ pc[w] # "sending" /\ UNCHANGED limiters
        /\ \A v \in Workers \ {w} : host'[v] = host[v]
    BY <1>3 DEF Found, Raise, Return, Wake, HttpInv, WorkersOK
  <2>2. \E to \in Steps \ {"waiting", "sending"} : Goto(w, to)
    BY <1>3 DEF Found, Raise, Return, Wake, Steps
  <2> QED
    BY <2>1, <2>2, SlotsStay
<1> QED
  BY <1>1, <1>2, <1>3, SlotsMade, SlotTaken, SlotReturned DEF Next, Work

-----------------------------------------------------------------------------
LEMMA HttpInvariant == Spec => []HttpInv
<1>1. HttpInv /\ [Next]_vars => HttpInv'
  BY PoolStep, WorkersStep, SlotsStep DEF HttpInv
<1> QED
  BY <1>1, HttpInvInit, PTL DEF Spec

(* The pool's, the workers' and the semaphores' variables keep their types. *)
THEOREM HttpFetchTypeCorrect == Spec => []TypeOK
<1>1. HttpInv => TypeOK
  BY DEF HttpInv, PoolOK, WorkersOK, SlotsOK, TypeOK
<1> QED
  BY <1>1, HttpInvariant, PTL

(* A host's slots and the requests to it add up to its limit.              *)
THEOREM SlotsAlwaysMatch == Spec => []SlotsMatchRequests
<1>1. HttpInv => SlotsMatchRequests
  BY DEF HttpInv, SlotsOK, SlotsMatchRequests
<1> QED
  BY <1>1, HttpInvariant, PTL

(* get_text returns or raises in its loop, for any number of retries.      *)
THEOREM LoopDecides == Spec => []LoopNeverExhausted
<1>1. HttpInv => LoopNeverExhausted
  BY DEF HttpInv, WorkersOK, LoopNeverExhausted
<1> QED
  BY <1>1, HttpInvariant, PTL

(* Each entry is beside its own result when they are zipped.               *)
THEOREM ResultsStayAligned == Spec => []ResultsAligned
<1>1. HttpInv => ResultsAligned
  BY HttpFetchAssumption DEF HttpInv, PoolOK, ResultsAligned, Entries
<1> QED
  BY <1>1, HttpInvariant, PTL
=============================================================================
