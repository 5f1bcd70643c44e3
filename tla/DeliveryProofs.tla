--------------------------- MODULE DeliveryProofs ---------------------------
(***************************************************************************)
(* Proofs about module Delivery, for any works, keys, backends, failure    *)
(* bound and number of jobs: its types, and the well-formedness of the     *)
(* pending daily messages.  Then, for one job at a time, that an outbox    *)
(* entry is struck only once it is acknowledged, that what is announced is *)
(* on record, that a run without errors has delivered all it had, and that *)
(* the daily messages are sent in the order in which they were stored.     *)
(***************************************************************************)
EXTENDS Delivery, TLAPS, SequenceTheorems

(* Counting a failure, or none, keeps within the bound. *)
LEMMA FaultTyped == TypeOK /\ (Fault \/ NoFault) => faults' \in 0..MaxFaults
  BY DeliveryAssumption DEF TypeOK, Fault, NoFault

(* What a save leaves, whichever way it goes: the document it was given or *)
(* the old one, and the job at one of its two next steps.                  *)
LEMMA SaveTyped ==
  ASSUME TypeOK, NEW j \in Jobs, NEW doc \in Document,
         NEW next \in Steps, NEW failed \in Steps, Save(j, doc, next, failed)
  PROVE  /\ store' \in Document
         /\ store' \in {store, doc}
         /\ pc' \in [Jobs -> Steps]
         /\ bad' \in [Jobs -> BOOLEAN]
         /\ faults' \in 0..MaxFaults
<1>1. store' \in {store, doc}
  BY DEF Save
<1>2. pc' \in [Jobs -> Steps]
  BY DEF Save, Goto, TypeOK
<1>3. bad' \in [Jobs -> BOOLEAN]
  BY DEF Save, Spoil, TypeOK
<1>4. faults' \in 0..MaxFaults
  <2>1. Fault \/ NoFault
    BY DEF Save
  <2> QED
    BY <2>1, FaultTyped
<1> QED
  BY <1>1, <1>2, <1>3, <1>4 DEF TypeOK

(* A job that forgets everything is typed. *)
LEMMA ForgetTyped ==
  ASSUME TypeOK, NEW j \in Jobs, Forget(j)
  PROVE  /\ pc' \in [Jobs -> Steps]
         /\ mem' \in [Jobs -> Document]
         /\ usable' \in [Jobs -> BOOLEAN]
         /\ backends' \in [Jobs -> SUBSET Backends]
         /\ notify' \in [Jobs -> SUBSET Event]
         /\ todo' \in [Jobs -> SUBSET Target]
         /\ bad' \in [Jobs -> BOOLEAN]
<1>1. EmptyDocument \in Document
  BY EmptySeq DEF EmptyDocument, Document
<1>2. pc' \in [Jobs -> Steps] /\ usable' \in [Jobs -> BOOLEAN] /\ bad' \in [Jobs -> BOOLEAN]
  BY DEF Forget, Goto, TypeOK, Steps
<1>3. mem' \in [Jobs -> Document]
  BY <1>1 DEF Forget, SetMem, TypeOK
<1>4. backends' \in [Jobs -> SUBSET Backends] /\ notify' \in [Jobs -> SUBSET Event]
  BY DEF Forget, TypeOK
<1>5. todo' \in [Jobs -> SUBSET Target]
  BY DEF Forget, TypeOK
<1> QED
  BY <1>2, <1>3, <1>4, <1>5

(* Enqueueing keeps the outbox typed. *)
LEMMA EnqueuedTyped ==
  ASSUME NEW doc \in Document, NEW events, NEW names \in SUBSET Backends
  PROVE  [doc EXCEPT !.outbox = Enqueued(doc.outbox, events, names)] \in Document
<1>1. Enqueued(doc.outbox, events, names) \in [Event -> SUBSET Backends]
  BY DEF Enqueued, Document
<1> QED
  BY <1>1 DEF Document

(* Appending a message keeps the document typed. *)
LEMMA AppendTyped ==
  ASSUME NEW doc \in Document, NEW message \in SUBSET Event
  PROVE  [doc EXCEPT !.daily = Append(doc.daily, message)] \in Document
<1>1. Append(doc.daily, message) \in Seq(SUBSET Event)
  BY AppendProperties DEF Document
<1> QED
  BY <1>1 DEF Document

(* So does delivering the first message. *)
LEMMA DeliverTyped ==
  ASSUME NEW doc \in Document, doc.daily # <<>>
  PROVE  [doc EXCEPT !.daily = Tail(doc.daily),
                     !.delivered = Delivered(doc, Head(doc.daily))] \in Document
<1>1. Tail(doc.daily) \in Seq(SUBSET Event)
  BY HeadTailProperties DEF Document
<1>2. Delivered(doc, Head(doc.daily)) \in [Works -> Keys \cup {NoKey}]
  BY DEF Delivered, Document
<1> QED
  BY <1>1, <1>2 DEF Document

-----------------------------------------------------------------------------
(* SendDaily takes the head of the queue: there is one. *)
DailyPending == \A j \in Jobs : pc[j] = "sendDaily" => mem[j].daily # <<>>

(* Types are kept by every step. *)
LEMMA TypeStep == TypeOK /\ DailyPending /\ [Next]_vars => TypeOK'
<1> SUFFICES ASSUME TypeOK, DailyPending, [Next]_vars PROVE TypeOK'
  OBVIOUS
<1> USE DEF history
<1>a. EmptyDocument \in Document
  BY EmptySeq DEF EmptyDocument, Document
<1>1. CASE UNCHANGED vars
  BY <1>1 DEF TypeOK, vars
<1>2. ASSUME NEW j \in Jobs, StartRun(j) PROVE TypeOK'
  <2>1. backends' \in [Jobs -> SUBSET Backends]
    BY <1>2, DeliveryAssumption DEF StartRun, TypeOK
  <2>2. mem' \in [Jobs -> Document]
    BY <1>2 DEF StartRun, SetMem, TypeOK
  <2>3. pc' \in [Jobs -> Steps]
    BY <1>2 DEF StartRun, Goto, TypeOK, Steps
  <2>4. bad' \in [Jobs -> BOOLEAN]
    BY <1>2 DEF StartRun, Spoil, TypeOK
  <2>5. Fault \/ NoFault
    BY <1>2 DEF StartRun
  <2> QED
    BY <1>2, <2>1, <2>2, <2>3, <2>4, <2>5, FaultTyped DEF StartRun, TypeOK
<1>3. ASSUME NEW j \in Jobs, Fetch(j) PROVE TypeOK'
  <2>1. PICK seen \in [Works -> Keys \cup {NoKey}] :
          LET failed == {w \in Works : seen[w] = NoKey}
              old == mem[j].latest
              changed == {w \in Works \ failed : old[w] \notin {NoKey, seen[w]}}
          IN /\ IF failed = {} THEN NoFault /\ UNCHANGED bad ELSE Fault /\ Spoil(j)
             /\ SetMem(j, [mem[j] EXCEPT !.latest =
                            [w \in Works |-> IF w \in failed THEN old[w] ELSE seen[w]]])
             /\ notify' = [notify EXCEPT ![j] =
                            {<<w, seen[w]>> : w \in changed} \ Suppressed]
    BY <1>3 DEF Fetch
  <2> DEFINE failed == {w \in Works : seen[w] = NoKey}
             latest == [w \in Works |-> IF w \in failed THEN mem[j].latest[w] ELSE seen[w]]
             changed == {w \in Works \ failed : mem[j].latest[w] \notin {NoKey, seen[w]}}
             events == {<<w, seen[w]>> : w \in changed}
  <2>2. mem[j] \in Document
    BY DEF TypeOK
  <2>3. latest \in [Works -> Keys \cup {NoKey}]
    BY <2>2 DEF Document
  <2>4. mem' = [mem EXCEPT ![j] = [mem[j] EXCEPT !.latest = latest]]
    BY <2>1 DEF SetMem
  <2>5. [mem[j] EXCEPT !.latest = latest] \in Document
    <3> HIDE DEF latest
    <3> QED BY <2>2, <2>3 DEF Document
  <2>6. mem' \in [Jobs -> Document]
    <3> HIDE DEF latest
    <3> QED BY <2>4, <2>5 DEF TypeOK
  <2>7. events \in SUBSET Event
    BY DEF Event
  <2>8. notify' \in [Jobs -> SUBSET Event]
    <3>1. notify' = [notify EXCEPT ![j] = events \ Suppressed]
      BY <2>1
    <3> HIDE DEF events
    <3> QED BY <3>1, <2>7 DEF TypeOK
  <2>9. bad' \in [Jobs -> BOOLEAN] /\ (Fault \/ NoFault)
    BY <2>1 DEF Spoil, TypeOK
  <2>10. pc' \in [Jobs -> Steps]
    BY <1>3 DEF Fetch, Goto, TypeOK, Steps
  <2>11. UNCHANGED <<store, usable, backends, todo, acked, shown>>
    BY <1>3 DEF Fetch
  <2> QED
    BY <2>6, <2>8, <2>9, <2>10, <2>11, FaultTyped DEF TypeOK
<1>4. ASSUME NEW j \in Jobs, Record(j) PROVE TypeOK'
  <2>1. Save(j, mem[j], "reload", "report") /\ mem[j] \in Document
    BY <1>4 DEF Record, TypeOK
  <2> QED
    BY <1>4, <2>1, SaveTyped DEF Record, TypeOK, Steps
<1>5. ASSUME NEW j \in Jobs, Reload(j) PROVE TypeOK'
  <2>1. mem' \in [Jobs -> Document]
    BY <1>5, <1>a DEF Reload, SetMem, TypeOK
  <2>2. pc' \in [Jobs -> Steps]
    BY <1>5 DEF Reload, Goto, TypeOK, Steps
  <2>3. bad' \in [Jobs -> BOOLEAN] /\ usable' \in [Jobs -> BOOLEAN]
    BY <1>5 DEF Reload, Spoil, TypeOK
  <2>4. Fault \/ NoFault
    BY <1>5 DEF Reload
  <2> QED
    BY <1>5, <2>1, <2>2, <2>3, <2>4, FaultTyped DEF Reload, TypeOK
<1>6. ASSUME NEW j \in Jobs, Enqueue(j) PROVE TypeOK'
  <2> DEFINE new == {e \in notify[j] : mem[j].outbox[e] = {}}
             doc == [mem[j] EXCEPT !.outbox = Enqueued(mem[j].outbox, new, backends[j])]
  <2>1. /\ mem' = [mem EXCEPT ![j] = doc]
        /\ todo' = [todo EXCEPT ![j] = Unsent(doc)]
        /\ acked' = acked \ (new \X Backends)
        /\ \/ Save(j, doc, "send", "daily")
           \/ /\ pc' = [pc EXCEPT ![j] = IF Unsent(doc) = {} THEN "daily" ELSE "send"]
              /\ UNCHANGED <<faults, store, bad>>
        /\ UNCHANGED <<usable, backends, notify, shown>>
    BY <1>6 DEF Enqueue, SetMem, Goto, NoFault
  <2>2. doc \in Document
    BY EnqueuedTyped DEF TypeOK
  <2> HIDE DEF doc, new
  <2>3. Unsent(doc) \in SUBSET Target
    BY DEF Unsent
  <2>4. mem' \in [Jobs -> Document] /\ todo' \in [Jobs -> SUBSET Target] /\ acked' \in SUBSET Target
    BY <2>1, <2>2, <2>3 DEF TypeOK
  <2>5. CASE Save(j, doc, "send", "daily")
    BY <2>1, <2>2, <2>4, <2>5, SaveTyped DEF TypeOK, Steps
  <2>6. CASE /\ pc' = [pc EXCEPT ![j] = IF Unsent(doc) = {} THEN "daily" ELSE "send"]
             /\ UNCHANGED <<faults, store, bad>>
    <3>1. pc' \in [Jobs -> Steps]
      BY <2>6 DEF TypeOK, Steps
    <3> QED
      BY <3>1, <2>1, <2>4, <2>6 DEF TypeOK
  <2> QED
    BY <2>1, <2>5, <2>6
<1>7. ASSUME NEW j \in Jobs, StartReplay(j) PROVE TypeOK'
  <2>1. backends' \in [Jobs -> SUBSET Backends]
    BY <1>7, DeliveryAssumption DEF StartReplay, TypeOK
  <2>2. mem' \in [Jobs -> Document]
    BY <1>7 DEF StartReplay, SetMem, TypeOK
  <2>3. Unsent(store) \in SUBSET Target
    BY DEF Unsent
  <2>4. todo' \in [Jobs -> SUBSET Target]
    BY <1>7, <2>3 DEF StartReplay, TypeOK
  <2>5. pc' \in [Jobs -> Steps]
    BY <1>7 DEF StartReplay, Goto, TypeOK, Steps
  <2> QED
    BY <1>7, <2>1, <2>2, <2>4, <2>5 DEF StartReplay, TypeOK, NoFault
<1>8. ASSUME NEW j \in Jobs, Send(j) PROVE TypeOK'
  <2>1. PICK p \in todo[j] :
       /\ todo' = [todo EXCEPT ![j] = @ \ {p}]
       /\ \/ NoFault /\ Spoil(j) /\ UNCHANGED <<mem, acked>>
          \/ /\ acked' = acked \cup {p}
             /\ mem' = [mem EXCEPT ![j].outbox[p[1]] = @ \ {p[2]}]
             /\ NoFault
             /\ UNCHANGED bad
          \/ /\ acked' \in {acked, acked \cup {p}}
             /\ Fault
             /\ Spoil(j)
             /\ UNCHANGED mem
    BY <1>8 DEF Send
  <2>2. p \in Target /\ p[1] \in Event /\ mem[j] \in Document
    BY <2>1 DEF TypeOK, Target
  <2>3. todo' \in [Jobs -> SUBSET Target] /\ acked' \in SUBSET Target
    BY <2>1, <2>2 DEF TypeOK
  <2>4. bad' \in [Jobs -> BOOLEAN] /\ (Fault \/ NoFault)
    BY <2>1 DEF Spoil, TypeOK
  <2>5. [mem[j].outbox EXCEPT ![p[1]] = @ \ {p[2]}] \in [Event -> SUBSET Backends]
    BY <2>2 DEF Document
  <2>6. [mem[j] EXCEPT !.outbox[p[1]] = @ \ {p[2]}] \in Document
    BY <2>2, <2>5 DEF Document
  <2>7. mem' \in [Jobs -> Document]
    BY <2>1, <2>6 DEF TypeOK
  <2> QED
    BY <1>8, <2>3, <2>4, <2>7, FaultTyped DEF Send, TypeOK
<1>9. ASSUME NEW j \in Jobs, SaveOutbox(j) PROVE TypeOK'
  <2>1. Save(j, mem[j], "daily", "daily") /\ mem[j] \in Document
    BY <1>9 DEF SaveOutbox, TypeOK
  <2> QED
    BY <1>9, <2>1, SaveTyped DEF SaveOutbox, TypeOK, Steps
<1>10. ASSUME NEW j \in Jobs, SaveReplay(j) PROVE TypeOK'
  <2>1. store' \in Document /\ (Fault \/ NoFault)
    BY <1>10 DEF SaveReplay, TypeOK
  <2> QED
    BY <1>10, <2>1, ForgetTyped, FaultTyped DEF SaveReplay, TypeOK
<1>11. ASSUME NEW j \in Jobs, Daily(j) PROVE TypeOK'
  <2>1. PICK visible \in {notify[j], {e \in notify[j] : e[1] \notin Hidden}} :
       LET message == NewMessage(mem[j], visible)
           doc == [mem[j] EXCEPT !.daily = Append(mem[j].daily, message)]
       IN IF message # {}
          THEN SetMem(j, doc) /\ Save(j, doc, "sendDaily", "report")
          ELSE /\ Goto(j, IF mem[j].daily = <<>> THEN "report" ELSE "sendDaily")
               /\ NoFault
               /\ UNCHANGED <<mem, store, bad>>
    BY <1>11 DEF Daily
  <2> DEFINE message == NewMessage(mem[j], visible)
             doc == [mem[j] EXCEPT !.daily = Append(mem[j].daily, message)]
  <2>2. message \in SUBSET Event
    BY <2>1 DEF NewMessage, TypeOK
  <2>3. doc \in Document
    <3> HIDE DEF message
    <3> QED BY <2>2, AppendTyped DEF TypeOK
  <2>4. CASE message # {}
    <3>1. mem' = [mem EXCEPT ![j] = doc] /\ Save(j, doc, "sendDaily", "report")
      BY <2>1, <2>4 DEF SetMem
    <3> HIDE DEF doc, message
    <3>2. mem' \in [Jobs -> Document]
      BY <3>1, <2>3 DEF TypeOK
    <3> QED
      BY <1>11, <3>1, <3>2, <2>3, SaveTyped DEF Daily, TypeOK, Steps
  <2>5. CASE message = {}
    <3>1. /\ pc' = [pc EXCEPT ![j] = IF mem[j].daily = <<>> THEN "report" ELSE "sendDaily"]
          /\ UNCHANGED <<faults, mem, store, bad>>
      BY <2>1, <2>5 DEF Goto, NoFault
    <3>2. pc' \in [Jobs -> Steps]
      BY <3>1 DEF TypeOK, Steps
    <3> QED
      BY <1>11, <3>1, <3>2 DEF Daily, TypeOK
  <2> QED
    BY <2>4, <2>5
<1>12. ASSUME NEW j \in Jobs, SendDaily(j) PROVE TypeOK'
  <2>0. mem[j].daily # <<>>
    BY <1>12 DEF SendDaily, DailyPending
  <2> DEFINE first == Head(mem[j].daily)
             doc == [mem[j] EXCEPT !.daily = Tail(mem[j].daily),
                                   !.delivered = Delivered(mem[j], first)]
  <2>1. doc \in Document
    BY <2>0, DeliverTyped DEF TypeOK
  <2>2. mem' \in {mem, [mem EXCEPT ![j] = doc]}
    BY <1>12 DEF SendDaily, SetMem
  <2>3. mem' \in [Jobs -> Document]
    <3> HIDE DEF doc
    <3> QED BY <2>1, <2>2 DEF TypeOK
  <2>4. shown' \in [Event -> 0..2]
    <3>1. Show(first) \/ UNCHANGED shown
      BY <1>12 DEF SendDaily
    <3>2. ASSUME Show(first) PROVE shown' \in [Event -> 0..2]
      BY <3>2 DEF Show, TypeOK
    <3> QED BY <3>1, <3>2 DEF TypeOK
  <2>5. pc' \in [Jobs -> Steps] /\ bad' \in [Jobs -> BOOLEAN] /\ (Fault \/ NoFault)
    BY <1>12 DEF SendDaily, Goto, Spoil, TypeOK, Steps
  <2> QED
    BY <1>12, <2>3, <2>4, <2>5, FaultTyped DEF SendDaily, TypeOK
<1>13. ASSUME NEW j \in Jobs, SaveDaily(j) PROVE TypeOK'
  <2>1. Save(j, mem[j], "report", "report") /\ mem[j] \in Document
    BY <1>13 DEF SaveDaily, TypeOK
  <2> QED
    BY <1>13, <2>1, SaveTyped DEF SaveDaily, TypeOK, Steps
<1>14. ASSUME NEW j \in Jobs, Report(j) PROVE TypeOK'
  BY <1>14, ForgetTyped DEF Report, NoFault, TypeOK
<1>15. ASSUME NEW j \in Jobs, Crash(j) PROVE TypeOK'
  BY <1>15, ForgetTyped, FaultTyped DEF Crash, TypeOK
<1> QED
  BY <1>1, <1>2, <1>3, <1>4, <1>5, <1>6, <1>7, <1>8, <1>9, <1>10, <1>11, <1>12,
     <1>13, <1>14, <1>15 DEF Next, Step

-----------------------------------------------------------------------------
(* What the operations on a document do to its daily queue.                *)

(* The empty document is well queued. *)
LEMMA EmptyQueue == WellQueued(EmptyDocument)
  BY DEF WellQueued, EmptyDocument

(* Only the two fields of the daily notification count. *)
LEMMA SameQueue ==
  ASSUME NEW old, NEW new, WellQueued(old),
         new.daily = old.daily, new.delivered = old.delivered
  PROVE  WellQueued(new)
  BY DEF WellQueued

(* A new message of updates with one key per work fits the queue. *)
LEMMA AppendQueue ==
  ASSUME NEW doc \in Document, WellQueued(doc),
         NEW updates \in SUBSET Event, OneKeyPerWork(updates),
         NEW message, message = NewMessage(doc, updates), message # {}
  PROVE  WellQueued([doc EXCEPT !.daily = Append(doc.daily, message)])
<1> DEFINE n == Len(doc.daily)
           queue == Append(doc.daily, message)
<1>1. /\ doc.daily \in Seq(SUBSET Event)
      /\ n \in Nat
      /\ DOMAIN doc.daily = 1..n
  BY LenProperties DEF Document
<1>2. message \in SUBSET Event
  BY DEF NewMessage
<1>3. /\ DOMAIN queue = 1..(n + 1)
      /\ \A i \in 1..n : queue[i] = doc.daily[i]
      /\ queue[n + 1] = message
  BY <1>1, <1>2, AppendProperties
<1>4. /\ OneKeyPerWork(message)
      /\ \A e \in message : doc.delivered[e[1]] # e[2]
  BY DEF NewMessage, OneKeyPerWork
<1>5. \A i \in 1..n : doc.daily[i] \cap message = {}
  BY <1>1 DEF NewMessage, PendingKeys
<1>6. \A i \in DOMAIN queue :
        /\ queue[i] # {}
        /\ OneKeyPerWork(queue[i])
        /\ \A e \in queue[i] : doc.delivered[e[1]] # e[2]
  <2>1. \A i \in 1..(n + 1) : i \in 1..n \/ i = n + 1
    BY <1>1
  <2>2. \A i \in 1..n : /\ queue[i] # {}
                        /\ OneKeyPerWork(queue[i])
                        /\ \A e \in queue[i] : doc.delivered[e[1]] # e[2]
    BY <1>1, <1>3 DEF WellQueued
  <2> QED
    BY <1>3, <1>4, <2>1, <2>2
<1>7. \A i, k \in DOMAIN queue : i # k => queue[i] \cap queue[k] = {}
  <2>1. \A i, k \in 1..n : i # k => queue[i] \cap queue[k] = {}
    BY <1>1, <1>3 DEF WellQueued
  <2>2. \A i \in 1..n : queue[i] \cap queue[n + 1] = {} /\ queue[n + 1] \cap queue[i] = {}
    BY <1>3, <1>5
  <2>3. \A i \in 1..(n + 1) : i \in 1..n \/ i = n + 1
    BY <1>1
  <2> HIDE DEF queue, n
  <2> QED
    BY <1>3, <2>1, <2>2, <2>3
<1>8. /\ [doc EXCEPT !.daily = queue].daily = queue
      /\ [doc EXCEPT !.daily = queue].delivered = doc.delivered
  BY DEF Document
<1> QED
  <2> HIDE DEF queue
  <2>1. \A new : new.daily = queue /\ new.delivered = doc.delivered => WellQueued(new)
    BY <1>6, <1>7 DEF WellQueued
  <2> QED
    BY <1>8, <2>1 DEF queue

(* Delivering the first message leaves the rest of the queue well queued:  *)
(* none of its events can be one that was just delivered.                  *)
LEMMA DeliverQueue ==
  ASSUME NEW doc \in Document, WellQueued(doc), doc.daily # <<>>
  PROVE  WellQueued([doc EXCEPT !.daily = Tail(doc.daily),
                                !.delivered = Delivered(doc, Head(doc.daily))])
<1> DEFINE n == Len(doc.daily)
           rest == Tail(doc.daily)
           told == Delivered(doc, Head(doc.daily))
<1>1. /\ doc.daily \in Seq(SUBSET Event)
      /\ n \in Nat /\ n > 0
      /\ DOMAIN doc.daily = 1..n
      /\ Head(doc.daily) = doc.daily[1]
  BY LenProperties, HeadTailProperties, EmptySeq DEF Document
<1>2. /\ DOMAIN rest = 1..(n - 1)
      /\ \A i \in 1..(n - 1) : rest[i] = doc.daily[i + 1]
  BY <1>1, HeadTailProperties, LenProperties
<1>3. \A i \in DOMAIN rest : i + 1 \in DOMAIN doc.daily /\ i + 1 # 1
  BY <1>1, <1>2
<1>4. \A i \in DOMAIN rest :
        rest[i] # {} /\ OneKeyPerWork(rest[i]) /\ rest[i] \in SUBSET Event
  <2>1. \A i \in DOMAIN doc.daily :
          doc.daily[i] # {} /\ OneKeyPerWork(doc.daily[i]) /\ doc.daily[i] \in SUBSET Event
    BY <1>1 DEF WellQueued
  <2> QED
    BY <1>2, <1>3, <2>1
<1>5. \A i, k \in DOMAIN rest : i # k => rest[i] \cap rest[k] = {}
  <2>1. \A i, k \in DOMAIN rest : i # k => i + 1 # k + 1
    BY <1>2
  <2> QED
    BY <1>2, <1>3, <2>1 DEF WellQueued
<1>6. \A i \in DOMAIN rest : \A e \in rest[i] : told[e[1]] # e[2]
  <2> SUFFICES ASSUME NEW i \in DOMAIN rest, NEW e \in rest[i] PROVE told[e[1]] # e[2]
    OBVIOUS
  <2>1. e \in Event /\ e[1] \in Works /\ e[2] \in Keys /\ e = <<e[1], e[2]>>
    BY <1>4 DEF Event
  <2>2. e \notin doc.daily[1]
    <3>1. rest[i] \cap doc.daily[1] = {}
      BY <1>1, <1>2, <1>3 DEF WellQueued
    <3> QED BY <3>1
  <2>3. doc.delivered[e[1]] # e[2]
    BY <1>2, <1>3 DEF WellQueued
  <2>4. told[e[1]] = IF \E k \in Keys : <<e[1], k>> \in doc.daily[1]
                     THEN CHOOSE k \in Keys : <<e[1], k>> \in doc.daily[1]
                     ELSE doc.delivered[e[1]]
    BY <1>1, <2>1 DEF Delivered
  <2>5. CASE \E k \in Keys : <<e[1], k>> \in doc.daily[1]
    <3>1. <<e[1], told[e[1]]>> \in doc.daily[1]
      BY <2>4, <2>5
    <3> QED
      BY <3>1, <2>1, <2>2
  <2>6. CASE ~\E k \in Keys : <<e[1], k>> \in doc.daily[1]
    BY <2>3, <2>4, <2>6
  <2> QED
    BY <2>5, <2>6
<1>7. /\ [doc EXCEPT !.daily = rest, !.delivered = told].daily = rest
      /\ [doc EXCEPT !.daily = rest, !.delivered = told].delivered = told
  BY DEF Document
<1> QED
  <2> HIDE DEF rest, told
  <2>1. \A new : new.daily = rest /\ new.delivered = told => WellQueued(new)
    BY <1>4, <1>5, <1>6 DEF WellQueued
  <2> QED
    BY <1>7, <2>1 DEF rest, told

-----------------------------------------------------------------------------
(* The inductive invariant of the daily queue: besides the types and the   *)
(* property itself, that a job about to send has a message to send, and    *)
(* that the updates of a run name each work once.                          *)
OneUpdatePerWork == \A j \in Jobs : OneKeyPerWork(notify[j])

QueueInv == TypeOK /\ DailyPending /\ OneUpdatePerWork /\ DailyQueueUnique

(* A step of one job that leaves its copy well queued, and stores nothing  *)
(* but that copy, keeps every document well queued.                        *)
LEMMA OneCopyChanges ==
  ASSUME DailyQueueUnique, NEW j \in Jobs, WellQueued(mem'[j]),
         \A i \in Jobs \ {j} : mem'[i] = mem[i],
         store' \in {store, mem[j], mem'[j]}
  PROVE  DailyQueueUnique'
<1>1. \A i \in Jobs : WellQueued(mem'[i])
  BY DEF DailyQueueUnique
<1>2. WellQueued(store')
  BY DEF DailyQueueUnique
<1> QED
  BY <1>1, <1>2 DEF DailyQueueUnique, WellQueued, OneKeyPerWork

(* Every step keeps the queue of every document well formed. *)
LEMMA QueueStep == QueueInv /\ [Next]_vars => DailyQueueUnique'
<1> SUFFICES ASSUME QueueInv, [Next]_vars PROVE DailyQueueUnique'
  OBVIOUS
<1> USE DEF QueueInv
<1>a. ASSUME NEW j \in Jobs, NEW doc \in Document, mem' = [mem EXCEPT ![j] = doc],
             WellQueued(doc), store' \in {store, mem[j], doc}
      PROVE  DailyQueueUnique'
  <2>1. mem'[j] = doc /\ \A i \in Jobs \ {j} : mem'[i] = mem[i]
    BY <1>a DEF TypeOK
  <2> QED
    BY <1>a, <2>1, OneCopyChanges
<1>b. ASSUME NEW j \in Jobs, mem' = mem, store' \in {store, mem[j]} PROVE DailyQueueUnique'
  <2>1. WellQueued(mem'[j])
    BY <1>b DEF DailyQueueUnique
  <2> QED
    BY <1>b, <2>1, OneCopyChanges
<1>c. ASSUME NEW j \in Jobs, NEW doc, mem' = [mem EXCEPT ![j] = doc], doc \in Document,
             doc.daily = mem[j].daily, doc.delivered = mem[j].delivered,
             store' \in {store, doc}
      PROVE  DailyQueueUnique'
  <2>1. WellQueued(doc)
    BY <1>c, SameQueue DEF DailyQueueUnique
  <2> QED
    BY <1>a, <1>c, <2>1
<1>d. EmptyDocument \in Document
  BY EmptySeq DEF EmptyDocument, Document
<1>e. ASSUME NEW j \in Jobs, Forget(j), store' \in {store, mem[j]} PROVE DailyQueueUnique'
  BY <1>a, <1>d, <1>e, EmptyQueue DEF Forget, SetMem
<1>1. CASE UNCHANGED vars
  BY <1>1 DEF DailyQueueUnique, WellQueued, OneKeyPerWork, vars
<1>2. ASSUME NEW j \in Jobs, StartRun(j) PROVE DailyQueueUnique'
  <2>1. mem' \in {mem, [mem EXCEPT ![j] = store]} /\ store' = store
    BY <1>2 DEF StartRun, SetMem
  <2> QED
    BY <1>a, <1>b, <2>1 DEF DailyQueueUnique, TypeOK
<1>3. ASSUME NEW j \in Jobs, Fetch(j) PROVE DailyQueueUnique'
  <2>1. PICK latest : mem' = [mem EXCEPT ![j] = [mem[j] EXCEPT !.latest = latest]]
    BY <1>3 DEF Fetch, SetMem
  <2>2. mem[j] \in Document /\ mem'[j] = [mem[j] EXCEPT !.latest = latest]
    BY <2>1 DEF TypeOK
  <2>3. mem'[j].daily = mem[j].daily /\ mem'[j].delivered = mem[j].delivered
    BY <2>2 DEF Document
  <2>4. WellQueued(mem'[j])
    BY <2>3, SameQueue DEF DailyQueueUnique
  <2>5. \A i \in Jobs \ {j} : mem'[i] = mem[i]
    BY <2>1 DEF TypeOK
  <2> QED
    BY <1>3, <2>4, <2>5, OneCopyChanges DEF Fetch
<1>4. ASSUME NEW j \in Jobs, Record(j) PROVE DailyQueueUnique'
  BY <1>4, <1>b DEF Record, Save
<1>5. ASSUME NEW j \in Jobs, Reload(j) PROVE DailyQueueUnique'
  <2>1. /\ mem' \in {[mem EXCEPT ![j] = store], [mem EXCEPT ![j] = EmptyDocument]}
        /\ store' = store
    BY <1>5 DEF Reload, SetMem
  <2> QED
    BY <1>a, <1>d, <2>1, EmptyQueue DEF DailyQueueUnique, TypeOK
<1>6. ASSUME NEW j \in Jobs, Enqueue(j) PROVE DailyQueueUnique'
  <2> DEFINE new == {e \in notify[j] : mem[j].outbox[e] = {}}
             doc == [mem[j] EXCEPT !.outbox = Enqueued(mem[j].outbox, new, backends[j])]
  <2>1. mem' = [mem EXCEPT ![j] = doc] /\ store' \in {store, doc}
    BY <1>6 DEF Enqueue, SetMem, Save
  <2>2. mem[j] \in Document
    BY DEF TypeOK
  <2>3. doc \in Document
    BY EnqueuedTyped DEF TypeOK
  <2>4. doc.daily = mem[j].daily /\ doc.delivered = mem[j].delivered
    BY <2>2 DEF Document
  <2> HIDE DEF doc
  <2> QED
    BY <1>c, <2>1, <2>3, <2>4
<1>7. ASSUME NEW j \in Jobs, StartReplay(j) PROVE DailyQueueUnique'
  BY <1>7, <1>a DEF StartReplay, SetMem, DailyQueueUnique, TypeOK
<1>8. ASSUME NEW j \in Jobs, Send(j) PROVE DailyQueueUnique'
  <2>1. PICK p \in todo[j] :
          mem' = mem \/ mem' = [mem EXCEPT ![j].outbox[p[1]] = @ \ {p[2]}]
    BY <1>8 DEF Send
  <2>2. store' = store
    BY <1>8 DEF Send
  <2>3. CASE mem' = [mem EXCEPT ![j].outbox[p[1]] = @ \ {p[2]}]
    <3>1. /\ mem[j] \in Document
          /\ mem'[j] = [mem[j] EXCEPT !.outbox[p[1]] = @ \ {p[2]}]
          /\ \A i \in Jobs \ {j} : mem'[i] = mem[i]
      BY <2>3 DEF TypeOK
    <3>2. mem'[j].daily = mem[j].daily /\ mem'[j].delivered = mem[j].delivered
      BY <3>1 DEF Document
    <3>3. WellQueued(mem'[j])
      BY <3>2, SameQueue DEF DailyQueueUnique
    <3> QED
      BY <2>2, <3>1, <3>3, OneCopyChanges
  <2> QED
    BY <1>b, <2>1, <2>2, <2>3
<1>9. ASSUME NEW j \in Jobs, SaveOutbox(j) PROVE DailyQueueUnique'
  BY <1>9, <1>b DEF SaveOutbox, Save
<1>10. ASSUME NEW j \in Jobs, SaveReplay(j) PROVE DailyQueueUnique'
  BY <1>10, <1>e DEF SaveReplay
<1>11. ASSUME NEW j \in Jobs, Daily(j) PROVE DailyQueueUnique'
  <2>1. PICK visible \in {notify[j], {e \in notify[j] : e[1] \notin Hidden}} :
       LET message == NewMessage(mem[j], visible)
           doc == [mem[j] EXCEPT !.daily = Append(mem[j].daily, message)]
       IN IF message # {}
          THEN SetMem(j, doc) /\ Save(j, doc, "sendDaily", "report")
          ELSE /\ Goto(j, IF mem[j].daily = <<>> THEN "report" ELSE "sendDaily")
               /\ NoFault
               /\ UNCHANGED <<mem, store, bad>>
    BY <1>11 DEF Daily
  <2> DEFINE message == NewMessage(mem[j], visible)
             doc == [mem[j] EXCEPT !.daily = Append(mem[j].daily, message)]
  <2>2. CASE message = {}
    BY <1>b, <2>1, <2>2
  <2>3. CASE message # {}
    <3>1. mem' = [mem EXCEPT ![j] = doc] /\ store' \in {store, doc}
      BY <2>1, <2>3 DEF SetMem, Save
    <3>2. visible \in SUBSET Event /\ OneKeyPerWork(visible)
      BY <2>1 DEF OneUpdatePerWork, OneKeyPerWork, TypeOK
    <3>3. mem[j] \in Document /\ WellQueued(mem[j]) /\ message \in SUBSET Event
      BY <3>2 DEF DailyQueueUnique, TypeOK, NewMessage
    <3>4. WellQueued(doc)
      BY <2>3, <3>2, <3>3, AppendQueue
    <3>5. doc \in Document
      <4> HIDE DEF message
      <4> QED BY <3>3, AppendTyped
    <3> HIDE DEF doc, message
    <3> QED
      BY <1>a, <3>1, <3>4, <3>5
  <2> QED
    BY <2>2, <2>3
<1>12. ASSUME NEW j \in Jobs, SendDaily(j) PROVE DailyQueueUnique'
  <2> DEFINE doc == [mem[j] EXCEPT !.daily = Tail(mem[j].daily),
                                   !.delivered = Delivered(mem[j], Head(mem[j].daily))]
  <2>1. mem' \in {mem, [mem EXCEPT ![j] = doc]} /\ store' = store
    BY <1>12 DEF SendDaily, SetMem
  <2>2. mem[j] \in Document /\ WellQueued(mem[j]) /\ mem[j].daily # <<>>
    BY <1>12 DEF TypeOK, DailyQueueUnique, DailyPending, SendDaily
  <2>3. doc \in Document /\ WellQueued(doc)
    BY <2>2, DeliverTyped, DeliverQueue
  <2> HIDE DEF doc
  <2> QED
    BY <1>a, <1>b, <2>1, <2>3
<1>13. ASSUME NEW j \in Jobs, SaveDaily(j) PROVE DailyQueueUnique'
  BY <1>13, <1>b DEF SaveDaily, Save
<1>14. ASSUME NEW j \in Jobs, Report(j) \/ Crash(j) PROVE DailyQueueUnique'
  BY <1>14, <1>e DEF Report, Crash
<1> QED
  BY <1>1, <1>2, <1>3, <1>4, <1>5, <1>6, <1>7, <1>8, <1>9, <1>10, <1>11, <1>12,
     <1>13, <1>14 DEF Next, Step

(* The updates of a run are built one per work, and kept until it ends. *)
LEMMA UpdatesStep == TypeOK /\ OneUpdatePerWork /\ [Next]_vars => OneUpdatePerWork'
<1> SUFFICES ASSUME TypeOK, OneUpdatePerWork, [Next]_vars PROVE OneUpdatePerWork'
  OBVIOUS
<1>1. CASE UNCHANGED notify
  BY <1>1 DEF OneUpdatePerWork, OneKeyPerWork
<1>2. ASSUME NEW j \in Jobs, Fetch(j) PROVE OneUpdatePerWork'
  <2>1. PICK seen \in [Works -> Keys \cup {NoKey}], changed \in SUBSET Works :
          notify' = [notify EXCEPT ![j] = {<<w, seen[w]>> : w \in changed} \ Suppressed]
    BY <1>2 DEF Fetch
  <2>2. OneKeyPerWork({<<w, seen[w]>> : w \in changed} \ Suppressed)
    BY DEF OneKeyPerWork
  <2>3. \A i \in Jobs : \/ notify'[i] = {<<w, seen[w]>> : w \in changed} \ Suppressed
                       \/ notify'[i] = notify[i]
    BY <2>1 DEF TypeOK
  <2>4. \A i \in Jobs : OneKeyPerWork(notify'[i])
    BY <2>2, <2>3 DEF OneUpdatePerWork
  <2> QED
    BY <2>4 DEF OneUpdatePerWork, OneKeyPerWork
<1>3. ASSUME NEW j \in Jobs, Forget(j) PROVE OneUpdatePerWork'
  <2>1. \A i \in Jobs : notify'[i] = {} \/ notify'[i] = notify[i]
    BY <1>3 DEF Forget, TypeOK
  <2>2. \A i \in Jobs : OneKeyPerWork(notify'[i])
    BY <2>1 DEF OneUpdatePerWork, OneKeyPerWork
  <2> QED
    BY <2>2 DEF OneUpdatePerWork, OneKeyPerWork
<1>4. \A j \in Jobs : StartRun(j) \/ Record(j) \/ Reload(j) \/ Enqueue(j) \/ StartReplay(j)
                       \/ Send(j) \/ SaveOutbox(j) \/ Daily(j) \/ SendDaily(j) \/ SaveDaily(j)
                     => UNCHANGED notify
  BY DEF StartRun, Record, Reload, Enqueue, StartReplay, Send, SaveOutbox, Daily,
         SendDaily, SaveDaily
<1> QED
  BY <1>1, <1>2, <1>3, <1>4 DEF Next, Step, SaveReplay, Report, Crash, vars

(* A job goes to or stays at sendDaily with a message to send only. *)
LEMMA PendingStep == TypeOK /\ DailyPending /\ [Next]_vars => DailyPending'
<1> SUFFICES ASSUME TypeOK, DailyPending, [Next]_vars,
                    NEW i \in Jobs, pc'[i] = "sendDaily"
             PROVE  mem'[i].daily # <<>>
  BY DEF DailyPending
<1>1. CASE pc'[i] = pc[i] /\ mem'[i] = mem[i]
  BY <1>1 DEF DailyPending
<1>2. ASSUME NEW j \in Jobs, StartRun(j) \/ StartReplay(j) \/ Step(j) \/ Crash(j), j # i
      PROVE  pc'[i] = pc[i] /\ mem'[i] = mem[i]
  <2>1. CASE StartRun(j) \/ StartReplay(j)
    BY <1>2, <2>1 DEF StartRun, StartReplay, Goto, SetMem, TypeOK
  <2>2. CASE Fetch(j) \/ Record(j) \/ Reload(j)
    BY <1>2, <2>2 DEF Fetch, Record, Reload, Save, Goto, SetMem, TypeOK
  <2>3. CASE Enqueue(j) \/ SaveOutbox(j)
    BY <1>2, <2>3 DEF Enqueue, SaveOutbox, Save, Goto, SetMem, TypeOK
  <2>4. CASE Send(j)
    BY <1>2, <2>4 DEF Send, TypeOK
  <2>5. CASE Daily(j) \/ SendDaily(j) \/ SaveDaily(j)
    BY <1>2, <2>5 DEF Daily, SendDaily, SaveDaily, Save, Goto, SetMem, TypeOK
  <2>6. CASE SaveReplay(j) \/ Report(j) \/ Crash(j)
    BY <1>2, <2>6 DEF SaveReplay, Report, Crash, Forget, Goto, SetMem, TypeOK
  <2> QED
    BY <1>2, <2>1, <2>2, <2>3, <2>4, <2>5, <2>6 DEF Step
<1>3. CASE StartRun(i) \/ StartReplay(i) \/ Crash(i)
  BY <1>3 DEF StartRun, StartReplay, Crash, Forget, Goto, TypeOK
<1>4. CASE Fetch(i) \/ Record(i) \/ Reload(i) \/ Enqueue(i) \/ SaveOutbox(i)
  BY <1>4 DEF Fetch, Record, Reload, Enqueue, SaveOutbox, Save, Goto, TypeOK
<1>5. CASE Send(i) \/ SaveReplay(i) \/ SaveDaily(i) \/ Report(i)
  BY <1>5 DEF Send, SaveReplay, SaveDaily, Report, Forget, Save, Goto, TypeOK
<1>6. CASE Daily(i)
  <2>1. PICK visible \in {notify[i], {e \in notify[i] : e[1] \notin Hidden}} :
       LET message == NewMessage(mem[i], visible)
           doc == [mem[i] EXCEPT !.daily = Append(mem[i].daily, message)]
       IN IF message # {}
          THEN SetMem(i, doc) /\ Save(i, doc, "sendDaily", "report")
          ELSE /\ Goto(i, IF mem[i].daily = <<>> THEN "report" ELSE "sendDaily")
               /\ NoFault
               /\ UNCHANGED <<mem, store, bad>>
    BY <1>6 DEF Daily
  <2> DEFINE message == NewMessage(mem[i], visible)
             doc == [mem[i] EXCEPT !.daily = Append(mem[i].daily, message)]
  <2>2. CASE message = {}
    BY <2>1, <2>2 DEF Goto, TypeOK
  <2>3. CASE message # {}
    <3>1. mem[i] \in Document /\ mem'[i] = doc
      BY <2>1, <2>3 DEF SetMem, TypeOK
    <3>2. doc.daily = Append(mem[i].daily, message)
      <4> HIDE DEF message
      <4> QED BY <3>1 DEF Document
    <3>3. message \in SUBSET Event /\ mem[i].daily \in Seq(SUBSET Event)
      BY <2>1, <3>1 DEF NewMessage, Document, TypeOK
    <3>4. Append(mem[i].daily, message) # <<>>
      <4> HIDE DEF message
      <4> QED BY <3>3, AppendProperties
    <3> QED
      BY <3>1, <3>2, <3>4
  <2> QED
    BY <2>2, <2>3
<1>7. CASE SendDaily(i)
  <2> DEFINE doc == [mem[i] EXCEPT !.daily = Tail(mem[i].daily),
                                   !.delivered = Delivered(mem[i], Head(mem[i].daily))]
  <2>1. mem[i] \in Document
    BY DEF TypeOK
  <2>2. doc.daily = Tail(mem[i].daily)
    BY <2>1 DEF Document
  <2>3. Tail(mem[i].daily) # <<>> /\ mem' = [mem EXCEPT ![i] = doc]
    BY <1>7 DEF SendDaily, Goto, SetMem, TypeOK
  <2> HIDE DEF doc
  <2> QED
    BY <2>2, <2>3 DEF TypeOK
<1> QED
  <2>1. CASE UNCHANGED vars
    BY <1>1, <2>1 DEF vars
  <2> QED
    BY <1>1, <1>2, <1>3, <1>4, <1>5, <1>6, <1>7, <2>1 DEF Next, Step

-----------------------------------------------------------------------------
(* The strengthened invariant holds in every behaviour. *)
LEMMA QueueInvariant == Spec => []QueueInv
<1>1. Init => QueueInv
  <2> SUFFICES ASSUME Init PROVE QueueInv
    OBVIOUS
  <2>1. EmptyDocument \in Document
    BY EmptySeq DEF EmptyDocument, Document
  <2>2. TypeOK
    BY <2>1, DeliveryAssumption DEF Init, TypeOK, Steps
  <2>3. DailyPending /\ OneUpdatePerWork
    BY DEF Init, DailyPending, OneUpdatePerWork, OneKeyPerWork
  <2>4. DailyQueueUnique
    BY EmptyQueue DEF Init, DailyQueueUnique
  <2> QED
    BY <2>2, <2>3, <2>4 DEF QueueInv
<1>2. QueueInv /\ [Next]_vars => QueueInv'
  BY TypeStep, PendingStep, UpdatesStep, QueueStep DEF QueueInv
<1> QED
  BY <1>1, <1>2, PTL DEF Spec

(* The variables keep their types: in particular every copy of the state   *)
(* document is one the storage layer would accept.                         *)
THEOREM DeliveryTypeCorrect == Spec => []TypeOK
  BY QueueInvariant, PTL DEF QueueInv

(* Whatever fails and however many jobs interleave, no document and no     *)
(* copy of one ever holds an event twice in its pending daily messages, or *)
(* one its work was last told of, or a message that is empty or names a    *)
(* work twice.                                                             *)
THEOREM DailyQueueStaysUnique == Spec => []DailyQueueUnique
  BY QueueInvariant, PTL DEF QueueInv

-----------------------------------------------------------------------------
(* One job at a time: what RunCoordinator gives the runs of one process,   *)
(* when no other process runs and nobody replays the outbox meanwhile.     *)
OneJob == \A i, k \in Jobs : i = k

(* Why an entry is not struck too early: a copy that may be saved misses a *)
(* stored pair only if the pair is acknowledged, and misses none until the *)
(* run has enqueued.  A copy that is not usable is never saved.            *)
Copies == {"fetch", "record", "enqueue"}
Saves == Copies \cup {"send", "replay", "daily", "sendDaily", "saveDaily"}

Struck(before, after, done) ==
  \A e \in Event : \A b \in before[e] \ after[e] : <<e, b>> \in done

CopyKept ==
  \A j \in Jobs :
    /\ pc[j] \in {"idle", "fetch", "record", "reload", "replay"} => usable[j]
    /\ usable[j] /\ pc[j] \in Copies => mem[j].outbox = store.outbox
    /\ usable[j] /\ pc[j] \in Saves => Struck(store.outbox, mem[j].outbox, acked)

(* An unchanged outbox lost nothing. *)
LEMMA NothingStruck ==
  ASSUME NEW outbox, NEW done PROVE Struck(outbox, outbox, done)
  BY DEF Struck

(* The step of the only job strikes acknowledged pairs only, and keeps the *)
(* invariant.                                                              *)
LEMMA OutboxStep ==
  ASSUME OneJob, TypeOK, CopyKept, [Next]_vars
  PROVE  CopyKept' /\ Struck(store.outbox, store'.outbox, acked')
<1> USE DEF history
<1>1. CASE UNCHANGED vars
  BY <1>1, NothingStruck DEF CopyKept, Struck, vars
<1>2. ASSUME NEW j \in Jobs, StartRun(j) \/ StartReplay(j) \/ Step(j) \/ Crash(j)
      PROVE  CopyKept' /\ Struck(store.outbox, store'.outbox, acked')
  <2>a. \A k \in Jobs : k = j
    BY DEF OneJob
  <2> DEFINE KeptAt(step, ok, copy, stored, done) ==
               /\ step \in {"idle", "fetch", "record", "reload", "replay"} => ok
               /\ ok /\ step \in Copies => copy = stored
               /\ ok /\ step \in Saves => Struck(stored, copy, done)
  <2>b. KeptAt(pc[j], usable[j], mem[j].outbox, store.outbox, acked)
    BY DEF CopyKept
  <2>c. KeptAt(pc'[j], usable'[j], mem'[j].outbox, store'.outbox, acked') => CopyKept'
    BY <2>a DEF CopyKept, Struck
  <2>d. mem[j] \in Document /\ store \in Document
    BY DEF TypeOK
  <2>e. EmptyDocument.outbox = [e \in Event |-> {}]
    BY DEF EmptyDocument
  <2> SUFFICES /\ KeptAt(pc'[j], usable'[j], mem'[j].outbox, store'.outbox, acked')
               /\ Struck(store.outbox, store'.outbox, acked')
    BY <2>c
  <2>1. CASE StartRun(j)
    <3>1. /\ store' = store /\ usable' = usable /\ acked' = acked /\ pc[j] = "idle"
          /\ \/ mem'[j] = store /\ pc'[j] = "fetch"
             \/ pc'[j] = "report"
      BY <2>1 DEF StartRun, SetMem, Goto, TypeOK
    <3> QED
      BY <2>b, <3>1, NothingStruck DEF Copies, Saves
  <2>2. CASE StartReplay(j)
    <3>1. /\ store' = store /\ usable' = usable /\ acked' = acked /\ pc[j] = "idle"
          /\ mem'[j] = store /\ pc'[j] = "replay"
      BY <2>2 DEF StartReplay, SetMem, Goto, TypeOK
    <3> QED
      BY <2>b, <3>1, NothingStruck DEF Copies, Saves
  <2>3. CASE Fetch(j)
    <3>1. PICK latest : mem' = [mem EXCEPT ![j] = [mem[j] EXCEPT !.latest = latest]]
      BY <2>3 DEF Fetch, SetMem
    <3>2. mem'[j].outbox = mem[j].outbox
      BY <3>1, <2>d DEF Document, TypeOK
    <3>3. /\ store' = store /\ usable' = usable /\ acked' = acked
          /\ pc[j] = "fetch" /\ pc'[j] = "record"
      BY <2>3 DEF Fetch, Goto, TypeOK
    <3> QED
      BY <2>b, <3>2, <3>3, NothingStruck DEF Copies, Saves
  <2>4. CASE Record(j)
    <3>1. /\ store' \in {store, mem[j]} /\ usable' = usable /\ acked' = acked
          /\ pc[j] = "record" /\ pc'[j] \in {"reload", "report"}
      BY <2>4 DEF Record, Save, Goto, TypeOK
    <3>2. store'.outbox = store.outbox
      BY <2>b, <3>1 DEF Copies
    <3> QED
      BY <2>b, <3>1, <3>2, NothingStruck DEF Copies, Saves
  <2>5. CASE Reload(j)
    <3>1. /\ store' = store /\ acked' = acked /\ pc'[j] = "enqueue"
          /\ \/ mem'[j] = store
             \/ ~usable'[j]
      BY <2>5 DEF Reload, SetMem, Goto, TypeOK
    <3> QED
      BY <3>1, NothingStruck DEF Copies, Saves
  <2>6. CASE Enqueue(j)
    <3> DEFINE new == {e \in notify[j] : mem[j].outbox[e] = {}}
               doc == [mem[j] EXCEPT !.outbox = Enqueued(mem[j].outbox, new, backends[j])]
    <3>1. /\ mem'[j] = doc /\ acked' = acked \ (new \X Backends) /\ usable' = usable
          /\ pc[j] = "enqueue" /\ pc'[j] \in {"send", "daily"}
          /\ store' = store \/ (usable[j] /\ store' = doc)
      BY <2>6 DEF Enqueue, SetMem, Save, Goto, TypeOK
    <3>2. doc.outbox = Enqueued(mem[j].outbox, new, backends[j])
      BY <2>d DEF Document
    <3>3. usable[j] => mem[j].outbox = store.outbox
      BY <2>b, <3>1 DEF Copies
    <3>4. \A e \in Event : mem[j].outbox[e] \subseteq doc.outbox[e]
      <4>1. \A e \in Event : doc.outbox[e] = IF e \in new THEN backends[j] ELSE mem[j].outbox[e]
        BY <3>2 DEF Enqueued
      <4>2. \A e \in new : mem[j].outbox[e] = {}
        OBVIOUS
      <4> HIDE DEF new, doc
      <4> QED BY <4>1, <4>2
    <3> HIDE DEF new, doc
    <3>5. CASE ~usable[j]
      BY <3>1, <3>5, NothingStruck
    <3>6. CASE usable[j]
      <4>1. Struck(store.outbox, doc.outbox, acked')
        BY <3>3, <3>4, <3>6 DEF Struck
      <4>2. Struck(doc.outbox, doc.outbox, acked') /\ Struck(store.outbox, store.outbox, acked')
        BY NothingStruck
      <4> QED
        BY <3>1, <3>6, <4>1, <4>2 DEF Copies, Saves
    <3> QED
      BY <3>5, <3>6
  <2>7. CASE Send(j)
    <3>1. PICK p \in todo[j] :
            \/ mem' = mem /\ acked' \in {acked, acked \cup {p}}
            \/ /\ mem' = [mem EXCEPT ![j].outbox[p[1]] = @ \ {p[2]}]
               /\ acked' = acked \cup {p}
      BY <2>7 DEF Send
    <3>2. /\ store' = store /\ usable' = usable
          /\ pc' = pc /\ pc[j] \in {"send", "replay"}
      BY <2>7 DEF Send
    <3>3. p \in Target /\ p[1] \in Event /\ p = <<p[1], p[2]>>
      BY DEF Target, TypeOK
    <3>4. usable[j] => Struck(store.outbox, mem'[j].outbox, acked')
      <4>1. CASE mem' = mem /\ acked' \in {acked, acked \cup {p}}
        BY <2>b, <3>2, <4>1 DEF Struck, Saves
      <4>2. CASE /\ mem' = [mem EXCEPT ![j].outbox[p[1]] = @ \ {p[2]}]
                 /\ acked' = acked \cup {p}
        <5>1. mem'[j].outbox = [mem[j].outbox EXCEPT ![p[1]] = @ \ {p[2]}]
          BY <2>d, <4>2 DEF Document, TypeOK
        <5>2. \A e \in Event : mem'[j].outbox[e] = IF e = p[1] THEN mem[j].outbox[e] \ {p[2]}
                                                              ELSE mem[j].outbox[e]
          BY <2>d, <3>3, <5>1 DEF Document
        <5>3. ASSUME usable[j], NEW e \in Event, NEW b \in store.outbox[e] \ mem'[j].outbox[e]
              PROVE  <<e, b>> \in acked'
          <6>1. CASE b \in mem[j].outbox[e]
            <7>1. e = p[1] /\ b = p[2]
              BY <5>2, <5>3, <6>1
            <7> QED BY <3>3, <4>2, <7>1
          <6>2. CASE b \notin mem[j].outbox[e]
            <7>1. <<e, b>> \in acked
              BY <2>b, <3>2, <5>3, <6>2 DEF Struck, Saves
            <7> QED BY <4>2, <7>1
          <6> QED BY <6>1, <6>2
        <5> QED
          BY <5>3 DEF Struck
      <4> QED
        BY <3>1, <4>1, <4>2
    <3> QED
      BY <2>b, <3>2, <3>4, NothingStruck DEF Copies, Saves
  <2>8. CASE SaveOutbox(j) \/ SaveDaily(j)
    <3>1. /\ mem' = mem /\ acked' = acked /\ usable' = usable
          /\ pc[j] \in {"send", "saveDaily"} /\ pc'[j] \in {"daily", "report"}
          /\ store' = store \/ (usable[j] /\ store' = mem[j])
      BY <2>8 DEF SaveOutbox, SaveDaily, Save, Goto, TypeOK
    <3> QED
      BY <2>b, <3>1, NothingStruck DEF Copies, Saves
  <2>9. CASE SaveReplay(j)
    <3>1. /\ store' \in {store, mem[j]} /\ acked' = acked
          /\ pc[j] = "replay" /\ pc'[j] = "idle" /\ usable'[j]
      BY <2>9 DEF SaveReplay, Forget, Goto, TypeOK
    <3> QED
      BY <2>b, <3>1, NothingStruck DEF Copies, Saves
  <2>10. CASE Daily(j)
    <3>1. PICK message : mem' = mem \/ mem' = [mem EXCEPT ![j] =
                                   [mem[j] EXCEPT !.daily = Append(mem[j].daily, message)]]
      BY <2>10 DEF Daily, SetMem
    <3>2. mem'[j].outbox = mem[j].outbox
      BY <3>1, <2>d DEF Document, TypeOK
    <3>3. /\ acked' = acked /\ usable' = usable
          /\ pc[j] = "daily" /\ pc'[j] \in {"sendDaily", "report"}
          /\ store' = store \/ (usable[j] /\ store' = mem'[j])
      BY <2>10 DEF Daily, SetMem, Save, Goto, TypeOK
    <3> QED
      BY <2>b, <3>2, <3>3, NothingStruck DEF Copies, Saves
  <2>11. CASE SendDaily(j)
    <3>1. PICK rest, told : mem' = mem \/ mem' = [mem EXCEPT ![j] =
                              [mem[j] EXCEPT !.daily = rest, !.delivered = told]]
      BY <2>11 DEF SendDaily, SetMem
    <3>2. mem'[j].outbox = mem[j].outbox
      BY ZenonT(30), <3>1, <2>d DEF Document, TypeOK
    <3>3. /\ store' = store /\ acked' = acked /\ usable' = usable
          /\ pc[j] = "sendDaily" /\ pc'[j] \in {"sendDaily", "saveDaily"}
      BY <2>11 DEF SendDaily, Goto, TypeOK
    <3> QED
      BY <2>b, <3>2, <3>3, NothingStruck DEF Copies, Saves
  <2>12. CASE Report(j) \/ Crash(j)
    <3>1. store' = store /\ acked' = acked /\ pc'[j] = "idle" /\ usable'[j]
      BY <2>12 DEF Report, Crash, Forget, Goto, TypeOK
    <3> QED
      BY <3>1, NothingStruck DEF Copies, Saves
  <2> QED
    BY <1>2, <2>1, <2>2, <2>3, <2>4, <2>5, <2>6, <2>7, <2>8, <2>9, <2>10, <2>11, <2>12
       DEF Step
<1> QED
  BY <1>1, <1>2 DEF Next

(* With one job at a time no entry leaves the stored outbox before its     *)
(* backend acknowledged the event, whatever fails, and whichever backends  *)
(* each process is configured with.                                        *)
THEOREM OutboxIsKept == ASSUME OneJob PROVE Spec => OutboxKept
<1>1. Init => CopyKept
  BY DEF Init, CopyKept, Copies, Saves, Struck
<1>2. TypeOK /\ CopyKept /\ [Next]_vars => CopyKept'
  BY OutboxStep
<1>3. TypeOK /\ CopyKept /\ [Next]_vars =>
        [\A e \in Event : \A b \in store.outbox[e] \ store'.outbox[e] :
           <<e, b>> \in acked']_vars
  BY OutboxStep DEF Struck
<1> QED
  BY <1>1, <1>2, <1>3, DeliveryTypeCorrect, PTL DEF Spec, OutboxKept

-----------------------------------------------------------------------------
(* What the steps of a job do to the fields of its copy.                   *)
LEMMA FetchEffect ==
  ASSUME TypeOK, NEW j \in Jobs, Fetch(j)
  PROVE  /\ pc[j] = "fetch" /\ pc'[j] = "record" /\ (bad[j] => bad'[j])
         /\ UNCHANGED <<store, usable, backends, todo, acked, shown>>
         /\ mem'[j].outbox = mem[j].outbox
         /\ mem'[j].daily = mem[j].daily
         /\ mem'[j].delivered = mem[j].delivered
         /\ \A e \in notify'[j] : mem'[j].latest[e[1]] = e[2]
<1>1. PICK seen \in [Works -> Keys \cup {NoKey}] :
        LET failed == {w \in Works : seen[w] = NoKey}
            old == mem[j].latest
            changed == {w \in Works \ failed : old[w] \notin {NoKey, seen[w]}}
        IN /\ IF failed = {} THEN NoFault /\ UNCHANGED bad ELSE Fault /\ Spoil(j)
           /\ SetMem(j, [mem[j] EXCEPT !.latest =
                          [w \in Works |-> IF w \in failed THEN old[w] ELSE seen[w]]])
           /\ notify' = [notify EXCEPT ![j] =
                          {<<w, seen[w]>> : w \in changed} \ Suppressed]
  BY DEF Fetch
<1> DEFINE failed == {w \in Works : seen[w] = NoKey}
           latest == [w \in Works |-> IF w \in failed THEN mem[j].latest[w] ELSE seen[w]]
           changed == {w \in Works \ failed : mem[j].latest[w] \notin {NoKey, seen[w]}}
<1>2. mem[j] \in Document
  BY DEF TypeOK
<1>3. mem'[j] = [mem[j] EXCEPT !.latest = latest]
  BY <1>1 DEF SetMem, TypeOK
<1>4. notify'[j] = {<<w, seen[w]>> : w \in changed} \ Suppressed
  BY <1>1 DEF TypeOK
<1>5. \A e \in notify'[j] : latest[e[1]] = e[2]
  BY <1>4
<1>6. bad[j] => bad'[j]
  BY <1>1 DEF Spoil, TypeOK
<1>7. /\ pc[j] = "fetch" /\ pc'[j] = "record"
      /\ UNCHANGED <<store, usable, backends, todo, acked, shown>>
  BY DEF Fetch, Goto, TypeOK, history
<1> HIDE DEF latest
<1>8. /\ mem'[j].outbox = mem[j].outbox
      /\ mem'[j].daily = mem[j].daily
      /\ mem'[j].delivered = mem[j].delivered
      /\ mem'[j].latest = latest
  BY <1>2, <1>3 DEF Document
<1> QED
  BY <1>5, <1>6, <1>7, <1>8

LEMMA EnqueueEffect ==
  ASSUME TypeOK, NEW j \in Jobs, Enqueue(j)
  PROVE  /\ pc[j] = "enqueue" /\ pc'[j] \in {"send", "daily"} /\ (bad[j] => bad'[j])
         /\ UNCHANGED <<usable, backends, notify, shown>>
         /\ mem'[j].latest = mem[j].latest
         /\ mem'[j].daily = mem[j].daily
         /\ mem'[j].delivered = mem[j].delivered
         /\ \A e \in Event :
              mem'[j].outbox[e] = IF e \in notify[j] /\ mem[j].outbox[e] = {} THEN backends[j]
                                                                           ELSE mem[j].outbox[e]
         /\ todo'[j] = Unsent(mem'[j])
         /\ store' = store \/ (usable[j] /\ store' = mem'[j])
         /\ pc'[j] = "daily" /\ ~bad'[j] => /\ Unsent(mem'[j]) = {} /\ store' = store
                                          /\ mem'[j].outbox = mem[j].outbox
<1> DEFINE new == {e \in notify[j] : mem[j].outbox[e] = {}}
           doc == [mem[j] EXCEPT !.outbox = Enqueued(mem[j].outbox, new, backends[j])]
<1>1. /\ SetMem(j, doc)
      /\ todo' = [todo EXCEPT ![j] = Unsent(doc)]
      /\ IF new # {} THEN Save(j, doc, "send", "daily")
         ELSE /\ Goto(j, IF Unsent(doc) = {} THEN "daily" ELSE "send")
              /\ NoFault
              /\ UNCHANGED <<store, bad>>
  BY DEF Enqueue
<1>2. pc[j] = "enqueue" /\ UNCHANGED <<usable, backends, notify, shown>>
  BY DEF Enqueue
<1>3. mem[j] \in Document
  BY DEF TypeOK
<1>4. /\ doc.outbox = Enqueued(mem[j].outbox, new, backends[j])
      /\ doc.latest = mem[j].latest
      /\ doc.daily = mem[j].daily
      /\ doc.delivered = mem[j].delivered
  BY <1>3 DEF Document
<1>5. \A e \in Event :
        doc.outbox[e] = IF e \in notify[j] /\ mem[j].outbox[e] = {} THEN backends[j]
                                                                     ELSE mem[j].outbox[e]
  BY <1>4 DEF Enqueued
<1>6. new = {} => doc.outbox = mem[j].outbox
  BY <1>3, <1>4 DEF Enqueued, Document
<1> HIDE DEF new, doc
<1>7. mem'[j] = doc /\ todo'[j] = Unsent(doc)
  BY <1>1 DEF SetMem, TypeOK
<1>8. /\ pc'[j] \in {"send", "daily"} /\ (bad[j] => bad'[j])
      /\ store' = store \/ (usable[j] /\ store' = doc)
      /\ pc'[j] = "daily" /\ ~bad'[j] => Unsent(doc) = {} /\ store' = store /\ new = {}
  BY <1>1 DEF Save, Goto, Spoil, TypeOK
<1>9. Unsent(mem'[j]) = Unsent(doc)
  BY <1>7
<1> QED
  BY <1>2, <1>4, <1>5, <1>6, <1>7, <1>8, <1>9

LEMMA SendEffect ==
  ASSUME TypeOK, NEW j \in Jobs, Send(j)
  PROVE  /\ pc[j] \in {"send", "replay"} /\ (bad[j] => bad'[j])
         /\ UNCHANGED <<store, pc, usable, backends, notify, shown>>
         /\ mem'[j].latest = mem[j].latest
         /\ mem'[j].daily = mem[j].daily
         /\ mem'[j].delivered = mem[j].delivered
         /\ ~bad'[j] => \E p \in todo[j] :
              /\ todo'[j] = todo[j] \ {p}
              /\ acked' = acked \cup {p}
              /\ mem'[j].outbox = [mem[j].outbox EXCEPT ![p[1]] = @ \ {p[2]}]
<1>1. PICK p \in todo[j] :
        /\ todo' = [todo EXCEPT ![j] = @ \ {p}]
        /\ \/ Spoil(j) /\ mem' = mem
           \/ /\ acked' = acked \cup {p}
              /\ mem' = [mem EXCEPT ![j].outbox[p[1]] = @ \ {p[2]}]
              /\ UNCHANGED bad
  BY DEF Send
<1>2. mem[j] \in Document
  BY DEF TypeOK
<1>3. /\ pc[j] \in {"send", "replay"}
      /\ UNCHANGED <<store, pc, usable, backends, notify, shown>>
  BY DEF Send
<1>4. CASE Spoil(j) /\ mem' = mem
  BY <1>3, <1>4 DEF Spoil, TypeOK
<1>5. CASE /\ acked' = acked \cup {p}
           /\ mem' = [mem EXCEPT ![j].outbox[p[1]] = @ \ {p[2]}]
           /\ UNCHANGED bad
  <2>1. mem'[j] = [mem[j] EXCEPT !.outbox = [mem[j].outbox EXCEPT ![p[1]] = @ \ {p[2]}]]
    BY <1>5 DEF TypeOK
  <2>2. /\ mem'[j].outbox = [mem[j].outbox EXCEPT ![p[1]] = @ \ {p[2]}]
        /\ mem'[j].latest = mem[j].latest
        /\ mem'[j].daily = mem[j].daily
        /\ mem'[j].delivered = mem[j].delivered
    BY <1>2, <2>1 DEF Document
  <2>3. todo'[j] = todo[j] \ {p}
    BY <1>1 DEF TypeOK
  <2> QED
    BY <1>3, <1>5, <2>2, <2>3
<1> QED
  BY <1>1, <1>4, <1>5

LEMMA DailyEffect ==
  ASSUME TypeOK, NEW j \in Jobs, Daily(j)
  PROVE  /\ pc[j] = "daily" /\ pc'[j] \in {"sendDaily", "report"} /\ (bad[j] => bad'[j])
         /\ UNCHANGED <<usable, backends, notify, todo, acked, shown>>
         /\ mem'[j].latest = mem[j].latest
         /\ mem'[j].outbox = mem[j].outbox
         /\ mem'[j].delivered = mem[j].delivered
         /\ \E visible \in {notify[j], {e \in notify[j] : e[1] \notin Hidden}} :
              LET message == NewMessage(mem[j], visible)
              IN  \/ /\ message \in SUBSET Event /\ message # {}
                     /\ mem'[j].daily = Append(mem[j].daily, message)
                     /\ \/ usable[j] /\ store' = mem'[j] /\ pc'[j] = "sendDaily"
                        \/ /\ pc'[j] = "report" /\ bad'[j]
                           /\ store' = store \/ (usable[j] /\ store' = mem'[j])
                  \/ /\ message = {} /\ mem' = mem /\ store' = store
                     /\ pc'[j] = IF mem[j].daily = <<>> THEN "report" ELSE "sendDaily"
<1>1. PICK visible \in {notify[j], {e \in notify[j] : e[1] \notin Hidden}} :
     LET message == NewMessage(mem[j], visible)
         doc == [mem[j] EXCEPT !.daily = Append(mem[j].daily, message)]
     IN IF message # {}
        THEN SetMem(j, doc) /\ Save(j, doc, "sendDaily", "report")
        ELSE /\ Goto(j, IF mem[j].daily = <<>> THEN "report" ELSE "sendDaily")
             /\ NoFault
             /\ UNCHANGED <<mem, store, bad>>
  BY DEF Daily
<1> DEFINE message == NewMessage(mem[j], visible)
           doc == [mem[j] EXCEPT !.daily = Append(mem[j].daily, message)]
<1>2. mem[j] \in Document /\ message \in SUBSET Event
  BY <1>1 DEF NewMessage, TypeOK
<1>3. pc[j] = "daily" /\ UNCHANGED <<usable, backends, notify, todo, acked, shown>>
  BY DEF Daily, history
<1>4. CASE message # {}
  <2>1. SetMem(j, doc) /\ Save(j, doc, "sendDaily", "report")
    BY <1>1, <1>4
  <2> HIDE DEF message
  <2>2. /\ doc.daily = Append(mem[j].daily, message)
        /\ doc.latest = mem[j].latest
        /\ doc.outbox = mem[j].outbox
        /\ doc.delivered = mem[j].delivered
    BY <1>2 DEF Document
  <2> HIDE DEF doc
  <2>3. mem'[j] = doc
    BY <2>1 DEF SetMem, TypeOK
  <2>4. /\ bad[j] => bad'[j]
        /\ \/ usable[j] /\ store' = doc /\ pc'[j] = "sendDaily"
           \/ /\ pc'[j] = "report" /\ bad'[j]
              /\ store' = store \/ (usable[j] /\ store' = doc)
    BY <2>1 DEF Save, Goto, Spoil, TypeOK
  <2>5. \/ usable[j] /\ store' = mem'[j] /\ pc'[j] = "sendDaily"
        \/ /\ pc'[j] = "report" /\ bad'[j]
           /\ store' = store \/ (usable[j] /\ store' = mem'[j])
    BY <2>3, <2>4
  <2> QED
    BY <1>1, <1>2, <1>3, <1>4, <2>2, <2>3, <2>4, <2>5 DEF message
<1>5. CASE message = {}
  <2>1. /\ Goto(j, IF mem[j].daily = <<>> THEN "report" ELSE "sendDaily")
        /\ UNCHANGED <<mem, store, bad>>
    BY <1>1, <1>5
  <2>2. pc'[j] = IF mem[j].daily = <<>> THEN "report" ELSE "sendDaily"
    BY <2>1 DEF Goto, TypeOK
  <2> QED
    BY <1>1, <1>3, <1>5, <2>1, <2>2
<1> QED
  BY <1>4, <1>5

LEMMA SendDailyEffect ==
  ASSUME TypeOK, DailyPending, NEW j \in Jobs, SendDaily(j)
  PROVE  /\ pc[j] = "sendDaily" /\ mem[j].daily # <<>> /\ (bad[j] => bad'[j])
         /\ UNCHANGED <<store, usable, backends, notify, todo, acked>>
         /\ mem'[j].latest = mem[j].latest
         /\ mem'[j].outbox = mem[j].outbox
         /\ \A e \in Event : shown[e] > 0 => shown'[e] > 0
         /\ \/ /\ mem' = mem /\ pc'[j] = "saveDaily" /\ bad'[j]
            \/ /\ \A e \in Head(mem[j].daily) : shown'[e] > 0
               /\ mem'[j].daily = Tail(mem[j].daily)
               /\ mem'[j].delivered = Delivered(mem[j], Head(mem[j].daily))
               /\ pc'[j] = IF mem'[j].daily = <<>> THEN "saveDaily" ELSE "sendDaily"
<1> DEFINE first == Head(mem[j].daily)
           rest == Tail(mem[j].daily)
           told == Delivered(mem[j], first)
           doc == [mem[j] EXCEPT !.daily = rest, !.delivered = told]
<1>1. /\ pc[j] = "sendDaily" /\ mem[j].daily # <<>>
      /\ UNCHANGED <<store, usable, backends, notify, todo, acked>>
  BY DEF SendDaily, DailyPending
<1>2. mem[j] \in Document /\ first \in SUBSET Event
  BY <1>1, HeadTailProperties DEF TypeOK, Document
<1>3. ASSUME Show(first)
      PROVE  /\ \A e \in Event : shown[e] > 0 => shown'[e] > 0
             /\ \A e \in first : shown'[e] > 0
  <2>1. \A e \in Event : shown[e] \in 0..2
    BY DEF TypeOK
  <2>2. \A e \in Event : shown'[e] = IF e \in first /\ shown[e] < 2 THEN shown[e] + 1 ELSE shown[e]
    BY <1>3 DEF Show
  <2>3. \A e \in Event : shown[e] > 0 => shown'[e] > 0
    BY <2>1, <2>2
  <2>4. \A e \in Event : e \in first => shown'[e] > 0
    BY <2>1, <2>2
  <2> HIDE DEF first
  <2> QED
    BY <1>2, <2>3, <2>4
<1>4. \A e \in Event : shown[e] > 0 => shown'[e] > 0
  <2>1. Show(first) \/ UNCHANGED shown
    BY DEF SendDaily
  <2> QED
    BY <1>3, <2>1
<1>5. CASE /\ Show(first) /\ SetMem(j, doc)
           /\ Goto(j, IF rest = <<>> THEN "saveDaily" ELSE "sendDaily")
           /\ UNCHANGED bad
  <2>1. pc'[j] = IF rest = <<>> THEN "saveDaily" ELSE "sendDaily"
    BY <1>5 DEF Goto, TypeOK
  <2>2. mem'[j] = doc
    BY <1>5 DEF SetMem, TypeOK
  <2>3. \A e \in first : shown'[e] > 0
    BY <1>3, <1>5
  <2> HIDE DEF rest, told, first
  <2>4. /\ doc.daily = rest /\ doc.delivered = told
        /\ doc.latest = mem[j].latest /\ doc.outbox = mem[j].outbox
    BY <1>2 DEF Document
  <2>5. /\ mem'[j].daily = rest /\ mem'[j].delivered = told
        /\ mem'[j].latest = mem[j].latest /\ mem'[j].outbox = mem[j].outbox
    BY <2>2, <2>4
  <2> QED
    BY <1>1, <1>4, <1>5, <2>1, <2>3, <2>5 DEF rest, told, first
<1>6. CASE Goto(j, "saveDaily") /\ Spoil(j) /\ UNCHANGED mem
  <2>1. pc'[j] = "saveDaily" /\ bad'[j]
    BY <1>6 DEF Goto, Spoil, TypeOK
  <2> QED
    BY <1>1, <1>4, <1>6, <2>1
<1> QED
  BY <1>5, <1>6 DEF SendDaily

LEMMA SaveEffect ==
  ASSUME TypeOK, NEW j \in Jobs, NEW doc, NEW next, NEW failed, Save(j, doc, next, failed)
  PROVE  /\ bad[j] => bad'[j]
         /\ store' = store \/ (usable[j] /\ store' = doc)
         /\ \/ usable[j] /\ store' = doc /\ pc'[j] = next
            \/ pc'[j] = failed /\ bad'[j]
BY DEF Save, Goto, Spoil, TypeOK

LEMMA ForgetEffect ==
  ASSUME TypeOK, NEW j \in Jobs, Forget(j)
  PROVE  /\ pc'[j] = "idle" /\ mem'[j] = EmptyDocument /\ usable'[j]
         /\ notify'[j] = {} /\ backends'[j] = {}
BY DEF Forget, Goto, SetMem, TypeOK

LEMMA StartEffect ==
  ASSUME TypeOK, NEW j \in Jobs, StartRun(j) \/ StartReplay(j)
  PROVE  /\ pc[j] = "idle" /\ backends'[j] \in ConfiguredSets /\ (bad[j] => bad'[j])
         /\ UNCHANGED <<store, usable, notify, acked, shown>>
         /\ \/ mem'[j] = store /\ pc'[j] \in {"fetch", "replay"}
            \/ mem' = mem /\ pc'[j] = "report" /\ bad'[j]
<1>1. CASE StartRun(j)
  BY <1>1 DEF StartRun, SetMem, Goto, Spoil, TypeOK, history
<1>2. CASE StartReplay(j)
  BY <1>2 DEF StartReplay, SetMem, Goto, TypeOK, history
<1> QED
  BY <1>1, <1>2

LEMMA ReloadEffect ==
  ASSUME TypeOK, NEW j \in Jobs, Reload(j)
  PROVE  /\ pc[j] = "reload" /\ pc'[j] = "enqueue" /\ (bad[j] => bad'[j])
         /\ UNCHANGED <<store, backends, notify, todo, acked, shown>>
         /\ \/ mem'[j] = store /\ usable' = usable
            \/ mem'[j] = EmptyDocument /\ ~usable'[j] /\ bad'[j]
BY DEF Reload, SetMem, Goto, Spoil, TypeOK, history

JobStep(j) == StartRun(j) \/ StartReplay(j) \/ Step(j) \/ Crash(j)

-----------------------------------------------------------------------------
(* The invariant of a run, for one job at a time.                          *)

(* What the run will announce is in its copy, then in the document; and a  *)
(* copy that may be saved shows what the document shows.                   *)
RecordKept(j) ==
  /\ pc[j] = "record" => \A e \in notify[j] : mem[j].latest[e[1]] = e[2]
  /\ usable[j] /\ pc[j] \in AfterRecord \ {"reload"} => mem[j].latest = store.latest
  /\ pc[j] \in AfterRecord => \A e \in notify[j] : store.latest[e[1]] = e[2]

LEMMA RecordStep ==
  ASSUME TypeOK, DailyPending, NEW j \in Jobs, RecordKept(j), JobStep(j)
  PROVE  RecordKept(j)'
<1>1. CASE StartRun(j) \/ StartReplay(j)
  BY <1>1, StartEffect DEF RecordKept, AfterRecord
<1>2. CASE Fetch(j)
  BY <1>2, FetchEffect DEF RecordKept, AfterRecord
<1>3. CASE Record(j)
  <2>1. /\ Save(j, mem[j], "reload", "report") /\ pc[j] = "record"
        /\ mem' = mem /\ notify' = notify
    BY <1>3 DEF Record
  <2>2. (store' = mem[j] /\ pc'[j] = "reload") \/ pc'[j] = "report"
    BY <2>1, SaveEffect
  <2> QED
    BY <2>1, <2>2 DEF RecordKept, AfterRecord
<1>4. CASE Reload(j)
  BY <1>4, ReloadEffect DEF RecordKept, AfterRecord
<1>5. CASE Enqueue(j)
  BY <1>5, EnqueueEffect DEF RecordKept, AfterRecord
<1>6. CASE Send(j)
  BY <1>6, SendEffect DEF RecordKept, AfterRecord
<1>7. CASE SaveOutbox(j) \/ SaveDaily(j)
  <2>1. /\ pc[j] \in {"send", "saveDaily"} /\ pc'[j] \in {"daily", "report"}
        /\ mem' = mem /\ notify' = notify /\ usable' = usable
        /\ store' = store \/ (usable[j] /\ store' = mem[j])
    BY <1>7, SaveEffect DEF SaveOutbox, SaveDaily
  <2> QED
    BY <2>1 DEF RecordKept, AfterRecord
<1>8. CASE Daily(j)
  <2>1. /\ pc[j] = "daily" /\ mem'[j].latest = mem[j].latest /\ UNCHANGED <<notify, usable>>
        /\ store' = store \/ (usable[j] /\ store' = mem'[j])
        /\ pc'[j] \in {"sendDaily", "report"}
    BY <1>8, DailyEffect
  <2> QED
    BY <2>1 DEF RecordKept, AfterRecord
<1>9. CASE SendDaily(j)
  <2>1. /\ pc[j] = "sendDaily" /\ mem'[j].latest = mem[j].latest
        /\ UNCHANGED <<store, notify, usable>> /\ pc'[j] \in {"sendDaily", "saveDaily"}
    BY <1>9, SendDailyEffect
  <2> QED
    BY <2>1 DEF RecordKept, AfterRecord
<1>10. CASE SaveReplay(j) \/ Report(j) \/ Crash(j)
  <2>1. pc'[j] = "idle"
    BY <1>10, ForgetEffect DEF SaveReplay, Report, Crash
  <2> QED
    BY <2>1 DEF RecordKept, AfterRecord
<1> QED
  BY <1>1, <1>2, <1>3, <1>4, <1>5, <1>6, <1>7, <1>8, <1>9, <1>10 DEF JobStep, Step

(* The copy's queue is the stored one; while messages are sent, what is    *)
(* left of it, and those that are gone were shown.                         *)
Ahead(queue, rest) ==
  \E n \in 0..Len(queue) :
    /\ rest = SubSeq(queue, n + 1, Len(queue))
    /\ \A i \in 1..n : \A e \in queue[i] : shown[e] > 0

QueueKept(j) ==
  /\ usable[j] /\ pc[j] \in {"fetch", "record", "enqueue", "send", "replay", "daily"} =>
       mem[j].daily = store.daily
  /\ usable[j] /\ pc[j] \in {"sendDaily", "saveDaily"} => Ahead(store.daily, mem[j].daily)

LEMMA NothingGone ==
  ASSUME NEW queue \in Seq(SUBSET Event)
  PROVE  Ahead(queue, queue)
<1>1. SubSeq(queue, 0 + 1, Len(queue)) = queue
  BY SubSeqFull
<1>2. 0 \in 0..Len(queue) /\ \A i \in 1..0 : \A e \in queue[i] : shown[e] > 0
  BY LenProperties
<1> QED
  BY <1>1, <1>2 DEF Ahead

(* What was shown stays shown. *)
LEMMA AheadStays ==
  ASSUME NEW queue \in Seq(SUBSET Event), NEW rest, Ahead(queue, rest),
         \A e \in Event : shown[e] > 0 => shown'[e] > 0
  PROVE  \E n \in 0..Len(queue) :
           /\ rest = SubSeq(queue, n + 1, Len(queue))
           /\ \A i \in 1..n : \A e \in queue[i] : shown'[e] > 0
<1>1. PICK n \in 0..Len(queue) :
        /\ rest = SubSeq(queue, n + 1, Len(queue))
        /\ \A i \in 1..n : \A e \in queue[i] : shown[e] > 0
  BY DEF Ahead
<1>2. \A i \in 1..n : queue[i] \in SUBSET Event
  BY LenProperties
<1> QED
  BY <1>1, <1>2

(* One more message is shown and taken from the front. *)
LEMMA AheadMoves ==
  ASSUME NEW queue \in Seq(SUBSET Event), NEW rest, rest # <<>>, Ahead(queue, rest),
         \A e \in Event : shown[e] > 0 => shown'[e] > 0,
         \A e \in Head(rest) : shown'[e] > 0
  PROVE  \E n \in 0..Len(queue) :
           /\ Tail(rest) = SubSeq(queue, n + 1, Len(queue))
           /\ \A i \in 1..n : \A e \in queue[i] : shown'[e] > 0
<1>1. PICK n \in 0..Len(queue) :
        /\ rest = SubSeq(queue, n + 1, Len(queue))
        /\ \A i \in 1..n : \A e \in queue[i] : shown'[e] > 0
  BY AheadStays
<1>2. Len(queue) \in Nat
  BY LenProperties
<1>3. n < Len(queue)
  <2>1. SUFFICES ASSUME n = Len(queue) PROVE FALSE
    BY <1>2
  <2>2. rest = <<>>
    BY <1>1, <1>2, <2>1, SubSeqEmpty
  <2> QED
    BY <2>2
<1>4. n + 1 \in 1..Len(queue) /\ Len(queue) \in (n + 1)..Len(queue)
  BY <1>2, <1>3
<1>5. Head(rest) = queue[n + 1] /\ Tail(rest) = SubSeq(queue, (n + 1) + 1, Len(queue))
  BY <1>1, <1>4, HeadTailOfSubSeq
<1>6. \A i \in 1..(n + 1) : \A e \in queue[i] : shown'[e] > 0
  <2>1. \A i \in 1..(n + 1) : i \in 1..n \/ i = n + 1
    BY <1>2
  <2> QED
    BY <1>1, <1>5, <2>1
<1> QED
  BY <1>4, <1>5, <1>6

(* What a step may do to the stored queue (the action of DailyInOrder). *)
QueueMoves ==
  \E n \in 0..Len(store.daily) :
    LET kept == SubSeq(store.daily, n + 1, Len(store.daily))
    IN /\ \A i \in 1..n : \A e \in store.daily[i] : shown[e] > 0
       /\ \/ store'.daily = kept
          \/ \E message \in SUBSET Event : store'.daily = Append(kept, message)

LEMMA OrderStep ==
  ASSUME TypeOK, DailyPending, NEW j \in Jobs, QueueKept(j), JobStep(j),
         pc[j] = "replay" => usable[j]
  PROVE  QueueKept(j)' /\ QueueMoves
<1>0. store.daily \in Seq(SUBSET Event) /\ mem[j].daily \in Seq(SUBSET Event)
  BY DEF TypeOK, Document
<1>a. ASSUME Ahead(store.daily, store'.daily) PROVE QueueMoves
  BY <1>a DEF Ahead, QueueMoves
<1>b. Ahead(store.daily, store.daily)
  BY <1>0, NothingGone
<1>c. ASSUME NEW message \in SUBSET Event, store'.daily = Append(store.daily, message)
      PROVE  QueueMoves
  <2>1. /\ SubSeq(store.daily, 0 + 1, Len(store.daily)) = store.daily
        /\ 0 \in 0..Len(store.daily)
        /\ \A i \in 1..0 : \A e \in store.daily[i] : shown[e] > 0
    BY <1>0, SubSeqFull, LenProperties
  <2> QED
    BY <1>c, <2>1 DEF QueueMoves
<1>1. CASE StartRun(j) \/ StartReplay(j)
  <2>1. /\ mem'[j] = store \/ pc'[j] = "report"
        /\ pc'[j] \in {"fetch", "replay", "report"} /\ store' = store
    BY <1>1, StartEffect
  <2> QED
    BY <2>1, <1>a, <1>b DEF QueueKept
<1>2. CASE Fetch(j)
  <2>1. /\ pc[j] = "fetch" /\ pc'[j] = "record" /\ UNCHANGED <<store, usable>>
        /\ mem'[j].daily = mem[j].daily
    BY <1>2, FetchEffect
  <2> QED
    BY <2>1, <1>a, <1>b DEF QueueKept
<1>3. CASE Record(j)
  <2>1. /\ pc[j] = "record" /\ pc'[j] \in {"reload", "report"}
        /\ store' = store \/ (usable[j] /\ store' = mem[j])
    BY <1>3, SaveEffect DEF Record
  <2>2. store'.daily = store.daily
    BY <2>1 DEF QueueKept
  <2> QED
    BY <2>1, <2>2, <1>a, <1>b DEF QueueKept
<1>4. CASE Reload(j)
  <2>1. /\ pc'[j] = "enqueue" /\ store' = store
        /\ mem'[j] = store \/ ~usable'[j]
    BY <1>4, ReloadEffect
  <2> QED
    BY <2>1, <1>a, <1>b DEF QueueKept
<1>5. CASE Enqueue(j)
  <2>1. /\ pc[j] = "enqueue" /\ pc'[j] \in {"send", "daily"} /\ usable' = usable
        /\ mem'[j].daily = mem[j].daily
        /\ store' = store \/ (usable[j] /\ store' = mem'[j])
    BY <1>5, EnqueueEffect
  <2>2. store'.daily = store.daily
    BY <2>1 DEF QueueKept
  <2> QED
    BY <2>1, <2>2, <1>a, <1>b DEF QueueKept
<1>6. CASE Send(j)
  <2>1. /\ pc' = pc /\ pc[j] \in {"send", "replay"} /\ UNCHANGED <<store, usable>>
        /\ mem'[j].daily = mem[j].daily
    BY <1>6, SendEffect
  <2> QED
    BY <2>1, <1>a, <1>b DEF QueueKept
<1>7. CASE SaveOutbox(j)
  <2>1. /\ pc[j] = "send" /\ pc'[j] = "daily" /\ UNCHANGED <<usable, mem>>
        /\ store' = store \/ (usable[j] /\ store' = mem[j])
    BY <1>7, SaveEffect DEF SaveOutbox
  <2>2. store'.daily = store.daily
    BY <2>1 DEF QueueKept
  <2> QED
    BY <2>1, <2>2, <1>a, <1>b DEF QueueKept
<1>8. CASE Daily(j)
  <2>1. PICK visible :
          LET message == NewMessage(mem[j], visible)
          IN  \/ /\ message \in SUBSET Event /\ message # {}
                 /\ mem'[j].daily = Append(mem[j].daily, message)
                 /\ \/ usable[j] /\ store' = mem'[j] /\ pc'[j] = "sendDaily"
                    \/ /\ pc'[j] = "report" /\ bad'[j]
                       /\ store' = store \/ (usable[j] /\ store' = mem'[j])
              \/ /\ message = {} /\ mem' = mem /\ store' = store
                 /\ pc'[j] = IF mem[j].daily = <<>> THEN "report" ELSE "sendDaily"
    BY <1>8, DailyEffect
  <2> DEFINE message == NewMessage(mem[j], visible)
  <2>2. pc[j] = "daily" /\ usable' = usable /\ shown' = shown
    BY <1>8, DailyEffect
  <2>3. usable[j] => mem[j].daily = store.daily
    BY <2>2 DEF QueueKept
  <2> HIDE DEF message
  <2>4. CASE message = {} /\ mem' = mem /\ store' = store /\ pc'[j] \in {"report", "sendDaily"}
    <3>1. usable[j] => Ahead(store.daily, mem[j].daily)'
      BY <1>b, <2>2, <2>3, <2>4 DEF Ahead
    <3> QED
      BY <2>2, <2>4, <3>1, <1>a, <1>b DEF QueueKept
  <2>5. CASE message \in SUBSET Event /\ pc'[j] = "sendDaily" /\ usable[j] /\ store' = mem'[j]
             /\ mem'[j].daily = Append(mem[j].daily, message)
    <3>1. store'.daily = Append(store.daily, message)
      BY <2>3, <2>5
    <3>2. QueueMoves
      BY <1>c, <2>5, <3>1
    <3>3. Append(store.daily, message) \in Seq(SUBSET Event)
      BY <1>0, <2>5, AppendProperties
    <3>4. Ahead(store'.daily, store'.daily)
      BY <3>1, <3>3, NothingGone
    <3>5. Ahead(store.daily, mem[j].daily)'
      BY <2>2, <2>5, <3>4 DEF Ahead
    <3> QED
      BY <2>5, <3>2, <3>5 DEF QueueKept
  <2>6. CASE message \in SUBSET Event /\ pc'[j] = "report" /\ mem'[j].daily = Append(mem[j].daily, message)
             /\ (store' = store \/ (usable[j] /\ store' = mem'[j]))
    <3>1. QueueMoves
      BY <1>a, <1>b, <1>c, <2>3, <2>6
    <3> QED
      BY <2>6, <3>1 DEF QueueKept
  <2> QED
    BY <2>1, <2>4, <2>5, <2>6 DEF message
<1>9. CASE SendDaily(j)
  <2>1. /\ pc[j] = "sendDaily" /\ UNCHANGED <<store, usable>> /\ mem[j].daily # <<>>
        /\ \A e \in Event : shown[e] > 0 => shown'[e] > 0
        /\ pc'[j] \in {"sendDaily", "saveDaily"}
        /\ \/ mem' = mem
           \/ /\ \A e \in Head(mem[j].daily) : shown'[e] > 0
              /\ mem'[j].daily = Tail(mem[j].daily)
    BY <1>9, SendDailyEffect
  <2>2. usable[j] => Ahead(store.daily, mem[j].daily)
    BY <2>1 DEF QueueKept
  <2>3. usable[j] => Ahead(store.daily, mem[j].daily)'
    <3> SUFFICES ASSUME usable[j]
                 PROVE  \E n \in 0..Len(store.daily) :
                          /\ mem'[j].daily = SubSeq(store.daily, n + 1, Len(store.daily))
                          /\ \A i \in 1..n : \A e \in store.daily[i] : shown'[e] > 0
      BY <2>1 DEF Ahead
    <3>1. CASE mem' = mem
      <4>1. Ahead(store.daily, mem[j].daily) /\ mem'[j].daily = mem[j].daily
        BY <2>2, <3>1
      <4>2. \A e \in Event : shown[e] > 0 => shown'[e] > 0
        BY <2>1
      <4>3. \E n \in 0..Len(store.daily) :
              /\ mem[j].daily = SubSeq(store.daily, n + 1, Len(store.daily))
              /\ \A i \in 1..n : \A e \in store.daily[i] : shown'[e] > 0
        BY <1>0, <4>1, <4>2, AheadStays
      <4> QED
        BY <4>1, <4>3
    <3>2. CASE /\ \A e \in Head(mem[j].daily) : shown'[e] > 0
               /\ mem'[j].daily = Tail(mem[j].daily)
      <4>1. Ahead(store.daily, mem[j].daily) /\ mem[j].daily # <<>>
        BY <2>1, <2>2
      <4>2. /\ \A e \in Event : shown[e] > 0 => shown'[e] > 0
            /\ \A e \in Head(mem[j].daily) : shown'[e] > 0
        BY <2>1, <3>2
      <4>3. \E n \in 0..Len(store.daily) :
              /\ Tail(mem[j].daily) = SubSeq(store.daily, n + 1, Len(store.daily))
              /\ \A i \in 1..n : \A e \in store.daily[i] : shown'[e] > 0
        BY <1>0, <4>1, <4>2, AheadMoves
      <4> QED
        BY <3>2, <4>3
    <3> QED
      BY <2>1, <3>1, <3>2
  <2> QED
    BY <2>1, <2>3, <1>a, <1>b DEF QueueKept
<1>10. CASE SaveDaily(j)
  <2>1. /\ pc[j] = "saveDaily" /\ pc'[j] = "report"
        /\ store' = store \/ (usable[j] /\ store' = mem[j])
    BY <1>10, SaveEffect DEF SaveDaily
  <2> QED
    BY <2>1, <1>a, <1>b DEF QueueKept
<1>11. CASE SaveReplay(j)
  <2>1. /\ pc[j] = "replay" /\ pc'[j] = "idle" /\ store' \in {store, mem[j]}
    BY <1>11, ForgetEffect DEF SaveReplay
  <2>2. store'.daily = store.daily
    BY <2>1 DEF QueueKept
  <2> QED
    BY <2>1, <2>2, <1>a, <1>b DEF QueueKept
<1>12. CASE Report(j) \/ Crash(j)
  <2>1. pc'[j] = "idle" /\ store' = store
    BY <1>12, ForgetEffect DEF Report, Crash
  <2> QED
    BY <2>1, <1>a, <1>b DEF QueueKept
<1> QED
  BY <1>1, <1>2, <1>3, <1>4, <1>5, <1>6, <1>7, <1>8, <1>9, <1>10, <1>11, <1>12 DEF JobStep, Step

(* A document says that a work was told of a key only if it was shown. *)
ToldWhenShown(doc) == \A e \in Event : doc.delivered[e[1]] = e[2] => shown[e] > 0

LEMMA ToldStep ==
  ASSUME TypeOK, DailyPending, NEW j \in Jobs, JobStep(j),
         ToldWhenShown(store), ToldWhenShown(mem[j])
  PROVE  ToldWhenShown(store)' /\ ToldWhenShown(mem[j])'
<1>a. ASSUME \A e \in Event : shown[e] > 0 => shown'[e] > 0,
             store'.delivered \in {store.delivered, mem[j].delivered},
             mem'[j].delivered \in {store.delivered, mem[j].delivered}
      PROVE  ToldWhenShown(store)' /\ ToldWhenShown(mem[j])'
  BY <1>a DEF ToldWhenShown
<1>b. ASSUME shown' = shown, mem'[j] = EmptyDocument, store' \in {store, mem[j]}
      PROVE  ToldWhenShown(store)' /\ ToldWhenShown(mem[j])'
  <2>1. \A e \in Event : EmptyDocument.delivered[e[1]] # e[2]
    BY DeliveryAssumption DEF EmptyDocument, Event
  <2> QED
    BY <1>b, <2>1 DEF ToldWhenShown
<1>1. CASE StartRun(j) \/ StartReplay(j)
  BY <1>1, <1>a, StartEffect
<1>2. CASE Fetch(j)
  BY <1>2, <1>a, FetchEffect
<1>3. CASE Record(j) \/ SaveOutbox(j) \/ SaveDaily(j)
  BY <1>3, <1>a DEF Record, SaveOutbox, SaveDaily, Save, history
<1>4. CASE Reload(j)
  BY <1>4, <1>a, <1>b, ReloadEffect
<1>5. CASE Enqueue(j)
  BY <1>5, <1>a, EnqueueEffect
<1>6. CASE Send(j)
  BY <1>6, <1>a, SendEffect
<1>7. CASE Daily(j)
  <2>1. /\ mem'[j].delivered = mem[j].delivered /\ shown' = shown
        /\ store' = store \/ store' = mem'[j]
    BY <1>7, DailyEffect
  <2> QED
    BY <2>1, <1>a
<1>8. CASE SendDaily(j)
  <2>0. /\ mem[j].daily \in Seq(SUBSET Event) /\ mem[j].daily # <<>> /\ store' = store
        /\ \A e \in Event : shown[e] > 0 => shown'[e] > 0
    BY <1>8, SendDailyEffect DEF TypeOK, Document
  <2>1. CASE mem' = mem
    BY <1>a, <2>0, <2>1
  <2>2. CASE /\ \A e \in Head(mem[j].daily) : shown'[e] > 0
             /\ mem'[j].delivered = Delivered(mem[j], Head(mem[j].daily))
    <3>1. \A e \in Event : store.delivered[e[1]] = e[2] => shown'[e] > 0
      BY <2>0 DEF ToldWhenShown
    <3>2. ASSUME NEW w \in Works, NEW k \in Keys, mem'[j].delivered[w] = k
          PROVE  shown'[<<w, k>>] > 0
      <4>1. CASE \E l \in Keys : <<w, l>> \in Head(mem[j].daily)
        <5>1. <<w, mem'[j].delivered[w]>> \in Head(mem[j].daily)
          BY <2>2, <4>1 DEF Delivered
        <5> QED
          BY <2>2, <3>2, <5>1
      <4>2. CASE ~\E l \in Keys : <<w, l>> \in Head(mem[j].daily)
        <5>1. mem[j].delivered[w] = k
          BY <2>2, <3>2, <4>2 DEF Delivered
        <5>2. <<w, k>> \in Event /\ <<w, k>>[1] = w /\ <<w, k>>[2] = k
          BY DEF Event
        <5> QED
          BY <2>0, <5>1, <5>2 DEF ToldWhenShown
      <4> QED
        BY <4>1, <4>2
    <3>3. \A e \in Event : mem'[j].delivered[e[1]] = e[2] => shown'[e] > 0
      BY <3>2 DEF Event
    <3> QED
      BY <2>0, <3>1, <3>3 DEF ToldWhenShown
  <2> QED
    BY <1>8, <2>1, <2>2, SendDailyEffect
<1>9. CASE SaveReplay(j) \/ Report(j) \/ Crash(j)
  BY <1>9, <1>b, ForgetEffect DEF SaveReplay, Report, Crash, history
<1> QED
  BY <1>1, <1>2, <1>3, <1>4, <1>5, <1>6, <1>7, <1>8, <1>9 DEF JobStep, Step

(* A run without an error so far: what it announces is acknowledged or in  *)
(* the outbox it still works off; after that nothing is in the outbox.     *)
Announces == {"send", "daily", "sendDaily", "saveDaily", "report"}

OutboxOk(j) ==
  /\ pc[j] # "idle" => backends[j] \in ConfiguredSets
  /\ ~bad[j] /\ pc[j] = "send" => Unsent(mem[j]) \subseteq todo[j]
  /\ ~bad[j] /\ pc[j] \in Announces \ {"send"} => Unsent(mem[j]) = {} /\ Unsent(store) = {}
  /\ ~bad[j] /\ pc[j] \in Announces => \A e \in notify[j] :
       mem[j].outbox[e] # {} \/ \E b \in Backends : <<e, b>> \in acked

(* And what it shows is in the queue or was shown; after that nothing is   *)
(* in the queue.                                                           *)
DailyOk(j) ==
  /\ ~bad[j] => usable[j]
  /\ ~bad[j] /\ pc[j] \in {"sendDaily", "saveDaily", "report"} => \A e \in notify[j] :
       e[1] \notin Hidden => e \in PendingKeys(mem[j]) \/ shown[e] > 0
  /\ ~bad[j] /\ pc[j] \in {"saveDaily", "report"} => mem[j].daily = <<>>
  /\ ~bad[j] /\ pc[j] = "report" => store.daily = <<>>

(* Which pairs are unsent depends on the outbox only. *)
LEMMA SameUnsent == \A doc, other : doc.outbox = other.outbox => Unsent(doc) = Unsent(other)
BY DEF Unsent

LEMMA OutboxOkStep ==
  ASSUME TypeOK, DailyPending, NEW j \in Jobs, OutboxOk(j), JobStep(j),
         usable[j] /\ pc[j] = "enqueue" => mem[j].outbox = store.outbox,
         ~bad[j] => usable[j]
  PROVE  OutboxOk(j)'
<1>0. mem[j] \in Document /\ notify[j] \in SUBSET Event
  BY DEF TypeOK
<1>1. CASE StartRun(j) \/ StartReplay(j)
  BY <1>1, StartEffect DEF OutboxOk, Announces
<1>2. CASE Fetch(j)
  BY <1>2, FetchEffect DEF OutboxOk, Announces
<1>3. CASE Record(j)
  <2>1. /\ pc[j] = "record" /\ backends' = backends
        /\ pc'[j] = "reload" \/ (pc'[j] = "report" /\ bad'[j])
    BY <1>3, SaveEffect DEF Record
  <2> QED
    BY <2>1 DEF OutboxOk, Announces
<1>4. CASE Reload(j)
  BY <1>4, ReloadEffect DEF OutboxOk, Announces
<1>5. CASE Enqueue(j)
  <2>1. /\ pc[j] = "enqueue" /\ pc'[j] \in {"send", "daily"} /\ (bad[j] => bad'[j])
        /\ UNCHANGED <<backends, notify>>
        /\ \A e \in Event :
             mem'[j].outbox[e] = IF e \in notify[j] /\ mem[j].outbox[e] = {} THEN backends[j]
                                                                          ELSE mem[j].outbox[e]
        /\ todo'[j] = Unsent(mem'[j])
        /\ pc'[j] = "daily" /\ ~bad'[j] => /\ Unsent(mem'[j]) = {} /\ store' = store
                                         /\ mem'[j].outbox = mem[j].outbox
    BY <1>5, EnqueueEffect
  <2>2. backends[j] # {}
    BY <2>1, DeliveryAssumption DEF OutboxOk
  <2>3. \A e \in notify'[j] : mem'[j].outbox[e] # {}
    BY <1>0, <2>1, <2>2
  <2>4. pc'[j] = "daily" /\ ~bad'[j] => Unsent(mem'[j]) = {} /\ Unsent(store') = {}
    <3>1. pc'[j] = "daily" /\ ~bad'[j] => store.outbox = mem'[j].outbox /\ store' = store
      BY <2>1
    <3> QED
      BY <2>1, <3>1, SameUnsent
  <2>5. /\ ~bad'[j] /\ pc'[j] = "daily" => Unsent(mem[j])' = {} /\ Unsent(store)' = {}
        /\ todo'[j] = Unsent(mem[j])'
    BY <2>1, <2>4 DEF Unsent
  <2> QED
    BY <2>1, <2>3, <2>5 DEF OutboxOk, Announces
<1>6. CASE Send(j)
  <2>1. /\ UNCHANGED <<store, pc, backends, notify>> /\ pc[j] \in {"send", "replay"}
        /\ bad[j] => bad'[j]
    BY <1>6, SendEffect
  <2>2. SUFFICES ASSUME ~bad'[j], pc[j] = "send"
                 PROVE  /\ Unsent(mem[j])' \subseteq todo'[j]
                        /\ \A e \in notify[j] : \/ mem'[j].outbox[e] # {}
                                               \/ \E b \in Backends : <<e, b>> \in acked'
    BY <2>1 DEF OutboxOk, Announces
  <2>3. PICK p \in todo[j] :
          /\ todo'[j] = todo[j] \ {p}
          /\ acked' = acked \cup {p}
          /\ mem'[j].outbox = [mem[j].outbox EXCEPT ![p[1]] = @ \ {p[2]}]
    BY <1>6, <2>2, SendEffect
  <2>4. p \in Target /\ p = <<p[1], p[2]>> /\ p[1] \in Event /\ p[2] \in Backends
    BY DEF Target, TypeOK
  <2>5. \A e \in Event : mem'[j].outbox[e] = IF e = p[1] THEN mem[j].outbox[e] \ {p[2]}
                                                        ELSE mem[j].outbox[e]
    BY <1>0, <2>3 DEF Document
  <2>6. Unsent(mem[j])' \subseteq Unsent(mem[j]) \ {p}
    BY ZenonT(30), <2>4, <2>5 DEF Unsent, Target
  <2>7. Unsent(mem[j]) \subseteq todo[j]
    BY <2>1, <2>2 DEF OutboxOk
  <2>8. ASSUME NEW e \in notify[j]
        PROVE  mem'[j].outbox[e] # {} \/ \E b \in Backends : <<e, b>> \in acked'
    <3>1. CASE e = p[1]
      BY <2>3, <2>4, <3>1
    <3>2. CASE e # p[1]
      BY <1>0, <2>1, <2>2, <2>3, <2>5, <3>2 DEF OutboxOk, Announces
    <3> QED
      BY <3>1, <3>2
  <2> QED
    BY <2>3, <2>6, <2>7, <2>8
<1>7. CASE SaveOutbox(j)
  <2>1. /\ pc[j] = "send" /\ pc'[j] = "daily" /\ todo[j] = {} /\ (bad[j] => bad'[j])
        /\ UNCHANGED <<mem, backends, notify, acked>>
        /\ bad'[j] \/ store' = mem[j]
    BY <1>7, SaveEffect DEF SaveOutbox, history
  <2>2. ~bad'[j] => Unsent(mem[j]) = {}
    BY <2>1 DEF OutboxOk
  <2>3. ~bad'[j] => Unsent(mem[j])' = {} /\ Unsent(store)' = {}
    BY <2>1, <2>2 DEF Unsent
  <2> QED
    BY <2>1, <2>3 DEF OutboxOk, Announces
<1>8. CASE Daily(j)
  <2>1. /\ pc[j] = "daily" /\ pc'[j] \in {"sendDaily", "report"} /\ (bad[j] => bad'[j])
        /\ UNCHANGED <<backends, notify, acked>> /\ mem'[j].outbox = mem[j].outbox
        /\ store' = store \/ store' = mem'[j]
    BY <1>8, DailyEffect
  <2>2. ~bad'[j] => Unsent(mem[j]) = {} /\ Unsent(store) = {}
    BY <2>1 DEF OutboxOk, Announces
  <2>3. ~bad'[j] => Unsent(mem[j])' = {} /\ Unsent(store)' = {}
    BY <2>1, <2>2 DEF Unsent
  <2> QED
    BY <2>1, <2>3 DEF OutboxOk, Announces
<1>9. CASE SendDaily(j)
  <2>1. /\ pc[j] = "sendDaily" /\ pc'[j] \in {"sendDaily", "saveDaily"} /\ (bad[j] => bad'[j])
        /\ UNCHANGED <<store, backends, notify, acked>> /\ mem'[j].outbox = mem[j].outbox
    BY <1>9, SendDailyEffect
  <2>2. ~bad'[j] => Unsent(mem[j]) = {} /\ Unsent(store) = {}
    BY <2>1 DEF OutboxOk, Announces
  <2>3. ~bad'[j] => Unsent(mem[j])' = {} /\ Unsent(store)' = {}
    BY <2>1, <2>2 DEF Unsent
  <2> QED
    BY <2>1, <2>3 DEF OutboxOk, Announces
<1>10. CASE SaveDaily(j)
  <2>1. /\ pc[j] = "saveDaily" /\ pc'[j] = "report" /\ (bad[j] => bad'[j])
        /\ UNCHANGED <<mem, backends, notify, acked>>
        /\ store' = store \/ store' = mem[j]
    BY <1>10, SaveEffect DEF SaveDaily, history
  <2>2. ~bad'[j] => Unsent(mem[j]) = {} /\ Unsent(store) = {}
    BY <2>1 DEF OutboxOk, Announces
  <2>3. ~bad'[j] => Unsent(mem[j])' = {} /\ Unsent(store)' = {}
    BY <2>1, <2>2 DEF Unsent
  <2> QED
    BY <2>1, <2>3 DEF OutboxOk, Announces
<1>11. CASE SaveReplay(j) \/ Report(j) \/ Crash(j)
  <2>1. pc'[j] = "idle"
    BY <1>11, ForgetEffect DEF SaveReplay, Report, Crash
  <2> QED
    BY <2>1 DEF OutboxOk, Announces
<1> QED
  BY <1>1, <1>2, <1>3, <1>4, <1>5, <1>6, <1>7, <1>8, <1>9, <1>10, <1>11 DEF JobStep, Step

(* An event that waits still waits when a message joins the queue, and is  *)
(* shown or waits when the first one leaves it.                            *)
LEMMA PendingJoined ==
  ASSUME NEW doc, NEW other, NEW message \in SUBSET Event,
         doc.daily \in Seq(SUBSET Event), other.daily = Append(doc.daily, message)
  PROVE  PendingKeys(doc) \cup message \subseteq PendingKeys(other)
<1>1. /\ Len(doc.daily) \in Nat /\ Len(other.daily) = Len(doc.daily) + 1
      /\ \A i \in 1..Len(doc.daily) : other.daily[i] = doc.daily[i]
      /\ other.daily[Len(doc.daily) + 1] = message
  BY AppendProperties, LenProperties
<1>2. \A i \in 1..Len(doc.daily) : i \in 1..Len(other.daily) /\ other.daily[i] = doc.daily[i]
  BY <1>1
<1>3. Len(doc.daily) + 1 \in 1..Len(other.daily)
  BY <1>1
<1> QED
  BY <1>1, <1>2, <1>3 DEF PendingKeys

LEMMA PendingLeft ==
  ASSUME NEW doc, NEW other,
         doc.daily \in Seq(SUBSET Event), doc.daily # <<>>, other.daily = Tail(doc.daily)
  PROVE  PendingKeys(doc) \subseteq Head(doc.daily) \cup PendingKeys(other)
<1>1. /\ Len(doc.daily) \in Nat /\ Len(other.daily) = Len(doc.daily) - 1
      /\ \A i \in 1..Len(other.daily) : other.daily[i] = doc.daily[i + 1]
      /\ Head(doc.daily) = doc.daily[1]
  BY HeadTailProperties, LenProperties
<1>2. \A i \in 1..Len(doc.daily) :
        i = 1 \/ (i - 1 \in 1..Len(other.daily) /\ other.daily[i - 1] = doc.daily[i])
  BY <1>1
<1>3. ASSUME NEW i \in 1..Len(doc.daily)
      PROVE  doc.daily[i] \subseteq Head(doc.daily) \cup PendingKeys(other)
  <2>1. CASE i = 1
    BY <1>1, <2>1
  <2>2. CASE i - 1 \in 1..Len(other.daily) /\ other.daily[i - 1] = doc.daily[i]
    BY <2>2 DEF PendingKeys
  <2> QED
    BY <1>2, <2>1, <2>2
<1> QED
  BY <1>3 DEF PendingKeys

LEMMA DailyOkStep ==
  ASSUME TypeOK, DailyPending, NEW j \in Jobs, DailyOk(j), JobStep(j),
         usable[j] /\ pc[j] = "daily" => mem[j].daily = store.daily,
         ToldWhenShown(mem[j]),
         pc[j] = "idle" => usable[j]
  PROVE  DailyOk(j)'
<1>0. mem[j].daily \in Seq(SUBSET Event) /\ notify[j] \in SUBSET Event
  BY DEF TypeOK, Document
<1>1. CASE StartRun(j) \/ StartReplay(j)
  BY <1>1, StartEffect DEF DailyOk
<1>2. CASE Fetch(j)
  BY <1>2, FetchEffect DEF DailyOk
<1>3. CASE Record(j)
  <2>1. /\ usable' = usable /\ (bad[j] => bad'[j])
        /\ pc'[j] = "reload" \/ (pc'[j] = "report" /\ bad'[j])
    BY <1>3, SaveEffect DEF Record
  <2> QED
    BY <2>1 DEF DailyOk
<1>4. CASE Reload(j)
  BY <1>4, ReloadEffect DEF DailyOk
<1>5. CASE Enqueue(j)
  BY <1>5, EnqueueEffect DEF DailyOk
<1>6. CASE Send(j)
  BY <1>6, SendEffect DEF DailyOk
<1>7. CASE SaveOutbox(j)
  <2>1. usable' = usable /\ (bad[j] => bad'[j]) /\ pc'[j] = "daily"
    BY <1>7, SaveEffect DEF SaveOutbox
  <2> QED
    BY <2>1 DEF DailyOk
<1>8. CASE Daily(j)
  <2>1. PICK visible \in {notify[j], {e \in notify[j] : e[1] \notin Hidden}} :
          LET message == NewMessage(mem[j], visible)
          IN  \/ /\ message \in SUBSET Event /\ message # {}
                 /\ mem'[j].daily = Append(mem[j].daily, message)
                 /\ \/ usable[j] /\ store' = mem'[j] /\ pc'[j] = "sendDaily"
                    \/ /\ pc'[j] = "report" /\ bad'[j]
                       /\ store' = store \/ (usable[j] /\ store' = mem'[j])
              \/ /\ message = {} /\ mem' = mem /\ store' = store
                 /\ pc'[j] = IF mem[j].daily = <<>> THEN "report" ELSE "sendDaily"
    BY <1>8, DailyEffect
  <2> DEFINE message == NewMessage(mem[j], visible)
  <2>2. /\ pc[j] = "daily" /\ UNCHANGED <<usable, notify, shown>> /\ (bad[j] => bad'[j])
    BY <1>8, DailyEffect
  <2>3. \A e \in notify[j] : e[1] \notin Hidden =>
          e \in message \/ e \in PendingKeys(mem[j]) \/ shown[e] > 0
    <3>1. ASSUME NEW e \in notify[j], e[1] \notin Hidden, e \notin message, e \notin PendingKeys(mem[j])
          PROVE  shown[e] > 0
      <4>1. e \in visible /\ e \in Event
        BY <1>0, <2>1, <3>1
      <4>2. mem[j].delivered[e[1]] = e[2]
        BY <3>1, <4>1 DEF NewMessage
      <4> QED
        BY <4>1, <4>2 DEF ToldWhenShown
    <3> QED
      BY <3>1
  <2> HIDE DEF message
  <2>4. CASE /\ message \in SUBSET Event /\ mem'[j].daily = Append(mem[j].daily, message)
             /\ pc'[j] = "sendDaily"
    <3>1. PendingKeys(mem[j]) \cup message \subseteq PendingKeys(mem'[j])
      BY <1>0, <2>4, PendingJoined
    <3>2. \A e \in notify'[j] : e[1] \notin Hidden => e \in PendingKeys(mem'[j]) \/ shown'[e] > 0
      BY <2>2, <2>3, <3>1
    <3>3. PendingKeys(mem'[j]) = PendingKeys(mem[j])'
      BY DEF PendingKeys
    <3> QED
      BY <2>2, <2>4, <3>2, <3>3 DEF DailyOk
  <2>5. CASE pc'[j] = "report" /\ bad'[j]
    BY <2>5 DEF DailyOk
  <2>6. CASE /\ message = {} /\ mem' = mem /\ store' = store
             /\ pc'[j] = IF mem[j].daily = <<>> THEN "report" ELSE "sendDaily"
    <3>1. \A e \in notify'[j] : e[1] \notin Hidden => e \in PendingKeys(mem[j])' \/ shown'[e] > 0
      BY <2>2, <2>3, <2>6 DEF PendingKeys
    <3>2. pc'[j] \in {"report", "sendDaily"} /\ (pc'[j] = "report" => mem'[j].daily = <<>>)
      BY <2>6
    <3>3. ~bad'[j] /\ pc'[j] = "report" => store'.daily = <<>>
      BY <2>2, <2>6, <3>2 DEF DailyOk
    <3> QED
      BY <2>2, <3>1, <3>2, <3>3 DEF DailyOk
  <2> QED
    BY <2>1, <2>4, <2>5, <2>6 DEF message
<1>9. CASE SendDaily(j)
  <2>1. /\ pc[j] = "sendDaily" /\ mem[j].daily # <<>> /\ (bad[j] => bad'[j])
        /\ UNCHANGED <<usable, notify>>
        /\ \A e \in Event : shown[e] > 0 => shown'[e] > 0
        /\ \/ /\ pc'[j] = "saveDaily" /\ bad'[j]
           \/ /\ \A e \in Head(mem[j].daily) : shown'[e] > 0
              /\ mem'[j].daily = Tail(mem[j].daily)
              /\ pc'[j] = IF mem'[j].daily = <<>> THEN "saveDaily" ELSE "sendDaily"
    BY <1>9, SendDailyEffect
  <2>2. CASE bad'[j]
    BY <2>1, <2>2 DEF DailyOk
  <2>3. CASE ~bad'[j]
    <3>1. PendingKeys(mem[j]) \subseteq Head(mem[j].daily) \cup PendingKeys(mem'[j])
      BY <1>0, <2>1, <2>3, PendingLeft
    <3>2. \A e \in notify[j] : e[1] \notin Hidden => e \in PendingKeys(mem[j]) \/ shown[e] > 0
      BY <2>1, <2>3 DEF DailyOk
    <3>3. \A e \in notify'[j] : e[1] \notin Hidden => e \in PendingKeys(mem'[j]) \/ shown'[e] > 0
      BY <1>0, <2>1, <2>3, <3>1, <3>2
    <3>4. PendingKeys(mem'[j]) = PendingKeys(mem[j])'
      BY DEF PendingKeys
    <3> QED
      BY <2>1, <2>3, <3>3, <3>4 DEF DailyOk
  <2> QED
    BY <2>2, <2>3
<1>10. CASE SaveDaily(j)
  <2>1. /\ pc[j] = "saveDaily" /\ pc'[j] = "report" /\ (bad[j] => bad'[j])
        /\ UNCHANGED <<mem, usable, notify, shown>>
        /\ bad'[j] \/ store' = mem[j]
    BY <1>10, SaveEffect DEF SaveDaily, history
  <2>2. PendingKeys(mem[j])' = PendingKeys(mem[j])
    BY <2>1 DEF PendingKeys
  <2> QED
    BY <2>1, <2>2 DEF DailyOk
<1>11. CASE SaveReplay(j) \/ Report(j) \/ Crash(j)
  <2>1. pc'[j] = "idle" /\ usable'[j]
    BY <1>11, ForgetEffect DEF SaveReplay, Report, Crash
  <2> QED
    BY <2>1 DEF DailyOk
<1> QED
  BY <1>1, <1>2, <1>3, <1>4, <1>5, <1>6, <1>7, <1>8, <1>9, <1>10, <1>11 DEF JobStep, Step

-----------------------------------------------------------------------------
RunInv ==
  /\ ToldWhenShown(store)
  /\ \A j \in Jobs : /\ RecordKept(j) /\ QueueKept(j) /\ OutboxOk(j) /\ DailyOk(j)
                     /\ ToldWhenShown(mem[j])

LEMMA RunInvInitial == Init => RunInv
<1> SUFFICES ASSUME Init PROVE RunInv
  OBVIOUS
<1>1. \A e \in Event : EmptyDocument.delivered[e[1]] # e[2]
  BY DeliveryAssumption DEF EmptyDocument, Event
<1>2. ToldWhenShown(store) /\ \A j \in Jobs : ToldWhenShown(mem[j])
  BY <1>1 DEF Init, ToldWhenShown
<1>3. \A j \in Jobs : RecordKept(j) /\ QueueKept(j) /\ OutboxOk(j) /\ DailyOk(j)
  BY DEF Init, RecordKept, QueueKept, OutboxOk, DailyOk, AfterRecord, Announces
<1> QED
  BY <1>2, <1>3 DEF RunInv

(* The only job keeps the invariant, and moves the queue as it should. *)
LEMMA RunInvStep ==
  ASSUME OneJob, TypeOK, DailyPending, CopyKept, RunInv, [Next]_vars
  PROVE  RunInv' /\ [QueueMoves]_vars
<1>1. CASE UNCHANGED vars
  BY <1>1 DEF RunInv, ToldWhenShown, RecordKept, QueueKept, OutboxOk, DailyOk, Ahead, Unsent,
              PendingKeys, vars
<1>2. ASSUME NEW j \in Jobs, JobStep(j) PROVE RunInv' /\ QueueMoves
  <2>1. /\ pc[j] \in {"idle", "replay"} => usable[j]
        /\ usable[j] /\ pc[j] = "enqueue" => mem[j].outbox = store.outbox
    BY DEF CopyKept, Copies
  <2>2. /\ ToldWhenShown(store) /\ ToldWhenShown(mem[j])
        /\ RecordKept(j) /\ QueueKept(j) /\ OutboxOk(j) /\ DailyOk(j)
    BY DEF RunInv
  <2>3. RecordKept(j)'
    BY <1>2, <2>2, RecordStep
  <2>4. QueueKept(j)' /\ QueueMoves
    BY <1>2, <2>1, <2>2, OrderStep
  <2>5. ToldWhenShown(store)' /\ ToldWhenShown(mem[j])'
    BY <1>2, <2>2, ToldStep
  <2>6. OutboxOk(j)'
    BY <1>2, <2>1, <2>2, OutboxOkStep DEF DailyOk
  <2>7. DailyOk(j)'
    BY <1>2, <2>1, <2>2, DailyOkStep DEF QueueKept
  <2>8. \A k \in Jobs : k = j
    BY DEF OneJob
  <2> QED
    BY <2>3, <2>4, <2>5, <2>6, <2>7, <2>8 DEF RunInv
<1> QED
  BY <1>1, <1>2 DEF Next, JobStep

LEMMA RunInvariant ==
  ASSUME OneJob
  PROVE  Spec => [](QueueInv /\ CopyKept /\ RunInv)
<1>1. Init => CopyKept
  BY DEF Init, CopyKept, Copies, Saves, Struck
<1>2. QueueInv /\ CopyKept /\ [Next]_vars => CopyKept'
  BY OutboxStep DEF QueueInv
<1>3. QueueInv /\ CopyKept /\ RunInv /\ [Next]_vars => RunInv'
  BY RunInvStep DEF QueueInv
<1> QED
  BY <1>1, <1>2, <1>3, RunInvInitial, QueueInvariant, PTL DEF Spec

(* With one job at a time a run announces only what the document already   *)
(* records (run_check saves before anything is sent), whatever fails.      *)
THEOREM UpdatesAreOnRecord == ASSUME OneJob PROVE Spec => []UpdatesOnRecord
<1>1. RunInv => UpdatesOnRecord
  BY DEF RunInv, RecordKept, UpdatesOnRecord
<1> QED
  BY <1>1, RunInvariant, PTL

(* With one job at a time a run that ends without an error has nothing     *)
(* pending, and all its updates reached a backend and, unless hidden, the  *)
(* daily channel: a failure of any save, load or send shows as an error.   *)
THEOREM OkIsDelivered == ASSUME OneJob PROVE Spec => []OkMeansDelivered
<1>1. QueueInv /\ RunInv => OkMeansDelivered
  <2> SUFFICES ASSUME QueueInv, RunInv, NEW j \in Jobs, pc[j] = "report", ~bad[j]
               PROVE  /\ Unsent(store) = {}
                      /\ store.daily = <<>>
                      /\ \A e \in notify[j] :
                           /\ \E b \in Backends : <<e, b>> \in acked
                           /\ e[1] \notin Hidden => shown[e] > 0
    BY DEF OkMeansDelivered
  <2>1. /\ Unsent(mem[j]) = {} /\ Unsent(store) = {}
        /\ \A e \in notify[j] :
             mem[j].outbox[e] # {} \/ \E b \in Backends : <<e, b>> \in acked
    BY DEF RunInv, OutboxOk, Announces
  <2>2. /\ store.daily = <<>> /\ mem[j].daily = <<>>
        /\ \A e \in notify[j] : e[1] \notin Hidden => e \in PendingKeys(mem[j]) \/ shown[e] > 0
    BY DEF RunInv, DailyOk
  <2>3. notify[j] \in SUBSET Event /\ mem[j].outbox \in [Event -> SUBSET Backends]
    BY DEF QueueInv, TypeOK, Document
  <2>4. \A e \in notify[j] : mem[j].outbox[e] = {}
    <3>1. ASSUME NEW e \in Event, NEW b \in Backends PROVE b \notin mem[j].outbox[e]
      <4>1. <<e, b>> \in Target /\ <<e, b>>[1] = e /\ <<e, b>>[2] = b
        BY DEF Target
      <4> QED
        BY <2>1, <4>1 DEF Unsent
    <3> QED
      BY <2>3, <3>1
  <2>5. PendingKeys(mem[j]) = {}
    BY <2>2, EmptySeq DEF PendingKeys
  <2> QED
    BY <2>1, <2>2, <2>4, <2>5
<1> QED
  BY <1>1, RunInvariant, PTL

(* With one job at a time the stored daily messages are a queue: a message *)
(* leaves it only at the front and after it was shown, and one at most     *)
(* joins it at the back.                                                   *)
THEOREM DailyStaysInOrder == ASSUME OneJob PROVE Spec => DailyInOrder
<1>1. QueueInv /\ CopyKept /\ RunInv /\ [Next]_vars => [QueueMoves]_vars
  BY RunInvStep DEF QueueInv
<1>2. QueueMoves <=>
        \E n \in 0..Len(store.daily) :
          LET kept == SubSeq(store.daily, n + 1, Len(store.daily))
          IN /\ \A i \in 1..n : \A e \in store.daily[i] : shown[e] > 0
             /\ \/ store'.daily = kept
                \/ \E message \in SUBSET Event : store'.daily = Append(kept, message)
  BY DEF QueueMoves
<1> QED
  BY <1>1, <1>2, RunInvariant, PTL DEF Spec, DailyInOrder
=============================================================================
