-------------------------- MODULE WorkHistoryProofs --------------------------
(***************************************************************************)
(* Proofs about module WorkHistory, for any works, keys, retentions and    *)
(* any number of runs and operators that interleave: its types, that the   *)
(* lists of an entry agree, that the latest key is in the backlog, and     *)
(* that the read events are bounded; and, with one run and one operator,   *)
(* that only the operator takes an event off the unread ones.              *)
(***************************************************************************)
EXTENDS WorkHistory, FiniteSetTheorems, TLAPS

(* Trimming keeps an entry well formed, its latest key, and every unread   *)
(* event.                                                                  *)
LEMMA TrimKeeps ==
  ASSUME NEW entry \in Entry, WellFormed(entry), NEW limit
  PROVE  /\ Trim(entry, limit) \in Entry
         /\ WellFormed(Trim(entry, limit))
         /\ Trim(entry, limit).latest = entry.latest
         /\ Trim(entry, limit).unread = entry.unread
<1> DEFINE read == entry.history \ entry.unread
           kept == (entry.history \cap entry.unread)
                     \cup {e \in read : Cardinality({f \in read : <<e, f>> \in entry.newer}) < limit}
           trimmed == [entry EXCEPT !.history = kept,
                                    !.newer = @ \cap (kept \X kept),
                                    !.unread = @ \cap kept]
<1>1. Trim(entry, limit) = trimmed
  BY DEF Trim
<1>2. kept \subseteq entry.history /\ entry.unread \subseteq kept
  BY DEF WellFormed
<1> HIDE DEF kept
<1>3. /\ trimmed.latest = entry.latest
      /\ trimmed.history = kept
      /\ trimmed.newer = entry.newer \cap (kept \X kept)
      /\ trimmed.unread = entry.unread \cap kept
      /\ trimmed \in Entry
  BY <1>2 DEF Entry
<1>4. WellFormed(trimmed)
  <2> HIDE DEF trimmed
  <2>1. \A e, f \in kept : <<e, f>> \in trimmed.newer <=> <<e, f>> \in entry.newer
    BY <1>3
  <2> QED
    BY <1>2, <1>3, <2>1 DEF WellFormed
<1> QED
  BY <1>1, <1>2, <1>3, <1>4

(* Inserting an event keeps an entry well formed; a new event is unread.   *)
LEMMA InsertKeeps ==
  ASSUME NEW entry \in Entry, WellFormed(entry), NEW key \in Keys
  PROVE  /\ Insert(entry, key) \in Entry
         /\ WellFormed(Insert(entry, key))
         /\ key \in Insert(entry, key).history
         /\ entry.unread \subseteq Insert(entry, key).unread
         /\ key \in entry.history \/ key \in Insert(entry, key).unread
<1>1. CASE key \in entry.history
  BY <1>1 DEF Insert
<1>2. CASE key \notin entry.history
  <2> DEFINE grown == [entry EXCEPT !.history = @ \cup {key},
                                    !.newer = @ \cup (entry.history \X {key}),
                                    !.unread = @ \cup {key}]
  <2>1. Insert(entry, key) = grown
    BY <1>2 DEF Insert
  <2>2. /\ grown.history = entry.history \cup {key}
        /\ grown.newer = entry.newer \cup (entry.history \X {key})
        /\ grown.unread = entry.unread \cup {key}
        /\ grown \in Entry
    BY DEF Entry
  <2> HIDE DEF grown
  <2>3. \A e, f \in Keys : <<e, f>> \in grown.newer <=>
          <<e, f>> \in entry.newer \/ (e \in entry.history /\ f = key)
    BY <2>2
  <2>4. entry.newer \subseteq entry.history \X entry.history /\ entry.history \subseteq Keys
    BY DEF WellFormed, Entry
  <2>5. \A e \in Keys : <<e, key>> \notin entry.newer /\ <<key, e>> \notin entry.newer
    BY <1>2, <2>4
  <2>6. WellFormed(grown)
    <3>1. /\ grown.unread \subseteq grown.history
          /\ grown.newer \subseteq grown.history \X grown.history
      BY <2>2 DEF WellFormed
    <3>2. ASSUME NEW e \in grown.history, NEW f \in grown.history, e # f
          PROVE  <<e, f>> \in grown.newer <=> <<f, e>> \notin grown.newer
      BY <1>2, <2>2, <2>3, <2>4, <2>5, <3>2 DEF WellFormed
    <3>3. \A e \in grown.history : <<e, e>> \notin grown.newer
      BY <1>2, <2>2, <2>3, <2>4, <2>5 DEF WellFormed
    <3>4. ASSUME NEW e \in grown.history, NEW f \in grown.history, NEW g \in grown.history,
                 <<e, f>> \in grown.newer, <<f, g>> \in grown.newer
          PROVE  <<e, g>> \in grown.newer
      BY <1>2, <2>2, <2>3, <2>4, <2>5, <3>4 DEF WellFormed
    <3> QED
      BY <3>1, <3>2, <3>3, <3>4 DEF WellFormed
  <2> QED
    BY <2>1, <2>2, <2>6
<1> QED
  BY <1>1, <1>2

-----------------------------------------------------------------------------
(* What makes the latest key accounted for inductive: a read event of the  *)
(* history was marked by an operator, in every copy, so that a source      *)
(* going back to it finds it read for that reason only.                    *)
Accounted(w, entry, firsts, marked) ==
  /\ \A e \in entry.history \ entry.unread : <<w, e>> \in marked
  /\ \/ entry.latest = NoKey
     \/ entry.latest \in entry.unread
     \/ <<w, entry.latest>> \in firsts \cup marked

Sound(entries, firsts, marked) ==
  \A w \in Works :
    /\ entries[w] \in Entry
    /\ WellFormed(entries[w])
    /\ Accounted(w, entries[w], firsts, marked)

HistoryInv ==
  /\ TypeOK
  /\ Sound(store, first, cleared)
  /\ \A j \in Jobs : Sound(mem[j], first, cleared)

(* What is accounted for stays so as more is known. *)
LEMMA SoundGrows ==
  ASSUME NEW entries, NEW f1, NEW m1, NEW f2, NEW m2,
         Sound(entries, f1, m1), f1 \subseteq f2, m1 \subseteq m2
  PROVE  Sound(entries, f2, m2)
<1> SUFFICES ASSUME NEW w \in Works PROVE Accounted(w, entries[w], f2, m2)
  BY DEF Sound
<1> QED
  BY DEF Sound, Accounted

(* Entries with nothing in them. *)
LEMMA NothingSound == ASSUME NEW firsts, NEW marked PROVE Sound(NoEntries, firsts, marked)
<1>1. NoEntry \in Entry
  BY DEF NoEntry, Entry
<1> QED
  BY <1>1 DEF Sound, NoEntries, NoEntry, WellFormed, Accounted

(* One answer of a source keeps the entry of its work sound. *)
LEMMA TransitionKeeps ==
  ASSUME NEW w \in Works, NEW entry \in Entry, WellFormed(entry),
         NEW key \in Keys \cup {NoKey}, NEW limit,
         NEW firsts, NEW marked, Accounted(w, entry, firsts, marked),
         entry.latest = NoKey /\ key # NoKey => <<w, key>> \in firsts
  PROVE  /\ Transition(entry, key, limit) \in Entry
         /\ WellFormed(Transition(entry, key, limit))
         /\ Accounted(w, Transition(entry, key, limit), firsts, marked)
<1>a. ASSUME NEW e \in Entry, WellFormed(e), Accounted(w, e, firsts, marked)
      PROVE  /\ Trim(e, limit) \in Entry
             /\ WellFormed(Trim(e, limit))
             /\ Accounted(w, Trim(e, limit), firsts, marked)
  <2>1. Trim(e, limit).history \subseteq e.history
    BY <1>a DEF Trim, Entry
  <2> QED
    BY <1>a, <2>1, TrimKeeps DEF Accounted
<1>1. CASE key = NoKey \/ key = entry.latest
  BY <1>a, <1>1 DEF Transition
<1>2. CASE key # NoKey /\ key # entry.latest
  <2> DEFINE known == IF entry.latest = NoKey THEN entry ELSE Insert(entry, key)
             next == [known EXCEPT !.latest = key]
  <2>1. Transition(entry, key, limit) = Trim(next, limit)
    BY <1>2 DEF Transition
  <2>2. /\ known \in Entry /\ WellFormed(known)
        /\ \A e \in known.history \ known.unread : <<w, e>> \in marked
        /\ key \in known.unread \/ <<w, key>> \in firsts \cup marked
    <3>1. CASE entry.latest = NoKey
      BY <1>2, <3>1 DEF Accounted
    <3>2. CASE entry.latest # NoKey
      <4>1. /\ known \in Entry /\ WellFormed(known) /\ key \in known.history
        BY <1>2, <3>2, InsertKeeps
      <4>2. \A e \in known.history \ known.unread : e \in entry.history \ entry.unread
        BY <3>2 DEF Insert, Entry
      <4> QED
        BY <3>2, <4>1, <4>2 DEF Accounted
    <3> QED
      BY <3>1, <3>2
  <2> HIDE DEF known
  <2>3. /\ next \in Entry
        /\ next.latest = key /\ next.history = known.history
        /\ next.newer = known.newer /\ next.unread = known.unread
    BY <2>2, <1>2 DEF Entry
  <2> HIDE DEF next
  <2>4. WellFormed(next) /\ Accounted(w, next, firsts, marked)
    BY <2>2, <2>3 DEF WellFormed, Accounted
  <2> QED
    BY <1>a, <2>1, <2>3, <2>4
<1> QED
  BY <1>1, <1>2

(* Marking an entry as read keeps it sound, once its events are on record  *)
(* as marked.                                                              *)
LEMMA MarkKeeps ==
  ASSUME NEW w \in Works, NEW entry \in Entry, WellFormed(entry), NEW limit,
         NEW firsts, NEW marked, NEW more, Accounted(w, entry, firsts, marked),
         marked \subseteq more, \A e \in entry.unread : <<w, e>> \in more
  PROVE  /\ Trim([entry EXCEPT !.unread = {}], limit) \in Entry
         /\ WellFormed(Trim([entry EXCEPT !.unread = {}], limit))
         /\ Accounted(w, Trim([entry EXCEPT !.unread = {}], limit), firsts, more)
<1> DEFINE read == [entry EXCEPT !.unread = {}]
<1>1. /\ read \in Entry /\ read.unread = {} /\ read.history = entry.history
      /\ read.latest = entry.latest /\ read.newer = entry.newer
  BY DEF Entry
<1> HIDE DEF read
<1>2. WellFormed(read)
  BY <1>1 DEF WellFormed
<1>3. Trim(read, limit).history \subseteq read.history
  BY <1>1 DEF Trim, Entry
<1>4. Accounted(w, Trim(read, limit), firsts, more)
  BY <1>1, <1>2, <1>3, TrimKeeps DEF Accounted
<1> QED
  BY <1>1, <1>2, <1>4, TrimKeeps DEF read

-----------------------------------------------------------------------------
(* A step of one job that loads, forgets or leaves its copy, and leaves or *)
(* replaces the document by a sound one, keeps the invariant.              *)
LEMMA OneJobMoves ==
  ASSUME HistoryInv, NEW j \in Jobs, NEW step \in Steps, pc' = [pc EXCEPT ![j] = step],
         NEW copy \in [Works -> Entry], mem' = [mem EXCEPT ![j] = copy],
         store' \in [Works -> Entry],
         first' \in SUBSET (Works \X Keys), cleared' \in SUBSET (Works \X Keys),
         first \subseteq first', cleared \subseteq cleared',
         Sound(copy, first', cleared'), Sound(store', first', cleared')
  PROVE  HistoryInv'
<1>1. TypeOK'
  BY DEF HistoryInv, TypeOK
<1>2. \A i \in Jobs : Sound(mem'[i], first', cleared')
  <2> SUFFICES ASSUME NEW i \in Jobs PROVE Sound(mem'[i], first', cleared')
    OBVIOUS
  <2>1. CASE i = j
    BY <2>1 DEF HistoryInv, TypeOK
  <2>2. CASE i # j
    <3>1. mem'[i] = mem[i] /\ Sound(mem[i], first, cleared)
      BY <2>2 DEF HistoryInv, TypeOK
    <3> QED
      BY <3>1, SoundGrows
  <2> QED
    BY <2>1, <2>2
<1>3. Sound(store, first, cleared)'
  BY DEF Sound, Accounted, WellFormed
<1>4. (\A i \in Jobs : Sound(mem[i], first, cleared))'
  BY <1>2 DEF Sound, Accounted, WellFormed, Jobs
<1> QED
  BY <1>1, <1>3, <1>4 DEF HistoryInv

(* Every step keeps the invariant. *)
LEMMA HistoryStep == HistoryInv /\ [Next]_vars => HistoryInv'
<1> SUFFICES ASSUME HistoryInv, [Next]_vars PROVE HistoryInv'
  OBVIOUS
<1>a. /\ store \in [Works -> Entry] /\ Sound(store, first, cleared)
      /\ \A j \in Jobs : mem[j] \in [Works -> Entry] /\ Sound(mem[j], first, cleared)
      /\ first \in SUBSET (Works \X Keys) /\ cleared \in SUBSET (Works \X Keys)
  BY DEF HistoryInv, TypeOK
<1>b. NoEntries \in [Works -> Entry]
  BY DEF NoEntries, NoEntry, Entry
<1>c. \A j \in Jobs : mem' = mem => mem' = [mem EXCEPT ![j] = mem[j]]
  BY DEF HistoryInv, TypeOK
<1>1. CASE UNCHANGED vars
  <2>1. TypeOK'
    BY <1>1 DEF HistoryInv, TypeOK, vars
  <2>2. /\ Sound(store', first', cleared')
        /\ \A j \in Jobs : Sound(mem'[j], first', cleared')
    BY <1>1, <1>a DEF vars
  <2>3. Sound(store, first, cleared)'
    BY <2>2 DEF Sound, Accounted, WellFormed
  <2>4. (\A j \in Jobs : Sound(mem[j], first, cleared))'
    BY <2>2 DEF Sound, Accounted, WellFormed, Jobs
  <2> QED
    BY <2>1, <2>3, <2>4 DEF HistoryInv
<1>2. ASSUME NEW j \in Jobs, StartCrawl(j) \/ Reload(j) \/ StartMarkRead(j)
      PROVE  HistoryInv'
  <2>1. PICK step \in Steps :
          /\ pc' = [pc EXCEPT ![j] = step] /\ mem' = [mem EXCEPT ![j] = store]
          /\ UNCHANGED <<store, first, cleared>>
    BY <1>2 DEF StartCrawl, Reload, StartMarkRead, Goto, Load, Steps
  <2> QED
    BY <1>a, <2>1, OneJobMoves
<1>3. ASSUME NEW j \in Jobs, Observe(j) PROVE HistoryInv'
  <2>1. PICK seen \in [Works -> Keys \cup {NoKey}] :
       /\ mem' = [mem EXCEPT ![j] =
                   [w \in Works |-> Transition(mem[j][w], seen[w], Retention[w])]]
       /\ first' = first \cup {<<w, seen[w]>> : w \in {v \in Works :
                                  mem[j][v].latest = NoKey /\ seen[v] # NoKey}}
    BY <1>3 DEF Observe
  <2> DEFINE copy == [w \in Works |-> Transition(mem[j][w], seen[w], Retention[w])]
             begun == {<<w, seen[w]>> : w \in {v \in Works :
                                  mem[j][v].latest = NoKey /\ seen[v] # NoKey}}
  <2>2. pc' = [pc EXCEPT ![j] = "record"] /\ UNCHANGED <<store, cleared>>
    BY <1>3 DEF Observe, Goto
  <2>3. begun \in SUBSET (Works \X Keys)
    OBVIOUS
  <2>4. Sound(mem[j], first', cleared') /\ Sound(store, first', cleared')
    BY <1>a, <2>1, <2>2, SoundGrows
  <2>5. ASSUME NEW w \in Works
        PROVE  /\ Transition(mem[j][w], seen[w], Retention[w]) \in Entry
               /\ WellFormed(Transition(mem[j][w], seen[w], Retention[w]))
               /\ Accounted(w, Transition(mem[j][w], seen[w], Retention[w]), first', cleared')
    <3>1. mem[j][w].latest = NoKey /\ seen[w] # NoKey => <<w, seen[w]>> \in first'
      BY <2>1
    <3>2. /\ mem[j][w] \in Entry /\ WellFormed(mem[j][w])
          /\ Accounted(w, mem[j][w], first', cleared')
      BY <2>4 DEF Sound
    <3> QED
      BY <3>1, <3>2, TransitionKeeps
  <2>6. copy \in [Works -> Entry] /\ Sound(copy, first', cleared')
    BY <2>5 DEF Sound
  <2>7. mem' = [mem EXCEPT ![j] = copy] /\ first' = first \cup begun
    BY <2>1
  <2>8. "record" \in Steps
    BY DEF Steps
  <2> HIDE DEF copy, begun
  <2> QED
    BY <1>a, <2>2, <2>3, <2>4, <2>6, <2>7, <2>8, OneJobMoves
<1>4. ASSUME NEW j \in Jobs, Record(j) PROVE HistoryInv'
  <2>1. /\ pc' = [pc EXCEPT ![j] = "reload"] /\ mem' = [mem EXCEPT ![j] = NoEntries]
        /\ store' = mem[j] /\ UNCHANGED <<first, cleared>> /\ "reload" \in Steps
    BY <1>4 DEF Record, Goto, Forget, Steps
  <2> QED
    BY <1>a, <1>b, <2>1, NothingSound, OneJobMoves
<1>5. ASSUME NEW j \in Jobs, SaveDelivery(j) PROVE HistoryInv'
  <2>1. /\ pc' = [pc EXCEPT ![j] = pc[j]] /\ mem' = [mem EXCEPT ![j] = mem[j]]
        /\ store' = mem[j] /\ UNCHANGED <<first, cleared>> /\ pc[j] \in Steps
    BY <1>5, <1>c DEF SaveDelivery, HistoryInv, TypeOK
  <2> QED
    BY <1>a, <2>1, OneJobMoves
<1>6. ASSUME NEW j \in Jobs, MarkRead(j) PROVE HistoryInv'
  <2>1. PICK scope \in {Works} \cup {{w} : w \in Works},
             limit \in {Retention, [w \in Works |-> DefaultRetention]} :
       /\ store' = [w \in Works |->
                     IF w \in scope
                     THEN Trim([mem[j][w] EXCEPT !.unread = {}], limit[w])
                     ELSE mem[j][w]]
       /\ cleared' = cleared \cup {p \in scope \X Keys : p[2] \in mem[j][p[1]].unread}
    BY <1>6 DEF MarkRead
  <2>2. /\ pc' = [pc EXCEPT ![j] = "idle"] /\ mem' = [mem EXCEPT ![j] = NoEntries]
        /\ first' = first /\ "idle" \in Steps
    BY <1>6 DEF MarkRead, Goto, Forget, Steps
  <2>3. /\ cleared \subseteq cleared'
        /\ cleared' \in SUBSET (Works \X Keys)
    BY <1>a, <2>1
  <2>4. ASSUME NEW w \in Works
        PROVE  /\ store'[w] \in Entry /\ WellFormed(store'[w])
               /\ Accounted(w, store'[w], first', cleared')
    <3>1. /\ mem[j][w] \in Entry /\ WellFormed(mem[j][w])
          /\ Accounted(w, mem[j][w], first, cleared)
      BY <1>a DEF Sound
    <3>2. CASE w \notin scope
      BY <2>1, <2>2, <2>3, <3>1, <3>2 DEF Accounted
    <3>3. CASE w \in scope
      <4>1. store'[w] = Trim([mem[j][w] EXCEPT !.unread = {}], limit[w])
        BY <2>1, <3>3
      <4>2. \A e \in mem[j][w].unread : <<w, e>> \in cleared'
        BY <2>1, <3>1, <3>3 DEF Entry
      <4> QED
        BY <2>2, <2>3, <3>1, <4>1, <4>2, MarkKeeps
    <3> QED
      BY <3>2, <3>3
  <2>5. store' \in [Works -> Entry] /\ Sound(store', first', cleared')
    BY <2>1, <2>4 DEF Sound
  <2> QED
    BY <1>a, <1>b, <2>2, <2>3, <2>5, NothingSound, OneJobMoves
<1>7. ASSUME NEW j \in Jobs, Stop(j) PROVE HistoryInv'
  <2>1. /\ pc' = [pc EXCEPT ![j] = "idle"] /\ mem' = [mem EXCEPT ![j] = NoEntries]
        /\ UNCHANGED <<store, first, cleared>> /\ "idle" \in Steps
    BY <1>7 DEF Stop, Goto, Forget, Steps
  <2> QED
    BY <1>a, <1>b, <2>1, NothingSound, OneJobMoves
<1> QED
  BY <1>1, <1>2, <1>3, <1>4, <1>5, <1>6, <1>7 DEF Next, Jobs

(* The strengthened invariant holds in every behaviour. *)
LEMMA HistoryInvariant == Spec => []HistoryInv
<1>1. Init => HistoryInv
  <2> SUFFICES ASSUME Init PROVE HistoryInv
    OBVIOUS
  <2>1. NoEntries \in [Works -> Entry]
    BY DEF NoEntries, NoEntry, Entry
  <2>2. TypeOK
    BY <2>1 DEF Init, TypeOK, Steps
  <2> QED
    BY <2>2, NothingSound DEF Init, HistoryInv
<1> QED
  BY <1>1, HistoryStep, PTL DEF Spec

(* The entries of the document and of every copy keep their types. *)
THEOREM HistoryTypeCorrect == Spec => []TypeOK
  BY HistoryInvariant, PTL DEF HistoryInv

(* Whatever is inserted, found again, marked or trimmed, in whichever      *)
(* order runs and operators save, the unread events of a work stay events  *)
(* of its history, and the history stays in one order.                     *)
THEOREM HistoryWellFormed == Spec => []EntriesWellFormed
<1>1. HistoryInv => EntriesWellFormed
  BY DEF HistoryInv, Sound, EntriesWellFormed
<1> QED
  BY <1>1, HistoryInvariant, PTL

(* No interleaving of runs and operators, and no save from an old copy,    *)
(* leaves a change recorded as seen that no operator has marked as read    *)
(* and that is not among the unread events.                                *)
THEOREM LatestStaysInBacklog == Spec => []LatestIsInBacklog
<1>1. HistoryInv => LatestIsInBacklog
  BY DEF HistoryInv, Sound, Accounted, LatestIsInBacklog
<1> QED
  BY <1>1, HistoryInvariant, PTL

-----------------------------------------------------------------------------
(* How many events of a set come after none, one, ... fewer than limit of  *)
(* its own: at most limit, when the set has one order.  This is what the   *)
(* slice history[-limit:] of the read events comes to.                     *)
LEMMA LastFew ==
  ASSUME NEW S, IsFiniteSet(S), NEW order, NEW limit \in Nat \ {0},
         \A e, f \in S : e # f => (<<e, f>> \in order \/ <<f, e>> \in order),
         \A e \in S : <<e, e>> \notin order,
         \A e, f, g \in S : <<e, f>> \in order /\ <<f, g>> \in order => <<e, g>> \in order
  PROVE  Cardinality({e \in S : Cardinality({f \in S : <<e, f>> \in order}) < limit}) <= limit
<1> DEFINE after(e) == {f \in S : <<e, f>> \in order}
           last == {e \in S : Cardinality(after(e)) < limit}
           place == [e \in last |-> Cardinality(after(e))]
<1>1. \A e \in S : IsFiniteSet(after(e)) /\ Cardinality(after(e)) \in Nat
  <2> SUFFICES ASSUME NEW e \in S PROVE IsFiniteSet(after(e)) /\ Cardinality(after(e)) \in Nat
    OBVIOUS
  <2>1. after(e) \in SUBSET S
    OBVIOUS
  <2> HIDE DEF after
  <2>2. IsFiniteSet(after(e))
    BY <2>1, FS_Subset
  <2> QED
    BY <2>2, FS_CardinalityType
<1>2. ASSUME NEW e \in S, NEW f \in S, <<e, f>> \in order
      PROVE  Cardinality(after(f)) < Cardinality(after(e))
  <2>1. after(f) \in SUBSET after(e) /\ f \in after(e) /\ f \notin after(f)
    BY <1>2
  <2> HIDE DEF after
  <2>2. Cardinality(after(f)) <= Cardinality(after(e)) /\ Cardinality(after(f)) # Cardinality(after(e))
    BY <1>1, <2>1, FS_Subset
  <2> QED
    BY <1>1, <2>2
<1>3. place \in [last -> 0 .. limit - 1]
  <2>1. \A e \in last : e \in S /\ Cardinality(after(e)) < limit
    OBVIOUS
  <2> HIDE DEF after, last
  <2> QED
    BY <1>1, <2>1
<1>4. \A e, f \in last : place[e] = place[f] => e = f
  <2> SUFFICES ASSUME NEW e \in last, NEW f \in last, e # f PROVE place[e] # place[f]
    OBVIOUS
  <2>1. e \in S /\ f \in S /\ (<<e, f>> \in order \/ <<f, e>> \in order)
    OBVIOUS
  <2>2. place[e] = Cardinality(after(e)) /\ place[f] = Cardinality(after(f))
    OBVIOUS
  <2> HIDE DEF after, last, place
  <2> QED
    BY <1>1, <1>2, <2>1, <2>2
<1>5. place \in Injection(last, 0 .. limit - 1)
  <2> HIDE DEF last, place
  <2> QED
    BY <1>3, <1>4 DEF Injection, IsInjective
<1>6. IsFiniteSet(0 .. limit - 1) /\ Cardinality(0 .. limit - 1) = limit
  BY FS_Interval
<1> HIDE DEF last, place
<1>7. Cardinality(last) <= limit
  BY <1>5, <1>6, FS_Injection
<1> QED
  BY <1>7 DEF last

(* The read events of an entry are few, and the others are finitely many.  *)
ReadWithin(entry, limit) ==
  /\ IsFiniteSet(entry.history)
  /\ Cardinality(entry.history \ entry.unread) <= limit

(* Trimming leaves no more than limit read events. *)
LEMMA TrimBounds ==
  ASSUME NEW entry \in Entry, WellFormed(entry), IsFiniteSet(entry.history),
         NEW limit \in Nat \ {0}
  PROVE  ReadWithin(Trim(entry, limit), limit)
<1> DEFINE read == entry.history \ entry.unread
           last == {e \in read : Cardinality({f \in read : <<e, f>> \in entry.newer}) < limit}
<1>1. IsFiniteSet(read)
  BY FS_Subset
<1>2. Cardinality(last) <= limit
  <2>1. /\ \A e, f \in read : e # f => (<<e, f>> \in entry.newer \/ <<f, e>> \in entry.newer)
        /\ \A e \in read : <<e, e>> \notin entry.newer
        /\ \A e, f, g \in read :
             <<e, f>> \in entry.newer /\ <<f, g>> \in entry.newer => <<e, g>> \in entry.newer
    BY DEF WellFormed
  <2> HIDE DEF read
  <2> QED
    BY <1>1, <2>1, LastFew
<1>3. /\ Trim(entry, limit).history = (entry.history \cap entry.unread) \cup last
      /\ Trim(entry, limit).unread
           = entry.unread \cap ((entry.history \cap entry.unread) \cup last)
  BY DEF Trim, Entry
<1>4. last \in SUBSET read
  OBVIOUS
<1> HIDE DEF last
<1>5. Trim(entry, limit).history \ Trim(entry, limit).unread = last
  BY <1>3, <1>4
<1>6. Trim(entry, limit).history \in SUBSET entry.history
  BY <1>3, <1>4
<1> QED
  BY <1>2, <1>5, <1>6, FS_Subset DEF ReadWithin

(* An answer of a source trims to the retention of the work, whatever was  *)
(* there before.                                                           *)
LEMMA TransitionBounds ==
  ASSUME NEW entry \in Entry, WellFormed(entry), IsFiniteSet(entry.history),
         NEW key \in Keys \cup {NoKey}, NEW limit \in Nat \ {0}
  PROVE  ReadWithin(Transition(entry, key, limit), limit)
<1>1. CASE key = NoKey \/ key = entry.latest
  BY <1>1, TrimBounds DEF Transition
<1>2. CASE key # NoKey /\ key # entry.latest
  <2> DEFINE known == IF entry.latest = NoKey THEN entry ELSE Insert(entry, key)
             next == [known EXCEPT !.latest = key]
  <2>1. Transition(entry, key, limit) = Trim(next, limit)
    BY <1>2 DEF Transition
  <2>2. known \in Entry /\ WellFormed(known)
    BY <1>2, InsertKeeps
  <2>3. IsFiniteSet(known.history)
    <3>1. known.history = entry.history \/ known.history = entry.history \cup {key}
      BY DEF Insert, Entry
    <3> HIDE DEF known
    <3> QED
      BY <3>1, FS_AddElement
  <2> HIDE DEF known
  <2>4. /\ next \in Entry
        /\ next.history = known.history
        /\ next.newer = known.newer /\ next.unread = known.unread
    BY <1>2, <2>2 DEF Entry
  <2> HIDE DEF next
  <2>5. WellFormed(next) /\ IsFiniteSet(next.history)
    BY <2>2, <2>3, <2>4 DEF WellFormed
  <2> QED
    BY <2>1, <2>4, <2>5, TrimBounds
<1> QED
  BY <1>1, <1>2

(* What makes the bound inductive: every copy keeps it, since any of them  *)
(* may be saved whole.                                                     *)
Bounded(w, entry) ==
  ReadWithin(entry, Retention[w]) \/ ReadWithin(entry, DefaultRetention)

BoundInv ==
  \A w \in Works : Bounded(w, store[w]) /\ \A j \in Jobs : Bounded(w, mem[j][w])

(* A job replaces its copy and perhaps the document, both within bounds. *)
LEMMA OneJobBounded ==
  ASSUME HistoryInv, BoundInv, NEW j \in Jobs,
         NEW copy, mem' = [mem EXCEPT ![j] = copy],
         \A w \in Works : Bounded(w, copy[w]), \A w \in Works : Bounded(w, store'[w])
  PROVE  BoundInv'
<1>1. \A i \in Jobs : mem'[i] = IF i = j THEN copy ELSE mem[i]
  BY DEF HistoryInv, TypeOK
<1>2. \A w \in Works : Bounded(w, store'[w]) /\ \A i \in Jobs : Bounded(w, mem'[i][w])
  BY <1>1 DEF BoundInv
<1> QED
  BY <1>2 DEF BoundInv, Bounded, ReadWithin, Jobs

(* Every step keeps the bound. *)
LEMMA BoundStep == HistoryInv /\ BoundInv /\ [Next]_vars => BoundInv'
<1> SUFFICES ASSUME HistoryInv, BoundInv, [Next]_vars PROVE BoundInv'
  OBVIOUS
<1>a. /\ store \in [Works -> Entry]
      /\ \A j \in Jobs : mem[j] \in [Works -> Entry] /\ Sound(mem[j], first, cleared)
  BY DEF HistoryInv, TypeOK
<1>b. /\ \A w \in Works : Bounded(w, store[w])
      /\ \A j \in Jobs : \A w \in Works :
           Bounded(w, mem[j][w]) /\ IsFiniteSet(mem[j][w].history)
  BY DEF BoundInv, Bounded, ReadWithin
<1>c. \A w \in Works : Retention[w] \in Nat \ {0} /\ DefaultRetention \in Nat \ {0}
  BY HistoryAssumption
<1>d. NoEntries \in [Works -> Entry] /\ \A w \in Works : Bounded(w, NoEntries[w])
  <2>1. NoEntries \in [Works -> Entry]
    BY DEF NoEntries, NoEntry, Entry
  <2>2. ReadWithin(NoEntry, DefaultRetention)
    <3>1. NoEntry.history = {} /\ NoEntry.history \ NoEntry.unread = {}
      BY DEF NoEntry
    <3> QED
      BY <3>1, FS_EmptySet, HistoryAssumption DEF ReadWithin
  <2> QED
    BY <2>1, <2>2 DEF NoEntries, Bounded
<1>e. \A j \in Jobs : mem' = mem => mem' = [mem EXCEPT ![j] = mem[j]]
  BY DEF HistoryInv, TypeOK
<1>1. CASE UNCHANGED vars
  BY <1>1 DEF vars, BoundInv, Bounded, ReadWithin, Jobs
<1>2. ASSUME NEW j \in Jobs, StartCrawl(j) \/ Reload(j) \/ StartMarkRead(j)
      PROVE  BoundInv'
  <2>1. mem' = [mem EXCEPT ![j] = store] /\ store' = store
    BY <1>2 DEF StartCrawl, Reload, StartMarkRead, Load
  <2> QED
    BY <1>a, <1>b, <2>1, OneJobBounded
<1>3. ASSUME NEW j \in Jobs, Observe(j) PROVE BoundInv'
  <2>1. PICK seen \in [Works -> Keys \cup {NoKey}] :
       mem' = [mem EXCEPT ![j] =
                [w \in Works |-> Transition(mem[j][w], seen[w], Retention[w])]]
    BY <1>3 DEF Observe
  <2> DEFINE copy == [w \in Works |-> Transition(mem[j][w], seen[w], Retention[w])]
  <2>2. ASSUME NEW w \in Works
        PROVE  ReadWithin(Transition(mem[j][w], seen[w], Retention[w]), Retention[w])
    <3>1. mem[j][w] \in Entry /\ WellFormed(mem[j][w]) /\ IsFiniteSet(mem[j][w].history)
      BY <1>a, <1>b DEF Sound
    <3> QED
      BY <1>c, <3>1, TransitionBounds
  <2>4. \A w \in Works : Bounded(w, copy[w])
    BY <2>2 DEF Bounded
  <2>5. store' = store /\ mem' = [mem EXCEPT ![j] = copy]
    BY <1>3, <2>1 DEF Observe
  <2> HIDE DEF copy
  <2> QED
    BY <1>b, <2>4, <2>5, OneJobBounded
<1>4. ASSUME NEW j \in Jobs, Record(j) PROVE BoundInv'
  <2>1. mem' = [mem EXCEPT ![j] = NoEntries] /\ store' = mem[j]
    BY <1>4 DEF Record, Forget
  <2> QED
    BY <1>b, <1>d, <2>1, OneJobBounded
<1>5. ASSUME NEW j \in Jobs, SaveDelivery(j) PROVE BoundInv'
  <2>1. mem' = [mem EXCEPT ![j] = mem[j]] /\ store' = mem[j]
    BY <1>5, <1>e DEF SaveDelivery
  <2> QED
    BY <1>a, <1>b, <2>1, OneJobBounded
<1>6. ASSUME NEW j \in Jobs, MarkRead(j) PROVE BoundInv'
  <2>1. PICK scope \in {Works} \cup {{w} : w \in Works},
             limit \in {Retention, [w \in Works |-> DefaultRetention]} :
         store' = [w \in Works |->
                     IF w \in scope
                     THEN Trim([mem[j][w] EXCEPT !.unread = {}], limit[w])
                     ELSE mem[j][w]]
    BY <1>6 DEF MarkRead
  <2>2. mem' = [mem EXCEPT ![j] = NoEntries]
    BY <1>6 DEF MarkRead, Forget
  <2>3. ASSUME NEW w \in Works PROVE Bounded(w, store'[w])
    <3>1. CASE w \notin scope
      BY <1>b, <2>1, <3>1
    <3>2. CASE w \in scope
      <4> DEFINE read == [mem[j][w] EXCEPT !.unread = {}]
      <4>0. mem[j][w] \in Entry
        BY <1>a
      <4>1. /\ read \in Entry /\ read.unread = {} /\ read.history = mem[j][w].history
            /\ read.newer = mem[j][w].newer
        BY <4>0 DEF Entry
      <4>2. WellFormed(mem[j][w]) /\ IsFiniteSet(mem[j][w].history)
        BY <1>a, <1>b DEF Sound
      <4>3. store'[w] = Trim(read, limit[w])
        BY <2>1, <3>2
      <4> HIDE DEF read
      <4>4. WellFormed(read) /\ IsFiniteSet(read.history)
        BY <4>1, <4>2 DEF WellFormed
      <4>5. limit[w] \in {Retention[w], DefaultRetention}
        OBVIOUS
      <4>6. ReadWithin(Trim(read, limit[w]), limit[w])
        BY <1>c, <4>1, <4>4, <4>5, TrimBounds
      <4> QED
        BY <4>3, <4>5, <4>6 DEF Bounded
    <3> QED
      BY <3>1, <3>2
  <2> QED
    BY <1>d, <2>2, <2>3, OneJobBounded
<1>7. ASSUME NEW j \in Jobs, Stop(j) PROVE BoundInv'
  <2>1. mem' = [mem EXCEPT ![j] = NoEntries] /\ store' = store
    BY <1>7 DEF Stop, Forget
  <2> QED
    BY <1>b, <1>d, <2>1, OneJobBounded
<1> QED
  BY <1>1, <1>2, <1>3, <1>4, <1>5, <1>6, <1>7 DEF Next, Jobs

(* However often a source goes back and forth between keys, and whichever  *)
(* copies runs and operators save over each other, a work keeps no more    *)
(* read events than its retention, or the default in its place.            *)
THEOREM ReadStaysBounded == Spec => []ReadBounded
<1>1. Init => BoundInv
  <2> SUFFICES ASSUME Init PROVE BoundInv
    OBVIOUS
  <2>1. NoEntry.history = {} /\ NoEntry.history \ NoEntry.unread = {}
    BY DEF NoEntry
  <2>2. ReadWithin(NoEntry, DefaultRetention)
    BY <2>1, FS_EmptySet, HistoryAssumption DEF ReadWithin
  <2> QED
    BY <2>2 DEF Init, NoEntries, BoundInv, Bounded
<1>2. BoundInv => ReadBounded
  BY DEF BoundInv, Bounded, ReadWithin, ReadBounded
<1> QED
  BY <1>1, <1>2, BoundStep, HistoryInvariant, PTL DEF Spec

-----------------------------------------------------------------------------
(* Why only an operator's save takes an event off the unread ones, with    *)
(* one run at a time and one operator: the run's copy has every unread     *)
(* event of the document, since nobody else adds any, and the operator's   *)
(* has no other.  A second operator could put an event back that a run has *)
(* not loaded, and the run would then be the one to take it off.           *)
OneOfEach ==
  /\ \A i, j \in Crawlers : i = j
  /\ \A i, j \in Operators : i = j

TakenInv ==
  /\ \A j \in Crawlers :
       /\ pc[j] # "mark"
       /\ pc[j] \in {"fetch", "record", "deliver"}
            => \A w \in Works : store[w].unread \subseteq mem[j][w].unread
  /\ \A j \in Operators :
       /\ pc[j] \in {"idle", "mark"}
       /\ \A w \in Works : mem[j][w].unread \subseteq store[w].unread

(* An answer of a source takes no event off the unread ones. *)
LEMMA TransitionTakesNone ==
  ASSUME NEW entry \in Entry, WellFormed(entry),
         NEW key \in Keys \cup {NoKey}, NEW limit
  PROVE  entry.unread \subseteq Transition(entry, key, limit).unread
<1>1. CASE key = NoKey \/ key = entry.latest
  BY <1>1, TrimKeeps DEF Transition
<1>2. CASE key # NoKey /\ key # entry.latest
  <2> DEFINE known == IF entry.latest = NoKey THEN entry ELSE Insert(entry, key)
             next == [known EXCEPT !.latest = key]
  <2>1. Transition(entry, key, limit) = Trim(next, limit)
    BY <1>2 DEF Transition
  <2>2. known \in Entry /\ WellFormed(known) /\ entry.unread \subseteq known.unread
    BY <1>2, InsertKeeps
  <2> HIDE DEF known
  <2>3. /\ next \in Entry
        /\ next.history = known.history
        /\ next.newer = known.newer /\ next.unread = known.unread
    BY <1>2, <2>2 DEF Entry
  <2> HIDE DEF next
  <2>4. WellFormed(next)
    BY <2>2, <2>3 DEF WellFormed
  <2> QED
    BY <2>1, <2>2, <2>3, <2>4, TrimKeeps
<1> QED
  BY <1>1, <1>2

(* Trimming what has no unread event leaves it so. *)
LEMMA MarkedHasNoUnread ==
  ASSUME NEW entry \in Entry, NEW limit
  PROVE  Trim([entry EXCEPT !.unread = {}], limit).unread = {}
  BY DEF Trim, Entry

(* Every step keeps it, and takes unread events only as it may. *)
LEMMA TakenStep ==
  ASSUME OneOfEach, HistoryInv, TakenInv, [Next]_vars
  PROVE  /\ TakenInv'
         /\ \/ \A w \in Works : store[w].unread \subseteq store'[w].unread
            \/ \E j \in Operators : pc[j] = "mark" /\ pc'[j] = "idle"
<1> DEFINE Goal == /\ TakenInv'
                   /\ \/ \A w \in Works : store[w].unread \subseteq store'[w].unread
                      \/ \E j \in Operators : pc[j] = "mark" /\ pc'[j] = "idle"
<1>a. /\ pc \in [Jobs -> Steps] /\ mem \in [Jobs -> [Works -> Entry]]
      /\ \A j \in Jobs : Sound(mem[j], first, cleared)
  BY DEF HistoryInv, TypeOK
<1>b. \A j \in Crawlers : j \notin Operators
  BY HistoryAssumption
<1>1. CASE UNCHANGED vars
  BY <1>1 DEF vars, TakenInv
<1>2. ASSUME NEW c \in Crawlers, StartCrawl(c) PROVE Goal
  BY <1>2, <1>a, <1>b DEF StartCrawl, Load, Goto, TakenInv, OneOfEach, Jobs
<1>3. ASSUME NEW c \in Crawlers, Observe(c) PROVE Goal
  <2>1. PICK seen \in [Works -> Keys \cup {NoKey}] :
       mem' = [mem EXCEPT ![c] =
                [w \in Works |-> Transition(mem[c][w], seen[w], Retention[w])]]
    BY <1>3 DEF Observe
  <2>2. /\ pc[c] = "fetch" /\ pc' = [pc EXCEPT ![c] = "record"] /\ store' = store
    BY <1>3 DEF Observe, Goto
  <2>3. \A w \in Works : mem[c][w].unread \subseteq mem'[c][w].unread
    <3> SUFFICES ASSUME NEW w \in Works PROVE mem[c][w].unread \subseteq mem'[c][w].unread
      OBVIOUS
    <3>1. mem[c][w] \in Entry /\ WellFormed(mem[c][w])
      BY <1>a DEF Sound, Jobs
    <3>2. mem'[c][w] = Transition(mem[c][w], seen[w], Retention[w])
      BY <1>a, <2>1 DEF Jobs
    <3> QED
      BY <3>1, <3>2, TransitionTakesNone
  <2>4. \A i \in Jobs : i # c => mem'[i] = mem[i] /\ pc'[i] = pc[i]
    BY <1>a, <2>1, <2>2
  <2>5. pc'[c] = "record"
    BY <1>a, <2>2 DEF Jobs
  <2> QED
    BY <1>b, <2>2, <2>3, <2>4, <2>5 DEF TakenInv, OneOfEach, Jobs
<1>4. ASSUME NEW c \in Crawlers, Record(c) PROVE Goal
  <2>1. /\ pc[c] = "record" /\ pc' = [pc EXCEPT ![c] = "reload"] /\ store' = mem[c]
        /\ mem' = [mem EXCEPT ![c] = NoEntries]
    BY <1>4 DEF Record, Goto, Forget
  <2> QED
    BY <1>a, <1>b, <2>1 DEF TakenInv, OneOfEach, Jobs
<1>5. ASSUME NEW c \in Crawlers, Reload(c) PROVE Goal
  BY <1>5, <1>a, <1>b DEF Reload, Load, Goto, TakenInv, OneOfEach, Jobs
<1>6. ASSUME NEW c \in Crawlers, SaveDelivery(c) PROVE Goal
  <2>1. pc[c] = "deliver" /\ store' = mem[c] /\ UNCHANGED <<pc, mem>>
    BY <1>6 DEF SaveDelivery
  <2> QED
    BY <1>b, <2>1 DEF TakenInv, OneOfEach
<1>7. ASSUME NEW o \in Operators, StartMarkRead(o) PROVE Goal
  BY <1>7, <1>a, <1>b DEF StartMarkRead, Load, Goto, TakenInv, OneOfEach, Jobs
<1>8. ASSUME NEW o \in Operators, MarkRead(o) PROVE Goal
  <2>1. PICK scope \in {Works} \cup {{w} : w \in Works},
             limit \in {Retention, [w \in Works |-> DefaultRetention]} :
         store' = [w \in Works |->
                     IF w \in scope
                     THEN Trim([mem[o][w] EXCEPT !.unread = {}], limit[w])
                     ELSE mem[o][w]]
    BY <1>8 DEF MarkRead
  <2>2. /\ pc[o] = "mark" /\ pc' = [pc EXCEPT ![o] = "idle"]
        /\ mem' = [mem EXCEPT ![o] = NoEntries]
    BY <1>8 DEF MarkRead, Goto, Forget
  <2>3. \A w \in Works : store'[w].unread \subseteq mem[o][w].unread
    <3> SUFFICES ASSUME NEW w \in Works PROVE store'[w].unread \subseteq mem[o][w].unread
      OBVIOUS
    <3>1. mem[o][w] \in Entry
      BY <1>a DEF Jobs
    <3>2. \/ store'[w] = Trim([mem[o][w] EXCEPT !.unread = {}], limit[w])
          \/ store'[w] = mem[o][w]
      BY <2>1
    <3> QED
      BY <3>1, <3>2, MarkedHasNoUnread
  <2>4. \A w \in Works : store'[w].unread \subseteq store[w].unread
    BY <2>3 DEF TakenInv
  <2>5. \A w \in Works : NoEntries[w].unread = {}
    BY DEF NoEntries, NoEntry
  <2>6. \A i \in Jobs : i # o => mem'[i] = mem[i] /\ pc'[i] = pc[i]
    BY <1>a, <2>2
  <2>7. mem'[o] = NoEntries /\ pc'[o] = "idle"
    BY <1>a, <2>2 DEF Jobs
  <2> QED
    BY <1>b, <2>2, <2>4, <2>5, <2>6, <2>7 DEF TakenInv, OneOfEach, Jobs
<1>9. ASSUME NEW j \in Jobs, Stop(j) PROVE Goal
  <2>1. /\ pc' = [pc EXCEPT ![j] = "idle"] /\ store' = store
        /\ mem' = [mem EXCEPT ![j] = NoEntries]
    BY <1>9 DEF Stop, Goto, Forget
  <2>2. \A w \in Works : NoEntries[w].unread = {}
    BY DEF NoEntries, NoEntry
  <2>3. \A i \in Jobs : /\ i # j => mem'[i] = mem[i] /\ pc'[i] = pc[i]
                        /\ i = j => mem'[i] = NoEntries /\ pc'[i] = "idle"
    BY <1>a, <2>1
  <2> QED
    BY <1>b, <2>1, <2>2, <2>3 DEF TakenInv, Jobs
<1> QED
  BY <1>1, <1>2, <1>3, <1>4, <1>5, <1>6, <1>7, <1>8, <1>9 DEF Next

(* While one run and one operator are at work, no save of the run, and no  *)
(* detection, trim or delivery in it, takes an event off the unread ones:  *)
(* only marking as read does, whichever of the two loaded first.           *)
THEOREM OnlyOperatorsTakeUnread == OneOfEach /\ Spec => UnreadTakenByOperator
<1> SUFFICES ASSUME OneOfEach PROVE Spec => UnreadTakenByOperator
  OBVIOUS
<1>1. Init => TakenInv
  BY DEF Init, TakenInv, NoEntries, NoEntry, Jobs
<1>2. HistoryInv /\ TakenInv /\ [Next]_vars => TakenInv'
  BY TakenStep
<1>3. HistoryInv /\ TakenInv /\ [Next]_vars
        => [\A w \in Works : store[w].unread \subseteq store'[w].unread
              \/ \E j \in Operators : pc[j] = "mark" /\ pc'[j] = "idle"]_vars
  BY TakenStep
<1> QED
  BY <1>1, <1>2, <1>3, HistoryInvariant, PTL DEF Spec, UnreadTakenByOperator

=============================================================================
