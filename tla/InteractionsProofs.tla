------------------------- MODULE InteractionsProofs -------------------------
(***************************************************************************)
(* Proofs about module Interactions, for any number of threads, URLs and   *)
(* tokens and any size of the cache: its types and the bound of the cache, *)
(* that a request leaves its interaction answered, that a session that was *)
(* answered from is gone, and that recent options stay valid.              *)
(***************************************************************************)
EXTENDS Interactions, FiniteSetTheorems, SequenceTheorems, TLAPS

(* A list whose entries differ. *)
Distinct(s) == \A i, j \in 1..Len(s) : s[i] = s[j] => i = j

(* The end of t is s. *)
Suffix(s, t) ==
  /\ Len(s) <= Len(t)
  /\ \A i \in 1..Len(s) : s[i] = t[Len(t) - Len(s) + i]

(* What is left of a list without one of its entries. *)
LEMMA WithoutEntry ==
  ASSUME NEW S, NEW s \in Seq(S), Distinct(s), NEW k \in 1..Len(s)
  PROVE  /\ Without(s, s[k]) \in Seq(S)
         /\ Len(Without(s, s[k])) = Len(s) - 1
         /\ \A i \in 1..(Len(s) - 1) : Without(s, s[k])[i] = IF i < k THEN s[i] ELSE s[i + 1]
<1> DEFINE n == Len(s)
           head == SubSeq(s, 1, k - 1)
           tail == SubSeq(s, k + 1, n)
<1>1. Without(s, s[k]) = head \o tail
  <2>1. s[k] \in Elements(s)
    BY DEF Elements
  <2>2. (CHOOSE j \in 1..Len(s) : s[j] = s[k]) = k
    BY DEF Distinct
  <2> QED
    BY <2>1, <2>2 DEF Without
<1>2. n \in Nat /\ k \in Nat /\ 1 <= k /\ k <= n
  BY LenProperties
<1>3. /\ head \in Seq(S) /\ Len(head) = k - 1
      /\ \A i \in 1..(k - 1) : head[i] = s[i]
  BY <1>2, SubSeqProperties
<1>4. /\ tail \in Seq(S) /\ Len(tail) = n - k
      /\ \A i \in 1..(n - k) : tail[i] = s[k + i]
  <2>1. /\ tail \in Seq(S)
        /\ Len(tail) = IF k + 1 <= n THEN n - (k + 1) + 1 ELSE 0
        /\ \A i \in 1..(n - (k + 1) + 1) : tail[i] = s[k + 1 + i - 1]
    BY <1>2, SubSeqProperties
  <2> HIDE DEF tail, n
  <2> QED
    BY <1>2, <2>1
<1> HIDE DEF head, tail
<1>5. /\ head \o tail \in Seq(S)
      /\ Len(head \o tail) = n - 1
      /\ \A i \in 1..(n - 1) :
           (head \o tail)[i] = IF i <= k - 1 THEN head[i] ELSE tail[i - (k - 1)]
  <2>1. /\ head \o tail \in Seq(S)
        /\ Len(head \o tail) = Len(head) + Len(tail)
        /\ \A i \in 1 .. Len(head) + Len(tail) :
             (head \o tail)[i] = IF i <= Len(head) THEN head[i] ELSE tail[i - Len(head)]
    BY <1>3, <1>4, ConcatProperties
  <2> HIDE DEF n
  <2> QED
    BY <1>2, <1>3, <1>4, <2>1
<1>6. ASSUME NEW i \in 1..(n - 1)
      PROVE  (head \o tail)[i] = IF i < k THEN s[i] ELSE s[i + 1]
  <2> HIDE DEF n
  <2>1. CASE i < k
    BY <1>2, <1>3, <1>5, <2>1
  <2>2. CASE ~ (i < k)
    <3>1. i - (k - 1) \in 1..(n - k) /\ k + (i - (k - 1)) = i + 1
      BY <1>2, <2>2
    <3>2. (head \o tail)[i] = tail[i - (k - 1)]
      BY <1>2, <1>5, <2>2
    <3> QED
      BY <1>4, <2>2, <3>1, <3>2
  <2> QED
    BY <2>1, <2>2
<1> QED
  BY <1>1, <1>5, <1>6

(* Moving an entry of a list to its end. *)
LEMMA ToEndOfEntry ==
  ASSUME NEW S, NEW s \in Seq(S), Distinct(s), NEW k \in 1..Len(s)
  PROVE  /\ ToEnd(s, s[k]) \in Seq(S)
         /\ Len(ToEnd(s, s[k])) = Len(s)
         /\ \A i \in 1..Len(s) : ToEnd(s, s[k])[i] =
              IF i < k THEN s[i] ELSE IF i < Len(s) THEN s[i + 1] ELSE s[k]
<1> DEFINE rest == Without(s, s[k])
           n == Len(s)
<1>1. n \in Nat /\ k \in Nat /\ 1 <= k /\ k <= n /\ s[k] \in S
  BY LenProperties, ElementOfSeq
<1>2. /\ rest \in Seq(S) /\ Len(rest) = n - 1
      /\ \A i \in 1..(n - 1) : rest[i] = IF i < k THEN s[i] ELSE s[i + 1]
  BY WithoutEntry
<1>3. ToEnd(s, s[k]) = Append(rest, s[k])
  BY DEF ToEnd
<1> HIDE DEF rest, n
<1>4. /\ Append(rest, s[k]) \in Seq(S)
      /\ Len(Append(rest, s[k])) = n
      /\ \A i \in 1..(n - 1) : Append(rest, s[k])[i] = rest[i]
      /\ Append(rest, s[k])[n] = s[k]
  BY <1>1, <1>2, AppendProperties
<1>5. ASSUME NEW i \in 1..n
      PROVE  Append(rest, s[k])[i] = IF i < k THEN s[i] ELSE IF i < n THEN s[i + 1] ELSE s[k]
  <2>1. CASE i = n
    BY <1>1, <1>4, <2>1
  <2>2. CASE i # n
    <3>1. i \in 1..(n - 1) /\ i < n
      BY <1>1, <2>2
    <3> QED
      BY <1>2, <1>4, <3>1
  <2> QED
    BY <2>1, <2>2
<1> QED
  BY <1>3, <1>4, <1>5 DEF n

(* Moving to the end one that is not there yet. *)
LEMMA ToEndOfNew ==
  ASSUME NEW s, NEW u, u \notin Elements(s)
  PROVE  ToEnd(s, u) = Append(s, u)
  BY DEF ToEnd, Without

(* Either way a list of different entries stays one. *)
LEMMA ToEndDistinct ==
  ASSUME NEW S, NEW s \in Seq(S), Distinct(s), NEW u \in S
  PROVE  ToEnd(s, u) \in Seq(S) /\ Distinct(ToEnd(s, u))
<1>1. CASE u \in Elements(s)
  <2>1. PICK k \in 1..Len(s) : u = s[k]
    BY <1>1 DEF Elements
  <2>2. /\ ToEnd(s, u) \in Seq(S) /\ Len(ToEnd(s, u)) = Len(s)
        /\ \A i \in 1..Len(s) : ToEnd(s, u)[i] =
              IF i < k THEN s[i] ELSE IF i < Len(s) THEN s[i + 1] ELSE s[k]
    BY <2>1, ToEndOfEntry
  <2>3. Len(s) \in Nat
    BY LenProperties
  <2>4. ASSUME NEW i \in 1..Len(s), NEW j \in 1..Len(s), ToEnd(s, u)[i] = ToEnd(s, u)[j]
        PROVE  i = j
    <3> DEFINE from(x) == IF x < k THEN x ELSE IF x < Len(s) THEN x + 1 ELSE k
    <3>1. /\ ToEnd(s, u)[i] = s[from(i)] /\ ToEnd(s, u)[j] = s[from(j)]
          /\ from(i) \in 1..Len(s) /\ from(j) \in 1..Len(s)
      BY <2>2, <2>3
    <3>2. from(i) = from(j)
      BY <2>4, <3>1 DEF Distinct
    <3> QED
      BY <2>3, <3>2
  <2> QED
    BY <2>2, <2>4 DEF Distinct
<1>2. CASE u \notin Elements(s)
  <2>1. ToEnd(s, u) = Append(s, u)
    BY <1>2, ToEndOfNew
  <2>2. /\ Append(s, u) \in Seq(S) /\ Len(Append(s, u)) = Len(s) + 1 /\ Len(s) \in Nat
        /\ \A i \in 1..Len(s) : Append(s, u)[i] = s[i]
        /\ Append(s, u)[Len(s) + 1] = u
    BY AppendProperties, LenProperties
  <2>3. \A i \in 1..Len(s) : s[i] # u
    BY <1>2 DEF Elements
  <2>4. ASSUME NEW i \in 1..(Len(s) + 1), NEW j \in 1..(Len(s) + 1),
               Append(s, u)[i] = Append(s, u)[j]
        PROVE  i = j
    <3>1. /\ i \in 1..Len(s) \/ i = Len(s) + 1
          /\ j \in 1..Len(s) \/ j = Len(s) + 1
      BY <2>2
    <3> QED
      BY <2>2, <2>3, <2>4, <3>1 DEF Distinct
  <2> QED
    BY <2>1, <2>2, <2>4 DEF Distinct
<1> QED
  BY <1>1, <1>2

-----------------------------------------------------------------------------
(* The end of a list of different entries is one. *)
LEMMA SuffixDistinct ==
  ASSUME NEW S, NEW s \in Seq(S), NEW t \in Seq(S), Distinct(t), Suffix(s, t)
  PROVE  Distinct(s)
<1>1. Len(s) \in Nat /\ Len(t) \in Nat
  BY LenProperties
<1> SUFFICES ASSUME NEW i \in 1..Len(s), NEW j \in 1..Len(s), s[i] = s[j] PROVE i = j
  BY DEF Distinct
<1>2. /\ Len(t) - Len(s) + i \in 1..Len(t) /\ Len(t) - Len(s) + j \in 1..Len(t)
      /\ t[Len(t) - Len(s) + i] = t[Len(t) - Len(s) + j]
  BY <1>1 DEF Suffix
<1> QED
  BY <1>1, <1>2 DEF Distinct

(* Moving an entry of the end of a list, in both. *)
LEMMA SuffixMoved ==
  ASSUME NEW S, NEW s \in Seq(S), NEW t \in Seq(S), Distinct(t), Suffix(s, t),
         NEW u \in Elements(s)
  PROVE  /\ Suffix(ToEnd(s, u), ToEnd(t, u))
         /\ Len(ToEnd(s, u)) = Len(s) /\ Len(ToEnd(t, u)) = Len(t)
<1>1. Len(s) \in Nat /\ Len(t) \in Nat /\ Distinct(s)
  BY LenProperties, SuffixDistinct
<1>2. PICK k \in 1..Len(s) : u = s[k]
  BY DEF Elements
<1> DEFINE gap == Len(t) - Len(s)
<1>3. gap \in Nat /\ gap + k \in 1..Len(t) /\ t[gap + k] = u
  BY <1>1, <1>2 DEF Suffix
<1>4. /\ Len(ToEnd(s, u)) = Len(s)
      /\ \A i \in 1..Len(s) : ToEnd(s, u)[i] =
            IF i < k THEN s[i] ELSE IF i < Len(s) THEN s[i + 1] ELSE s[k]
  BY <1>1, <1>2, ToEndOfEntry
<1>5. /\ Len(ToEnd(t, u)) = Len(t)
      /\ \A i \in 1..Len(t) : ToEnd(t, u)[i] =
            IF i < gap + k THEN t[i] ELSE IF i < Len(t) THEN t[i + 1] ELSE t[gap + k]
  <2> HIDE DEF gap
  <2> QED
    BY <1>3, ToEndOfEntry
<1>6. ASSUME NEW i \in 1..Len(s) PROVE ToEnd(s, u)[i] = ToEnd(t, u)[gap + i]
  <2>1. gap + i \in 1..Len(t)
    BY <1>1, <1>3
  <2>2. /\ i < k <=> gap + i < gap + k
        /\ i < Len(s) <=> gap + i < Len(t)
    BY <1>1
  <2>3. s[i] = t[gap + i]
    BY DEF Suffix
  <2>4. i < Len(s) => s[i + 1] = t[gap + i + 1]
    <3> SUFFICES ASSUME i < Len(s) PROVE s[i + 1] = t[gap + i + 1]
      OBVIOUS
    <3>1. i + 1 \in 1..Len(s) /\ gap + (i + 1) = gap + i + 1
      BY <1>1
    <3>2. s[i + 1] = t[gap + (i + 1)]
      BY <3>1 DEF Suffix
    <3> QED
      BY <3>1, <3>2
  <2> HIDE DEF gap
  <2> QED
    BY <1>2, <1>3, <1>4, <1>5, <2>1, <2>2, <2>3, <2>4
<1>7. Len(ToEnd(s, u)) <= Len(ToEnd(t, u))
  BY <1>4, <1>5 DEF Suffix
<1> QED
  BY <1>4, <1>5, <1>6, <1>7 DEF Suffix

(* Adding to the end of a list what its own end does not have. *)
LEMMA SuffixGrown ==
  ASSUME NEW S, NEW s \in Seq(S), NEW t \in Seq(S), Distinct(t), Suffix(s, t),
         NEW u \in S, u \notin Elements(s)
  PROVE  /\ Suffix(Append(s, u), ToEnd(t, u))
         /\ Len(Append(s, u)) = Len(s) + 1
         /\ Len(s) = Len(t) => Len(ToEnd(t, u)) = Len(t) + 1
<1>1. Len(s) \in Nat /\ Len(t) \in Nat
  BY LenProperties
<1>2. /\ Len(Append(s, u)) = Len(s) + 1
      /\ \A i \in 1..Len(s) : Append(s, u)[i] = s[i]
      /\ Append(s, u)[Len(s) + 1] = u
  BY AppendProperties
<1>3. \A i \in 1..Len(s) : s[i] # u
  BY DEF Elements
<1> DEFINE gap == Len(t) - Len(s)
<1>4. gap \in Nat
  BY <1>1 DEF Suffix
<1>5. CASE u \in Elements(t)
  <2>1. PICK k \in 1..Len(t) : u = t[k]
    BY <1>5 DEF Elements
  <2>2. k <= gap
    <3> SUFFICES ASSUME k > gap PROVE FALSE
      BY <1>1, <1>4
    <3>1. k - gap \in 1..Len(s) /\ gap + (k - gap) = k
      BY <1>1, <1>4
    <3> QED
      BY <1>3, <2>1, <3>1 DEF Suffix
  <2>3. /\ Len(ToEnd(t, u)) = Len(t)
        /\ \A i \in 1..Len(t) : ToEnd(t, u)[i] =
              IF i < k THEN t[i] ELSE IF i < Len(t) THEN t[i + 1] ELSE t[k]
    BY <2>1, ToEndOfEntry
  <2>4. ASSUME NEW i \in 1..(Len(s) + 1)
        PROVE  Append(s, u)[i] = ToEnd(t, u)[Len(t) - (Len(s) + 1) + i]
    <3> DEFINE x == Len(t) - (Len(s) + 1) + i
    <3>1. x \in 1..Len(t) /\ ~ (x < k)
      BY <1>1, <1>4, <2>2
    <3>2. CASE i = Len(s) + 1
      <4>1. ~ (x < Len(t))
        BY <1>1, <3>2
      <4> HIDE DEF x
      <4>2. ToEnd(t, u)[x] = u
        BY <2>1, <2>3, <3>1, <4>1
      <4> QED
        BY <1>2, <3>2, <4>2 DEF x
    <3>3. CASE i # Len(s) + 1
      <4>1. i \in 1..Len(s) /\ x < Len(t) /\ x + 1 = Len(t) - Len(s) + i
        BY <1>1, <3>3
      <4>2. s[i] = t[x + 1]
        BY <4>1 DEF Suffix
      <4> HIDE DEF x
      <4>3. ToEnd(t, u)[x] = t[x + 1]
        BY <2>3, <3>1, <4>1
      <4> QED
        BY <1>2, <4>1, <4>2, <4>3 DEF x
    <3> QED
      BY <3>2, <3>3
  <2>5. Len(s) + 1 <= Len(t) /\ Len(s) # Len(t)
    BY <1>1, <1>4, <2>2
  <2> QED
    BY <1>2, <2>3, <2>4, <2>5 DEF Suffix
<1>6. CASE u \notin Elements(t)
  <2>1. ToEnd(t, u) = Append(t, u)
    BY <1>6, ToEndOfNew
  <2>2. /\ Len(Append(t, u)) = Len(t) + 1
        /\ \A i \in 1..Len(t) : Append(t, u)[i] = t[i]
        /\ Append(t, u)[Len(t) + 1] = u
    BY AppendProperties
  <2>3. ASSUME NEW i \in 1..(Len(s) + 1)
        PROVE  Append(s, u)[i] = Append(t, u)[Len(t) + 1 - (Len(s) + 1) + i]
    <3>1. CASE i = Len(s) + 1
      <4>1. Len(t) + 1 - (Len(s) + 1) + i = Len(t) + 1
        BY <1>1, <3>1
      <4> QED
        BY <1>2, <2>2, <3>1, <4>1
    <3>2. CASE i # Len(s) + 1
      <4>1. /\ i \in 1..Len(s) /\ Len(t) - Len(s) + i \in 1..Len(t)
            /\ Len(t) + 1 - (Len(s) + 1) + i = Len(t) - Len(s) + i
        BY <1>1, <1>4, <3>2
      <4> QED
        BY <1>2, <2>2, <4>1 DEF Suffix
    <3> QED
      BY <3>1, <3>2
  <2>4. Len(s) + 1 <= Len(t) + 1
    BY <1>1, <1>4
  <2>5. Suffix(Append(s, u), Append(t, u))
    <3> DEFINE grown == Append(s, u)
               longer == Append(t, u)
    <3>1. /\ Len(grown) = Len(s) + 1 /\ Len(longer) = Len(t) + 1
          /\ \A i \in 1..(Len(s) + 1) : grown[i] = longer[Len(t) + 1 - (Len(s) + 1) + i]
      BY <1>2, <2>2, <2>3
    <3> HIDE DEF grown, longer
    <3>2. Suffix(grown, longer)
      BY <2>4, <3>1 DEF Suffix
    <3> QED
      BY <3>2 DEF grown, longer
  <2> QED
    BY <1>2, <2>1, <2>2, <2>5
<1> QED
  BY <1>5, <1>6

(* Dropping the first entry of the end. *)
LEMMA SuffixShortened ==
  ASSUME NEW S, NEW s \in Seq(S), NEW t \in Seq(S), Suffix(s, t), s # <<>>
  PROVE  /\ Suffix(Tail(s), t)
         /\ Tail(s) \in Seq(S)
         /\ Len(Tail(s)) = Len(s) - 1
<1>1. Len(s) \in Nat /\ Len(t) \in Nat /\ Len(s) # 0
  BY LenProperties, EmptySeq
<1>2. /\ Tail(s) \in Seq(S) /\ Len(Tail(s)) = Len(s) - 1
      /\ \A i \in 1..(Len(s) - 1) : Tail(s)[i] = s[i + 1]
  BY HeadTailProperties
<1>3. ASSUME NEW i \in 1..(Len(s) - 1)
      PROVE  Tail(s)[i] = t[Len(t) - (Len(s) - 1) + i]
  <2>1. i + 1 \in 1..Len(s) /\ Len(t) - (Len(s) - 1) + i = Len(t) - Len(s) + (i + 1)
    BY <1>1
  <2> QED
    BY <1>2, <2>1 DEF Suffix
<1> QED
  BY <1>1, <1>2, <1>3 DEF Suffix

-----------------------------------------------------------------------------
SelectKinds == {"where select", "twins select"}

(* Which kinds of requests come by each place of a thread, and what they   *)
(* are about there.                                                        *)
OnRoute(r) ==
  /\ at[r] = "defer" => kind[r] \in DeferredKinds
  /\ at[r] = "handle" => kind[r] \in {"search", "where", "twins", "direct"}
  /\ at[r] \in {"insert", "move", "evict", "pop"} => kind[r] = "search"
  /\ at[r] \in {"get", "touch", "add"} => kind[r] = "search select"
  /\ at[r] = "save" => kind[r] \in {"where", "twins"}
  /\ at[r] \in {"load", "loaded", "delete"} => kind[r] \in SelectKinds
  /\ at[r] # "idle" => kind[r] # "none"
  /\ at[r] # "idle" /\ kind[r] \in SelectKinds => subject[r] \in Tokens
  /\ at[r] \in {"move", "evict", "pop", "get", "touch"} => subject[r] \in Urls
  /\ at[r] = "reply" /\ reply[r] = "menu" /\ kind[r] # "search" => subject[r] \in Tokens

(* While nothing has gone wrong, Discord waits for exactly the answer the  *)
(* thread is going to give.                                                *)
Pending(r) ==
  at[r] # "idle" /\ ~ troubled[r] =>
    /\ deferred[r] = (kind[r] \in DeferredKinds /\ at[r] # "defer")
    /\ discord[r] = IF deferred[r] THEN "deferred" ELSE "open"

(* A request that came too late is about a session that is gone, and does  *)
(* not get as far as an answer from it.                                    *)
TooLate(r) ==
  late[r] =>
    /\ reply[r] # "served"
    /\ at[r] # "idle" =>
         /\ kind[r] \in SelectKinds /\ subject[r] \in used
         /\ at[r] \notin {"loaded", "delete"}

ThreadInv == \A r \in Threads : OnRoute(r) /\ Pending(r) /\ TooLate(r)

SessionInv == sessions \cap used = {}

(* What a step of thread r does not touch: the other threads. *)
OnlyMoves(r) ==
  \A q \in Threads : q # r =>
    /\ at'[q] = at[q] /\ kind'[q] = kind[q] /\ subject'[q] = subject[q]
    /\ reply'[q] = reply[q] /\ deferred'[q] = deferred[q] /\ discord'[q] = discord[q]
    /\ troubled'[q] = troubled[q] /\ late'[q] = late[q]

(* What thread r does on its own is enough for the invariant of all, as    *)
(* sessions are used up for good.                                          *)
LEMMA OthersKept ==
  ASSUME Ranges, ThreadInv, NEW r \in Threads, OnlyMoves(r), used \subseteq used',
         OnRoute(r)', Pending(r)', TooLate(r)'
  PROVE  ThreadInv'
<1> SUFFICES ASSUME NEW q \in Threads, q # r PROVE (OnRoute(q) /\ Pending(q) /\ TooLate(q))'
  BY DEF ThreadInv
<1>1. OnRoute(q) /\ Pending(q) /\ TooLate(q)
  BY DEF ThreadInv
<1> QED
  BY ZenonT(30), <1>1 DEF OnlyMoves, OnRoute, Pending, TooLate

(* What a thread may do. *)
Steps(r) ==
  \/ Receive(r) \/ Expire(r)
  \/ DeferredSearch(r) \/ DeferredWhere(r) \/ DeferredWhereSelect(r) \/ DeferredWorkSelect(r)
  \/ Direct(r) \/ LookupSearch(r) \/ LookupWhere(r) \/ LookupTwins(r) \/ SaveSession(r)
  \/ Insert(r) \/ Move(r) \/ Evict(r) \/ PopOldest(r)
  \/ Get(r) \/ Add(r)
  \/ LoadSession(r) \/ ChooseEpisode(r) \/ ChooseWorks(r) \/ DeleteSession(r)
  \/ Respond(r) \/ Edit(r)

(* Every step of a thread keeps its place on its route, what Discord waits *)
(* for, and that what was used is gone.                                    *)
LEMMA ThreadStep ==
  ASSUME Ranges, ThreadInv, SessionInv, NEW r \in Threads,
         UNCHANGED offered, cache' \in Seq(Urls), recency' \in Seq(Urls),
         Steps(r)
  PROVE  Ranges' /\ ThreadInv' /\ SessionInv'
<1>a. OnRoute(r) /\ Pending(r) /\ TooLate(r)
  BY DEF ThreadInv
<1>1. CASE Receive(r)
  <2>1. PICK k \in offered, x \in shown \cup {Nobody} :
          /\ k = "search select" => x \in Urls
          /\ k \in SelectKinds => x \in Tokens
          /\ k \in {"search", "where", "twins", "direct"} => x = Nobody
          /\ kind' = [kind EXCEPT ![r] = k]
          /\ subject' = [subject EXCEPT ![r] = x]
          /\ late' = [late EXCEPT ![r] = x \in used]
          /\ at' = [at EXCEPT ![r] = IF k \in DeferredKinds THEN "defer" ELSE Begin(k)]
    BY <1>1 DEF Receive, Goto, SelectKinds
  <2>2. /\ reply' = [reply EXCEPT ![r] = "none"]
        /\ deferred' = [deferred EXCEPT ![r] = FALSE]
        /\ discord' = [discord EXCEPT ![r] = "open"]
        /\ troubled' = [troubled EXCEPT ![r] = FALSE]
        /\ UNCHANGED <<menu, todo, cache, sessions, shown, recency, used>>
    BY <1>1 DEF Receive
  <2>3. k \in Kinds /\ x \in Urls \cup Tokens \cup {Nobody}
    BY DEF Ranges
  <2> DEFINE to == IF k \in DeferredKinds THEN "defer" ELSE Begin(k)
  <2>4. /\ to \in {"defer", "handle", "get", "load"}
        /\ to = "defer" <=> k \in DeferredKinds
        /\ to = "handle" => k = "direct"
        /\ to = "get" => k = "search select"
        /\ to = "load" => k \in SelectKinds
    <3>1. CASE k \in DeferredKinds
      BY <3>1
    <3>2. CASE k = "search select"
      BY <3>2 DEF Begin, DeferredKinds
    <3>3. CASE k = "twins select"
      BY <3>3 DEF Begin, DeferredKinds, SelectKinds
    <3>4. CASE k = "direct"
      BY <3>4 DEF Begin, DeferredKinds
    <3> QED
      BY <2>3, <3>1, <3>2, <3>3, <3>4 DEF Kinds
  <2>5. at' = [at EXCEPT ![r] = to]
    BY <2>1
  <2> HIDE DEF to
  <2>6. Ranges'
    <3> DEFINE isLate == x \in used
    <3>1. isLate \in BOOLEAN
      OBVIOUS
    <3>2. late' = [late EXCEPT ![r] = isLate]
      BY <2>1
    <3> HIDE DEF isLate
    <3>3. late' \in [Threads -> BOOLEAN]
      BY <3>1, <3>2 DEF Ranges
    <3>4. /\ kind' \in [Threads -> Kinds \cup {"none"}]
          /\ subject' \in [Threads -> Urls \cup Tokens \cup {Nobody}]
      BY <2>1, <2>3 DEF Ranges
    <3> QED
      BY <2>2, <2>4, <2>5, <3>3, <3>4 DEF Ranges
  <2>7. OnlyMoves(r) /\ used \subseteq used'
    BY <2>1, <2>2, <2>5 DEF Ranges, OnlyMoves
  <2>8. /\ at'[r] = to /\ kind'[r] = k /\ subject'[r] = x /\ late'[r] = (x \in used)
        /\ reply'[r] = "none" /\ deferred'[r] = FALSE /\ discord'[r] = "open"
    BY <2>1, <2>2, <2>5 DEF Ranges
  <2>9. OnRoute(r)'
    <3>1. k # "none"
      BY <2>3 DEF Kinds, DeferredKinds
    <3> QED
      BY <2>1, <2>4, <2>8, <3>1 DEF OnRoute
  <2>10. Pending(r)'
    BY <2>4, <2>8 DEF Pending
  <2>11. TooLate(r)' /\ SessionInv'
    <3>1. x \in used => k \in SelectKinds
      <4> SUFFICES ASSUME x \in used, k \notin SelectKinds PROVE FALSE
        OBVIOUS
      <4>1. x \in Tokens /\ x \notin Urls /\ x # Nobody
        BY InteractionsAssumption DEF Ranges
      <4>2. k \in {"search select", "search", "where", "twins", "direct"}
        BY <2>3 DEF Kinds, DeferredKinds, SelectKinds
      <4> QED
        BY <2>1, <4>1, <4>2
    <3> QED
      BY <2>2, <2>4, <2>8, <3>1 DEF TooLate, SessionInv
  <2> QED
    BY <2>6, <2>7, <2>9, <2>10, <2>11, OthersKept
<1>2. CASE Expire(r)
  <2>1. Ranges'
    BY <1>2 DEF Ranges, Expire, Goto, Reply, handler, history
  <2>2. OnlyMoves(r) /\ used \subseteq used'
    BY <1>2 DEF Ranges, OnlyMoves, Expire, Goto, Reply, handler, history
  <2>3. OnRoute(r)'
    BY <1>2, <1>a DEF Ranges, OnRoute, Expire, Goto, Reply, handler, history, SelectKinds, DeferredKinds
  <2>4. Pending(r)'
    BY <1>2, <1>a DEF Ranges, OnRoute, Pending, Expire, Goto, Reply, handler, history, DeferredKinds
  <2>5. TooLate(r)' /\ SessionInv'
    BY <1>2, <1>a DEF Ranges, OnRoute, TooLate, SessionInv, Expire, Goto, Reply, handler, history, SelectKinds
  <2> QED
    BY <2>1, <2>2, <2>3, <2>4, <2>5, OthersKept
<1>3. CASE DeferredSearch(r) \/ DeferredWhere(r) \/ DeferredWhereSelect(r) \/ DeferredWorkSelect(r)
  <2>1. Ranges'
    BY <1>3 DEF Ranges, DeferredSearch, DeferredWhere, DeferredWhereSelect, DeferredWorkSelect, Defer, Goto, Reply, handler, history
  <2>2. OnlyMoves(r) /\ used \subseteq used'
    BY <1>3 DEF Ranges, OnlyMoves, DeferredSearch, DeferredWhere, DeferredWhereSelect, DeferredWorkSelect, Defer, Goto, Reply, handler, history
  <2>3. OnRoute(r)'
    BY <1>3, <1>a DEF Ranges, OnRoute, DeferredSearch, DeferredWhere, DeferredWhereSelect, DeferredWorkSelect, Defer, Goto, Reply, handler, history, SelectKinds, DeferredKinds
  <2>4. Pending(r)'
    BY <1>3, <1>a DEF Ranges, OnRoute, Pending, DeferredSearch, DeferredWhere, DeferredWhereSelect, DeferredWorkSelect, Defer, Goto, Reply, handler, history, DeferredKinds
  <2>5. TooLate(r)' /\ SessionInv'
    BY <1>3, <1>a DEF Ranges, OnRoute, TooLate, SessionInv, DeferredSearch, DeferredWhere, DeferredWhereSelect, DeferredWorkSelect, Defer, Goto, Reply, handler, history, SelectKinds
  <2> QED
    BY <2>1, <2>2, <2>3, <2>4, <2>5, OthersKept
<1>4. CASE Direct(r)
  <2>1. Ranges'
    BY <1>4 DEF Ranges, Direct, Goto, Reply, handler, history
  <2>2. OnlyMoves(r) /\ used \subseteq used'
    BY <1>4 DEF Ranges, OnlyMoves, Direct, Goto, Reply, handler, history
  <2>3. OnRoute(r)'
    BY <1>4, <1>a DEF Ranges, OnRoute, Direct, Goto, Reply, handler, history, SelectKinds, DeferredKinds
  <2>4. Pending(r)'
    BY <1>4, <1>a DEF Ranges, OnRoute, Pending, Direct, Goto, Reply, handler, history, DeferredKinds
  <2>5. TooLate(r)' /\ SessionInv'
    BY <1>4, <1>a DEF Ranges, OnRoute, TooLate, SessionInv, Direct, Goto, Reply, handler, history, SelectKinds
  <2> QED
    BY <2>1, <2>2, <2>3, <2>4, <2>5, OthersKept
<1>5. CASE LookupSearch(r)
  <2>1. Ranges'
    BY <1>5 DEF Ranges, LookupSearch, Goto, Reply, handler, history
  <2>2. OnlyMoves(r) /\ used \subseteq used'
    BY <1>5 DEF Ranges, OnlyMoves, LookupSearch, Goto, Reply, handler, history
  <2>3. OnRoute(r)'
    BY <1>5, <1>a DEF Ranges, OnRoute, LookupSearch, Goto, Reply, handler, history, SelectKinds, DeferredKinds
  <2>4. Pending(r)'
    BY <1>5, <1>a DEF Ranges, OnRoute, Pending, LookupSearch, Goto, Reply, handler, history, DeferredKinds
  <2>5. TooLate(r)' /\ SessionInv'
    BY <1>5, <1>a DEF Ranges, OnRoute, TooLate, SessionInv, LookupSearch, Goto, Reply, handler, history, SelectKinds
  <2> QED
    BY <2>1, <2>2, <2>3, <2>4, <2>5, OthersKept
<1>6. CASE LookupWhere(r)
  <2>1. Ranges'
    BY <1>6 DEF Ranges, LookupWhere, Goto, Reply, handler, history
  <2>2. OnlyMoves(r) /\ used \subseteq used'
    BY <1>6 DEF Ranges, OnlyMoves, LookupWhere, Goto, Reply, handler, history
  <2>3. OnRoute(r)'
    BY <1>6, <1>a DEF Ranges, OnRoute, LookupWhere, Goto, Reply, handler, history, SelectKinds, DeferredKinds
  <2>4. Pending(r)'
    BY <1>6, <1>a DEF Ranges, OnRoute, Pending, LookupWhere, Goto, Reply, handler, history, DeferredKinds
  <2>5. TooLate(r)' /\ SessionInv'
    BY <1>6, <1>a DEF Ranges, OnRoute, TooLate, SessionInv, LookupWhere, Goto, Reply, handler, history, SelectKinds
  <2> QED
    BY <2>1, <2>2, <2>3, <2>4, <2>5, OthersKept
<1>7. CASE LookupTwins(r)
  <2>1. Ranges'
    BY <1>7 DEF Ranges, LookupTwins, Goto, Reply, handler, history
  <2>2. OnlyMoves(r) /\ used \subseteq used'
    BY <1>7 DEF Ranges, OnlyMoves, LookupTwins, Goto, Reply, handler, history
  <2>3. OnRoute(r)'
    BY <1>7, <1>a DEF Ranges, OnRoute, LookupTwins, Goto, Reply, handler, history, SelectKinds, DeferredKinds
  <2>4. Pending(r)'
    BY <1>7, <1>a DEF Ranges, OnRoute, Pending, LookupTwins, Goto, Reply, handler, history, DeferredKinds
  <2>5. TooLate(r)' /\ SessionInv'
    BY <1>7, <1>a DEF Ranges, OnRoute, TooLate, SessionInv, LookupTwins, Goto, Reply, handler, history, SelectKinds
  <2> QED
    BY <2>1, <2>2, <2>3, <2>4, <2>5, OthersKept
<1>8. CASE SaveSession(r)
  <2>1. Ranges'
    BY SMTT(30), <1>8 DEF Ranges, SaveSession, Goto, Reply, handler, history
  <2>2. OnlyMoves(r) /\ used \subseteq used'
    BY <1>8 DEF Ranges, OnlyMoves, SaveSession, Goto, Reply, handler, history
  <2>3. OnRoute(r)'
    BY <1>8, <1>a DEF Ranges, OnRoute, SaveSession, Goto, Reply, handler, history, SelectKinds, DeferredKinds
  <2>4. Pending(r)'
    BY <1>8, <1>a DEF Ranges, OnRoute, Pending, SaveSession, Goto, Reply, handler, history, DeferredKinds
  <2>5. TooLate(r)' /\ SessionInv'
    <3>1. ~ late'[r]
      BY <1>8, <1>a DEF OnRoute, TooLate, SaveSession, history, SelectKinds
    <3>2. sessions' \cap used' = {}
      BY <1>8 DEF SessionInv, SaveSession, history
    <3> QED
      BY <3>1, <3>2 DEF TooLate, SessionInv
  <2> QED
    BY <2>1, <2>2, <2>3, <2>4, <2>5, OthersKept
<1>9. CASE Insert(r)
  <2>1. Ranges'
    BY <1>9 DEF Ranges, Insert, Goto, Reply, handler, history
  <2>2. OnlyMoves(r) /\ used \subseteq used'
    BY <1>9 DEF Ranges, OnlyMoves, Insert, Goto, Reply, handler, history
  <2>3. OnRoute(r)'
    BY <1>9, <1>a DEF Ranges, OnRoute, Insert, Goto, Reply, handler, history, SelectKinds, DeferredKinds
  <2>4. Pending(r)'
    BY <1>9, <1>a DEF Ranges, OnRoute, Pending, Insert, Goto, Reply, handler, history, DeferredKinds
  <2>5. TooLate(r)' /\ SessionInv'
    BY <1>9, <1>a DEF Ranges, OnRoute, TooLate, SessionInv, Insert, Goto, Reply, handler, history, SelectKinds
  <2> QED
    BY <2>1, <2>2, <2>3, <2>4, <2>5, OthersKept
<1>10. CASE Move(r)
  <2>1. Ranges'
    BY <1>10 DEF Ranges, Move, Goto, Reply, handler, history
  <2>2. OnlyMoves(r) /\ used \subseteq used'
    BY <1>10 DEF Ranges, OnlyMoves, Move, Goto, Reply, handler, history
  <2>3. OnRoute(r)'
    BY ZenonT(30), <1>10, <1>a DEF Ranges, OnRoute, Move, Goto, Reply, handler, history, SelectKinds, DeferredKinds
  <2>4. Pending(r)'
    BY <1>10, <1>a DEF Ranges, OnRoute, Pending, Move, Goto, Reply, handler, history, DeferredKinds
  <2>5. TooLate(r)' /\ SessionInv'
    BY <1>10, <1>a DEF Ranges, OnRoute, TooLate, SessionInv, Move, Goto, Reply, handler, history, SelectKinds
  <2> QED
    BY <2>1, <2>2, <2>3, <2>4, <2>5, OthersKept
<1>11. CASE Evict(r)
  <2>1. Ranges'
    BY SMTT(30), <1>11 DEF Ranges, Evict, Goto, Reply, handler, history
  <2>2. OnlyMoves(r) /\ used \subseteq used'
    BY <1>11 DEF Ranges, OnlyMoves, Evict, Goto, Reply, handler, history
  <2>3. OnRoute(r)'
    BY <1>11, <1>a DEF Ranges, OnRoute, Evict, Goto, Reply, handler, history, SelectKinds, DeferredKinds
  <2>4. Pending(r)'
    BY <1>11, <1>a DEF Ranges, OnRoute, Pending, Evict, Goto, Reply, handler, history, DeferredKinds
  <2>5. TooLate(r)' /\ SessionInv'
    BY <1>11, <1>a DEF Ranges, OnRoute, TooLate, SessionInv, Evict, Goto, Reply, handler, history, SelectKinds
  <2> QED
    BY <2>1, <2>2, <2>3, <2>4, <2>5, OthersKept
<1>12. CASE PopOldest(r)
  <2>1. Ranges'
    BY <1>12 DEF Ranges, PopOldest, Goto, Reply, handler, history
  <2>2. OnlyMoves(r) /\ used \subseteq used'
    BY <1>12 DEF Ranges, OnlyMoves, PopOldest, Goto, Reply, handler, history
  <2>3. OnRoute(r)'
    BY <1>12, <1>a DEF Ranges, OnRoute, PopOldest, Goto, Reply, handler, history, SelectKinds, DeferredKinds
  <2>4. Pending(r)'
    BY <1>12, <1>a DEF Ranges, OnRoute, Pending, PopOldest, Goto, Reply, handler, history, DeferredKinds
  <2>5. TooLate(r)' /\ SessionInv'
    BY <1>12, <1>a DEF Ranges, OnRoute, TooLate, SessionInv, PopOldest, Goto, Reply, handler, history, SelectKinds
  <2> QED
    BY <2>1, <2>2, <2>3, <2>4, <2>5, OthersKept
<1>13. CASE Get(r)
  <2>1. Ranges'
    BY <1>13 DEF Ranges, Get, Goto, Reply, handler, history
  <2>2. OnlyMoves(r) /\ used \subseteq used'
    BY <1>13 DEF Ranges, OnlyMoves, Get, Goto, Reply, handler, history
  <2>3. OnRoute(r)'
    BY <1>13, <1>a DEF Ranges, OnRoute, Get, Goto, Reply, handler, history, SelectKinds, DeferredKinds
  <2>4. Pending(r)'
    BY <1>13, <1>a DEF Ranges, OnRoute, Pending, Get, Goto, Reply, handler, history, DeferredKinds
  <2>5. TooLate(r)' /\ SessionInv'
    BY <1>13, <1>a DEF Ranges, OnRoute, TooLate, SessionInv, Get, Goto, Reply, handler, history, SelectKinds
  <2> QED
    BY <2>1, <2>2, <2>3, <2>4, <2>5, OthersKept
<1>14. CASE Add(r)
  <2>1. Ranges'
    BY <1>14 DEF Ranges, Add, Goto, Reply, handler, history
  <2>2. OnlyMoves(r) /\ used \subseteq used'
    BY <1>14 DEF Ranges, OnlyMoves, Add, Goto, Reply, handler, history
  <2>3. OnRoute(r)'
    BY <1>14, <1>a DEF Ranges, OnRoute, Add, Goto, Reply, handler, history, SelectKinds, DeferredKinds
  <2>4. Pending(r)'
    BY <1>14, <1>a DEF Ranges, OnRoute, Pending, Add, Goto, Reply, handler, history, DeferredKinds
  <2>5. TooLate(r)' /\ SessionInv'
    BY <1>14, <1>a DEF Ranges, OnRoute, TooLate, SessionInv, Add, Goto, Reply, handler, history, SelectKinds
  <2> QED
    BY <2>1, <2>2, <2>3, <2>4, <2>5, OthersKept
<1>15. CASE LoadSession(r)
  <2>1. Ranges'
    BY <1>15 DEF Ranges, LoadSession, Goto, Reply, handler, history
  <2>2. OnlyMoves(r) /\ used \subseteq used'
    BY <1>15 DEF Ranges, OnlyMoves, LoadSession, Goto, Reply, handler, history
  <2>3. OnRoute(r)'
    BY <1>15, <1>a DEF Ranges, OnRoute, LoadSession, Goto, Reply, handler, history, SelectKinds, DeferredKinds
  <2>4. Pending(r)'
    BY <1>15, <1>a DEF Ranges, OnRoute, Pending, LoadSession, Goto, Reply, handler, history, DeferredKinds
  <2>5. TooLate(r)' /\ SessionInv'
    BY <1>15, <1>a DEF Ranges, OnRoute, TooLate, SessionInv, LoadSession, Goto, Reply, handler, history, SelectKinds
  <2> QED
    BY <2>1, <2>2, <2>3, <2>4, <2>5, OthersKept
<1>16. CASE ChooseEpisode(r)
  <2>1. Ranges'
    BY <1>16 DEF Ranges, ChooseEpisode, Goto, Reply, handler, history
  <2>2. OnlyMoves(r) /\ used \subseteq used'
    BY <1>16 DEF Ranges, OnlyMoves, ChooseEpisode, Goto, Reply, handler, history
  <2>3. OnRoute(r)'
    BY <1>16, <1>a DEF Ranges, OnRoute, ChooseEpisode, Goto, Reply, handler, history, SelectKinds, DeferredKinds
  <2>4. Pending(r)'
    BY <1>16, <1>a DEF Ranges, OnRoute, Pending, ChooseEpisode, Goto, Reply, handler, history, DeferredKinds
  <2>5. TooLate(r)' /\ SessionInv'
    BY <1>16, <1>a DEF Ranges, OnRoute, TooLate, SessionInv, ChooseEpisode, Goto, Reply, handler, history, SelectKinds
  <2> QED
    BY <2>1, <2>2, <2>3, <2>4, <2>5, OthersKept
<1>17. CASE ChooseWorks(r)
  <2>1. Ranges'
    BY <1>17 DEF Ranges, ChooseWorks, Goto, Reply, handler, history
  <2>2. OnlyMoves(r) /\ used \subseteq used'
    BY <1>17 DEF Ranges, OnlyMoves, ChooseWorks, Goto, Reply, handler, history
  <2>3. OnRoute(r)'
    BY <1>17, <1>a DEF Ranges, OnRoute, ChooseWorks, Goto, Reply, handler, history, SelectKinds, DeferredKinds
  <2>4. Pending(r)'
    BY <1>17, <1>a DEF Ranges, OnRoute, Pending, ChooseWorks, Goto, Reply, handler, history, DeferredKinds
  <2>5. TooLate(r)' /\ SessionInv'
    BY <1>17, <1>a DEF Ranges, OnRoute, TooLate, SessionInv, ChooseWorks, Goto, Reply, handler, history, SelectKinds
  <2> QED
    BY <2>1, <2>2, <2>3, <2>4, <2>5, OthersKept
<1>18. CASE DeleteSession(r)
  <2>1. Ranges'
    BY <1>18, <1>a DEF Ranges, OnRoute, DeleteSession, Goto, Reply, handler, history
  <2>2. OnlyMoves(r) /\ used \subseteq used'
    BY <1>18 DEF Ranges, OnlyMoves, DeleteSession, Goto, Reply, handler, history
  <2>3. OnRoute(r)'
    BY <1>18, <1>a DEF Ranges, OnRoute, DeleteSession, Goto, Reply, handler, history, SelectKinds, DeferredKinds
  <2>4. Pending(r)'
    BY <1>18, <1>a DEF Ranges, OnRoute, Pending, DeleteSession, Goto, Reply, handler, history, DeferredKinds
  <2>5. TooLate(r)' /\ SessionInv'
    BY <1>18, <1>a DEF Ranges, OnRoute, TooLate, SessionInv, DeleteSession, Goto, Reply, handler, history, SelectKinds
  <2> QED
    BY <2>1, <2>2, <2>3, <2>4, <2>5, OthersKept
<1>19. CASE Respond(r)
  <2>1. Ranges'
    <3>1. Options(r) \subseteq Urls \cup Tokens
      BY <1>19, <1>a DEF Ranges, OnRoute, Options, Respond
    <3> QED
      BY <1>19, <3>1 DEF Ranges, Respond, End, Goto, handler, history
  <2>2. OnlyMoves(r) /\ used \subseteq used'
    BY <1>19 DEF Ranges, OnlyMoves, Respond, End, Options, Goto, Reply, handler, history
  <2>3. OnRoute(r)'
    BY <1>19, <1>a DEF Ranges, OnRoute, Respond, End, Options, Goto, Reply, handler, history, SelectKinds, DeferredKinds
  <2>4. Pending(r)'
    BY <1>19, <1>a DEF Ranges, OnRoute, Pending, Respond, End, Options, Goto, Reply, handler, history, DeferredKinds
  <2>5. TooLate(r)' /\ SessionInv'
    BY <1>19, <1>a DEF Ranges, OnRoute, TooLate, SessionInv, Respond, End, Options, Goto, Reply, handler, history, SelectKinds
  <2> QED
    BY <2>1, <2>2, <2>3, <2>4, <2>5, OthersKept
<1>20. CASE Edit(r)
  <2>1. Ranges'
    <3>1. Options(r) \subseteq Urls \cup Tokens
      BY <1>20, <1>a DEF Ranges, OnRoute, Options, Edit
    <3> QED
      BY <1>20, <3>1 DEF Ranges, Edit, End, Goto, handler, history
  <2>2. OnlyMoves(r) /\ used \subseteq used'
    BY <1>20 DEF Ranges, OnlyMoves, Edit, End, Options, Goto, Reply, handler, history
  <2>3. OnRoute(r)'
    BY <1>20, <1>a DEF Ranges, OnRoute, Edit, End, Options, Goto, Reply, handler, history, SelectKinds, DeferredKinds
  <2>4. Pending(r)'
    BY <1>20, <1>a DEF Ranges, OnRoute, Pending, Edit, End, Options, Goto, Reply, handler, history, DeferredKinds
  <2>5. TooLate(r)' /\ SessionInv'
    BY <1>20, <1>a DEF Ranges, OnRoute, TooLate, SessionInv, Edit, End, Options, Goto, Reply, handler, history, SelectKinds
  <2> QED
    BY <2>1, <2>2, <2>3, <2>4, <2>5, OthersKept
<1> QED
  BY <1>1, <1>2, <1>3, <1>4, <1>5, <1>6, <1>7, <1>8, <1>9, <1>10, <1>11, <1>12, <1>13, <1>14, <1>15, <1>16, <1>17, <1>18, <1>19, <1>20 DEF Steps

-----------------------------------------------------------------------------
(* The threads that have still to look at the size of the cache, or to     *)
(* remove the oldest URL, and the URLs that others have put there and not  *)
(* yet moved to the end: the cache outgrows its size by no more.           *)
Evicting == {r \in Threads : at[r] \in {"evict", "pop"}}
Entered == {u \in Elements(cache) : \E r \in Threads : at[r] = "move" /\ subject[r] = u}

(* The threads that found the cache too large, and will remove one more,   *)
(* whether or not another one has done so.                                 *)
Popping == {r \in Threads : at[r] = "pop"}

(* The cache is the end of the list of all URLs by their last use.  It has *)
(* all of them, or at least as many as are left when every other thread    *)
(* that can be removing one has done so.                                   *)
CacheInv ==
  /\ Distinct(recency)
  /\ Suffix(cache, recency)
  /\ Len(cache) <= MaxSize + Cardinality(Evicting) + Cardinality(Entered)
  /\ \/ Popping = {} /\ Len(cache) = Len(recency)
     \/ Len(cache) + Cardinality(Threads) >= MaxSize + 1 + Cardinality(Popping)

(* All of them are finite. *)
LEMMA CacheFinite ==
  ASSUME NEW S, NEW s \in Seq(S), NEW T \in SUBSET Threads, NEW E \in SUBSET Elements(s)
  PROVE  /\ IsFiniteSet(T) /\ Cardinality(T) \in Nat /\ Cardinality(T) <= Cardinality(Threads)
         /\ IsFiniteSet(E) /\ Cardinality(E) \in Nat
<1>1. IsFiniteSet(T) /\ Cardinality(T) <= Cardinality(Threads)
  BY InteractionsAssumption, FS_Subset
<1>2. IsFiniteSet(Elements(s))
  <2>1. IsFiniteSet(1..Len(s))
    BY LenProperties, FS_Interval
  <2> DEFINE f == [i \in 1..Len(s) |-> s[i]]
  <2>2. f \in Surjection(1..Len(s), Elements(s))
    BY DEF Surjection, Elements
  <2> HIDE DEF f
  <2> QED
    BY <2>1, <2>2, FS_Surjection
<1>3. IsFiniteSet(E)
  BY <1>2, FS_Subset
<1> QED
  BY <1>1, <1>3, FS_CardinalityType

(* A step that leaves the threads at these places there, and the lists.    *)
LEMMA CacheLeftAlone ==
  ASSUME CacheInv, UNCHANGED <<cache, recency>>,
         \A r \in Threads : \/ at'[r] = at[r] /\ subject'[r] = subject[r]
                            \/ {at[r], at'[r]} \cap {"move", "evict", "pop"} = {}
  PROVE  CacheInv'
<1>1. /\ Evicting' = Evicting /\ Popping' = Popping
  BY DEF Evicting, Popping
<1>2. Entered' = Entered
  BY DEF Entered, Elements
<1> QED
  BY <1>1, <1>2 DEF CacheInv, Distinct, Suffix

(* Counting: one set has no more elements than another, or one more. *)
LEMMA OneMore ==
  ASSUME NEW A, NEW B, IsFiniteSet(B), NEW x
  PROVE  /\ A \subseteq B => Cardinality(A) <= Cardinality(B)
         /\ A \subseteq B \cup {x} => Cardinality(A) <= Cardinality(B) + 1
         /\ A \cup {x} \subseteq B /\ x \notin A => Cardinality(A) + 1 <= Cardinality(B)
<1>1. Cardinality(B) \in Nat
  BY FS_CardinalityType
<1>2. ASSUME A \subseteq B PROVE IsFiniteSet(A) /\ Cardinality(A) <= Cardinality(B)
  BY <1>2, FS_Subset
<1>3. ASSUME A \subseteq B \cup {x} PROVE Cardinality(A) <= Cardinality(B) + 1
  <2>1. IsFiniteSet(B \cup {x}) /\ Cardinality(B \cup {x}) <= Cardinality(B) + 1
    BY <1>1, FS_AddElement
  <2>2. /\ Cardinality(A) \in Nat /\ Cardinality(B \cup {x}) \in Nat
        /\ Cardinality(A) <= Cardinality(B \cup {x})
    BY <1>3, <2>1, FS_Subset, FS_CardinalityType
  <2> QED
    BY <1>1, <2>1, <2>2
<1>4. ASSUME A \cup {x} \subseteq B, x \notin A PROVE Cardinality(A) + 1 <= Cardinality(B)
  <2>1. IsFiniteSet(A)
    BY <1>4, FS_Subset
  <2>2. Cardinality(A \cup {x}) = Cardinality(A) + 1
    BY <1>4, <2>1, FS_AddElement
  <2> QED
    BY <1>4, <2>2, FS_Subset
<1> QED
  BY <1>2, <1>3, <1>4

(* The entries of a list, moved, added to or without the first. *)
LEMMA ElementsMoved ==
  ASSUME NEW S, NEW s \in Seq(S), Distinct(s), NEW u \in Elements(s)
  PROVE  Elements(s) \subseteq Elements(ToEnd(s, u))
<1>1. Len(s) \in Nat
  BY LenProperties
<1>2. PICK k \in 1..Len(s) : u = s[k]
  BY DEF Elements
<1>3. /\ Len(ToEnd(s, u)) = Len(s)
      /\ \A i \in 1..Len(s) : ToEnd(s, u)[i] =
            IF i < k THEN s[i] ELSE IF i < Len(s) THEN s[i + 1] ELSE s[k]
  BY <1>2, ToEndOfEntry
<1>4. ASSUME NEW j \in 1..Len(s)
      PROVE  \E i \in 1..Len(s) : ToEnd(s, u)[i] = s[j]
  <2>1. CASE j < k
    BY <1>3, <2>1
  <2>2. CASE j = k
    <3>1. Len(s) \in 1..Len(s) /\ ~ (Len(s) < k)
      BY <1>1
    <3> QED
      BY <1>1, <1>3, <2>2, <3>1
  <2>3. CASE j > k
    <3>1. j - 1 \in 1..Len(s) /\ ~ (j - 1 < k) /\ j - 1 < Len(s) /\ (j - 1) + 1 = j
      BY <1>1, <2>3
    <3> QED
      BY <1>3, <3>1
  <2> QED
    BY <1>1, <2>1, <2>2, <2>3
<1> DEFINE moved == ToEnd(s, u)
<1>5. Len(moved) = Len(s) /\ \A j \in 1..Len(s) : \E i \in 1..Len(s) : moved[i] = s[j]
  BY <1>3, <1>4
<1> HIDE DEF moved
<1>6. Elements(s) \subseteq Elements(moved)
  BY ZenonT(30), <1>5 DEF Elements
<1> QED
  BY <1>6 DEF moved

LEMMA ElementsAdded ==
  ASSUME NEW S, NEW s \in Seq(S), NEW u \in S
  PROVE  Elements(s) \cup {u} \subseteq Elements(Append(s, u))
<1>1. /\ Append(s, u) \in Seq(S) /\ Len(s) \in Nat
      /\ Len(Append(s, u)) = Len(s) + 1
      /\ \A i \in 1..Len(s) : Append(s, u)[i] = s[i]
      /\ Append(s, u)[Len(s) + 1] = u
  BY AppendProperties, LenProperties
<1>2. Len(s) + 1 \in 1..(Len(s) + 1) /\ \A i \in 1..Len(s) : i \in 1..(Len(s) + 1)
  BY <1>1
<1> QED
  BY <1>1, <1>2 DEF Elements

LEMMA ElementsLeft ==
  ASSUME NEW S, NEW s \in Seq(S), s # <<>>
  PROVE  Elements(s) \subseteq Elements(Tail(s)) \cup {s[1]}
<1>1. /\ Len(s) \in Nat /\ Len(s) # 0
      /\ Len(Tail(s)) = Len(s) - 1
      /\ \A i \in 1..(Len(s) - 1) : Tail(s)[i] = s[i + 1]
  BY LenProperties, EmptySeq, HeadTailProperties
<1> SUFFICES ASSUME NEW j \in 1..Len(s), j # 1
             PROVE  \E i \in 1..(Len(s) - 1) : Tail(s)[i] = s[j]
  BY <1>1 DEF Elements
<1>2. j - 1 \in 1..(Len(s) - 1) /\ (j - 1) + 1 = j
  BY <1>1
<1> QED
  BY <1>1, <1>2

(* Every step of a thread keeps the cache the end of what was ever cached, *)
(* and within its limits.                                                  *)
LEMMA CacheStep ==
  ASSUME Ranges, ThreadInv, CacheInv, NEW r \in Threads, Steps(r)
  PROVE  cache' \in Seq(Urls) /\ recency' \in Seq(Urls) /\ CacheInv'
<1>a. /\ cache \in Seq(Urls) /\ recency \in Seq(Urls) /\ Len(cache) \in Nat /\ Len(recency) \in Nat
      /\ Distinct(recency) /\ Suffix(cache, recency) /\ Distinct(cache)
  BY LenProperties, SuffixDistinct DEF Ranges, CacheInv
<1>b. /\ at \in [Threads -> {at[q] : q \in Threads}]
      /\ subject \in [Threads -> Urls \cup Tokens \cup {Nobody}]
  BY DEF Ranges
<1>c. /\ IsFiniteSet(Evicting) /\ Cardinality(Evicting) \in Nat
      /\ IsFiniteSet(Entered) /\ Cardinality(Entered) \in Nat
      /\ IsFiniteSet(Popping) /\ Cardinality(Popping) \in Nat
      /\ Cardinality(Threads) \in Nat /\ MaxSize \in Nat
  <2>1. /\ Evicting \in SUBSET Threads /\ Popping \in SUBSET Threads
        /\ Entered \in SUBSET Elements(cache) /\ Threads \in SUBSET Threads
    BY DEF Evicting, Popping, Entered
  <2> QED
    BY <1>a, <2>1, CacheFinite, InteractionsAssumption
<1>d. ASSUME cache' \in Seq(Urls)
      PROVE  /\ IsFiniteSet(Evicting') /\ Cardinality(Evicting') \in Nat
             /\ IsFiniteSet(Entered') /\ Cardinality(Entered') \in Nat
             /\ IsFiniteSet(Popping') /\ Cardinality(Popping') \in Nat
             /\ Cardinality(Popping') <= Cardinality(Threads)
  <2>1. /\ Evicting' \in SUBSET Threads /\ Popping' \in SUBSET Threads
        /\ Entered' \in SUBSET Elements(cache')
    BY DEF Evicting, Popping, Entered, Elements
  <2> QED
    BY <1>d, <2>1, CacheFinite
<1>e. /\ Len(cache) <= MaxSize + Cardinality(Evicting) + Cardinality(Entered)
      /\ \/ Popping = {} /\ Len(cache) = Len(recency)
         \/ Len(cache) + Cardinality(Threads) >= MaxSize + 1 + Cardinality(Popping)
  BY DEF CacheInv
<1>1. CASE Insert(r)
  <2>1. PICK u \in todo[r] :
          /\ subject' = [subject EXCEPT ![r] = u]
          /\ cache' = IF u \in Elements(cache) THEN cache ELSE Append(cache, u)
          /\ recency' = IF u \in Elements(cache) THEN recency ELSE ToEnd(recency, u)
    BY <1>1 DEF Insert
  <2>2. at[r] = "insert" /\ at' = [at EXCEPT ![r] = "move"] /\ u \in Urls
    BY <1>1 DEF Insert, Goto, Ranges
  <2>3. /\ at'[r] = "move" /\ subject'[r] = u
        /\ \A q \in Threads : q # r => at'[q] = at[q] /\ subject'[q] = subject[q]
    BY <1>b, <2>1, <2>2
  <2>4. Evicting' = Evicting /\ Popping' = Popping
    BY <2>2, <2>3 DEF Evicting, Popping
  <2>5. CASE u \in Elements(cache)
    <3>1. cache' = cache /\ recency' = recency
      BY <2>1, <2>5
    <3>2. Entered \subseteq Entered'
      BY <2>2, <2>3, <3>1 DEF Entered, Elements
    <3>3. Cardinality(Entered) <= Cardinality(Entered')
      BY <1>a, <1>d, <3>1, <3>2, OneMore
    <3>4. Len(cache') <= MaxSize + Cardinality(Evicting') + Cardinality(Entered')
      BY <1>a, <1>c, <1>d, <1>e, <2>4, <3>1, <3>3
    <3> QED
      BY <1>a, <1>e, <2>4, <3>1, <3>4 DEF CacheInv, Distinct, Suffix
  <2>6. CASE u \notin Elements(cache)
    <3>1. cache' = Append(cache, u) /\ recency' = ToEnd(recency, u)
      BY <2>1, <2>6
    <3>2. /\ Suffix(cache', recency')
          /\ Len(cache') = Len(cache) + 1
          /\ Len(cache) = Len(recency) => Len(recency') = Len(recency) + 1
      BY <1>a, <2>2, <2>6, <3>1, SuffixGrown
    <3>3. /\ recency' \in Seq(Urls) /\ Distinct(recency') /\ cache' \in Seq(Urls)
      BY <1>a, <2>2, <3>1, ToEndDistinct, AppendProperties
    <3>4. Elements(cache) \cup {u} \subseteq Elements(cache')
      BY <1>a, <2>2, <3>1, ElementsAdded
    <3>5. Entered \cup {u} \subseteq Entered' /\ u \notin Entered
      <4>1. u \notin Entered
        BY <2>6 DEF Entered
      <4>2. u \in Entered'
        BY <2>3, <3>4 DEF Entered, Elements
      <4>3. Entered \subseteq Entered'
        BY <2>2, <2>3, <3>4 DEF Entered, Elements
      <4> QED
        BY <4>1, <4>2, <4>3
    <3>6. Cardinality(Entered) + 1 <= Cardinality(Entered')
      BY <1>d, <3>3, <3>5, OneMore
    <3>7. Len(cache') <= MaxSize + Cardinality(Evicting') + Cardinality(Entered')
      BY <1>a, <1>c, <1>d, <1>e, <2>4, <3>2, <3>3, <3>6
    <3>8. \/ Popping' = {} /\ Len(cache') = Len(recency')
          \/ Len(cache') + Cardinality(Threads) >= MaxSize + 1 + Cardinality(Popping')
      BY <1>a, <1>c, <1>e, <2>4, <3>2
    <3> QED
      BY <3>2, <3>3, <3>7, <3>8 DEF CacheInv, Distinct, Suffix
  <2> QED
    BY <2>5, <2>6
<1>2. CASE Move(r)
  <2> DEFINE u == subject[r]
  <2>1. /\ at[r] \in {"move", "touch"} /\ u \in Urls
        /\ subject' = subject
    BY <1>2 DEF Move, ThreadInv, OnRoute
  <2>2. CASE u \in Elements(cache)
    <3>1. /\ cache' = ToEnd(cache, u) /\ recency' = ToEnd(recency, u)
          /\ at' = [at EXCEPT ![r] = IF at[r] = "move" THEN "evict" ELSE "add"]
      BY <1>2, <2>2 DEF Move, MovedInCache, Goto
    <3>2. /\ at'[r] = IF at[r] = "move" THEN "evict" ELSE "add"
          /\ \A q \in Threads : q # r => at'[q] = at[q]
      BY <1>b, <3>1
    <3> HIDE DEF u
    <3>3. /\ Suffix(cache', recency')
          /\ Len(cache') = Len(cache) /\ Len(recency') = Len(recency)
      BY <1>a, <2>2, <3>1, SuffixMoved
    <3>4. /\ recency' \in Seq(Urls) /\ Distinct(recency') /\ cache' \in Seq(Urls)
      BY <1>a, <2>1, <3>1, ToEndDistinct
    <3>5. Elements(cache) \subseteq Elements(cache')
      BY <1>a, <2>2, <3>1, ElementsMoved
    <3>6. Popping' = Popping
      BY <2>1, <3>2 DEF Popping
    <3>7. Cardinality(Evicting) + Cardinality(Entered) <= Cardinality(Evicting') + Cardinality(Entered')
      <4>1. CASE at[r] = "move"
        <5>1. Evicting \cup {r} \subseteq Evicting' /\ r \notin Evicting
          BY <3>2, <4>1 DEF Evicting
        <5>2. Entered \subseteq Entered' \cup {u}
          <6> SUFFICES ASSUME NEW v \in Entered, v # u PROVE v \in Entered'
            OBVIOUS
          <6>1. PICK q \in Threads : at[q] = "move" /\ subject[q] = v
            BY DEF Entered
          <6>2. q # r
            BY <6>1 DEF u
          <6> QED
            BY <2>1, <3>2, <3>5, <6>1, <6>2 DEF Entered, Elements
        <5>3. /\ Cardinality(Evicting) + 1 <= Cardinality(Evicting')
              /\ Cardinality(Entered) <= Cardinality(Entered') + 1
          BY <1>d, <3>4, <5>1, <5>2, OneMore
        <5> QED
          BY <1>c, <1>d, <3>4, <5>3
      <4>2. CASE at[r] # "move"
        <5>1. Evicting \subseteq Evicting'
          BY <2>1, <3>2, <4>2 DEF Evicting
        <5>2. Entered \subseteq Entered'
          BY <2>1, <3>2, <3>5, <4>2 DEF Entered, Elements
        <5>3. /\ Cardinality(Evicting) <= Cardinality(Evicting')
              /\ Cardinality(Entered) <= Cardinality(Entered')
          BY <1>d, <3>4, <5>1, <5>2, OneMore
        <5> QED
          BY <1>c, <1>d, <3>4, <5>3
      <4> QED
        BY <4>1, <4>2
    <3>8. Len(cache') <= MaxSize + Cardinality(Evicting') + Cardinality(Entered')
      BY SMTT(30), <1>a, <1>c, <1>d, <1>e, <3>3, <3>4, <3>7
    <3> QED
      BY <1>e, <3>3, <3>4, <3>6, <3>8 DEF CacheInv, Distinct, Suffix
  <2>3. CASE u \notin Elements(cache)
    <3>1. cache' = cache /\ recency' = recency /\ at' = [at EXCEPT ![r] = "reply"]
      BY <1>2, <2>3 DEF Move, Goto, Reply
    <3>2. at'[r] = "reply" /\ \A q \in Threads : q # r => at'[q] = at[q]
      BY <1>b, <3>1
    <3>3. Popping' = Popping /\ Evicting' = Evicting
      BY <2>1, <3>2 DEF Popping, Evicting
    <3>4. Entered' = Entered
      BY <2>1, <2>3, <3>1, <3>2 DEF Entered, Elements
    <3> QED
      BY <1>a, <1>e, <3>1, <3>3, <3>4 DEF CacheInv, Distinct, Suffix
  <2> QED
    BY <2>2, <2>3
<1>3. CASE Evict(r)
  <2>1. at[r] = "evict" /\ UNCHANGED <<subject, cache, recency>>
    BY <1>3 DEF Evict, history
  <2>2. CASE Len(cache) > MaxSize
    <3>1. at' = [at EXCEPT ![r] = "pop"]
      BY <1>3, <2>2 DEF Evict, Goto
    <3>2. at'[r] = "pop" /\ \A q \in Threads : q # r => at'[q] = at[q]
      BY <1>b, <3>1
    <3>3. Evicting' = Evicting
      BY <2>1, <3>2 DEF Evicting
    <3>4. Entered' = Entered
      BY <2>1, <3>2 DEF Entered, Elements
    <3>5. Len(cache') + Cardinality(Threads) >= MaxSize + 1 + Cardinality(Popping')
      BY <1>a, <1>c, <1>d, <2>1, <2>2
    <3> QED
      BY <1>a, <1>e, <2>1, <3>3, <3>4, <3>5 DEF CacheInv, Distinct, Suffix
  <2>3. CASE ~ (Len(cache) > MaxSize)
    <3>1. \E to \in {"reply", "insert"} : at' = [at EXCEPT ![r] = to]
      BY <1>3, <2>3 DEF Evict, Goto, Reply
    <3>2. at'[r] # "pop" /\ \A q \in Threads : q # r => at'[q] = at[q]
      BY <1>b, <3>1
    <3>3. Popping' = Popping
      BY <2>1, <3>2 DEF Popping
    <3>4. Len(cache') <= MaxSize + Cardinality(Evicting') + Cardinality(Entered')
      BY <1>a, <1>c, <1>d, <2>1, <2>3
    <3> QED
      BY <1>a, <1>e, <2>1, <3>3, <3>4 DEF CacheInv, Distinct, Suffix
  <2> QED
    BY <2>2, <2>3
<1>4. CASE PopOldest(r)
  <2>1. at[r] = "pop" /\ UNCHANGED <<subject, recency>>
    BY <1>4 DEF PopOldest, history
  <2>2. \E to \in {"reply", "evict"} : at' = [at EXCEPT ![r] = to]
    BY <1>4 DEF PopOldest, Goto, Reply
  <2>3. at'[r] \in {"reply", "evict"} /\ \A q \in Threads : q # r => at'[q] = at[q]
    BY <1>b, <2>2
  <2>4. Popping' \cup {r} \subseteq Popping /\ r \notin Popping' /\ Popping # {}
    BY <2>1, <2>3 DEF Popping
  <2>5. Cardinality(Popping') + 1 <= Cardinality(Popping)
    BY <1>c, <2>4, OneMore
  <2>6. CASE cache = <<>>
    <3>1. cache' = cache
      BY <1>4, <2>6 DEF PopOldest
    <3>2. Len(cache) = 0
      BY <2>6, EmptySeq
    <3>3. Len(cache') <= MaxSize + Cardinality(Evicting') + Cardinality(Entered')
      BY <1>a, <1>c, <1>d, <3>1, <3>2
    <3>4. Len(cache') + Cardinality(Threads) >= MaxSize + 1 + Cardinality(Popping')
      BY SMTT(30), <1>a, <1>c, <1>d, <1>e, <2>4, <2>5, <3>1
    <3> QED
      BY <1>a, <2>1, <3>1, <3>3, <3>4 DEF CacheInv, Distinct, Suffix
  <2>7. CASE cache # <<>>
    <3>1. cache' = Tail(cache) /\ at' = [at EXCEPT ![r] = "evict"]
      BY <1>4, <2>7 DEF PopOldest, Goto
    <3>2. /\ Suffix(cache', recency) /\ cache' \in Seq(Urls)
          /\ Len(cache') = Len(cache) - 1
      BY <1>a, <2>7, <3>1, SuffixShortened
    <3>3. at'[r] = "evict"
      BY <1>b, <3>1
    <3>4. Evicting' = Evicting
      BY <2>1, <2>3, <3>3 DEF Evicting
    <3>5. Elements(cache) \subseteq Elements(cache') \cup {cache[1]}
      BY <1>a, <2>7, <3>1, ElementsLeft
    <3>6. Entered \subseteq Entered' \cup {cache[1]}
      BY <2>1, <2>3, <3>5 DEF Entered, Elements
    <3>7. Cardinality(Entered) <= Cardinality(Entered') + 1
      BY <1>d, <3>2, <3>6, OneMore
    <3>8. Len(cache') <= MaxSize + Cardinality(Evicting') + Cardinality(Entered')
      BY SMTT(30), <1>a, <1>c, <1>d, <1>e, <3>2, <3>4, <3>7
    <3>9. Len(cache') + Cardinality(Threads) >= MaxSize + 1 + Cardinality(Popping')
      <4>1. Len(cache) + Cardinality(Threads) >= MaxSize + 1 + Cardinality(Popping)
        BY <1>e, <2>4
      <4>2. Cardinality(Popping') \in Nat
        BY <1>d, <3>2
      <4> QED
        BY SMTT(30), <1>a, <1>c, <2>5, <3>2, <4>1, <4>2
    <3> QED
      BY <1>a, <2>1, <3>2, <3>8, <3>9 DEF CacheInv, Distinct, Suffix
  <2> QED
    BY <2>6, <2>7
<1>5. CASE ~ (Insert(r) \/ Move(r) \/ Evict(r) \/ PopOldest(r))
  <2>1. /\ UNCHANGED <<cache, recency>>
        /\ \A q \in Threads : \/ at'[q] = at[q] /\ subject'[q] = subject[q]
                              \/ {at[q], at'[q]} \cap {"move", "evict", "pop"} = {}
    <3>1. CASE Receive(r)
      BY <1>b, <3>1 DEF Receive, Begin, Goto
    <3>2. CASE Expire(r)
      BY <3>2 DEF Expire, handler
    <3>3. CASE DeferredSearch(r) \/ DeferredWhere(r) \/ DeferredWhereSelect(r) \/ DeferredWorkSelect(r)
      BY <1>b, <3>3 DEF DeferredSearch, DeferredWhere, DeferredWhereSelect, DeferredWorkSelect,
                        Defer, Goto, handler
    <3>4. CASE Direct(r) \/ LookupSearch(r) \/ LookupWhere(r) \/ LookupTwins(r) \/ SaveSession(r)
      BY <1>b, <3>4 DEF Direct, LookupSearch, LookupWhere, LookupTwins, SaveSession, Goto, Reply, history
    <3>5. CASE Get(r) \/ Add(r) \/ LoadSession(r) \/ ChooseEpisode(r) \/ ChooseWorks(r) \/ DeleteSession(r)
      BY <1>b, <3>5 DEF Get, Add, LoadSession, ChooseEpisode, ChooseWorks, DeleteSession, Goto, Reply, history
    <3>6. CASE Respond(r) \/ Edit(r)
      BY <1>b, <3>6 DEF Respond, Edit, End, Goto, history
    <3> QED
      BY <1>5, <3>1, <3>2, <3>3, <3>4, <3>5, <3>6 DEF Steps
  <2> QED
    BY <1>a, <2>1, CacheLeftAlone
<1> QED
  BY <1>1, <1>2, <1>3, <1>4, <1>5

-----------------------------------------------------------------------------
ServerInv == Ranges /\ ThreadInv /\ SessionInv /\ CacheInv

(* The invariant holds in every behaviour. *)
LEMMA ServerInvariant == Spec => []ServerInv
<1>1. Init => ServerInv
  <2> SUFFICES ASSUME Init PROVE ServerInv
    OBVIOUS
  <2>1. Ranges
    BY EmptySeq, InteractionsAssumption DEF Init, Ranges
  <2>2. ThreadInv /\ SessionInv
    BY DEF Init, ThreadInv, OnRoute, Pending, TooLate, SessionInv
  <2>3. CacheInv
    <3>1. cache = <<>> /\ recency = <<>> /\ Len(<<>>) = 0
      BY EmptySeq DEF Init
    <3>2. Popping = {} /\ Evicting = {} /\ Entered = {}
      BY <3>1 DEF Init, Popping, Evicting, Entered, Elements
    <3>3. Cardinality({}) = 0 /\ MaxSize \in Nat
      BY FS_EmptySet, InteractionsAssumption
    <3> QED
      BY <3>1, <3>2, <3>3 DEF CacheInv, Distinct, Suffix
  <2> QED
    BY <2>1, <2>2, <2>3 DEF ServerInv
<1>2. ServerInv /\ [Next]_vars => ServerInv'
  <2> SUFFICES ASSUME ServerInv, [Next]_vars PROVE ServerInv'
    OBVIOUS
  <2>1. CASE UNCHANGED vars
    <3>1. Ranges' /\ ThreadInv' /\ SessionInv'
      BY ZenonT(30), <2>1 DEF vars, handler, history, ServerInv, Ranges, ThreadInv, OnRoute, Pending, TooLate, SessionInv
    <3>2. CacheInv'
      BY <2>1, CacheLeftAlone DEF vars, handler, history, ServerInv
    <3> QED
      BY <3>1, <3>2 DEF ServerInv
  <2>2. CASE Next
    <3>1. PICK r \in Threads : Steps(r)
      BY <2>2 DEF Next, Steps
    <3>2. UNCHANGED offered
      BY <2>2 DEF Next
    <3>3. cache' \in Seq(Urls) /\ recency' \in Seq(Urls) /\ CacheInv'
      BY <3>1, CacheStep DEF ServerInv
    <3>4. Ranges' /\ ThreadInv' /\ SessionInv'
      BY <3>1, <3>2, <3>3, ThreadStep DEF ServerInv
    <3> QED
      BY <3>3, <3>4 DEF ServerInv
  <2> QED
    BY <2>1, <2>2
<1> QED
  BY <1>1, <1>2, PTL DEF Spec

(* The variables keep their types, and the cache shared by the threads     *)
(* exceeds its size by no more than one URL for each thread that is still  *)
(* caching one, although they look at its size and remove the oldest       *)
(* without a lock.                                                         *)
THEOREM InteractionsTypeCorrect == Spec => []TypeOK
<1>1. ServerInv => TypeOK
  <2> SUFFICES ASSUME ServerInv PROVE TypeOK
    OBVIOUS
  <2> DEFINE moving == {r \in Threads : at[r] = "move"}
             caching == {r \in Threads : at[r] \in {"move", "evict", "pop"}}
  <2>1. /\ cache \in Seq(Urls) /\ Len(cache) \in Nat
        /\ moving \in SUBSET Threads /\ caching \in SUBSET Threads
        /\ Evicting \in SUBSET Threads /\ Entered \in SUBSET Elements(cache)
    BY LenProperties DEF ServerInv, Ranges, Evicting, Entered
  <2>2. /\ IsFiniteSet(moving) /\ Cardinality(moving) \in Nat
        /\ IsFiniteSet(Evicting) /\ Cardinality(Evicting) \in Nat
        /\ IsFiniteSet(Entered) /\ Cardinality(Entered) \in Nat
        /\ Cardinality(caching) \in Nat
    <3> HIDE DEF moving, caching
    <3> QED
      BY <2>1, CacheFinite
  <2>3. Cardinality(Entered) <= Cardinality(moving)
    <3> DEFINE f == [u \in Entered |-> CHOOSE r \in Threads : at[r] = "move" /\ subject[r] = u]
    <3>1. \A u \in Entered : f[u] \in moving /\ subject[f[u]] = u
      BY DEF Entered
    <3>2. f \in [Entered -> moving]
      BY <3>1
    <3> HIDE DEF f, moving
    <3>3. f \in Injection(Entered, moving)
      BY <3>1, <3>2 DEF Injection, IsInjective
    <3> QED
      BY <2>2, <3>3, FS_Injection
  <2>4. Cardinality(caching) = Cardinality(Evicting) + Cardinality(moving)
    <3>1. caching = Evicting \cup moving /\ Evicting \cap moving = {}
      BY DEF Evicting
    <3> HIDE DEF moving, caching
    <3>2. Cardinality(Evicting \cap moving) = 0
      BY <3>1, FS_EmptySet
    <3>3. Cardinality(Evicting \cup moving)
            = Cardinality(Evicting) + Cardinality(moving) - Cardinality(Evicting \cap moving)
      BY <2>2, FS_Union
    <3> QED
      BY <2>2, <3>1, <3>2, <3>3
  <2>5. Len(cache) <= MaxSize + Cardinality(caching)
    <3>1. Len(cache) <= MaxSize + Cardinality(Evicting) + Cardinality(Entered)
      BY DEF ServerInv, CacheInv
    <3> HIDE DEF moving, caching
    <3> QED
      BY <2>1, <2>2, <2>3, <2>4, <3>1, InteractionsAssumption
  <2> QED
    BY <2>5 DEF ServerInv, TypeOK
<1> QED
  BY <1>1, ServerInvariant, PTL

(* Whatever the handler does, and whether its answer is deferred or not, a *)
(* request with which no call of Discord's failed leaves its interaction   *)
(* answered, unless the handler raised before anybody was told to wait.    *)
THEOREM RequestsAreAnswered == Spec => []AnsweredUnlessTroubled
<1> DEFINE Answered(r) ==
             at[r] = "idle" /\ kind[r] # "none" /\ ~ troubled[r]
               => \/ discord[r] = "answered"
                  \/ kind[r] \notin DeferredKinds /\ reply[r] = "raised"
<1>1. Init => AnsweredUnlessTroubled
  BY DEF Init, AnsweredUnlessTroubled
<1>2. ServerInv /\ AnsweredUnlessTroubled /\ [Next]_vars => AnsweredUnlessTroubled'
  <2> SUFFICES ASSUME ServerInv, AnsweredUnlessTroubled, [Next]_vars, NEW q \in Threads
               PROVE  Answered(q)'
    BY DEF AnsweredUnlessTroubled
  <2>a. Answered(q) /\ Pending(q)
    BY DEF AnsweredUnlessTroubled, ServerInv, ThreadInv
  <2>b. Ranges
    BY DEF ServerInv
  <2>1. CASE UNCHANGED vars
    BY <2>1, <2>a DEF vars, handler, history
  <2>2. ASSUME NEW r \in Threads, Steps(r) PROVE Answered(q)'
    <3>1. CASE Respond(r)
      BY <2>a, <2>b, <3>1 DEF Ranges, Pending, Respond, End, Goto, history
    <3>2. CASE Edit(r)
      BY <2>a, <2>b, <3>2 DEF Ranges, Pending, Edit, End, Goto
    <3>3. CASE Expire(r)
      BY <2>a, <2>b, <3>3 DEF Ranges, Expire, handler
    <3>4. CASE ~ (Respond(r) \/ Edit(r) \/ Expire(r))
      <4>1. /\ at'[r] # "idle"
            /\ q # r => /\ at'[q] = at[q] /\ kind'[q] = kind[q] /\ reply'[q] = reply[q]
                        /\ discord'[q] = discord[q] /\ troubled'[q] = troubled[q]
        <5>1. CASE Receive(r)
          <6>1. PICK k \in offered :
                  /\ kind' = [kind EXCEPT ![r] = k]
                  /\ at' = [at EXCEPT ![r] = IF k \in DeferredKinds THEN "defer" ELSE Begin(k)]
            BY <5>1 DEF Receive, Goto
          <6>2. /\ reply' = [reply EXCEPT ![r] = "none"]
                /\ discord' = [discord EXCEPT ![r] = "open"]
                /\ troubled' = [troubled EXCEPT ![r] = FALSE]
            BY <5>1 DEF Receive
          <6>3. Begin(k) # "idle"
            BY DEF Begin
          <6> QED
            BY <2>b, <6>1, <6>2, <6>3 DEF Ranges
        <5>2. CASE DeferredSearch(r) \/ DeferredWhere(r) \/ DeferredWhereSelect(r) \/ DeferredWorkSelect(r)
          BY <2>b, <5>2 DEF Ranges, DeferredSearch, DeferredWhere, DeferredWhereSelect,
                            DeferredWorkSelect, Defer, Goto, handler
        <5>3. CASE Direct(r) \/ LookupSearch(r) \/ LookupWhere(r) \/ LookupTwins(r) \/ SaveSession(r)
          BY <2>b, <5>3 DEF Ranges, Direct, LookupSearch, LookupWhere, LookupTwins, SaveSession,
                            Goto, Reply, history
        <5>4. CASE Insert(r) \/ Move(r) \/ Evict(r) \/ PopOldest(r)
          BY <2>b, <5>4 DEF Ranges, Insert, Move, Evict, PopOldest, Goto, Reply, history
        <5>5. CASE Get(r) \/ Add(r) \/ LoadSession(r) \/ ChooseEpisode(r) \/ ChooseWorks(r) \/ DeleteSession(r)
          BY <2>b, <5>5 DEF Ranges, Get, Add, LoadSession, ChooseEpisode, ChooseWorks, DeleteSession,
                            Goto, Reply, history
        <5> QED
          BY <2>2, <3>4, <5>1, <5>2, <5>3, <5>4, <5>5 DEF Steps
      <4> QED
        BY <2>a, <4>1
    <3> QED
      BY <3>1, <3>2, <3>3, <3>4
  <2> QED
    BY <2>1, <2>2 DEF Next, Steps
<1> QED
  BY <1>1, <1>2, ServerInvariant, PTL DEF Spec

(* However requests overlap, one that comes after the session it names was *)
(* answered from and deleted is not answered from it again.                *)
THEOREM UsedSessionsStayGone == Spec => []UsedSessionIsGone
<1>1. ServerInv => UsedSessionIsGone
  BY DEF ServerInv, ThreadInv, TooLate, UsedSessionIsGone
<1> QED
  BY <1>1, ServerInvariant, PTL

(* Whatever the threads cache, move and evict at once, of the URLs by      *)
(* their last use the last MaxSize, less one for each other thread, are in *)
(* the cache.                                                              *)
THEOREM RecentOptionsAreKept == Spec => []RecentOptionsStay
<1>1. ServerInv => RecentOptionsStay
  <2> SUFFICES ASSUME ServerInv, NEW i \in 1..Len(recency),
                      Len(recency) - i + Cardinality(Threads) <= MaxSize
               PROVE  recency[i] \in Elements(cache)
    BY DEF RecentOptionsStay
  <2>1. Len(cache) \in Nat /\ Len(recency) \in Nat /\ MaxSize \in Nat /\ Cardinality(Threads) \in Nat
    BY LenProperties, InteractionsAssumption, FS_CardinalityType DEF ServerInv, Ranges
  <2>2. Cardinality(Popping) \in Nat
    <3>1. Popping \in SUBSET Threads
      BY DEF Popping
    <3> QED
      BY <3>1, InteractionsAssumption, FS_Subset, FS_CardinalityType
  <2>3. Len(recency) - i < Len(cache)
    <3>1. \/ Len(cache) = Len(recency)
          \/ Len(cache) + Cardinality(Threads) >= MaxSize + 1 + Cardinality(Popping)
      BY DEF ServerInv, CacheInv
    <3> QED
      BY <2>1, <2>2, <3>1
  <2> DEFINE x == i - (Len(recency) - Len(cache))
  <2>4. x \in 1..Len(cache) /\ Len(recency) - Len(cache) + x = i
    BY <2>1, <2>3 DEF ServerInv, CacheInv, Suffix
  <2>5. cache[x] = recency[Len(recency) - Len(cache) + x]
    BY <2>4 DEF ServerInv, CacheInv, Suffix
  <2> HIDE DEF x
  <2> QED
    BY <2>4, <2>5 DEF Elements
<1> QED
  BY <1>1, ServerInvariant, PTL

=============================================================================
