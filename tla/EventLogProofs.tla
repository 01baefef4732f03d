--------------------------- MODULE EventLogProofs ----------------------------
(***************************************************************************)
(* The event history is accounted for, numbered without repetition and     *)
(* shown without a silent gap, for any number of observers, records, polls *)
(* and failures (EventLog).                                                *)
(*                                                                         *)
(* The invariant says the same of the file and of what is synced of it:    *)
(* growing numbers, a marker that counts what is gone and reaches as far,  *)
(* and, until a replacement, the second a prefix of the first.  That is    *)
(* what every power loss falls back on.                                    *)
(***************************************************************************)
EXTENDS EventLog, SequenceTheorems, FiniteSetTheorems, WellFoundedInduction, TLAPS

-----------------------------------------------------------------------------
(* The inductive invariant.                                                *)

Ascending(s) == \A i, j \in DOMAIN s : i < j => s[i].sequence < s[j].sequence

\* No record of f, kept or counted by the marker, has a number from n on.
Beyond(f, n) == f.marker.high < n /\ \A i \in DOMAIN f.events : f.events[i].sequence < n

Covered(f, S) ==
    \A e \in S :
        e.sequence <= f.marker.high \/ \E i \in DOMAIN f.events : e.sequence <= f.events[i].sequence

\* The marker counts the records of S that are not in f, all of them technical.
Accounted(f, S) ==
    /\ IsFiniteSet(S)
    /\ Elements(f.events) \subseteq S
    /\ \A e \in S \ Elements(f.events) : e.technical
    /\ f.marker.lines = Cardinality(S \ Elements(f.events))

History(f, S) ==
    /\ f.marker.lines = 0 => f.marker.high = 0
    /\ Ascending(f.events)
    /\ Covered(f, S)
    /\ Accounted(f, S)

\* What is not synced was appended to what is, unless the file was replaced.
PrefixPart ==
    /\ durable.marker.high <= file.marker.high
    /\ durable.marker = file.marker =>
          /\ Len(durable.events) <= Len(file.events)
          /\ \A i \in 1..Len(durable.events) : durable.events[i] = file.events[i]
          /\ \A i \in DOMAIN file.events : i > Len(durable.events) => file.events[i] \notin safe

\* An observer in the middle of an append holds the lock, and its number is
\* beyond the file's.
AppendPart ==
    \A w \in Writers :
        /\ writer[w].pc \in {"rest", "sync"} <=> flock = w
        /\ writer[w].pc \in {"rest", "sync", "failed"} => writer[w].event \in Events
        /\ writer[w].pc = "rest" => file.torn /\ Beyond(file, writer[w].event.sequence)
        /\ writer[w].pc = "sync" => writer[w].event \in accepted

\* An emission that returned is synced, or its failure was marked.
SettledPart ==
    \/ errorFile \/ unmarked
    \/ settled \subseteq safe /\ \A w \in Writers : ~writer[w].failed

\* Damage found under the lock is nobody's append in progress.
AlarmPart == reader.locked /\ reader.incomplete => file.torn /\ flock = Broker

\* What was read is history, and whole as far as it goes.
ReaderPart ==
    /\ reader.events \subseteq accepted
    /\ reader.settled \subseteq settled
    /\ \A e \in accepted : \A d \in reader.events :
          window.cursor < e.sequence /\ e.sequence <= d.sequence =>
              e \in reader.events \/ (e.technical /\ reader.truncated)

\* So is what the window shows, unless it shows an error.
WindowPart ==
    ~window.error =>
        /\ window.seen \subseteq accepted
        /\ window.cursor = 0 \/ \E s \in window.seen : s.sequence = window.cursor
        /\ \A e \in accepted :
              e.sequence <= window.cursor =>
                  e \in window.seen \/ (e.technical /\ window.truncated)

LogInvariant ==
    /\ TypeOK /\ History(file, accepted) /\ History(durable, safe) /\ PrefixPart
    /\ NoSequenceReuse /\ AppendPart /\ SettledPart /\ AlarmPart /\ ReaderPart /\ WindowPart

-----------------------------------------------------------------------------
(* PROOFS about the operators on histories.                                *)

\* A non-empty set of numbers with a bound has a greatest one, and Max is it.
LEMMA MaxIsGreatest ==
    ASSUME NEW T, NEW n \in Nat, T \subseteq 0..n, T # {}
    PROVE  Max(T) \in T /\ \A y \in T : Max(T) >= y
  <1> DEFINE U == {n - t : t \in T}
  <1>1. U \subseteq Nat /\ U # {}
    OBVIOUS
  <1>2. PICK u \in U : \A v \in U : ~(<<v, u>> \in OpToRel(<, Nat))
    <2> HIDE DEF U
    <2> QED BY <1>1, NatLessThanWellFounded, WFMin
  <1>3. PICK x \in T : u = n - x
    BY <1>2
  <1>4. ASSUME NEW y \in T PROVE x >= y
    <2>1. n - y \in U /\ u \in Nat /\ n - y \in Nat
      BY <1>1, <1>2
    <2>2. n - y < u => <<n - y, u>> \in OpToRel(<, Nat)
      BY <2>1 DEF OpToRel
    <2>3. ~(n - y < u)
      <3> HIDE DEF U
      <3> QED BY <1>2, <2>1, <2>2, Zenon
    <2>4. x \in Nat /\ y \in Nat
      OBVIOUS
    <2> QED BY <1>3, <2>3, <2>4
  <1>5. \E z \in T : \A y \in T : z >= y
    BY <1>3, <1>4
  <1> QED BY <1>5 DEF Max

\* The size of 1..k.
LEMMA FirstNumbers ==
    ASSUME NEW k \in Nat
    PROVE  IsFiniteSet(1..k) /\ Cardinality(1..k) = k
  <1>1. 1 \in Int /\ k \in Int
    OBVIOUS
  <1>2. IsFiniteSet(1..k) /\ Cardinality(1..k) = (IF 1 > k THEN 0 ELSE k - 1 + 1)
    BY <1>1, FS_Interval
  <1> QED BY <1>2

\* The positions left are numbered 1, 2, ... in their order: every one of them
\* has a rank, and no two the same.
LEMMA Ranks ==
    ASSUME NEW m \in Nat, NEW left, left \subseteq 1..m
    PROVE  /\ IsFiniteSet(left) /\ Cardinality(left) \in Nat
           /\ \A i \in left : Cardinality({j \in left : j <= i}) \in 1..Cardinality(left)
           /\ \A i, k \in left :
                 i < k => Cardinality({j \in left : j <= i}) < Cardinality({j \in left : j <= k})
           /\ \A n \in 1..Cardinality(left) :
                 \E i \in left : Cardinality({j \in left : j <= i}) = n
  <1> DEFINE upTo(i) == {j \in left : j <= i}
             rank == [i \in left |-> Cardinality(upTo(i))]
  <1>1. IsFiniteSet(1..m)
    BY FS_Interval
  <1>2. IsFiniteSet(left) /\ Cardinality(left) \in Nat
    BY <1>1, FS_Subset, FS_CardinalityType
  <1>3. ASSUME NEW i \in left
        PROVE  IsFiniteSet(upTo(i)) /\ Cardinality(upTo(i)) \in 1..Cardinality(left)
    <2>1. upTo(i) \in SUBSET left /\ i \in upTo(i)
      OBVIOUS
    <2> HIDE DEF upTo
    <2>2. IsFiniteSet(upTo(i)) /\ Cardinality(upTo(i)) <= Cardinality(left)
      BY <1>2, <2>1, FS_Subset
    <2>3. Cardinality(upTo(i)) \in Nat /\ Cardinality(upTo(i)) # 0
      BY <2>1, <2>2, FS_CardinalityType, FS_EmptySet
    <2> QED BY <1>2, <2>2, <2>3
  <1>4. ASSUME NEW i \in left, NEW k \in left, i < k
        PROVE  Cardinality(upTo(i)) < Cardinality(upTo(k))
    <2>1. upTo(i) \in SUBSET upTo(k) /\ k \in upTo(k) /\ k \notin upTo(i)
      <3>1. i \in Nat /\ k \in Nat /\ \A j \in left : j \in Nat
        OBVIOUS
      <3>2. ~(k <= i) /\ k <= k /\ \A j \in left : j <= i => j <= k
        BY <1>4, <3>1
      <3> QED BY <3>2
    <2>2. IsFiniteSet(upTo(k)) /\ Cardinality(upTo(i)) \in Nat /\ Cardinality(upTo(k)) \in Nat
      BY <1>2, <1>3
    <2> HIDE DEF upTo
    <2>3. /\ Cardinality(upTo(i)) <= Cardinality(upTo(k))
          /\ Cardinality(upTo(k)) # Cardinality(upTo(i))
      BY <2>1, <2>2, FS_Subset
    <2> QED BY <2>2, <2>3
  <1>5. rank \in Injection(left, 1..Cardinality(left))
    <2>1. rank \in [left -> 1..Cardinality(left)]
      BY <1>3
    <2>2. ASSUME NEW i \in left, NEW k \in left, rank[i] = rank[k] PROVE i = k
      <3>1. /\ i < k => Cardinality(upTo(i)) < Cardinality(upTo(k))
            /\ k < i => Cardinality(upTo(k)) < Cardinality(upTo(i))
        BY <1>4
      <3>2. Cardinality(upTo(i)) = Cardinality(upTo(k)) /\ Cardinality(upTo(i)) \in Nat
        BY <1>2, <1>3, <2>2
      <3> HIDE DEF upTo
      <3> QED BY <3>1, <3>2
    <2> HIDE DEF rank
    <2>3. DOMAIN rank = left
      BY <2>1
    <2> QED BY <2>1, <2>2, <2>3 DEF Injection, IsInjective
  <1>6. rank \in Surjection(left, 1..Cardinality(left))
    <2>1. /\ IsFiniteSet(1..Cardinality(left))
          /\ Cardinality(1..Cardinality(left)) = Cardinality(left)
      BY <1>2, FS_Interval
    <2> HIDE DEF rank
    <2> QED BY <1>5, <2>1, FS_Injection
  <1>7. ASSUME NEW n \in 1..Cardinality(left) PROVE \E i \in left : Cardinality(upTo(i)) = n
    <2>1. PICK i \in left : rank[i] = n
      <3> HIDE DEF rank
      <3> QED BY <1>6 DEF Surjection
    <2> QED BY <2>1
  <1> QED BY <1>2, <1>3, <1>4, <1>7

\* Without keeps the other positions, in their order.
LEMMA WithoutKeeps ==
    ASSUME NEW S, NEW s \in Seq(S), NEW gone
    PROVE  /\ Without(s, gone) \in Seq(S)
           /\ Len(Without(s, gone)) = Cardinality(DOMAIN s \ gone)
           /\ \A x : x \in Elements(Without(s, gone)) <=> \E i \in DOMAIN s \ gone : x = s[i]
           /\ Ascending(s) => Ascending(Without(s, gone))
  <1> DEFINE left == DOMAIN s \ gone
             rank(i) == Cardinality({j \in left : j <= i})
             at(n) == CHOOSE i \in left : rank(i) = n
             t == [n \in 1..Cardinality(left) |-> s[at(n)]]
  <1>0. Len(s) \in Nat /\ DOMAIN s = 1..Len(s)
    OBVIOUS
  <1>1. left \subseteq 1..Len(s) /\ \A i \in left : i \in Nat /\ i \in 1..Len(s) /\ s[i] \in S
    BY <1>0, ElementOfSeq
  <1> HIDE DEF left
  <1>2. /\ Cardinality(left) \in Nat
        /\ \A i \in left : rank(i) \in 1..Cardinality(left)
        /\ \A i, k \in left : i < k => rank(i) < rank(k)
        /\ \A n \in 1..Cardinality(left) : \E i \in left : rank(i) = n
    BY <1>0, <1>1, Ranks
  <1> HIDE DEF rank
  <1>3. ASSUME NEW n \in 1..Cardinality(left) PROVE at(n) \in left /\ rank(at(n)) = n
    BY <1>2
  <1>4. ASSUME NEW i \in left PROVE at(rank(i)) = i
    <2>1. rank(i) \in 1..Cardinality(left)
      BY <1>2
    <2>2. at(rank(i)) \in left /\ rank(at(rank(i))) = rank(i)
      BY <1>3, <2>1
    <2> HIDE DEF at
    <2>3. at(rank(i)) \in Nat /\ i \in Nat
      BY <1>1, <2>2, Zenon
    <2> QED BY <1>2, <2>1, <2>2, <2>3
  <1> HIDE DEF at
  <1>5. t \in [1..Cardinality(left) -> S]
    <2>1. ASSUME NEW n \in 1..Cardinality(left) PROVE s[at(n)] \in S
      BY <1>1, <1>3, Zenon
    <2> QED BY <2>1
  <1>6. t \in Seq(S) /\ Len(t) = Cardinality(left) /\ DOMAIN t = 1..Cardinality(left)
    BY <1>2, <1>5
  <1>7. Elements(t) = {s[i] : i \in left}
    <2>1. Elements(t) = {s[at(n)] : n \in 1..Cardinality(left)}
      BY DEF Elements
    <2>2. \A n \in 1..Cardinality(left) : at(n) \in left
      BY <1>3
    <2>3. \A i \in left : rank(i) \in 1..Cardinality(left) /\ at(rank(i)) = i
      BY <1>2, <1>4
    <2> QED BY <2>1, <2>2, <2>3
  <1>8. ASSUME NEW n \in DOMAIN t, NEW k \in DOMAIN t, n < k
        PROVE  at(n) < at(k) /\ at(n) \in DOMAIN s /\ at(k) \in DOMAIN s
                /\ t[n] = s[at(n)] /\ t[k] = s[at(k)]
    <2>1. n \in 1..Cardinality(left) /\ k \in 1..Cardinality(left)
      BY <1>6
    <2>2. at(n) \in left /\ at(k) \in left /\ rank(at(n)) = n /\ rank(at(k)) = k
      BY <1>3, <2>1
    <2>3. at(n) \in Nat /\ at(k) \in Nat /\ at(n) \in 1..Len(s) /\ at(k) \in 1..Len(s)
      BY <1>1, <2>2, Zenon
    <2>4. ~(at(k) < at(n)) /\ at(k) # at(n)
      BY <1>2, <1>8, <2>1, <2>2
    <2> QED BY <1>0, <2>1, <2>3, <2>4
  <1>9. Without(s, gone) = t
    BY DEF Without, left, at, rank
  <1> HIDE DEF t
  <1>10. Ascending(s) => Ascending(t)
    BY <1>8 DEF Ascending
  <1>11. \A x : x \in Elements(t) <=> \E i \in left : x = s[i]
    BY <1>7
  <1> QED BY <1>6, <1>9, <1>10, <1>11 DEF left

\* The fields of a record of the history.
LEMMA EventFields ==
    ASSUME NEW e \in Events
    PROVE  /\ e.sequence \in 1..MaxEvents /\ e.sequence \in Nat /\ e.sequence > 0
           /\ e.technical \in BOOLEAN /\ e.by \in Writers
  BY EventLogAssumption DEF Events

\* The fields of a file.
LEMMA FileFields ==
    ASSUME NEW f \in Files
    PROVE  /\ f.marker \in Markers /\ f.marker.lines \in Nat
           /\ f.marker.high \in 0..MaxEvents /\ f.marker.high \in Nat
           /\ f.events \in Seq(Events) /\ Len(f.events) \in Nat
           /\ DOMAIN f.events = 1..Len(f.events)
           /\ \A i \in DOMAIN f.events : f.events[i] \in Events /\ f.events[i].sequence \in Nat
           /\ f.torn \in BOOLEAN
           /\ f = [marker |-> f.marker, events |-> f.events, torn |-> f.torn]
  <1>1. /\ f.marker \in Markers /\ f.events \in Seq(Events) /\ f.torn \in BOOLEAN
        /\ f = [marker |-> f.marker, events |-> f.events, torn |-> f.torn]
    BY DEF Files
  <1>2. f.marker.lines \in Nat /\ f.marker.high \in 0..MaxEvents /\ f.marker.high \in Nat
    BY <1>1, EventLogAssumption DEF Markers
  <1>3. Len(f.events) \in Nat /\ DOMAIN f.events = 1..Len(f.events)
    BY <1>1
  <1>4. ASSUME NEW i \in DOMAIN f.events
        PROVE  f.events[i] \in Events /\ f.events[i].sequence \in Nat
    BY <1>1, <1>3, ElementOfSeq, EventFields
  <1> QED BY <1>1, <1>2, <1>3, <1>4

\* A history with growing numbers is read as it is.
LEMMA ReadWhole ==
    ASSUME NEW f \in Files, Ascending(f.events)
    PROVE  ReadHistory(f) = [marker |-> f.marker, events |-> f.events, incomplete |-> f.torn]
  <1> DEFINE s == f.events
             valid == {n \in 0..Len(s) : \A i \in 2..n : s[i].sequence > s[i-1].sequence}
  <1>1. s \in Seq(Events) /\ Len(s) \in Nat /\ DOMAIN s = 1..Len(s) /\ f.torn \in BOOLEAN
        /\ \A i \in DOMAIN s : s[i].sequence \in Nat
    BY FileFields
  <1>2. ASSUME NEW i \in 2..Len(s) PROVE s[i].sequence > s[i-1].sequence
    <2>1. i \in DOMAIN s /\ i-1 \in DOMAIN s /\ i-1 < i
      BY <1>1
    <2>2. s[i-1].sequence < s[i].sequence
      BY <2>1 DEF Ascending
    <2> QED BY <1>1, <2>1, <2>2
  <1>3. Len(s) \in valid /\ \A n \in valid : n \in Nat /\ n <= Len(s)
    BY <1>1, <1>2
  <1>4. Max(valid) = Len(s)
    <2> HIDE DEF valid
    <2>1. ASSUME NEW x \in valid, \A y \in valid : x >= y PROVE x = Len(s)
      BY <1>1, <1>3, <2>1
    <2>2. \A y \in valid : Len(s) >= y
      BY <1>1, <1>3
    <2> QED BY <1>3, <2>1, <2>2 DEF Max
  <1>5. SubSeq(s, 1, Len(s)) = s
    BY <1>1, SubSeqFull
  <1>6. ~(Len(s) < Len(s))
    BY <1>1
  <1>7. ReadHistory(f) = [marker |-> f.marker, events |-> SubSeq(s, 1, Max(valid)),
                          incomplete |-> f.torn \/ Max(valid) < Len(s)]
    BY DEF ReadHistory
  <1> HIDE DEF valid, s
  <1>8. (f.torn \/ Len(s) < Len(s)) = f.torn
    BY <1>1, <1>6
  <1> QED BY <1>4, <1>5, <1>7, <1>8 DEF s

\* A number that append_event lets pass is beyond all of the file.
LEMMA NumberIsBeyond ==
    ASSUME NEW f \in Files, NEW S, History(f, S), NEW e \in Events, AppendAllowed(f, e)
    PROVE  Beyond(f, e.sequence)
  <1> DEFINE s == f.events
  <1>1. /\ s \in Seq(Events) /\ Len(s) \in Nat /\ DOMAIN s = 1..Len(s)
        /\ \A i \in DOMAIN s : s[i].sequence \in Nat
        /\ f.marker.high \in Nat /\ e.sequence \in Nat /\ e.sequence > 0
    BY FileFields, EventFields
  <1>2. f.marker.high < e.sequence
    BY <1>1 DEF History, AppendAllowed
  <1>3. ASSUME NEW i \in DOMAIN s PROVE s[i].sequence < e.sequence
    <2>1. Len(s) \in DOMAIN s /\ i <= Len(s) /\ s # <<>>
      BY <1>1
    <2>2. s[Len(s)].sequence < e.sequence
      BY <2>1 DEF AppendAllowed, LastSequence
    <2>3. i = Len(s) \/ s[i].sequence < s[Len(s)].sequence
      BY <1>1, <2>1 DEF History, Ascending
    <2> QED BY <1>1, <2>1, <2>2, <2>3
  <1> QED BY <1>2, <1>3 DEF Beyond

\* And beyond all that was ever accepted.
LEMMA BeyondAccepted ==
    ASSUME NEW f \in Files, NEW S, S \subseteq Events, Covered(f, S), NEW n \in Nat, Beyond(f, n)
    PROVE  \A d \in S : d.sequence < n
  <1> SUFFICES ASSUME NEW d \in S PROVE d.sequence < n
    OBVIOUS
  <1>1. d.sequence \in Nat /\ f.marker.high \in Nat
    BY FileFields, EventFields
  <1>2. \A i \in DOMAIN f.events : f.events[i].sequence \in Nat
    BY FileFields
  <1> QED BY <1>1, <1>2 DEF Covered, Beyond

\* A history goes on with a record beyond it.
LEMMA Appending ==
    ASSUME NEW f \in Files, NEW g \in Files, NEW S, S \subseteq Events, History(f, S),
           NEW e \in Events, Beyond(f, e.sequence),
           g.marker = f.marker, g.events = Append(f.events, e)
    PROVE  History(g, S \cup {e})
  <1> DEFINE s == f.events
             t == Append(s, e)
  <1>1. /\ s \in Seq(Events) /\ Len(s) \in Nat /\ DOMAIN s = 1..Len(s)
        /\ \A i \in DOMAIN s : s[i].sequence \in Nat
        /\ f.marker.high \in Nat /\ e.sequence \in Nat
    BY FileFields, EventFields
  <1>2. /\ DOMAIN t = 1..(Len(s) + 1) /\ t[Len(s) + 1] = e
        /\ \A i \in DOMAIN s : i \in DOMAIN t /\ t[i] = s[i]
        /\ \A i \in DOMAIN t : i \in DOMAIN s \/ i = Len(s) + 1
    BY <1>1, AppendProperties
  <1> HIDE DEF t
  <1>3. Ascending(t)
    <2> SUFFICES ASSUME NEW i \in DOMAIN t, NEW j \in DOMAIN t, i < j
                 PROVE  t[i].sequence < t[j].sequence
      BY DEF Ascending
    <2>1. i \in DOMAIN s
      BY <1>1, <1>2
    <2>2. CASE j \in DOMAIN s
      BY <1>2, <2>1, <2>2 DEF History, Ascending
    <2>3. CASE j = Len(s) + 1
      BY <1>2, <2>1, <2>3 DEF Beyond
    <2> QED BY <1>2, <2>2, <2>3
  <1>4. Covered(g, S \cup {e})
    <2>1. ASSUME NEW d \in S
          PROVE  d.sequence <= f.marker.high \/ \E i \in DOMAIN t : d.sequence <= t[i].sequence
      BY <1>2 DEF History, Covered
    <2>2. \E i \in DOMAIN t : e.sequence <= t[i].sequence
      BY <1>1, <1>2
    <2> QED BY <2>1, <2>2 DEF Covered, t
  <1>5. e \notin S
    BY <1>1, BeyondAccepted DEF History
  <1>6. Elements(t) = Elements(s) \cup {e}
    BY <1>1, <1>2 DEF Elements
  <1>7. (S \cup {e}) \ Elements(t) = S \ Elements(s)
    BY <1>5, <1>6
  <1>8. IsFiniteSet(S \cup {e})
    BY FS_AddElement DEF History, Accounted
  <1>9. Accounted(g, S \cup {e})
    BY <1>6, <1>7, <1>8 DEF History, Accounted, t
  <1> QED BY <1>3, <1>4, <1>9 DEF History, t

\* A compaction evicts technical records only, and counts each of them.
LEMMA Compacting ==
    ASSUME NEW f \in Files, NEW S, S \subseteq Events, History(f, S),
           NEW e \in Events, Beyond(f, e.sequence),
           ~(Units(f) + 1 <= MaxUnits), Units(Compact(f, e)) <= MaxUnits
    PROVE  /\ Compact(f, e) \in Files
           /\ History(Compact(f, e), S \cup {e})
           /\ Compact(f, e).marker.high = e.sequence
  <1> DEFINE s == f.events
             all == Append(s, e)
             ev == Evicted(all)
             t == Without(all, ev)
             dropped == f.marker.lines + Cardinality(ev)
             g == [marker |-> f.marker, events |-> all, torn |-> FALSE]
             lost == {all[i] : i \in ev}
             A == S \cup {e}
  <1>1. /\ f.marker \in Markers /\ s \in Seq(Events) /\ Len(s) \in Nat /\ f.marker.lines \in Nat
        /\ e.sequence \in Nat /\ e.sequence \in 0..MaxEvents /\ MaxUnits \in Nat
        /\ f.marker.high \in Nat
    BY FileFields, EventFields, EventLogAssumption
  <1>2. all \in Seq(Events) /\ Len(all) = Len(s) + 1 /\ DOMAIN all = 1..(Len(s) + 1)
    BY <1>1, AppendProperties
  <1>3. g \in Files /\ g.marker = f.marker /\ g.events = all
    BY <1>1, <1>2 DEF Files
  <1>4. History(g, A)
    BY <1>3, Appending
  <1>5. ev \subseteq 1..(Len(s) + 1) /\ \A i \in ev : all[i].technical
    <2> HIDE DEF all
    <2> QED BY <1>2 DEF Evicted
  <1>6. IsFiniteSet(ev) /\ Cardinality(ev) \in Nat
    <2>1. IsFiniteSet(1..(Len(s) + 1))
      BY <1>1, Len(s) + 1 \in Nat, FirstNumbers
    <2> HIDE DEF ev
    <2> QED BY <1>5, <2>1, FS_Subset, FS_CardinalityType
  <1>7. Compact(f, e) = [marker |-> IF dropped = 0 THEN NoMarker
                                    ELSE [lines |-> dropped, high |-> e.sequence],
                         events |-> t, torn |-> FALSE]
    BY DEF Compact
  <1> DEFINE c == Compact(f, e)
  <1> HIDE DEF all, g, ev
  <1>8. /\ t \in Seq(Events) /\ Len(t) = Cardinality(DOMAIN all \ ev)
        /\ \A x : x \in Elements(t) <=> \E i \in DOMAIN all \ ev : x = all[i]
        /\ Ascending(all) => Ascending(t)
    BY <1>2, WithoutKeeps
  <1> HIDE DEF t
  <1>9. dropped # 0
    <2> SUFFICES ASSUME dropped = 0 PROVE FALSE
      OBVIOUS
    <2>1. f.marker.lines = 0 /\ Cardinality(ev) = 0
      BY <1>1, <1>6
    <2>2. ev = {}
      BY <1>6, <2>1, FS_EmptySet
    <2>3. Len(t) = Len(s) + 1
      <3>1. DOMAIN all \ ev = 1..(Len(s) + 1)
        BY <1>2, <2>2
      <3>2. Cardinality(1..(Len(s) + 1)) = Len(s) + 1
        BY <1>1, Len(s) + 1 \in Nat, FirstNumbers
      <3> QED BY <1>8, <3>1, <3>2
    <2>4. Units(f) = Len(s)
      BY <1>1, <2>1 DEF Units
    <2>5. Units(c) = Len(t)
      <3>1. c.marker.lines = 0 /\ c.events = t
        BY <1>7 DEF NoMarker
      <3>2. Len(t) \in Nat
        BY <1>1, <2>3
      <3> HIDE DEF c
      <3> QED BY <3>1, <3>2 DEF Units
    <2> QED BY <1>1, <2>3, <2>4, <2>5
  <1>10. /\ c = [marker |-> [lines |-> dropped, high |-> e.sequence], events |-> t, torn |-> FALSE]
         /\ dropped \in Nat
    BY <1>1, <1>6, <1>7, <1>9
  <1>11. /\ c.marker.lines = dropped /\ c.marker.high = e.sequence /\ c.events = t
         /\ c \in Files
    <2> HIDE DEF c, dropped
    <2> QED BY <1>1, <1>8, <1>10 DEF Files, Markers
  <1>12. Ascending(all) /\ Accounted(g, A)
    BY <1>3, <1>4 DEF History
  <1>13. Ascending(t)
    BY <1>8, <1>12
  <1>14. Covered(c, A)
    <2>1. \A d \in S : d.sequence < e.sequence
      BY <1>1, BeyondAccepted DEF History
    <2>2. \A d \in A : d.sequence \in Nat /\ d.sequence <= e.sequence
      BY <1>1, <2>1, EventFields
    <2> HIDE DEF c, A
    <2> QED BY <1>11, <2>2 DEF Covered
  <1>15. Accounted(c, A)
    <2>1. /\ IsFiniteSet(A) /\ Elements(all) \subseteq A
          /\ \A d \in A \ Elements(all) : d.technical
          /\ f.marker.lines = Cardinality(A \ Elements(all))
      BY <1>3, <1>12 DEF Accounted
    <2> HIDE DEF c, A
    <2>2. Elements(all) = {all[i] : i \in DOMAIN all} /\ ev \subseteq DOMAIN all
      BY <1>2, <1>5 DEF Elements
    <2>3. ASSUME NEW i \in DOMAIN all, NEW j \in DOMAIN all, all[i] = all[j] PROVE i = j
      <3>1. i \in Nat /\ j \in Nat
        BY <1>1, <1>2
      <3>2. i < j => all[i].sequence < all[j].sequence
        BY <1>12 DEF Ascending
      <3>3. j < i => all[j].sequence < all[i].sequence
        BY <1>12 DEF Ascending
      <3>4. all[i].sequence \in Nat
        BY <1>2, ElementOfSeq, EventFields
      <3> QED BY <2>3, <3>1, <3>2, <3>3, <3>4
    <2>4. lost \cap Elements(t) = {}
      BY <1>8, <2>2, <2>3
    <2>5. A \ Elements(t) = (A \ Elements(all)) \cup lost
      BY <1>8, <2>1, <2>2, <2>4
    <2>6. Cardinality(lost) = Cardinality(ev) /\ IsFiniteSet(lost)
      <3> DEFINE h == [i \in ev |-> all[i]]
      <3>1. h \in Bijection(ev, lost)
        <4>1. h \in [ev -> lost]
          OBVIOUS
        <4>2. \A i, j \in ev : h[i] = h[j] => i = j
          BY <2>2, <2>3
        <4>3. \A x \in lost : \E i \in ev : h[i] = x
          OBVIOUS
        <4>4. DOMAIN h = ev
          OBVIOUS
        <4> HIDE DEF h, lost
        <4> QED BY <4>1, <4>2, <4>3, <4>4 DEF Bijection, Injection, Surjection, IsInjective
      <3> HIDE DEF h, lost
      <3>2. ExistsBijection(ev, lost)
        BY <3>1 DEF ExistsBijection
      <3> QED BY <1>6, <3>2, FS_Bijection
    <2>7. (A \ Elements(all)) \cap lost = {}
      BY <2>2
    <2>8. Cardinality(A \ Elements(t)) = dropped
      <3> HIDE DEF lost
      <3>1. IsFiniteSet(A \ Elements(all))
        BY <2>1, FS_Difference
      <3>2. Cardinality((A \ Elements(all)) \cup lost)
              = Cardinality(A \ Elements(all)) + Cardinality(lost)
                - Cardinality((A \ Elements(all)) \cap lost)
        BY <2>6, <3>1, FS_Union
      <3>3. Cardinality({}) = 0
        BY FS_EmptySet
      <3> DEFINE x == Cardinality(A \ Elements(all))
                 y == Cardinality(A \ Elements(t))
      <3>4. y = x + Cardinality(lost) - 0
        BY <2>5, <2>7, <3>2, <3>3
      <3>5. x = f.marker.lines
        BY <2>1
      <3> HIDE DEF x, y
      <3>6. y = f.marker.lines + Cardinality(ev)
        BY <1>1, <1>6, <2>6, <3>4, <3>5
      <3> QED BY <3>6 DEF y
    <2>9. \A d \in A \ Elements(t) : d.technical
      BY <1>5, <2>1, <2>5
    <2>10. Elements(t) \subseteq A
      BY <1>8, <2>1, <2>2
    <2> HIDE DEF lost, dropped
    <2> QED BY <1>11, <2>1, <2>8, <2>9, <2>10 DEF Accounted
  <1>16. c.marker.lines # 0
    BY <1>9, <1>11
  <1> HIDE DEF c
  <1>17. History(c, A)
    BY <1>11, <1>13, <1>14, <1>15, <1>16 DEF History
  <1> QED BY <1>11, <1>17 DEF c

\* Whatever a power loss leaves is a history of what it leaves.
LEMMA Surviving ==
    ASSUME LogInvariant, NEW g \in Survivors
    PROVE  LET A == IF g = file THEN accepted ELSE safe \cup Elements(g.events)
           IN  /\ g \in Files /\ safe \subseteq A /\ A \subseteq accepted
               /\ History(g, A)
  <1> DEFINE A == IF g = file THEN accepted ELSE safe \cup Elements(g.events)
  <1> USE DEF LogInvariant
  <1>0. /\ file \in Files /\ durable \in Files /\ safe \subseteq accepted /\ accepted \subseteq Events
        /\ History(file, accepted) /\ History(durable, safe)
    BY DEF TypeOK
  <1>1. Elements(file.events) \subseteq accepted /\ Elements(durable.events) \subseteq safe
    BY DEF History, Accounted
  <1>2. CASE g = file
    BY <1>0, <1>2
  <1>3. CASE g = durable /\ g # file
    <2>1. A = safe
      BY <1>1, <1>3
    <2> QED BY <1>0, <1>3, <2>1
  <1>4. CASE g \notin {file, durable}
    <2>1. /\ file.marker = durable.marker /\ g.marker = file.marker /\ g.torn \in BOOLEAN
          /\ g = [marker |-> g.marker, events |-> g.events, torn |-> g.torn]
          /\ \E n \in Len(durable.events)..(Len(file.events) - 1) :
                g.events = SubSeq(file.events, 1, n)
      BY <1>4 DEF Survivors
    <2>2. PICK n \in Len(durable.events)..(Len(file.events) - 1) :
              g.events = SubSeq(file.events, 1, n)
      BY <2>1
    <2> DEFINE s == file.events
               d == durable.events
               t == SubSeq(s, 1, n)
    <2>4. /\ s \in Seq(Events) /\ Len(s) \in Nat /\ DOMAIN s = 1..Len(s)
          /\ d \in Seq(Events) /\ Len(d) \in Nat /\ DOMAIN d = 1..Len(d)
          /\ durable.marker \in Markers
          /\ \A i \in DOMAIN s : s[i] \in Events /\ s[i].sequence \in Nat
      BY <1>0, FileFields
    <2>5. n \in Nat /\ Len(d) <= n /\ n < Len(s)
      BY <2>2, <2>4
    <2>6. t \in Seq(Events) /\ Len(t) = n /\ \A i \in 1..n : t[i] = s[i]
      <3>1. \A i \in 1..n : s[i] \in Events
        BY <2>4, <2>5
      <3>2. /\ SubSeq(s, 1, n) \in Seq(Events)
            /\ Len(SubSeq(s, 1, n)) = (IF 1 <= n THEN n - 1 + 1 ELSE 0)
            /\ \A i \in 1..(n - 1 + 1) : SubSeq(s, 1, n)[i] = s[1 + i - 1]
        BY <2>5, <3>1, SubSeqProperties
      <3> HIDE DEF s
      <3>3. n - 1 + 1 = n /\ \A i \in 1..n : 1 + i - 1 = i
        BY <2>5
      <3>4. Len(SubSeq(s, 1, n)) = n
        BY <2>5, <3>2
      <3> QED BY <3>2, <3>3, <3>4
    <2>7. DOMAIN t = 1..n /\ DOMAIN t \subseteq DOMAIN s
      <3> HIDE DEF t, s
      <3>1. DOMAIN t = 1..Len(t)
        BY <2>6
      <3> QED BY <2>4, <2>5, <2>6, <3>1
    <2>8. g.marker = durable.marker /\ g.events = t /\ g \in Files
      BY <2>1, <2>2, <2>4, <2>6 DEF Files
    <2> HIDE DEF t
    <2>9. \A i \in DOMAIN d : i \in DOMAIN t /\ t[i] = d[i]
      <3>1. \A i \in 1..Len(d) : d[i] = s[i]
        BY <2>1 DEF PrefixPart
      <3>2. \A i \in 1..Len(d) : i \in 1..n
        BY <2>4, <2>5
      <3> QED BY <2>4, <2>6, <2>7, <3>1, <3>2
    <2>10. Elements(d) \subseteq Elements(t) /\ Elements(t) \subseteq Elements(s)
      BY <2>6, <2>7, <2>9 DEF Elements
    <2>11. A = safe \cup Elements(t)
      BY <1>4, <2>8
    <2>12. Elements(t) \cap safe \subseteq Elements(d)
      <3> SUFFICES ASSUME NEW i \in DOMAIN t, t[i] \in safe PROVE t[i] \in Elements(d)
        BY DEF Elements
      <3>1. i \in DOMAIN s /\ t[i] = s[i]
        BY <2>6, <2>7
      <3>2. ~(i > Len(d))
        BY <2>1, <3>1 DEF PrefixPart
      <3>3. i \in DOMAIN d
        BY <2>4, <3>1, <3>2
      <3> QED BY <2>9, <3>3 DEF Elements
    <2>13. A \ Elements(t) = safe \ Elements(d)
      BY <2>10, <2>11, <2>12
    <2>14. Ascending(t)
      <3>1. \A i, j \in DOMAIN s : i < j => s[i].sequence < s[j].sequence
        BY <1>0 DEF History, Ascending
      <3> QED BY <2>6, <2>7, <3>1 DEF Ascending
    <2>15. Covered(g, A)
      <3>1. ASSUME NEW e \in safe
            PROVE  e.sequence <= g.marker.high \/ \E i \in DOMAIN t : e.sequence <= t[i].sequence
        <4>1. e.sequence <= durable.marker.high \/ \E i \in DOMAIN d : e.sequence <= d[i].sequence
          BY <1>0 DEF History, Covered
        <4> QED BY <2>8, <2>9, <4>1
      <3>2. ASSUME NEW e \in Elements(t) PROVE \E i \in DOMAIN t : e.sequence <= t[i].sequence
        <4>1. PICK i \in DOMAIN t : e = t[i]
          BY DEF Elements
        <4>2. t[i].sequence \in Nat
          BY <2>4, <2>6, <2>7
        <4> QED BY <4>1, <4>2
      <3> QED BY <2>8, <2>11, <3>1, <3>2 DEF Covered
    <2>16. Accounted(g, A)
      <3>1. IsFiniteSet(A) /\ A \subseteq accepted
        <4>1. A \subseteq accepted
          BY <1>0, <1>1, <2>10, <2>11
        <4> QED BY <1>0, <4>1, FS_Subset DEF History, Accounted
      <3>2. /\ \A e \in safe \ Elements(d) : e.technical
            /\ durable.marker.lines = Cardinality(safe \ Elements(d))
        BY <1>0 DEF History, Accounted
      <3> HIDE DEF A
      <3> QED BY <2>8, <2>11, <2>13, <3>1, <3>2 DEF Accounted
    <2>17. History(g, A)
      <3>1. durable.marker.lines = 0 => durable.marker.high = 0
        BY <1>0 DEF History
      <3> QED BY <2>8, <2>14, <2>15, <2>16, <3>1 DEF History
    <2>18. safe \subseteq A /\ A \subseteq accepted
      BY <1>0, <1>1, <2>10, <2>11
    <2> QED BY <2>8, <2>17, <2>18
  <1> QED BY <1>2, <1>3, <1>4

-----------------------------------------------------------------------------
(* The steps that leave the history alone.                                 *)

\* The observers' records.
LEMMA WriterFields ==
    ASSUME TypeOK, NEW w \in Writers
    PROVE  /\ writer[w] \in WriterStates
           /\ writer[w].pc \in WriterPcs /\ writer[w].event \in Events \cup {NoEvent}
           /\ writer[w].last \in 0..MaxEvents /\ writer[w].log \in Seq(Events)
           /\ writer[w].failed \in BOOLEAN
  <1>1. writer[w] \in WriterStates
    BY DEF TypeOK
  <1> QED BY <1>1 DEF WriterStates

\* An observer before its Start, or after its death.
LEMMA IdleTypes ==
    /\ IdleWriter \in WriterStates /\ IdleWriter.pc = "idle" /\ IdleWriter.failed = FALSE
    /\ [IdleWriter EXCEPT !.pc = "done"] \in WriterStates
    /\ [IdleWriter EXCEPT !.pc = "done"].pc = "done"
    /\ [IdleWriter EXCEPT !.pc = "done"].failed = FALSE
  <1>1. 0 \in 0..MaxEvents /\ <<>> \in Seq(Events) /\ NoEvent \in Events \cup {NoEvent}
    BY EventLogAssumption, EmptySeq
  <1> QED BY <1>1 DEF IdleWriter, WriterStates, WriterPcs

\* A step of an observer that only moves it on.
LEMMA GoStep ==
    ASSUME TypeOK, NEW w \in Writers, NEW p \in WriterPcs, Go(w, p)
    PROVE  /\ writer' \in [Writers -> WriterStates]
           /\ \A v \in Writers \ {w} : writer'[v] = writer[v]
           /\ writer'[w].pc = p /\ writer'[w].event = writer[w].event
           /\ writer'[w].failed = writer[w].failed
  <1> DEFINE x == [writer[w] EXCEPT !.pc = p]
  <1>1. writer \in [Writers -> WriterStates] /\ writer[w] \in WriterStates
    BY WriterFields DEF TypeOK
  <1>2. writer' = [writer EXCEPT ![w] = x]
    BY DEF Go
  <1>3. x \in WriterStates /\ x.pc = p /\ x.event = writer[w].event /\ x.failed = writer[w].failed
    BY <1>1 DEF WriterStates
  <1> HIDE DEF x
  <1> QED BY <1>1, <1>2, <1>3

\* trim_technical leaves records.
LEMMA TrimmedType ==
    ASSUME NEW s \in Seq(Events)
    PROVE  Trimmed(s) \in Seq(Events)
  BY WithoutKeeps DEF Trimmed

\* An observer numbers an event.
LEMMA NumberStep ==
    ASSUME TypeOK, NEW w \in Writers, NEW p \in WriterPcs, NEW e \in NextEvents(w), Number(w, e, p)
    PROVE  /\ e \in Events /\ awaiting' \in BOOLEAN /\ writer[w].pc = "run"
           /\ writer' \in [Writers -> WriterStates]
           /\ \A v \in Writers \ {w} : writer'[v] = writer[v]
           /\ writer'[w].pc = p /\ writer'[w].event = e
           /\ writer'[w].failed = writer[w].failed
  <1>0. /\ writer[w] \in WriterStates /\ writer[w].last \in 0..MaxEvents
        /\ writer[w].log \in Seq(Events) /\ writer \in [Writers -> WriterStates]
    BY WriterFields DEF TypeOK
  <1>1. PICK b \in BOOLEAN : e = [sequence |-> writer[w].last + 1, technical |-> b, by |-> w]
    BY DEF NextEvents
  <1>2. writer[w].last + 1 \in 1..MaxEvents /\ writer[w].last + 1 \in 0..MaxEvents
    BY <1>0, EventLogAssumption DEF Number
  <1>3. e \in Events /\ e.sequence \in 0..MaxEvents
    BY <1>1, <1>2 DEF Events
  <1> DEFINE log == IF e.technical THEN Trimmed(Append(writer[w].log, e)) ELSE writer[w].log
             x == [writer[w] EXCEPT !.pc = p, !.event = e, !.last = e.sequence, !.log = log]
  <1>4. log \in Seq(Events)
    BY <1>0, <1>3, AppendProperties, TrimmedType
  <1>5. writer' = [writer EXCEPT ![w] = x]
    BY <1>0 DEF Number
  <1> HIDE DEF log
  <1>6. x \in WriterStates /\ x.pc = p /\ x.event = e /\ x.failed = writer[w].failed
    BY <1>0, <1>3, <1>4 DEF WriterStates
  <1> HIDE DEF x
  <1> QED BY <1>0, <1>3, <1>5, <1>6 DEF Number

\* An emission returns.
LEMMA ReturnStep ==
    ASSUME TypeOK, NEW w \in Writers, NEW b \in BOOLEAN, writer[w].event \in Events, Return(w, b)
    PROVE  /\ writer' \in [Writers -> WriterStates]
           /\ \A v \in Writers \ {w} : writer'[v] = writer[v]
           /\ writer'[w].pc = "run" /\ writer'[w].failed = b
           /\ settled' = settled \cup {writer[w].event}
  <1> DEFINE e == writer[w].event
             log == IF e.technical THEN writer[w].log ELSE Append(writer[w].log, e)
             x == [writer[w] EXCEPT !.pc = "run", !.event = NoEvent, !.failed = b, !.log = log]
  <1>0. /\ writer[w] \in WriterStates /\ writer[w].log \in Seq(Events)
        /\ writer \in [Writers -> WriterStates]
    BY WriterFields DEF TypeOK
  <1>1. log \in Seq(Events)
    BY <1>0, AppendProperties
  <1>2. writer' = [writer EXCEPT ![w] = x] /\ settled' = settled \cup {writer[w].event}
    BY <1>0 DEF Return
  <1> HIDE DEF log
  <1>3. x \in WriterStates /\ x.pc = "run" /\ x.failed = b
    BY <1>0, <1>1 DEF WriterStates, WriterPcs
  <1> HIDE DEF x
  <1> QED BY <1>0, <1>2, <1>3

\* Each part survives a step that leaves what it speaks of alone.
LEMMA LogFrame ==
    ASSUME LogInvariant
    PROVE  /\ UNCHANGED <<file, durable, accepted, safe>> =>
                 /\ History(file, accepted)' /\ History(durable, safe)'
                 /\ PrefixPart' /\ NoSequenceReuse'
           /\ UNCHANGED <<errorFile, unmarked, settled, safe>>
                 /\ (\A v \in Writers : writer'[v].failed => writer[v].failed) => SettledPart'
           /\ UNCHANGED <<reader, file>> /\ flock' \in {flock, Broker} => AlarmPart'
           /\ UNCHANGED <<reader, window, accepted>> /\ settled \subseteq settled' => ReaderPart'
           /\ UNCHANGED <<window, accepted>> => WindowPart'
  <1> USE DEF LogInvariant
  <1>1. UNCHANGED <<file, durable, accepted, safe>> =>
           /\ History(file, accepted)' /\ History(durable, safe)'
           /\ PrefixPart' /\ NoSequenceReuse'
    <2> SUFFICES ASSUME UNCHANGED <<file, durable, accepted, safe>>
                 PROVE  /\ History(file, accepted)' /\ History(durable, safe)'
                        /\ PrefixPart' /\ NoSequenceReuse'
      OBVIOUS
    <2>1. History(file, accepted)' /\ History(durable, safe)'
      BY DEF History, Covered, Accounted
    <2>2. PrefixPart'
      BY DEF PrefixPart
    <2>3. NoSequenceReuse'
      BY DEF NoSequenceReuse
    <2> QED BY <2>1, <2>2, <2>3
  <1>2. UNCHANGED <<errorFile, unmarked, settled, safe>>
           /\ (\A v \in Writers : writer'[v].failed => writer[v].failed) => SettledPart'
    BY DEF SettledPart
  <1>3. UNCHANGED <<reader, file>> /\ flock' \in {flock, Broker} => AlarmPart'
    BY DEF AlarmPart
  <1>4. UNCHANGED <<reader, window, accepted>> /\ settled \subseteq settled' => ReaderPart'
    BY DEF ReaderPart
  <1>5. UNCHANGED <<window, accepted>> => WindowPart'
    BY DEF WindowPart
  <1> QED BY <1>1, <1>2, <1>3, <1>4, <1>5

\* An observer that is not, or no longer, in the middle of an append.
LEMMA AppendFrame ==
    ASSUME LogInvariant, NEW w \in Writers,
           UNCHANGED file, accepted \subseteq accepted',
           \A v \in Writers \ {w} : writer'[v] = writer[v],
           writer'[w].pc \notin {"rest", "sync"},
           writer'[w].pc = "failed" => writer'[w].event \in Events,
           flock' = IF flock = w THEN Broker ELSE flock
    PROVE  AppendPart'
  <1>0. Broker \notin Writers /\ AppendPart
    BY EventLogAssumption DEF LogInvariant
  <1>1. ASSUME NEW v \in Writers
        PROVE  /\ writer'[v].pc \in {"rest", "sync"} <=> flock' = v
               /\ writer'[v].pc \in {"rest", "sync", "failed"} => writer'[v].event \in Events
               /\ writer'[v].pc = "rest" => file'.torn /\ Beyond(file', writer'[v].event.sequence)
               /\ writer'[v].pc = "sync" => writer'[v].event \in accepted'
    <2>1. CASE v = w
      BY <1>0, <2>1
    <2>2. CASE v # w
      <3>1. writer'[v] = writer[v]
        BY <2>2
      <3>2. flock' = v <=> flock = v
        BY <1>0, <2>2
      <3> QED BY <1>0, <3>1, <3>2 DEF AppendPart
    <2> QED BY <2>1, <2>2
  <1> QED BY <1>1 DEF AppendPart

\* Nothing but an observer and the locks changes.
LEMMA QuietStep ==
    ASSUME LogInvariant, NEW w \in Writers,
           UNCHANGED <<disk, reader, window, history, polls>>,
           writer' \in [Writers -> WriterStates],
           \A v \in Writers \ {w} : writer'[v] = writer[v],
           writer'[w].pc \notin {"rest", "sync"},
           writer'[w].pc = "failed" => writer'[w].event \in Events,
           writer'[w].failed => writer[w].failed,
           flock' = IF flock = w THEN Broker ELSE flock,
           awaiting' \in BOOLEAN, lockFile' \in BOOLEAN, txLock' \in Writers \cup {Broker},
           faults' \in 0..MaxFaults
    PROVE  LogInvariant'
  <1> USE DEF LogInvariant
  <1>0. UNCHANGED <<file, durable, errorFile, accepted, safe, settled, unmarked, reader, window, polls>>
    BY DEF disk, history
  <1>1. TypeOK'
    BY <1>0 DEF TypeOK
  <1>2. AppendPart'
    BY <1>0, AppendFrame
  <1>3. \A v \in Writers : writer'[v].failed => writer[v].failed
    OBVIOUS
  <1>4. flock' \in {flock, Broker}
    OBVIOUS
  <1> QED BY <1>0, <1>1, <1>2, <1>3, <1>4, LogFrame

\* Start, the competition for the transaction lock, refused and impossible
\* appends, and the death of the observer's process.
LEMMA ObserverStep ==
    ASSUME LogInvariant, NEW w \in Writers,
           \/ StartChecked(w) \/ Restore(w) \/ RefuseStart(w) \/ Transact(w) \/ Finish(w)
           \/ \E e \in NextEvents(w) : RefuseEvent(w, e) \/ AppendImpossible(w, e)
           \/ WriteFails(w) \/ WriterDies(w)
    PROVE  LogInvariant'
  <1>0. /\ TypeOK /\ Broker \notin Writers /\ faults \in 0..MaxFaults /\ MaxFaults \in Nat
        /\ awaiting \in BOOLEAN /\ lockFile \in BOOLEAN
        /\ txLock \in Writers \cup {Broker} /\ AppendPart
    BY EventLogAssumption DEF LogInvariant, TypeOK
  <1>1. CountFault => faults' \in 0..MaxFaults
    BY <1>0 DEF CountFault
  <1>2. writer[w].pc \notin {"rest", "sync"} => (IF flock = w THEN Broker ELSE flock) = flock
    BY <1>0 DEF AppendPart
  <1>3. CASE StartChecked(w)
    <2>1. Go(w, "check") /\ writer[w].pc = "idle" /\ "check" \in WriterPcs
          /\ UNCHANGED <<disk, awaiting, locks, reader, window, history, polls, faults>>
      BY <1>3 DEF StartChecked, WriterPcs
    <2>2. writer' \in [Writers -> WriterStates] /\ (\A v \in Writers \ {w} : writer'[v] = writer[v])
          /\ writer'[w].pc = "check" /\ writer'[w].failed = writer[w].failed
      BY <1>0, <2>1, GoStep
    <2> QED BY <1>0, <1>2, <2>1, <2>2, QuietStep DEF locks
  <1>4. CASE Restore(w)
    <2> DEFINE h == ReadHistory(file)
               x == [IdleWriter EXCEPT !.pc = "spawned", !.last = RestoredSequence(h),
                                       !.log = Trimmed(h.events)]
    <2>1. writer[w].pc = "check" /\ lockFile' = TRUE /\ writer' = [writer EXCEPT ![w] = x]
          /\ UNCHANGED <<disk, awaiting, flock, txLock, reader, window, history, polls, faults>>
      BY <1>4 DEF Restore
    <2>2. file \in Files /\ Ascending(file.events)
      BY <1>0 DEF LogInvariant, TypeOK, History
    <2>3. h.events = file.events /\ h.marker = file.marker
      BY <2>2, ReadWhole
    <2>4. RestoredSequence(h) \in 0..MaxEvents
      <3>1. /\ file.marker.high \in 0..MaxEvents /\ Len(file.events) \in Nat
            /\ \A i \in 1..Len(file.events) : file.events[i] \in Events
        BY <2>2, FileFields
      <3>2. file.events = <<>> \/ Len(file.events) \in 1..Len(file.events)
        BY <2>2, FileFields, EmptySeq
      <3>3. LastSequence(file.events) \in 0..MaxEvents
        <4>1. CASE file.events = <<>>
          BY <4>1, EventLogAssumption DEF LastSequence
        <4>2. CASE file.events # <<>>
          <5>1. file.events[Len(file.events)].sequence \in 1..MaxEvents
            BY <3>1, <3>2, <4>2, EventFields
          <5> QED BY <4>2, <5>1, EventLogAssumption DEF LastSequence
        <4> QED BY <4>1, <4>2
      <3> HIDE DEF h
      <3> QED BY <2>3, <3>1, <3>3 DEF RestoredSequence
    <2>5. Trimmed(h.events) \in Seq(Events)
      BY <2>2, <2>3, FileFields, TrimmedType
    <2> HIDE DEF h
    <2>6. x \in WriterStates /\ x.pc = "spawned" /\ x.failed = FALSE
      BY <2>4, <2>5 DEF IdleWriter, WriterStates, WriterPcs
    <2> HIDE DEF x
    <2>7. writer' \in [Writers -> WriterStates] /\ (\A v \in Writers \ {w} : writer'[v] = writer[v])
          /\ writer'[w].pc = "spawned" /\ ~writer'[w].failed
      BY <1>0, <2>1, <2>6 DEF TypeOK
    <2> QED BY <1>0, <1>2, <2>1, <2>7, QuietStep
  <1>5. CASE RefuseStart(w)
    <2>1. Go(w, "done") /\ writer[w].pc = "check" /\ "done" \in WriterPcs /\ lockFile' = TRUE
          /\ UNCHANGED <<disk, awaiting, flock, txLock, reader, window, history, polls, faults>>
      BY <1>5 DEF RefuseStart, WriterPcs
    <2>2. writer' \in [Writers -> WriterStates] /\ (\A v \in Writers \ {w} : writer'[v] = writer[v])
          /\ writer'[w].pc = "done" /\ writer'[w].failed = writer[w].failed
      BY <1>0, <2>1, GoStep
    <2> QED BY <1>0, <1>2, <2>1, <2>2, QuietStep
  <1>6. CASE Transact(w)
    <2>1. /\ writer[w].pc = "spawned" /\ txLock' \in Writers \cup {Broker}
          /\ UNCHANGED <<disk, awaiting, lockFile, flock, reader, window, history, polls, faults>>
      BY <1>0, <1>6 DEF Transact
    <2>2. PICK p \in {"run", "done"} : Go(w, p)
      BY <1>6 DEF Transact
    <2>3. writer' \in [Writers -> WriterStates] /\ (\A v \in Writers \ {w} : writer'[v] = writer[v])
          /\ writer'[w].pc = p /\ writer'[w].failed = writer[w].failed
      BY <1>0, <2>2, GoStep DEF WriterPcs
    <2> QED BY <1>0, <1>2, <2>1, <2>2, <2>3, QuietStep
  <1>7. CASE Finish(w)
    <2>1. Go(w, "done") /\ writer[w].pc = "run" /\ "done" \in WriterPcs /\ txLock' = Broker
          /\ UNCHANGED <<disk, awaiting, lockFile, flock, reader, window, history, polls, faults>>
      BY <1>7 DEF Finish, WriterPcs
    <2>2. writer' \in [Writers -> WriterStates] /\ (\A v \in Writers \ {w} : writer'[v] = writer[v])
          /\ writer'[w].pc = "done" /\ writer'[w].failed = writer[w].failed
      BY <1>0, <2>1, GoStep
    <2> QED BY <1>0, <1>2, <2>1, <2>2, QuietStep
  <1>8. CASE \E e \in NextEvents(w) : RefuseEvent(w, e) \/ AppendImpossible(w, e)
    <2>1. PICK e \in NextEvents(w) : RefuseEvent(w, e) \/ AppendImpossible(w, e)
      BY <1>8
    <2>2. /\ Number(w, e, "failed") /\ "failed" \in WriterPcs
          /\ lockFile' \in BOOLEAN /\ faults' \in 0..MaxFaults
          /\ UNCHANGED <<disk, flock, txLock, reader, window, history, polls>>
      BY <1>0, <1>1, <2>1 DEF RefuseEvent, AppendImpossible, WriterPcs, locks
    <2>3. /\ e \in Events /\ awaiting' \in BOOLEAN /\ writer[w].pc = "run"
          /\ writer' \in [Writers -> WriterStates]
          /\ \A v \in Writers \ {w} : writer'[v] = writer[v]
          /\ writer'[w].pc = "failed" /\ writer'[w].event = e
          /\ writer'[w].failed = writer[w].failed
      BY <1>0, <2>2, NumberStep
    <2> QED BY <1>0, <1>2, <2>2, <2>3, QuietStep
  <1>9. CASE WriteFails(w)
    <2>1. Go(w, "failed") /\ "failed" \in WriterPcs /\ writer[w].pc \in {"rest", "sync"}
          /\ flock' = Broker /\ CountFault
          /\ UNCHANGED <<disk, awaiting, lockFile, txLock, reader, window, history, polls>>
      BY <1>9 DEF WriteFails, WriterPcs
    <2>2. writer' \in [Writers -> WriterStates] /\ (\A v \in Writers \ {w} : writer'[v] = writer[v])
          /\ writer'[w].pc = "failed" /\ writer'[w].event = writer[w].event
          /\ writer'[w].failed = writer[w].failed
      BY <1>0, <2>1, GoStep
    <2>3. flock = w /\ writer[w].event \in Events
      BY <1>0, <2>1 DEF AppendPart
    <2> QED BY <1>0, <1>1, <2>1, <2>2, <2>3, QuietStep
  <1>10. CASE WriterDies(w)
    <2> DEFINE x == [IdleWriter EXCEPT !.pc = "done"]
    <2>1. /\ CountFault /\ flock' = (IF flock = w THEN Broker ELSE flock)
          /\ txLock' \in Writers \cup {Broker} /\ writer' = [writer EXCEPT ![w] = x]
          /\ UNCHANGED <<disk, awaiting, lockFile, reader, window, history, polls>>
      BY <1>0, <1>10 DEF WriterDies
    <2>2. x \in WriterStates /\ x.pc = "done" /\ x.failed = FALSE
      BY IdleTypes
    <2> HIDE DEF x
    <2>3. writer' \in [Writers -> WriterStates] /\ (\A v \in Writers \ {w} : writer'[v] = writer[v])
          /\ writer'[w].pc = "done" /\ ~writer'[w].failed
      BY <1>0, <2>1, <2>2 DEF TypeOK
    <2> QED BY <1>0, <1>1, <2>1, <2>3, QuietStep
  <1> QED BY <1>3, <1>4, <1>5, <1>6, <1>7, <1>8, <1>9, <1>10

-----------------------------------------------------------------------------
(* The steps of an append.                                                 *)

\* Half of a record enters the file: no record that is read.
LEMMA AppendRecordStep ==
    ASSUME LogInvariant, NEW w \in Writers, NEW e \in NextEvents(w), AppendRecord(w, e)
    PROVE  LogInvariant'
  <1> USE DEF LogInvariant
  <1>0. /\ TypeOK /\ Broker \notin Writers /\ flock = Broker /\ flock' = w /\ lockFile' = TRUE
        /\ file \in Files /\ file' = [file EXCEPT !.torn = TRUE] /\ AppendAllowed(file, e)
        /\ Number(w, e, "rest") /\ "rest" \in WriterPcs
        /\ UNCHANGED <<durable, errorFile, txLock, reader, window, accepted, safe, settled,
                       unmarked, polls, faults>>
    BY EventLogAssumption DEF AppendRecord, TypeOK, WriterPcs, history
  <1>1. /\ e \in Events /\ awaiting' \in BOOLEAN /\ writer[w].pc = "run"
        /\ writer' \in [Writers -> WriterStates]
        /\ \A v \in Writers \ {w} : writer'[v] = writer[v]
        /\ writer'[w].pc = "rest" /\ writer'[w].event = e
        /\ writer'[w].failed = writer[w].failed
    BY <1>0, NumberStep
  <1>2. file' \in Files /\ file'.marker = file.marker /\ file'.events = file.events /\ file'.torn
    BY <1>0 DEF Files
  <1>3. TypeOK'
    BY <1>0, <1>1, <1>2 DEF TypeOK
  <1>4. History(file, accepted)' /\ History(durable, safe)'
    <2>1. History(file', accepted)
      BY <1>2 DEF History, Covered, Accounted
    <2> QED BY <1>0, <2>1 DEF History, Covered, Accounted
  <1>5. PrefixPart'
    BY <1>0, <1>2 DEF PrefixPart
  <1>6. NoSequenceReuse' /\ ReaderPart' /\ WindowPart'
    BY <1>0, LogFrame DEF NoSequenceReuse
  <1>7. Beyond(file, e.sequence)
    BY <1>0, <1>1, NumberIsBeyond
  <1>8. AppendPart'
    <2>1. ASSUME NEW v \in Writers \ {w} PROVE writer[v].pc \notin {"rest", "sync"} /\ flock' # v
      BY <1>0 DEF AppendPart
    <2>2. file'.torn /\ Beyond(file', e.sequence)
      BY <1>2, <1>7 DEF Beyond
    <2>3. ASSUME NEW v \in Writers
          PROVE  /\ writer'[v].pc \in {"rest", "sync"} <=> flock' = v
                 /\ writer'[v].pc \in {"rest", "sync", "failed"} => writer'[v].event \in Events
                 /\ writer'[v].pc = "rest" => file'.torn /\ Beyond(file', writer'[v].event.sequence)
                 /\ writer'[v].pc = "sync" => writer'[v].event \in accepted'
      <3>1. CASE v = w
        BY <1>0, <1>1, <2>2, <3>1
      <3>2. CASE v # w
        BY <1>1, <2>1, <3>2 DEF AppendPart
      <3> QED BY <3>1, <3>2
    <2> QED BY <2>3 DEF AppendPart
  <1>9. SettledPart'
    BY <1>0, <1>1, LogFrame
  <1>10. AlarmPart'
    BY <1>0 DEF AlarmPart, AppendAllowed
  <1> QED BY <1>3, <1>4, <1>5, <1>6, <1>8, <1>9, <1>10

\* A record with a new number is accepted.
LEMMA Accepting ==
    ASSUME LogInvariant, NEW e \in Events, Beyond(file, e.sequence), accepted' = accepted \cup {e},
           UNCHANGED <<reader, window, settled>>
    PROVE  NoSequenceReuse' /\ ReaderPart' /\ WindowPart'
  <1>0. /\ file \in Files /\ accepted \subseteq Events /\ Covered(file, accepted)
        /\ NoSequenceReuse /\ ReaderPart /\ WindowPart
        /\ window.cursor \in 0..MaxEvents /\ MaxEvents \in Nat
    BY EventLogAssumption DEF LogInvariant, TypeOK, History
  <1>1. e.sequence \in Nat /\ e.sequence > 0 /\ \A d \in accepted : d.sequence \in Nat
    BY <1>0, EventFields
  <1>2. \A d \in accepted : d.sequence < e.sequence
    BY <1>0, <1>1, BeyondAccepted
  <1>3. NoSequenceReuse'
    BY <1>0, <1>1, <1>2 DEF NoSequenceReuse
  <1>4. ReaderPart'
    <2>1. ASSUME NEW d \in reader.events PROVE ~(e.sequence <= d.sequence)
      BY <1>0, <1>1, <1>2 DEF ReaderPart
    <2> QED BY <1>0, <2>1 DEF ReaderPart
  <1>5. WindowPart'
    <2>1. ~window.error => ~(e.sequence <= window.cursor)
      BY <1>0, <1>1, <1>2 DEF WindowPart
    <2> QED BY <1>0, <2>1 DEF WindowPart
  <1> QED BY <1>3, <1>4, <1>5

\* The other half of the record.
LEMMA WriteRestStep ==
    ASSUME LogInvariant, NEW w \in Writers, WriteRest(w)
    PROVE  LogInvariant'
  <1> USE DEF LogInvariant
  <1> DEFINE e == writer[w].event
  <1>0. /\ TypeOK /\ Broker \notin Writers /\ file \in Files /\ writer[w].pc = "rest"
        /\ file' = [file EXCEPT !.torn = FALSE, !.events = Append(file.events, e)]
        /\ accepted' = accepted \cup {e} /\ Go(w, "sync") /\ "sync" \in WriterPcs
        /\ UNCHANGED <<durable, errorFile, awaiting, lockFile, flock, txLock, reader, window, safe,
                       settled, unmarked, polls, faults>>
        /\ accepted \subseteq Events /\ safe \subseteq accepted
    BY EventLogAssumption DEF WriteRest, TypeOK, WriterPcs, locks
  <1>1. flock = w /\ e \in Events /\ file.torn /\ Beyond(file, e.sequence)
    BY <1>0 DEF AppendPart
  <1>2. /\ writer' \in [Writers -> WriterStates]
        /\ \A v \in Writers \ {w} : writer'[v] = writer[v]
        /\ writer'[w].pc = "sync" /\ writer'[w].event = e
        /\ writer'[w].failed = writer[w].failed
    BY <1>0, GoStep
  <1> HIDE DEF e
  <1>3. /\ file' \in Files /\ file'.marker = file.marker
        /\ file'.events = Append(file.events, e)
    <2>1. file.events \in Seq(Events) /\ Append(file.events, e) \in Seq(Events)
      BY <1>0, <1>1, FileFields, AppendProperties
    <2> QED BY <1>0, <2>1 DEF Files
  <1>4. TypeOK'
    BY <1>0, <1>1, <1>2, <1>3 DEF TypeOK
  <1>5. History(file, accepted)' /\ History(durable, safe)'
    <2>1. History(file', accepted \cup {e})
      BY <1>0, <1>1, <1>3, Appending
    <2> QED BY <1>0, <2>1 DEF History, Covered, Accounted
  <1>6. e \notin accepted
    <2>1. e.sequence \in Nat /\ Covered(file, accepted)
      BY <1>1, EventFields DEF History
    <2>2. \A d \in accepted : d.sequence < e.sequence
      BY <1>0, <1>1, <2>1, BeyondAccepted
    <2> QED BY <2>1, <2>2
  <1>7. PrefixPart'
    <2> DEFINE s == file.events
               d == durable.events
    <2>1. /\ s \in Seq(Events) /\ Len(s) \in Nat /\ DOMAIN s = 1..Len(s)
          /\ d \in Seq(Events) /\ Len(d) \in Nat
      BY <1>0, FileFields DEF TypeOK
    <2>2. /\ Len(file'.events) = Len(s) + 1 /\ DOMAIN file'.events = 1..(Len(s) + 1)
          /\ \A i \in 1..Len(s) : file'.events[i] = s[i]
          /\ file'.events[Len(s) + 1] = e
      BY <1>1, <1>3, <2>1, AppendProperties
    <2> SUFFICES ASSUME durable.marker = file.marker
                 PROVE  /\ Len(d) <= Len(file'.events)
                        /\ \A i \in 1..Len(d) : d[i] = file'.events[i]
                        /\ \A i \in DOMAIN file'.events : i > Len(d) => file'.events[i] \notin safe
      BY <1>0, <1>3 DEF PrefixPart
    <2>3. /\ Len(d) <= Len(s) /\ \A i \in 1..Len(d) : d[i] = s[i]
          /\ \A i \in DOMAIN s : i > Len(d) => s[i] \notin safe
      BY DEF PrefixPart
    <2>4. ASSUME NEW i \in DOMAIN file'.events, i > Len(d) PROVE file'.events[i] \notin safe
      <3>1. i \in 1..Len(s) \/ i = Len(s) + 1
        BY <2>1, <2>2
      <3>2. CASE i \in 1..Len(s)
        BY <2>1, <2>2, <2>3, <2>4, <3>2
      <3>3. CASE i = Len(s) + 1
        BY <1>0, <1>6, <2>2, <3>3
      <3> QED BY <3>1, <3>2, <3>3
    <2>5. ASSUME NEW i \in 1..Len(d) PROVE d[i] = file'.events[i]
      <3>1. i \in 1..Len(s)
        BY <2>1, <2>3
      <3> QED BY <2>2, <2>3, <3>1
    <2>6. Len(d) <= Len(s) + 1
      BY <2>1, <2>3
    <2> QED BY <2>2, <2>4, <2>5, <2>6
  <1>8. NoSequenceReuse' /\ ReaderPart' /\ WindowPart'
    BY <1>0, <1>1, Accepting
  <1>9. AppendPart'
    <2>1. ASSUME NEW v \in Writers \ {w} PROVE writer[v].pc \notin {"rest", "sync"} /\ flock # v
      BY <1>1 DEF AppendPart
    <2>2. ASSUME NEW v \in Writers
          PROVE  /\ writer'[v].pc \in {"rest", "sync"} <=> flock' = v
                 /\ writer'[v].pc \in {"rest", "sync", "failed"} => writer'[v].event \in Events
                 /\ writer'[v].pc = "rest" => file'.torn /\ Beyond(file', writer'[v].event.sequence)
                 /\ writer'[v].pc = "sync" => writer'[v].event \in accepted'
      <3>1. CASE v = w
        BY <1>0, <1>1, <1>2, <3>1
      <3>2. CASE v # w
        BY <1>0, <1>2, <2>1, <3>2 DEF AppendPart
      <3> QED BY <3>1, <3>2
    <2> QED BY <2>2 DEF AppendPart
  <1>10. SettledPart'
    BY <1>0, <1>2, LogFrame
  <1>11. AlarmPart'
    BY <1>0, <1>1 DEF AlarmPart
  <1> QED BY <1>4, <1>5, <1>7, <1>8, <1>9, <1>10, <1>11

\* At the limit: the compacted file, with the new record, replaces the file.
LEMMA ReplaceFileStep ==
    ASSUME LogInvariant, NEW w \in Writers, NEW e \in NextEvents(w), ReplaceFile(w, e)
    PROVE  LogInvariant'
  <1> USE DEF LogInvariant
  <1>0. /\ TypeOK /\ Broker \notin Writers /\ flock = Broker /\ flock' = w /\ lockFile' = TRUE
        /\ file \in Files /\ file' = Compact(file, e) /\ AppendAllowed(file, e)
        /\ ~(Units(file) + 1 <= MaxUnits) /\ Units(Compact(file, e)) <= MaxUnits
        /\ accepted' = accepted \cup {e} /\ Number(w, e, "sync") /\ "sync" \in WriterPcs
        /\ UNCHANGED <<durable, errorFile, txLock, reader, window, safe, settled, unmarked,
                       polls, faults>>
        /\ accepted \subseteq Events /\ safe \subseteq accepted /\ durable \in Files
    BY EventLogAssumption DEF ReplaceFile, TypeOK, WriterPcs, Fits, CanCompact
  <1>1. /\ e \in Events /\ awaiting' \in BOOLEAN /\ writer[w].pc = "run"
        /\ writer' \in [Writers -> WriterStates]
        /\ \A v \in Writers \ {w} : writer'[v] = writer[v]
        /\ writer'[w].pc = "sync" /\ writer'[w].event = e
        /\ writer'[w].failed = writer[w].failed
    BY <1>0, NumberStep
  <1>2. Beyond(file, e.sequence)
    BY <1>0, <1>1, NumberIsBeyond
  <1>3. /\ file' \in Files /\ History(file', accepted \cup {e})
        /\ file'.marker.high = e.sequence
    BY <1>0, <1>1, <1>2, Compacting
  <1>4. TypeOK'
    BY <1>0, <1>1, <1>3 DEF TypeOK
  <1>5. History(file, accepted)' /\ History(durable, safe)'
    BY <1>0, <1>3 DEF History, Covered, Accounted
  <1>6. PrefixPart'
    <2>1. /\ durable.marker.high \in Nat /\ file.marker.high \in Nat /\ e.sequence \in Nat
          /\ durable.marker.high <= file.marker.high /\ file.marker.high < e.sequence
      BY <1>0, <1>1, <1>2, FileFields, EventFields DEF PrefixPart, Beyond
    <2>2. durable.marker.high < file'.marker.high
      BY <1>3, <2>1
    <2>3. durable.marker # file'.marker /\ durable.marker.high <= file'.marker.high
      BY <1>3, <2>1, <2>2
    <2> QED BY <1>0, <2>3 DEF PrefixPart
  <1>7. NoSequenceReuse' /\ ReaderPart' /\ WindowPart'
    BY <1>0, <1>1, <1>2, Accepting
  <1>8. AppendPart'
    <2>1. ASSUME NEW v \in Writers \ {w} PROVE writer[v].pc \notin {"rest", "sync"} /\ flock' # v
      BY <1>0 DEF AppendPart
    <2>2. ASSUME NEW v \in Writers
          PROVE  /\ writer'[v].pc \in {"rest", "sync"} <=> flock' = v
                 /\ writer'[v].pc \in {"rest", "sync", "failed"} => writer'[v].event \in Events
                 /\ writer'[v].pc = "rest" => file'.torn /\ Beyond(file', writer'[v].event.sequence)
                 /\ writer'[v].pc = "sync" => writer'[v].event \in accepted'
      <3>1. CASE v = w
        BY <1>0, <1>1, <3>1
      <3>2. CASE v # w
        BY <1>1, <2>1, <3>2 DEF AppendPart
      <3> QED BY <3>1, <3>2
    <2> QED BY <2>2 DEF AppendPart
  <1>9. SettledPart'
    BY <1>0, <1>1, LogFrame
  <1>10. AlarmPart'
    BY <1>0 DEF AlarmPart, AppendAllowed
  <1> QED BY <1>4, <1>5, <1>6, <1>7, <1>8, <1>9, <1>10

\* The file is synced, and the emission returns.
LEMMA SyncStep ==
    ASSUME LogInvariant, NEW w \in Writers, Sync(w)
    PROVE  LogInvariant'
  <1> USE DEF LogInvariant
  <1> DEFINE e == writer[w].event
  <1>0. /\ TypeOK /\ Broker \notin Writers /\ file \in Files /\ writer[w].pc = "sync"
        /\ durable' = file /\ safe' = accepted /\ flock' = Broker /\ Return(w, writer[w].failed)
        /\ UNCHANGED <<file, errorFile, awaiting, lockFile, txLock, reader, window, accepted,
                       unmarked, polls, faults>>
    BY EventLogAssumption DEF Sync, TypeOK
  <1>1. flock = w /\ e \in Events /\ e \in accepted
    BY <1>0 DEF AppendPart
  <1>2. /\ writer' \in [Writers -> WriterStates]
        /\ \A v \in Writers \ {w} : writer'[v] = writer[v]
        /\ writer'[w].pc = "run" /\ writer'[w].failed = writer[w].failed
        /\ settled' = settled \cup {e}
    BY <1>0, <1>1, WriterFields, ReturnStep
  <1> HIDE DEF e
  <1>3. TypeOK'
    BY <1>0, <1>1, <1>2 DEF TypeOK
  <1>4. History(file, accepted)' /\ History(durable, safe)' /\ NoSequenceReuse'
    BY <1>0 DEF History, Covered, Accounted, NoSequenceReuse
  <1>5. PrefixPart'
    <2>1. file.marker.high \in Nat /\ Len(file.events) \in Nat /\ DOMAIN file.events = 1..Len(file.events)
      BY <1>0, FileFields
    <2>2. \A i \in DOMAIN file.events : ~(i > Len(file.events))
      BY <2>1
    <2>3. file.marker.high <= file.marker.high /\ Len(file.events) <= Len(file.events)
      BY <2>1
    <2> QED BY <1>0, <2>2, <2>3 DEF PrefixPart
  <1>6. AppendPart'
    BY <1>0, <1>1, <1>2, AppendFrame
  <1>7. SettledPart'
    <2>1. safe \subseteq accepted
      BY <1>0 DEF TypeOK
    <2>2. \A v \in Writers : writer'[v].failed => writer[v].failed
      BY <1>2
    <2> QED BY <1>0, <1>1, <1>2, <2>1, <2>2 DEF SettledPart
  <1>8. AlarmPart' /\ ReaderPart' /\ WindowPart'
    BY <1>0, <1>2, LogFrame
  <1> QED BY <1>3, <1>4, <1>5, <1>6, <1>7, <1>8

\* A failed emission returns: its failure is marked, or cannot be.
LEMMA AppendFailedStep ==
    ASSUME LogInvariant, NEW w \in Writers, AppendFailed(w)
    PROVE  LogInvariant'
  <1> USE DEF LogInvariant
  <1> DEFINE e == writer[w].event
  <1>0. /\ TypeOK /\ Broker \notin Writers /\ writer[w].pc = "failed"
        /\ MarkFailure(w) /\ Return(w, TRUE)
        /\ UNCHANGED <<file, durable, awaiting, lockFile, flock, txLock, reader, window, accepted,
                       safe, polls>>
        /\ errorFile \in BOOLEAN /\ unmarked \in BOOLEAN /\ faults \in 0..MaxFaults
        /\ MaxFaults \in Nat
    BY EventLogAssumption DEF AppendFailed, TypeOK, locks
  <1>1. flock # w /\ e \in Events
    BY <1>0 DEF AppendPart
  <1>2. /\ writer' \in [Writers -> WriterStates]
        /\ \A v \in Writers \ {w} : writer'[v] = writer[v]
        /\ writer'[w].pc = "run" /\ settled' = settled \cup {e}
    BY <1>0, <1>1, ReturnStep
  <1> HIDE DEF e
  <1>3. /\ errorFile' \in BOOLEAN /\ unmarked' \in BOOLEAN /\ faults' \in 0..MaxFaults
        /\ errorFile' \/ unmarked'
    <2>1. CASE writer[w].failed
      <3>1. errorFile' = errorFile /\ unmarked' = unmarked /\ faults' = faults
        BY <1>0, <2>1 DEF MarkFailure
      <3>2. errorFile \/ unmarked
        BY <2>1 DEF SettledPart
      <3> QED BY <1>0, <3>1, <3>2
    <2>2. CASE ~writer[w].failed
      <3>1. \/ errorFile' = TRUE /\ unmarked' = unmarked /\ faults' = faults
            \/ faults < MaxFaults /\ faults' = faults + 1 /\ unmarked' = TRUE /\ errorFile' = errorFile
        BY <1>0, <2>2 DEF MarkFailure, CountFault
      <3>2. faults' \in 0..MaxFaults
        BY <1>0, <3>1
      <3> QED BY <1>0, <3>1, <3>2
    <2> QED BY <2>1, <2>2
  <1>4. TypeOK'
    BY <1>0, <1>1, <1>2, <1>3 DEF TypeOK
  <1>5. AppendPart'
    BY <1>0, <1>1, <1>2, AppendFrame
  <1>6. SettledPart'
    BY <1>3 DEF SettledPart
  <1>7. AlarmPart' /\ ReaderPart' /\ WindowPart'
    BY <1>0, <1>2, LogFrame
  <1> QED BY <1>0, <1>4, <1>5, <1>6, <1>7, LogFrame

-----------------------------------------------------------------------------
(* A Status request.                                                       *)

\* A read finds all of the history above the cursor, or the marker that
\* stands for it.
LEMMA Loading ==
    ASSUME LogInvariant, NEW b \in BOOLEAN, LoadEvents(b)
    PROVE  /\ reader' \in ReaderStates /\ reader'.locked = b /\ reader'.incomplete = file.torn
           /\ reader'.events \subseteq accepted /\ reader'.settled = settled
           /\ \A e \in accepted :
                 window.cursor < e.sequence => e \in reader'.events \/ (e.technical /\ reader'.truncated)
  <1> USE DEF LogInvariant
  <1> DEFINE above == {e \in Elements(file.events) : e.sequence > window.cursor}
  <1>0. /\ file \in Files /\ Ascending(file.events) /\ Accounted(file, accepted)
        /\ accepted \subseteq Events /\ settled \subseteq Events
        /\ window.cursor \in 0..MaxEvents /\ MaxEvents \in Nat
    BY EventLogAssumption DEF TypeOK, History
  <1>1. /\ ReadHistory(file).marker = file.marker /\ ReadHistory(file).events = file.events
        /\ ReadHistory(file).incomplete = file.torn
    BY <1>0, ReadWhole
  <1>2. reader' = [pc |-> "read", locked |-> b, truncated |-> file.marker.lines # 0,
                   incomplete |-> file.torn, events |-> above, settled |-> settled]
    BY <1>1 DEF LoadEvents
  <1>3. above \subseteq accepted
    BY <1>0 DEF Accounted
  <1> HIDE DEF above
  <1>4. file.torn \in BOOLEAN /\ (file.marker.lines # 0) \in BOOLEAN
    BY <1>0, FileFields
  <1>5. /\ reader' \in ReaderStates /\ reader'.locked = b /\ reader'.incomplete = file.torn
        /\ reader'.events = above /\ reader'.settled = settled
        /\ reader'.truncated = (file.marker.lines # 0)
    BY <1>0, <1>2, <1>3, <1>4 DEF ReaderStates
  <1>6. ASSUME NEW e \in accepted, window.cursor < e.sequence
        PROVE  e \in above \/ (e.technical /\ file.marker.lines # 0)
    <2>1. CASE e \in Elements(file.events)
      <3>1. e.sequence \in Nat /\ window.cursor \in Nat
        BY <1>0, EventFields
      <3> QED BY <1>6, <2>1, <3>1 DEF above
    <2>2. CASE e \notin Elements(file.events)
      <3> DEFINE gone == accepted \ Elements(file.events)
      <3>1. e \in gone /\ e.technical /\ file.marker.lines = Cardinality(gone)
        BY <1>0, <2>2 DEF Accounted
      <3>2. IsFiniteSet(gone)
        BY <1>0, FS_Subset DEF Accounted
      <3> HIDE DEF gone
      <3>3. Cardinality(gone) # 0
        BY <3>1, <3>2, FS_EmptySet
      <3> QED BY <3>1, <3>3
    <2> QED BY <2>1, <2>2
  <1> QED BY <1>3, <1>5, <1>6

\* The request takes notice of the lock file, or reads the history.
LEMMA PollStep ==
    ASSUME LogInvariant, PollWithoutLock \/ ReadWithoutLock \/ PollLocked
    PROVE  LogInvariant'
  <1> USE DEF LogInvariant
  <1>0. /\ UNCHANGED <<file, durable, errorFile, awaiting, lockFile, flock, txLock, writer, window,
                       accepted, safe, settled, unmarked, faults>>
        /\ errorFile' = errorFile /\ unmarked' = unmarked
    BY DEF PollWithoutLock, ReadWithoutLock, PollLocked, disk, locks, history
  <1>1. polls' \in 0..MaxPolls
    <2>1. polls \in 0..MaxPolls /\ MaxPolls \in Nat
      BY EventLogAssumption DEF TypeOK
    <2>2. polls' = polls \/ (polls < MaxPolls /\ polls' = polls + 1)
      BY DEF PollWithoutLock, ReadWithoutLock, PollLocked, CountPoll
    <2> QED BY <2>1, <2>2
  <1>2. /\ reader' \in ReaderStates /\ AlarmPart' /\ ReaderPart'
    <2>1. CASE PollWithoutLock
      <3>1. /\ reader' \in ReaderStates /\ reader'.events = {} /\ reader'.settled = {}
            /\ reader'.locked = FALSE
        BY <2>1 DEF PollWithoutLock, IdleReader, ReaderStates
      <3> QED BY <3>1 DEF AlarmPart, ReaderPart
    <2>2. CASE ReadWithoutLock
      <3>1. LoadEvents(FALSE)
        BY <2>2 DEF ReadWithoutLock
      <3>2. /\ reader' \in ReaderStates /\ reader'.locked = FALSE
            /\ reader'.events \subseteq accepted /\ reader'.settled = settled
            /\ \A e \in accepted : window.cursor < e.sequence =>
                    e \in reader'.events \/ (e.technical /\ reader'.truncated)
        BY <3>1, Loading
      <3> QED BY <1>0, <3>2 DEF AlarmPart, ReaderPart
    <2>3. CASE PollLocked
      <3>1. LoadEvents(TRUE) /\ flock = Broker
        BY <2>3 DEF PollLocked
      <3>2. /\ reader' \in ReaderStates /\ reader'.incomplete = file.torn
            /\ reader'.events \subseteq accepted /\ reader'.settled = settled
            /\ \A e \in accepted : window.cursor < e.sequence =>
                    e \in reader'.events \/ (e.technical /\ reader'.truncated)
        BY <3>1, Loading
      <3> QED BY <1>0, <3>1, <3>2 DEF AlarmPart, ReaderPart
    <2> QED BY <2>1, <2>2, <2>3
  <1>3. TypeOK'
    BY <1>0, <1>1, <1>2 DEF TypeOK
  <1>4. AppendPart'
    BY <1>0 DEF AppendPart, Beyond
  <1>5. SettledPart'
    BY <1>0 DEF SettledPart
  <1> QED BY <1>0, <1>2, <1>3, <1>4, <1>5, LogFrame

\* The answer reaches the window.
LEMMA ReportStep ==
    ASSUME LogInvariant, NEW via \in Writers \cup {Broker}, PollReport(via)
    PROVE  LogInvariant'
  <1> USE DEF LogInvariant
  <1> DEFINE news == {e \in Answer(via) : \A s \in window.seen : s.sequence # e.sequence}
             numbers == {window.cursor} \cup {e.sequence : e \in news}
  <1>0. /\ UNCHANGED <<file, durable, errorFile, awaiting, lockFile, flock, txLock, writer,
                       accepted, safe, settled, unmarked, polls, faults>>
        /\ errorFile' = errorFile /\ unmarked' = unmarked
        /\ window' = [cursor |-> Max(numbers), seen |-> window.seen \cup news,
                      truncated |-> window.truncated \/ reader.truncated,
                      error |-> window.error \/ HistoryError(via)]
        /\ reader' = IdleReader
    BY DEF PollReport, disk, locks, history
  <1>1. /\ TypeOK /\ accepted \subseteq Events /\ MaxEvents \in Nat
        /\ window.cursor \in 0..MaxEvents /\ window.seen \subseteq Events
        /\ window.truncated \in BOOLEAN /\ window.error \in BOOLEAN
        /\ reader.truncated \in BOOLEAN /\ reader.events \subseteq Events
    BY EventLogAssumption DEF TypeOK, ReaderStates
  <1>2. Answer(via) \subseteq Events
    <2>1. ASSUME via \in Writers PROVE Elements(writer[via].log) \subseteq Events
      <3>1. writer[via].log \in Seq(Events)
        BY <1>1, <2>1, WriterFields
      <3> QED BY <3>1, ElementOfSeq DEF Elements
    <2> QED BY <1>1, <2>1 DEF Answer
  <1>3. news \subseteq Events /\ news \subseteq Answer(via)
    BY <1>2
  <1>4. numbers \subseteq 0..MaxEvents /\ numbers # {}
    <2>1. \A e \in news : e.sequence \in 0..MaxEvents
      BY <1>1, <1>3, EventFields
    <2> QED BY <1>1, <2>1
  <1>5. /\ Max(numbers) \in 0..MaxEvents
        /\ Max(numbers) = window.cursor \/ \E d \in news : Max(numbers) = d.sequence
    <2>1. Max(numbers) \in numbers
      <3> HIDE DEF numbers
      <3> QED BY <1>1, <1>4, MaxIsGreatest
    <2> DEFINE m == Max(numbers)
    <2>2. m \in numbers
      BY <2>1
    <2> HIDE DEF m
    <2>3. m \in 0..MaxEvents /\ (m = window.cursor \/ \E d \in news : m = d.sequence)
      BY <1>4, <2>2
    <2> QED BY <2>3 DEF m
  <1>6. /\ window'.cursor = Max(numbers) /\ window'.seen = window.seen \cup news
        /\ window'.truncated = (window.truncated \/ reader.truncated)
        /\ window'.error = (window.error \/ HistoryError(via))
    BY <1>0
  <1>7. reader' \in ReaderStates /\ reader'.events = {} /\ reader'.settled = {} /\ reader'.locked = FALSE
    BY <1>0 DEF IdleReader, ReaderStates
  <1>8. HistoryError(via) \in BOOLEAN
    BY DEF HistoryError
  <1>9. TypeOK'
    <2> HIDE DEF news, numbers
    <2>1. window' \in [cursor: 0..MaxEvents, seen: SUBSET Events, truncated: BOOLEAN, error: BOOLEAN]
      BY <1>0, <1>1, <1>3, <1>5, <1>8
    <2> QED BY <1>0, <1>7, <2>1 DEF TypeOK
  <1>10. WindowPart'
    <2> SUFFICES ASSUME ~window'.error
                 PROVE  /\ window'.seen \subseteq accepted
                        /\ window'.cursor = 0 \/ \E s \in window'.seen : s.sequence = window'.cursor
                        /\ \A e \in accepted : e.sequence <= window'.cursor =>
                                e \in window'.seen \/ (e.technical /\ window'.truncated)
      BY <1>0 DEF WindowPart
    <2>1. ~window.error /\ ~HistoryError(via)
      BY <1>1, <1>6, <1>8
    <2>2. Answer(via) = reader.events
      BY <2>1 DEF Answer
    <2>3. news \subseteq reader.events /\ reader.events \subseteq accepted
      BY <1>3, <2>2 DEF ReaderPart
    <2>4. /\ window.seen \subseteq accepted
          /\ window.cursor = 0 \/ \E s \in window.seen : s.sequence = window.cursor
          /\ \A e \in accepted : e.sequence <= window.cursor =>
                e \in window.seen \/ (e.technical /\ window.truncated)
      BY <2>1 DEF WindowPart
    <2>5. \A e \in reader.events : e \in news \/ \E s \in window.seen : s.sequence = e.sequence
      BY <2>2
    <2> HIDE DEF news, numbers
    <2>6. ASSUME NEW e \in accepted, e.sequence <= window'.cursor
          PROVE  e \in window'.seen \/ (e.technical /\ window'.truncated)
      <3>1. e.sequence \in Nat /\ window.cursor \in Nat
        BY <1>1, EventFields
      <3>2. CASE e.sequence <= window.cursor
        BY <1>6, <2>4, <3>2
      <3>3. CASE window.cursor < e.sequence
        <4>1. PICK d \in news : Max(numbers) = d.sequence
          BY <1>5, <1>6, <2>6, <3>1, <3>3
        <4>2. e \in reader.events \/ (e.technical /\ reader.truncated)
          BY <1>6, <2>3, <2>6, <3>3, <4>1 DEF ReaderPart
        <4>3. CASE e \in reader.events
          <5>1. CASE e \in news
            BY <1>6, <5>1
          <5>2. CASE \E s \in window.seen : s.sequence = e.sequence
            <6>1. PICK s \in window.seen : s.sequence = e.sequence
              BY <5>2
            <6>2. s = e
              BY <2>4, <6>1 DEF NoSequenceReuse
            <6> QED BY <1>6, <6>1, <6>2
          <5> QED BY <2>5, <4>3, <5>1, <5>2
        <4>4. CASE e.technical /\ reader.truncated
          BY <1>6, <4>4
        <4> QED BY <4>2, <4>3, <4>4
      <3> QED BY <3>1, <3>2, <3>3
    <2>7. window'.cursor = 0 \/ \E s \in window'.seen : s.sequence = window'.cursor
      BY <1>5, <1>6, <2>4
    <2> QED BY <1>6, <2>3, <2>4, <2>6, <2>7
  <1>11. AlarmPart' /\ ReaderPart'
    BY <1>7 DEF AlarmPart, ReaderPart
  <1>12. AppendPart'
    BY <1>0 DEF AppendPart, Beyond
  <1>13. SettledPart'
    BY <1>0 DEF SettledPart
  <1> HIDE DEF news, numbers
  <1> QED BY <1>0, <1>9, <1>10, <1>11, <1>12, <1>13, LogFrame

-----------------------------------------------------------------------------
(* A power loss, and the behaviours.                                       *)

\* What survives is a history that holds all that was synced.
LEMMA PowerLossStep ==
    ASSUME LogInvariant, PowerLoss
    PROVE  LogInvariant'
  <1> USE DEF LogInvariant
  <1> DEFINE dead == [IdleWriter EXCEPT !.pc = "done"]
  <1>0. /\ TypeOK /\ Broker \notin Writers /\ CountFault /\ file' \in Survivors /\ durable' = file'
        /\ accepted' = (IF file' = file THEN accepted ELSE safe \cup Elements(file'.events))
        /\ safe' = accepted' /\ txLock' = Broker /\ flock' = Broker
        /\ writer' = [w \in Writers |-> IF writer[w].pc = "idle" THEN IdleWriter ELSE dead]
        /\ reader' = IdleReader /\ window' = EmptyWindow
        /\ UNCHANGED <<errorFile, awaiting, lockFile, settled, unmarked, polls>>
        /\ errorFile' = errorFile /\ unmarked' = unmarked
    BY EventLogAssumption DEF PowerLoss
  <1>1. /\ file' \in Files /\ safe \subseteq accepted' /\ accepted' \subseteq accepted
        /\ History(file', accepted')
    BY <1>0, Surviving
  <1>2. /\ IdleWriter \in WriterStates /\ IdleWriter.pc = "idle" /\ IdleWriter.failed = FALSE
        /\ dead \in WriterStates /\ dead.pc = "done" /\ dead.failed = FALSE
    BY IdleTypes
  <1> HIDE DEF dead
  <1>3. /\ writer' \in [Writers -> WriterStates]
        /\ \A w \in Writers : writer'[w].pc \in {"idle", "done"} /\ writer'[w].failed = FALSE
    BY <1>0, <1>2
  <1>4. faults' \in 0..MaxFaults
    BY <1>0, EventLogAssumption DEF TypeOK, CountFault
  <1>5. /\ reader' \in ReaderStates /\ reader'.events = {} /\ reader'.settled = {}
        /\ reader'.locked = FALSE
    BY <1>0 DEF IdleReader, ReaderStates
  <1>6. /\ window' \in [cursor: 0..MaxEvents, seen: SUBSET Events, truncated: BOOLEAN, error: BOOLEAN]
        /\ window'.cursor = 0 /\ window'.seen = {}
    BY <1>0, EventLogAssumption DEF EmptyWindow
  <1>7. accepted' \subseteq Events /\ accepted' \subseteq accepted
    BY <1>0, <1>1 DEF TypeOK
  <1>8. TypeOK'
    BY <1>0, <1>1, <1>3, <1>4, <1>5, <1>6, <1>7 DEF TypeOK
  <1>9. History(file, accepted)' /\ History(durable, safe)'
    BY <1>0, <1>1 DEF History, Covered, Accounted
  <1>10. PrefixPart'
    <2>1. /\ file'.marker.high \in Nat /\ Len(file'.events) \in Nat
          /\ DOMAIN file'.events = 1..Len(file'.events)
      BY <1>1, FileFields
    <2>2. \A i \in DOMAIN file'.events : ~(i > Len(file'.events))
      BY <2>1
    <2>3. file'.marker.high <= file'.marker.high /\ Len(file'.events) <= Len(file'.events)
      BY <2>1
    <2> QED BY <1>0, <2>2, <2>3 DEF PrefixPart
  <1>11. NoSequenceReuse'
    BY <1>7 DEF NoSequenceReuse
  <1>12. AppendPart'
    BY <1>0, <1>3 DEF AppendPart
  <1>13. SettledPart'
    BY <1>0, <1>1, <1>3 DEF SettledPart
  <1>14. AlarmPart' /\ ReaderPart'
    BY <1>5 DEF AlarmPart, ReaderPart
  <1>15. WindowPart'
    <2>1. \A e \in accepted' : ~(e.sequence <= window'.cursor)
      BY <1>6, <1>7, EventFields
    <2> QED BY <1>6, <2>1 DEF WindowPart
  <1> QED BY <1>8, <1>9, <1>10, <1>11, <1>12, <1>13, <1>14, <1>15

\* The first Start finds no history.
LEMMA InitLog == Init => LogInvariant
  <1> SUFFICES ASSUME Init PROVE LogInvariant
    OBVIOUS
  <1>0. MaxEvents \in Nat /\ MaxPolls \in Nat /\ MaxFaults \in Nat /\ Broker \notin Writers
    BY EventLogAssumption
  <1>1. /\ EmptyFile \in Files /\ EmptyFile.events = <<>> /\ EmptyFile.marker = NoMarker
        /\ DOMAIN EmptyFile.events = {} /\ Len(EmptyFile.events) = 0
    <2>1. <<>> \in Seq(Events) /\ DOMAIN <<>> = {} /\ Len(<<>>) = 0
      BY EmptySeq
    <2> QED BY <1>0, <2>1 DEF EmptyFile, Files, NoMarker, Markers
  <1>2. NoMarker.lines = 0 /\ NoMarker.high = 0
    BY DEF NoMarker
  <1>3. History(EmptyFile, {})
    <2>1. Elements(EmptyFile.events) = {}
      BY <1>1 DEF Elements
    <2>2. IsFiniteSet({}) /\ Cardinality({}) = 0
      BY FS_EmptySet
    <2> QED BY <1>1, <1>2, <2>1, <2>2 DEF History, Ascending, Covered, Accounted
  <1>4. TypeOK
    <2>1. reader \in ReaderStates
      BY DEF Init, IdleReader, ReaderStates
    <2>2. window \in [cursor: 0..MaxEvents, seen: SUBSET Events, truncated: BOOLEAN, error: BOOLEAN]
      BY <1>0 DEF Init, EmptyWindow
    <2>3. writer \in [Writers -> WriterStates]
      BY IdleTypes DEF Init
    <2>4. polls \in 0..MaxPolls /\ faults \in 0..MaxFaults
      BY <1>0 DEF Init
    <2> QED BY <1>1, <2>1, <2>2, <2>3, <2>4 DEF Init, TypeOK
  <1>5. History(file, accepted) /\ History(durable, safe) /\ PrefixPart /\ NoSequenceReuse
    BY <1>1, <1>2, <1>3 DEF Init, PrefixPart, NoSequenceReuse
  <1>6. AppendPart /\ SettledPart
    BY <1>0, IdleTypes DEF Init, AppendPart, SettledPart
  <1>7. AlarmPart /\ ReaderPart /\ WindowPart
    BY DEF Init, IdleReader, EmptyWindow, AlarmPart, ReaderPart, WindowPart
  <1> QED BY <1>4, <1>5, <1>6, <1>7 DEF LogInvariant

\* Every step keeps the invariant.
LEMMA NextLog == LogInvariant /\ [Next]_vars => LogInvariant'
  <1> SUFFICES ASSUME LogInvariant, [Next]_vars PROVE LogInvariant'
    OBVIOUS
  <1>1. CASE UNCHANGED vars
    <2>1. UNCHANGED <<file, durable, errorFile, awaiting, lockFile, flock, txLock, writer, reader,
                      window, accepted, safe, settled, unmarked, polls, faults>>
      BY <1>1 DEF vars, disk, locks, history
    <2>2. TypeOK'
      BY <2>1 DEF LogInvariant, TypeOK
    <2>3. AppendPart' /\ AlarmPart'
      BY <2>1 DEF LogInvariant, AppendPart, AlarmPart, Beyond
    <2> QED BY <2>1, <2>2, <2>3, LogFrame DEF LogInvariant
  <1>2. ASSUME NEW w \in Writers,
               \/ StartChecked(w) \/ Restore(w) \/ RefuseStart(w) \/ Transact(w) \/ Finish(w)
               \/ \E e \in NextEvents(w) :
                     AppendRecord(w, e) \/ ReplaceFile(w, e) \/ RefuseEvent(w, e) \/ AppendImpossible(w, e)
               \/ WriteRest(w) \/ Sync(w) \/ WriteFails(w) \/ AppendFailed(w)
               \/ WriterDies(w)
        PROVE  LogInvariant'
    BY <1>2, ObserverStep, AppendRecordStep, ReplaceFileStep, WriteRestStep, SyncStep,
       AppendFailedStep
  <1>3. CASE PollWithoutLock \/ ReadWithoutLock \/ PollLocked
    BY <1>3, PollStep
  <1>4. CASE \E via \in Writers \cup {Broker} : PollReport(via)
    BY <1>4, ReportStep
  <1>5. CASE PowerLoss
    BY <1>5, PowerLossStep
  <1> QED BY <1>1, <1>2, <1>3, <1>4, <1>5 DEF Next

\* The inductive invariant of the event history, for any number of observers,
\* events, polls and faults and any size limit: everything below follows.
THEOREM LogInvariance == Spec => []LogInvariant
  BY InitLog, NextLog, PTL DEF Spec

\* The shape of the state: event_log.rs never numbers an event, counts a line
\* or answers a Status outside of its types.
THEOREM LogTypes == Spec => []TypeOK
  <1>1. LogInvariant => TypeOK
    BY DEF LogInvariant
  <1> QED BY <1>1, LogInvariance, PTL

\* Whatever is compacted, refused, torn or lost with the power, no accepted
\* state change leaves events.jsonl and the marker counts exactly the technical
\* lines that did.
THEOREM HistoryIsAccounted == Spec => []HistoryAccounts
  <1>1. LogInvariant => HistoryAccounts
    BY DEF LogInvariant, History, Accounted, HistoryAccounts
  <1> QED BY <1>1, LogInvariance, PTL

\* No number is given twice in a history, by any number of logs restored at
\* any time, compaction and power loss included.
THEOREM NumbersAreUnique == Spec => []NoSequenceReuse
  <1>1. LogInvariant => NoSequenceReuse
    BY DEF LogInvariant
  <1> QED BY <1>1, LogInvariance, PTL

\* A locked reader reports damage only where it stays: no append in progress
\* is taken for it.
THEOREM AlarmsAreTrue == Spec => []NoFalseAlarm
  <1>1. LogInvariant => NoFalseAlarm
    BY DEF LogInvariant, AlarmPart, NoFalseAlarm
  <1> QED BY <1>1, LogInvariance, PTL

\* The window never passes an event that had returned without showing it, the
\* truncation that took it or the error that lost it.
THEOREM GapsAreTold == Spec => NoSilentGap
  <1> DEFINE Told ==
        (\E via \in Writers \cup {Broker} : PollReport(via)) =>
          \A e \in reader.settled :
              e.sequence <= window'.cursor =>
                  \/ e \in window'.seen
                  \/ e \in accepted /\ e.technical /\ window'.truncated
                  \/ window'.error
                  \/ unmarked
  <1>1. ASSUME LogInvariant, LogInvariant' PROVE Told
    <2> SUFFICES ASSUME NEW via \in Writers \cup {Broker}, PollReport(via),
                        NEW e \in reader.settled, e.sequence <= window'.cursor,
                        ~window'.error, ~unmarked
                 PROVE  e \in window'.seen \/ (e \in accepted /\ e.technical /\ window'.truncated)
      OBVIOUS
    <2>1. /\ accepted' = accepted
          /\ window'.error = (window.error \/ HistoryError(via))
      BY DEF PollReport, history
    <2>2. ~errorFile
      BY <2>1 DEF HistoryError
    <2>3. e \in accepted
      <3>1. reader.settled \subseteq settled /\ safe \subseteq accepted
        BY <1>1 DEF LogInvariant, ReaderPart, TypeOK
      <3> QED BY <1>1, <2>2, <3>1 DEF LogInvariant, SettledPart
    <2> QED BY <1>1, <2>1, <2>3 DEF LogInvariant, WindowPart
  <1>2. LogInvariant /\ LogInvariant' => [Told]_vars
    BY <1>1
  <1> QED BY <1>2, LogInvariance, PTL DEF NoSilentGap
=============================================================================
