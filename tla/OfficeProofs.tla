---------------------------- MODULE OfficeProofs ----------------------------
(***************************************************************************)
(* Proofs about the components of MCOffice, each from the inductive        *)
(* invariant of its own section, and about their composition.  A behaviour *)
(* belongs to one component, so the composed invariant says of the one     *)
(* `on` names that its own holds.                                          *)
(***************************************************************************)
EXTENDS SessionsProofs, ConsoleProofs, SumLemmas

-----------------------------------------------------------------------------
(* Logs: Telemetry. *)

\* The records given out so far.
Emitted == 1..sequence

\* Every call of repeat is in a record or in the entry.
CallsExplained ==
    /\ repeats \in Nat /\ spoken \in Nat
    /\ throttled \in [body : Body \cup {Absent}, at : 0..LogTime, suppressed : Nat]
    /\ repeats = spoken + throttled.suppressed

\* The ring holds the last records in the order they were emitted.
Latest == \A i \in 1..Len(ring) : ring[i] = sequence - Len(ring) + i

\* A poller has been shown records up to its cursor, and the cursor is a number given out.
Polled == seen \subseteq 1..cursor /\ cursor <= sequence

LogsInv ==
    /\ Logs!TypeOK
    /\ Logs!NothingUncounted
    /\ Len(ring) <= sequence
    /\ Latest
    /\ Polled

LEMMA LogsNumbers ==
    ASSUME Logs!TNumbers
    PROVE  /\ ThrottleMs \in Nat /\ MaxRecords \in Nat /\ LogTime \in Nat
           /\ BatchMax \in Nat \ {0} /\ QueueMax \in Nat \ {0} /\ Size \in Nat \ {0} /\ Limit \in Nat \ {0}
BY DEF Logs!TNumbers

LEMMA LogsCounts == ASSUME NEW S PROVE Logs!Cardinality(S) = Cardinality(S)
BY DEF Cardinality, Logs!Cardinality

LEMMA LogsTyped == Logs!TypeOK <=>
    /\ now \in 0..LogTime
    /\ throttled \in [body : Body \cup {Absent}, at : 0..LogTime, suppressed : Nat]
    /\ repeats \in Nat /\ spoken \in Nat /\ sequence \in Nat /\ dropped \in Nat /\ delivered \in Nat
    /\ told \in Nat /\ shown \in Nat /\ cursor \in Nat
    /\ ring \in Seq(Emitted) /\ queue \in Seq(Emitted) /\ inFlight \in Seq(Emitted)
    /\ Len(queue) <= QueueMax /\ Len(inFlight) <= BatchMax /\ Len(ring) <= Size
    /\ seen \subseteq Emitted
    /\ lastError \in BOOLEAN
BY DEF Logs!TypeOK, Emitted

LEMMA LogsTypedNext == Logs!TypeOK' <=>
    /\ now' \in 0..LogTime
    /\ throttled' \in [body : Body \cup {Absent}, at : 0..LogTime, suppressed : Nat]
    /\ repeats' \in Nat /\ spoken' \in Nat /\ sequence' \in Nat /\ dropped' \in Nat /\ delivered' \in Nat
    /\ told' \in Nat /\ shown' \in Nat /\ cursor' \in Nat
    /\ ring' \in Seq(Emitted') /\ queue' \in Seq(Emitted') /\ inFlight' \in Seq(Emitted')
    /\ Len(queue') <= QueueMax /\ Len(inFlight') <= BatchMax /\ Len(ring') <= Size
    /\ seen' \subseteq Emitted'
    /\ lastError' \in BOOLEAN
BY DEF Logs!TypeOK, Emitted

LEMMA LogsInit == ASSUME Logs!TNumbers, Logs!Init PROVE LogsInv
<1>1. Cardinality({}) = 0
    BY FS_EmptySet
<1>2. <<>> \in Seq(Emitted) /\ Len(<<>>) = 0
    OBVIOUS
<1>3. Logs!NoEntry \in [body : Body \cup {Absent}, at : 0..LogTime, suppressed : Nat] /\ 0 \in 0..LogTime
      /\ 0 <= QueueMax /\ 0 <= BatchMax /\ 0 <= Size
    BY LogsNumbers DEF Logs!NoEntry
<1>4. Logs!TypeOK
    BY <1>2, <1>3, LogsTyped DEF Logs!Init
<1> QED
    BY <1>1, <1>4, LogsCounts
    DEF Logs!Init, LogsInv, Logs!NothingUncounted, Latest, Polled, Logs!NoEntry

LEMMA SeqParts ==
    ASSUME NEW T, NEW s \in Seq(T)
    PROVE  Len(s) \in Nat /\ DOMAIN s = 1..Len(s) /\ \A i \in 1..Len(s) : s[i] \in T
OBVIOUS
LEMMA SeqWiden ==
    ASSUME NEW T, NEW U, T \subseteq U, NEW s \in Seq(T)
    PROVE  s \in Seq(U)
OBVIOUS
LEMMA SeqNarrow ==
    ASSUME NEW T, NEW s \in Seq(Nat), \A i \in 1..Len(s) : s[i] \in T
    PROVE  s \in Seq(T)
OBVIOUS
LEMMA SeqAppend ==
    ASSUME NEW T, NEW s \in Seq(T), NEW x \in T
    PROVE  /\ Append(s, x) \in Seq(T) /\ Len(Append(s, x)) = Len(s) + 1
           /\ \A i \in 1..Len(s) : Append(s, x)[i] = s[i]
           /\ Append(s, x)[Len(s) + 1] = x
OBVIOUS
LEMMA SeqPart ==
    ASSUME NEW T, NEW s \in Seq(T), NEW m \in Nat \ {0}, NEW k \in 0..Len(s), m <= k + 1
    PROVE  /\ SubSeq(s, m, k) \in Seq(T) /\ Len(SubSeq(s, m, k)) = k - m + 1
           /\ \A i \in 1..(k - m + 1) : SubSeq(s, m, k)[i] = s[m + i - 1]
OBVIOUS
\* The last n of a sequence of consecutive numbers.
LEMMA LastOnes ==
    ASSUME NEW s \in Seq(Nat), NEW n \in 0..Len(s), NEW top \in Nat,
           \A i \in 1..Len(s) : s[i] = top - Len(s) + i
    PROVE  /\ SubSeq(s, Len(s) - n + 1, Len(s)) \in Seq(Nat)
           /\ Len(SubSeq(s, Len(s) - n + 1, Len(s))) = n
           /\ \A i \in 1..n : SubSeq(s, Len(s) - n + 1, Len(s))[i] = top - n + i
OBVIOUS
LEMMA LogsKept ==
    ASSUME Size \in Nat \ {0}, NEW top \in Nat \ {0}, NEW s \in Seq(Nat), Len(s) < top, Len(s) <= Size,
           \A i \in 1..Len(s) : s[i] = top - 1 - Len(s) + i
    PROVE  LET r == Logs!Kept(Append(s, top))
           IN  /\ r \in Seq(Nat)
               /\ Len(r) <= Size /\ Len(r) <= top
               /\ \A i \in 1..Len(r) : r[i] = top - Len(r) + i
<1> DEFINE a == Append(s, top)
           r == Logs!Kept(a)
<1>1. a \in Seq(Nat) /\ Len(a) = Len(s) + 1 /\ Len(s) \in Nat
    OBVIOUS
<1>2. \A i \in 1..Len(a) : a[i] = top - Len(a) + i
    OBVIOUS
<1>3. r = IF Len(a) > Size THEN SubSeq(a, Len(a) - Size + 1, Len(a)) ELSE a
    BY DEF Logs!Kept, Logs!Final, r
<1> HIDE DEF a, r
<1>4. CASE Len(a) > Size
    <2>1. r = SubSeq(a, Len(a) - Size + 1, Len(a))
        BY <1>3, <1>4
    <2>2. Size \in 0..Len(a) /\ top \in Nat
        BY <1>1, <1>4
    <2>3. /\ r \in Seq(Nat)
          /\ Len(r) = Size
          /\ \A i \in 1..Size : r[i] = top - Size + i
        BY <1>1, <1>2, <2>1, <2>2, LastOnes
    <2>4. Len(r) <= Size
        BY <2>3
    <2>5. Len(r) <= top
        BY <1>1, <1>4, <2>3
    <2> QED
        BY <2>3, <2>4, <2>5 DEF r, a
<1>5. CASE ~(Len(a) > Size)
    <2>1. r = a
        BY <1>3, <1>5
    <2>2. r \in Seq(Nat)
        BY <1>1, <2>1
    <2>3. Len(r) <= Size
        BY <1>1, <1>5, <2>1
    <2>4. Len(r) <= top
        BY <1>1, <2>1
    <2>5. \A i \in 1..Len(r) : r[i] = top - Len(r) + i
        BY <1>2, <2>1
    <2> QED
        BY <2>2, <2>3, <2>4, <2>5 DEF r, a
<1> QED
    BY <1>4, <1>5

\* A record that is emitted is in the ring, and in the queue or counted.
LEMMA LogsEmit ==
    ASSUME Logs!TNumbers, LogsInv, Logs!emit, CallsExplained'
    PROVE  LogsInv'
<1>1. /\ sequence \in Nat /\ sequence' = sequence + 1
      /\ ring \in Seq(Emitted) /\ queue \in Seq(Emitted) /\ inFlight \in Seq(Emitted)
      /\ Len(queue) <= QueueMax /\ Len(ring) <= Size /\ Len(ring) <= sequence /\ dropped \in Nat
      /\ delivered \in Nat /\ told \in Nat /\ seen \subseteq Emitted
    BY LogsTyped DEF LogsInv, Logs!emit
<1>2. Emitted \subseteq Emitted' /\ Emitted \subseteq Nat /\ Emitted' \subseteq Nat /\ sequence' \in Emitted'
    BY <1>1 DEF Emitted
<1>3. ring' \in Seq(Emitted') /\ Len(ring') <= Size /\ Len(ring') <= sequence' /\ Latest'
    <2>0. ring \in Seq(Nat) /\ Len(ring) \in Nat /\ Size \in Nat \ {0}
        BY <1>1, <1>2, SeqWiden, SeqParts, LogsNumbers
    <2>1. Len(ring) < sequence' /\ sequence' \in Nat \ {0} /\ sequence' - 1 = sequence
        BY <1>1, <2>0
    <2>2. ring' = Logs!Kept(Append(ring, sequence'))
        BY DEF Logs!emit
    <2>3. \A i \in 1..Len(ring) : ring[i] = sequence' - 1 - Len(ring) + i
        BY <2>1 DEF LogsInv, Latest
    <2> DEFINE r == ring'
               top == sequence'
    <2> HIDE DEF r, top
    <2>7. r = Logs!Kept(Append(ring, top)) /\ top \in Nat \ {0} /\ Len(ring) < top
        BY <2>1, <2>2 DEF r, top
    <2>8. \A i \in 1..Len(ring) : ring[i] = top - 1 - Len(ring) + i
        BY <2>3 DEF top
    <2>9. /\ r \in Seq(Nat)
          /\ Len(r) <= Size /\ Len(r) <= top
          /\ \A i \in 1..Len(r) : r[i] = top - Len(r) + i
        <3>1. Len(ring) <= Size
            BY <1>1
        <3> QED
            BY <2>0, <2>7, <2>8, <3>1, LogsKept
    <2>10. Len(r) \in Nat
        BY <2>9, SeqParts
    <2>11. \A i \in 1..Len(r) : r[i] \in 1..top
        BY <2>7, <2>9, <2>10
    <2>4. /\ ring' \in Seq(Nat)
          /\ Len(ring') <= Size /\ Len(ring') <= sequence'
          /\ \A i \in 1..Len(ring') : ring'[i] = sequence' - Len(ring') + i
        BY <2>9 DEF r, top
    <2>6. \A i \in 1..Len(ring') : ring'[i] \in Emitted'
        BY <2>11 DEF Emitted, r, top
    <2> QED
        BY <2>4, <2>6, SeqNarrow DEF Latest
<1>4. /\ queue' \in Seq(Emitted')
      /\ Len(queue') <= QueueMax
      /\ dropped' \in Nat
      /\ Len(queue') + dropped' = Len(queue) + dropped + 1
    <2>1. queue \in Seq(Emitted') /\ Len(queue) \in Nat /\ QueueMax \in Nat
        BY <1>1, <1>2, SeqWiden, SeqParts, LogsNumbers
    <2>2. CASE Len(queue) >= QueueMax
        <3>1. queue' = queue /\ dropped' = dropped + 1
            BY <2>2 DEF Logs!emit
        <3> QED
            BY <1>1, <2>1, <3>1
    <2>3. CASE ~(Len(queue) >= QueueMax)
        <3>1. queue' = Append(queue, sequence') /\ dropped' = dropped
            BY <2>3 DEF Logs!emit
        <3>2. queue' \in Seq(Emitted') /\ Len(queue') = Len(queue) + 1
            BY <1>2, <2>1, <3>1, SeqAppend
        <3> QED
            BY <1>1, <2>1, <2>3, <3>1, <3>2
    <2> QED
        BY <2>2, <2>3
<1>5. /\ now' = now /\ seen' = seen /\ shown' = shown /\ cursor' = cursor /\ inFlight' = inFlight
      /\ lastError' = lastError /\ delivered' = delivered /\ told' = told
    BY DEF Logs!emit
<1>6. inFlight' \in Seq(Emitted') /\ seen' \subseteq Emitted'
    BY <1>1, <1>2, <1>5, SeqWiden
<1>7. Polled'
    BY <1>1, <1>5, LogsTyped DEF LogsInv, Polled
<1>8. Logs!TypeOK'
    BY <1>1, <1>3, <1>4, <1>5, <1>6, LogsTyped, LogsTypedNext DEF LogsInv, CallsExplained
<1>9. Logs!NothingUncounted'
    <2>1. sequence = Len(queue) + Len(inFlight) + delivered + dropped + told
        BY DEF LogsInv, Logs!NothingUncounted
    <2>2. Len(queue') \in Nat /\ Len(queue) \in Nat /\ Len(inFlight) \in Nat /\ dropped' \in Nat
        BY <1>1, <1>4, SeqParts
    <2>3. sequence' = Len(queue') + Len(inFlight') + delivered' + dropped' + told'
        <3>1. sequence' = sequence + 1 /\ delivered \in Nat /\ told \in Nat /\ dropped \in Nat
              /\ sequence \in Nat
            BY <1>1
        <3>2. Len(queue') + dropped' = Len(queue) + dropped + 1 /\ Len(inFlight') = Len(inFlight)
              /\ delivered' = delivered /\ told' = told
            BY <1>4, <1>5
        <3> QED
            BY <2>1, <2>2, <3>1, <3>2
    <2> QED
        BY <2>3, <1>5 DEF LogsInv, Logs!NothingUncounted, CallsExplained
<1> QED
    BY <1>3, <1>7, <1>8, <1>9 DEF LogsInv

\* A page of the tail is the records after the cursor, the last ones when they are too many.
LEMMA LogsPage ==
    ASSUME Logs!TNumbers, LogsInv, Logs!recentLogs
    PROVE  \E n \in 0..sequence :
               /\ seen' = seen \cup (sequence - n + 1)..sequence
               /\ cursor <= sequence - n
               /\ shown' = shown + n
<1>0. /\ sequence \in Nat /\ cursor \in Nat /\ cursor <= sequence
      /\ ring \in Seq(Emitted) /\ Len(ring) <= sequence /\ Limit \in Nat \ {0}
    BY LogsTyped, LogsNumbers DEF LogsInv, Polled
<1>1. /\ ring \in Seq(Nat) /\ Len(ring) \in Nat /\ DOMAIN ring = 1..Len(ring)
      /\ \A i \in 1..Len(ring) : ring[i] = sequence - Len(ring) + i
    BY <1>0, SeqWiden, SeqParts DEF LogsInv, Latest, Emitted
<1> DEFINE old == {i \in DOMAIN ring : ring[i] <= cursor}
           base == sequence - Len(ring)
           older == Logs!Cardinality(old)
           matched == SubSeq(ring, older + 1, Len(ring))
           page == IF Len(matched) > Limit THEN SubSeq(matched, Len(matched) - Limit + 1, Len(matched))
                   ELSE matched
<1>2. /\ seen' = seen \cup Logs!Range(page)
      /\ shown' = shown + Len(page)
    BY DEF Logs!recentLogs, Logs!Final
<1>3. older \in 0..Len(ring) /\ base + older >= cursor
    <2>1. CASE cursor >= base
        <3>1. old = 1..(cursor - base)
            BY <1>0, <1>1, <2>1
        <3>2. Cardinality(1..(cursor - base)) = cursor - base
            <4> DEFINE k == cursor - base
            <4>1. k \in Nat
                BY <1>0, <1>1, <2>1
            <4> HIDE DEF k
            <4>2. Cardinality(1..k) = IF 1 > k THEN 0 ELSE k - 1 + 1
                BY <4>1, FS_Interval
            <4>3. Cardinality(1..k) = k
                BY <4>1, <4>2
            <4> QED
                BY <4>3 DEF k
        <3>3. older = cursor - base
            BY <3>1, <3>2, LogsCounts
        <3> QED
            BY <1>0, <1>1, <2>1, <3>3
    <2>2. CASE cursor < base
        <3>1. old = {}
            BY <1>0, <1>1, <2>2
        <3>2. older = 0
            BY <3>1, LogsCounts, FS_EmptySet
        <3> QED
            BY <1>0, <1>1, <2>2, <3>2
    <2> QED
        BY <1>0, <1>1, <2>1, <2>2
<1> HIDE DEF older, old
<1>4. /\ matched \in Seq(Nat)
      /\ Len(matched) = Len(ring) - older
      /\ \A i \in 1..Len(matched) : matched[i] = sequence - Len(matched) + i
    <2> DEFINE n == Len(ring) - older
    <2>1. n \in 0..Len(ring) /\ Len(ring) - n + 1 = older + 1
        BY <1>1, <1>3
    <2>5. matched = SubSeq(ring, Len(ring) - n + 1, Len(ring))
        BY <2>1
    <2> HIDE DEF n, matched
    <2>2. /\ matched \in Seq(Nat)
          /\ Len(matched) = n
          /\ \A i \in 1..n : matched[i] = sequence - n + i
        BY <1>0, <1>1, <2>1, <2>5, LastOnes
    <2>3. Len(matched) = Len(ring) - older
        BY <2>2 DEF n
    <2>4. \A i \in 1..Len(matched) : matched[i] = sequence - Len(matched) + i
        BY <2>2
    <2> QED
        BY <2>2, <2>3, <2>4
<1> HIDE DEF matched
<1>5. /\ page \in Seq(Nat)
      /\ Len(page) <= Len(matched)
      /\ \A i \in 1..Len(page) : page[i] = sequence - Len(page) + i
    <2>1. CASE Len(matched) > Limit
        <3>1. page = SubSeq(matched, Len(matched) - Limit + 1, Len(matched))
            BY <2>1
        <3>2. Limit \in 0..Len(matched) /\ Len(matched) \in Nat
            BY <1>0, <1>4, <2>1, SeqParts
        <3> HIDE DEF page
        <3>3. /\ page \in Seq(Nat)
              /\ Len(page) = Limit
              /\ \A i \in 1..Limit : page[i] = sequence - Limit + i
            BY <1>0, <1>4, <3>1, <3>2, LastOnes
        <3>4. Len(page) <= Len(matched)
            BY <3>2, <3>3
        <3> QED
            BY <3>3, <3>4
    <2>2. CASE ~(Len(matched) > Limit)
        <3>1. page = matched
            BY <2>2
        <3> HIDE DEF page
        <3>2. Len(page) <= Len(matched)
            BY <1>4, <3>1, SeqParts
        <3> QED
            BY <1>4, <3>1, <3>2
    <2> QED
        BY <2>1, <2>2
<1> HIDE DEF page
<1>6. Len(page) \in Nat /\ DOMAIN page = 1..Len(page)
    BY <1>5, SeqParts
<1>7. Logs!Range(page) = (sequence - Len(page) + 1)..sequence
    <2>1. ASSUME NEW x \in (sequence - Len(page) + 1)..sequence
          PROVE  x \in Logs!Range(page)
        <3>1. x - (sequence - Len(page)) \in 1..Len(page)
            BY <1>0, <1>6
        <3>2. page[x - (sequence - Len(page))] = x
            BY <1>0, <1>5, <1>6, <3>1
        <3> QED
            BY <1>6, <3>1, <3>2 DEF Logs!Range
    <2>2. ASSUME NEW x \in Logs!Range(page) PROVE x \in (sequence - Len(page) + 1)..sequence
        <3>1. PICK i \in 1..Len(page) : x = page[i]
            BY <1>6 DEF Logs!Range
        <3>2. x = sequence - Len(page) + i
            BY <1>5, <3>1
        <3> QED
            BY <1>0, <1>6, <3>1, <3>2
    <2> QED
        BY <2>1, <2>2
<1>8. Len(page) \in 0..sequence
    BY <1>0, <1>1, <1>3, <1>4, <1>5, <1>6
<1>9. cursor <= sequence - Len(page)
    BY <1>0, <1>1, <1>3, <1>4, <1>5, <1>6
<1> QED
    BY <1>2, <1>7, <1>8, <1>9

LEMMA LogsRecent == ASSUME Logs!TNumbers, LogsInv, Logs!recentLogs PROVE LogsInv'
<1>1. PICK n \in 0..sequence :
               /\ seen' = seen \cup (sequence - n + 1)..sequence
               /\ cursor <= sequence - n
               /\ shown' = shown + n
    BY LogsPage
<1>2. /\ sequence \in Nat /\ cursor \in Nat /\ seen \subseteq 1..cursor /\ cursor <= sequence
      /\ shown \in Nat /\ shown = Cardinality(seen) /\ seen \subseteq Emitted
    BY LogsTyped, LogsCounts DEF LogsInv, Polled, Logs!NothingUncounted
<1> DEFINE low == sequence - n + 1
           page == low..sequence
<1>3. low \in Int /\ sequence \in Int /\ low = sequence - n + 1 /\ n \in Nat
    BY <1>1, <1>2
<1> HIDE DEF low
<1>4. IsFiniteSet(page) /\ Cardinality(page) = IF low > sequence THEN 0 ELSE sequence - low + 1
    BY <1>3, FS_Interval
<1>5. Cardinality(page) = n
    BY <1>3, <1>4
<1>6. IsFiniteSet(seen)
    <2>1. IsFiniteSet(1..cursor)
        BY <1>2, FS_Interval
    <2> QED
        BY <1>2, <2>1, FS_Subset
<1>7. seen \cap page = {} /\ page \subseteq Emitted
    BY <1>1, <1>2, <1>3 DEF Emitted
<1>8. Cardinality(seen \cup page) = Cardinality(seen) + Cardinality(page) - Cardinality(seen \cap page)
    BY <1>4, <1>6, FS_Union
<1>9. Cardinality(seen \cap page) = 0
    BY <1>7, FS_EmptySet
<1>10. seen' = seen \cup page
    BY <1>1 DEF low
<1> HIDE DEF page
<1>11. shown' = Cardinality(seen') /\ shown' \in Nat
    BY <1>1, <1>2, <1>3, <1>5, <1>8, <1>9, <1>10
<1>12. seen' \subseteq Emitted
    BY <1>2, <1>7, <1>10
<1>13. /\ UNCHANGED <<now, throttled, repeats, spoken, sequence, ring, queue, inFlight, dropped,
                      lastError, delivered, told>>
       /\ cursor' = sequence /\ Emitted' = Emitted
    BY DEF Logs!recentLogs, Logs!exporter, Emitted
<1>14. Logs!TypeOK'
    BY <1>2, <1>11, <1>12, <1>13, LogsTyped, LogsTypedNext DEF LogsInv
<1>15. Logs!NothingUncounted'
    BY <1>11, <1>13, LogsCounts DEF LogsInv, Logs!NothingUncounted
<1>16. Polled'
    BY <1>2, <1>12, <1>13 DEF Polled, Emitted
<1> QED
    BY <1>13, <1>14, <1>15, <1>16 DEF LogsInv, Latest

\* A batch leaves the queue whole, and comes back delivered or counted.
LEMMA LogsExport ==
    ASSUME Logs!TNumbers, LogsInv, Logs!flush \/ Logs!Exported \/ Logs!ExportFails
    PROVE  LogsInv'
<1>1. /\ sequence \in Nat /\ queue \in Seq(Emitted) /\ inFlight \in Seq(Emitted)
      /\ Len(queue) <= QueueMax /\ Len(inFlight) <= BatchMax
      /\ dropped \in Nat /\ delivered \in Nat /\ told \in Nat /\ lastError \in BOOLEAN
      /\ BatchMax \in Nat \ {0} /\ QueueMax \in Nat
    BY LogsTyped, LogsNumbers DEF LogsInv
<1>2. sequence = Len(queue) + Len(inFlight) + delivered + dropped + told
    BY DEF LogsInv, Logs!NothingUncounted
<1>3. Len(queue) \in Nat /\ Len(inFlight) \in Nat
    BY <1>1, SeqParts
<1>4. <<>> \in Seq(Emitted) /\ Len(<<>>) = 0
    OBVIOUS
<1>5. UNCHANGED <<now, throttled, repeats, spoken, sequence, ring, seen, shown, cursor>>
      /\ Emitted' = Emitted
    BY DEF Logs!flush, Logs!Exported, Logs!ExportFails, Emitted
<1>0. sequence \in Nat /\ dropped \in Nat /\ delivered \in Nat /\ told \in Nat
    BY <1>1
<1>6. /\ queue' \in Seq(Emitted) /\ inFlight' \in Seq(Emitted)
      /\ Len(queue') <= QueueMax /\ Len(inFlight') <= BatchMax
      /\ dropped' \in Nat /\ delivered' \in Nat /\ told' \in Nat /\ lastError' \in BOOLEAN
      /\ sequence = Len(queue') + Len(inFlight') + delivered' + dropped' + told'
    <2>1. CASE Logs!flush
        <3> DEFINE n == IF Len(queue) < BatchMax THEN Len(queue) ELSE BatchMax
        <3>1. n \in 0..Len(queue) /\ n <= BatchMax /\ n + 1 \in Nat \ {0}
            BY <1>1, <1>3
        <3>2. /\ inFlight = <<>> /\ inFlight' = SubSeq(queue, 1, n)
              /\ queue' = SubSeq(queue, n + 1, Len(queue))
              /\ dropped' = dropped /\ delivered' = delivered /\ told' = told /\ lastError' = lastError
            BY <2>1 DEF Logs!flush
        <3> HIDE DEF n
        <3>3. inFlight' \in Seq(Emitted) /\ Len(inFlight') = n - 1 + 1
            BY <1>1, <3>1, <3>2, SeqPart
        <3>4. queue' \in Seq(Emitted) /\ Len(queue') = Len(queue) - (n + 1) + 1
            BY <1>1, <1>3, <3>1, <3>2, SeqPart
        <3>5. Len(inFlight) = 0
            BY <3>2
        <3>6. Len(queue') <= QueueMax /\ Len(inFlight') <= BatchMax
            BY <1>1, <1>3, <3>1, <3>3, <3>4
        <3>7. sequence = Len(queue') + Len(inFlight') + delivered' + dropped' + told'
            <4>1. Len(inFlight') = n /\ Len(queue') = Len(queue) - n /\ n \in Nat
                BY <1>3, <3>1, <3>3, <3>4
            <4>2. dropped' = dropped /\ delivered' = delivered /\ told' = told
                BY <3>2
            <4> QED
                BY <1>0, <1>2, <1>3, <3>5, <4>1, <4>2
        <3> QED
            BY <1>1, <3>2, <3>3, <3>4, <3>6, <3>7
    <2>2. CASE Logs!Exported
        <3>1. /\ delivered' = delivered + Len(inFlight) /\ inFlight' = <<>> /\ queue' = queue
              /\ lastError' = FALSE
              /\ \/ told' = told + dropped /\ dropped' = 0
                 \/ told' = told /\ dropped' = dropped
            BY <2>2 DEF Logs!Exported
        <3>2. Len(inFlight') = 0
            BY <3>1
        <3>3. sequence = Len(queue') + Len(inFlight') + delivered' + dropped' + told'
            <4>1. delivered' = delivered + Len(inFlight) /\ Len(queue') = Len(queue)
                BY <3>1
            <4>2. CASE told' = told + dropped /\ dropped' = 0
                BY <1>0, <1>2, <1>3, <3>2, <4>1, <4>2
            <4>3. CASE told' = told /\ dropped' = dropped
                BY <1>0, <1>2, <1>3, <3>2, <4>1, <4>3
            <4> QED
                BY <3>1, <4>2, <4>3
        <3> QED
            <4>1. Len(inFlight') <= BatchMax /\ dropped' \in Nat /\ delivered' \in Nat /\ told' \in Nat
                BY <1>1, <1>3, <3>1, <3>2
            <4> QED
                BY <1>1, <1>4, <3>1, <3>3, <4>1
    <2>3. CASE Logs!ExportFails
        <3>1. /\ dropped' = dropped + Len(inFlight) /\ inFlight' = <<>> /\ queue' = queue
              /\ lastError' = TRUE /\ told' = told /\ delivered' = delivered
            BY <2>3 DEF Logs!ExportFails, Logs!lost
        <3>2. Len(inFlight') = 0
            BY <3>1
        <3>3. sequence = Len(queue') + Len(inFlight') + delivered' + dropped' + told'
            <4>1. /\ delivered' = delivered /\ Len(queue') = Len(queue) /\ told' = told
                  /\ dropped' = dropped + Len(inFlight)
                BY <3>1
            <4> QED
                BY <1>0, <1>2, <1>3, <3>2, <4>1
        <3> QED
            <4>1. Len(inFlight') <= BatchMax /\ dropped' \in Nat /\ delivered' \in Nat /\ told' \in Nat
                BY <1>1, <1>3, <3>1, <3>2
            <4> QED
                BY <1>1, <1>4, <3>1, <3>3, <4>1
    <2> QED
        BY <2>1, <2>2, <2>3
<1>7. Logs!TypeOK'
    BY <1>5, <1>6, LogsTyped, LogsTypedNext DEF LogsInv
<1>8. Logs!NothingUncounted'
    BY <1>5, <1>6 DEF LogsInv, Logs!NothingUncounted
<1> QED
    BY <1>5, <1>7, <1>8 DEF LogsInv, Latest, Polled

LEMMA LogsStep == ASSUME Logs!TNumbers, LogsInv, [Logs!Next]_(Logs!vars) PROVE LogsInv'
<1>0. /\ now \in 0..LogTime /\ LogTime \in Nat /\ repeats \in Nat /\ spoken \in Nat
      /\ throttled \in [body : Body \cup {Absent}, at : 0..LogTime, suppressed : Nat]
      /\ repeats = spoken + throttled.suppressed
    BY LogsTyped, LogsNumbers DEF LogsInv, Logs!NothingUncounted
<1>1. CASE Logs!Tick
    <2>1. now' \in 0..LogTime
        BY <1>0, <1>1 DEF Logs!Tick
    <2>2. UNCHANGED <<throttled, repeats, spoken, sequence, ring, seen, shown, cursor, queue, inFlight,
                      dropped, lastError, delivered, told>>
        BY <1>1 DEF Logs!Tick, Logs!exporter
    <2>3. Logs!TypeOK'
        BY <2>1, <2>2, LogsTyped, LogsTypedNext DEF LogsInv, Emitted
    <2> QED
        BY <2>2, <2>3 DEF LogsInv, Logs!NothingUncounted, Latest, Polled
<1>2. CASE Logs!Log
    BY <1>0, <1>2, LogsEmit DEF Logs!Log, CallsExplained
<1>3. CASE Logs!resolved
    <2>1. Logs!emit
        BY <1>3 DEF Logs!resolved
    <2>2. /\ throttled' \in [body : Body \cup {Absent}, at : 0..LogTime, suppressed : Nat]
          /\ throttled'.suppressed = 0
        BY <1>0, <1>3 DEF Logs!resolved, Logs!NoEntry
    <2>3. repeats' \in Nat /\ spoken' \in Nat /\ repeats' = spoken' + 0
        BY <1>0, <1>3 DEF Logs!resolved
    <2> QED
        BY <2>1, <2>2, <2>3, LogsEmit DEF CallsExplained
<1>4. CASE Logs!recentLogs
    BY <1>4, LogsRecent
<1>5. CASE Logs!flush \/ Logs!Exported \/ Logs!ExportFails
    BY <1>5, LogsExport
<1>6. ASSUME NEW body \in Body, Logs!Suppress(body) PROVE LogsInv'
    <2>1. /\ throttled' = [throttled EXCEPT !.suppressed = @ + 1] /\ repeats' = repeats + 1
          /\ UNCHANGED <<now, spoken, sequence, ring, seen, shown, cursor, queue, inFlight,
                         dropped, lastError, delivered, told>>
        BY <1>6 DEF Logs!Suppress, Logs!exporter
    <2>2. /\ throttled' \in [body : Body \cup {Absent}, at : 0..LogTime, suppressed : Nat]
          /\ throttled'.suppressed = throttled.suppressed + 1
        BY <1>0, <2>1
    <2>3. repeats' \in Nat /\ repeats' = spoken' + throttled'.suppressed
        BY <1>0, <2>1, <2>2
    <2>4. Logs!TypeOK'
        BY <2>1, <2>2, <2>3, LogsTyped, LogsTypedNext DEF LogsInv, Emitted
    <2> QED
        BY <2>1, <2>3, <2>4 DEF LogsInv, Logs!NothingUncounted, Latest, Polled
<1>7. ASSUME NEW body \in Body, Logs!Repeat(body) PROVE LogsInv'
    <2>1. Logs!emit
        BY <1>7 DEF Logs!Repeat
    <2>2. /\ throttled' \in [body : Body \cup {Absent}, at : 0..LogTime, suppressed : Nat]
          /\ throttled'.suppressed = 0
        BY <1>0, <1>7 DEF Logs!Repeat
    <2>3. repeats' \in Nat /\ spoken' \in Nat /\ repeats' = spoken' + 0
        BY <1>0, <1>7 DEF Logs!Repeat
    <2> QED
        BY <2>1, <2>2, <2>3, LogsEmit DEF CallsExplained
<1>8. CASE UNCHANGED Logs!vars
    <2>1. UNCHANGED <<now, throttled, repeats, spoken, sequence, ring, seen, shown, cursor, queue,
                      inFlight, dropped, lastError, delivered, told>>
        BY <1>8 DEF Logs!vars
    <2>2. Logs!TypeOK'
        BY <2>1, LogsTyped, LogsTypedNext DEF LogsInv, Emitted
    <2> QED
        BY <2>1, <2>2 DEF LogsInv, Logs!NothingUncounted, Latest, Polled
<1> QED
    BY <1>1, <1>2, <1>3, <1>4, <1>5, <1>6, <1>7, <1>8 DEF Logs!Next

-----------------------------------------------------------------------------
(* Policy: SweepPolicy. *)

\* What economicsFor makes of its inputs.
Priced(e, usd) ==
    /\ e.minRaw \in Nat /\ e.feeRaw \in Nat /\ e.assetRateE6 \in Nat /\ e.feeRateE6 \in Nat
    /\ Policy!rounded(MinUsd * usd) > 0 /\ e.assetRateE6 > 0 =>
           e.minRaw = Policy!minimum(Policy!rounded(MinUsd * usd), e.assetRateE6)

\* The conditions a candidate went past to be swept.
Decided(e, raw) ==
    /\ raw >= e.minRaw
    /\ e.assetRateE6 > 0
    /\ Policy!toCop(e.feeRaw, e.feeRateE6, FeeScale) * Bps
         <= Policy!toCop(raw, e.assetRateE6, Scale) * MaxCostBps

PolicyInv ==
    /\ candidate \in [amountRaw : Amount, via : Policy!Via, ceiling : Policy!Ceiling]
    /\ usdCop \in UsdCop \cup {0}
    /\ decision \in Policy!Reason \cup {"sweep", Absent}
    /\ economics # Absent => Priced(economics, usdCop)
    /\ decision = "sweep" => economics # Absent /\ Decided(economics, candidate.amountRaw)

LEMMA PolicyNumbers ==
    ASSUME Policy!SPNumbers
    PROVE  /\ Amount \subseteq Nat /\ Fee \subseteq Nat /\ UsdCop \subseteq Nat /\ Gwei \subseteq Nat
           /\ RateE6 \subseteq Nat /\ MinUsd \in Nat /\ Part \in Nat \ {0}
           /\ Scale \in Nat \ {0} /\ FeeScale \in Nat \ {0} /\ E6 \in Nat \ {0}
           /\ Bps \in Nat \ {0} /\ MaxCostBps \in Nat /\ Absent # "sweep"
BY DEF Policy!SPNumbers

LEMMA TimesNat == ASSUME NEW a \in Nat, NEW b \in Nat PROVE a * b \in Nat
OBVIOUS

LEMMA TimesPositive == ASSUME NEW a \in Nat \ {0}, NEW b \in Nat \ {0} PROVE a * b \in Nat \ {0}
OBVIOUS

LEMMA TimesKeeps ==
    ASSUME NEW a \in Nat, NEW b \in Nat, NEW c \in Nat, a <= b
    PROVE  a * c <= b * c
OBVIOUS

LEMMA TimesKeepsLess ==
    ASSUME NEW a \in Nat, NEW b \in Nat, NEW c \in Nat \ {0}, a < b
    PROVE  a * c < b * c
OBVIOUS

LEMMA Ceiling ==
    ASSUME NEW n \in Nat, NEW r \in Nat \ {0}
    PROVE  (n + r - 1) \div r \in Nat /\ ((n + r - 1) \div r) * r >= n
OBVIOUS

LEMMA Floor ==
    ASSUME NEW n \in Nat, NEW r \in Nat \ {0}
    PROVE  n \div r \in Nat /\ (n \div r) * r <= n /\ n < (n \div r + 1) * r
OBVIOUS

\* Rounding to the nearest peso takes off at most half of one.
LEMMA Rounding ==
    ASSUME NEW n \in Nat, NEW d \in Nat \ {0}
    PROVE  /\ (2 * n + d) \div (2 * d) \in Nat
           /\ 2 * n < ((2 * n + d) \div (2 * d)) * (2 * d) + d
<1> DEFINE m == 2 * n + d
           k == 2 * d
           q == m \div k
<1>1. m \in Nat /\ k \in Nat \ {0}
    OBVIOUS
<1>2. q \in Nat /\ m < (q + 1) * k
    <2> HIDE DEF m, k
    <2> QED
        BY <1>1, Floor
<1> HIDE DEF q
<1>3. (q + 1) * k = q * k + k
    BY <1>1, <1>2
<1>4. q * k \in Nat
    BY <1>1, <1>2, TimesNat
<1>5. 2 * n + d < q * k + 2 * d
    BY <1>2, <1>3, <1>4
<1>6. 2 * n < q * k + d
    <2> DEFINE x == 2 * n
               y == q * k
    <2>1. x \in Nat /\ y \in Nat /\ x + d < y + 2 * d
        BY <1>4, <1>5
    <2> HIDE DEF x, y
    <2>2. x < y + d
        BY <2>1
    <2> QED
        BY <2>2 DEF x, y
<1> QED
    BY <1>2, <1>6 DEF q

\* A floor that is passed in raw units is passed in money, but for half a peso.
LEMMA FloorIsWorth ==
    ASSUME Policy!SPNumbers, NEW e, NEW usd \in Nat, NEW raw \in Nat, Priced(e, usd), Decided(e, raw)
    PROVE  2 * Part * (raw * e.assetRateE6) + Part * Scale * E6 > 2 * (MinUsd * usd * Scale * E6)
<1> DEFINE rate == e.assetRateE6
           parts == MinUsd * usd
           cop == Policy!rounded(parts)
           unit == Scale * E6
           least == cop * E6 * Scale
<1>1. /\ rate \in Nat \ {0} /\ parts \in Nat /\ Scale \in Nat /\ E6 \in Nat /\ e.minRaw \in Nat
      /\ unit \in Nat \ {0} /\ Part \in Nat \ {0} /\ raw * rate \in Nat
    BY PolicyNumbers, TimesNat, TimesPositive DEF Priced, Decided
<1> HIDE DEF parts, rate
<1>2. cop \in Nat /\ 2 * parts < cop * (2 * Part) + Part
    BY <1>1, Rounding DEF Policy!rounded
<1>3. cop > 0 => e.minRaw = Policy!minimum(cop, rate)
    BY <1>1 DEF Priced, parts, rate
<1>4. raw >= e.minRaw
    BY DEF Decided
<1> HIDE DEF cop
<1>5. least \in Nat /\ least = cop * unit
    BY <1>1, <1>2, TimesNat
<1> HIDE DEF unit
<1>6. raw * rate >= cop * unit
    <2>1. CASE cop = 0
        BY <1>1, <2>1
    <2>2. CASE cop # 0
        <3>1. e.minRaw = (least + rate - 1) \div rate
            BY <1>2, <1>3, <2>2 DEF Policy!minimum
        <3> HIDE DEF least
        <3>2. e.minRaw * rate >= least
            BY <1>1, <1>5, <3>1, Ceiling
        <3>3. raw * rate >= e.minRaw * rate
            BY <1>1, <1>4, TimesKeeps
        <3>4. e.minRaw * rate \in Nat
            BY <1>1, TimesNat
        <3> QED
            BY <1>1, <1>5, <3>2, <3>3, <3>4
    <2> QED
        BY <2>1, <2>2
<1> HIDE DEF least
<1>7. cop * unit \in Nat /\ 2 * Part \in Nat \ {0}
    BY <1>1, <1>2, TimesNat
<1>8. (2 * parts) * unit < (cop * (2 * Part) + Part) * unit
    <2>1. 2 * parts \in Nat /\ cop * (2 * Part) + Part \in Nat
        BY <1>1, <1>2, <1>7, TimesNat
    <2> QED
        BY <1>1, <1>2, <2>1, TimesKeepsLess
<1>9. (cop * (2 * Part) + Part) * unit = (cop * unit) * (2 * Part) + Part * unit
    BY <1>1, <1>2
<1>10. (cop * unit) * (2 * Part) <= (raw * rate) * (2 * Part)
    BY <1>1, <1>6, <1>7, TimesKeeps
<1>11. /\ (2 * parts) * unit \in Nat /\ (cop * unit) * (2 * Part) \in Nat
       /\ (raw * rate) * (2 * Part) \in Nat /\ Part * unit \in Nat
    BY <1>1, <1>7, TimesNat
<1>12. (2 * parts) * unit < (raw * rate) * (2 * Part) + Part * unit
    BY <1>8, <1>9, <1>10, <1>11
<1>13. /\ (2 * parts) * unit = 2 * (MinUsd * usd * Scale * E6)
       /\ Part * unit = Part * Scale * E6
       /\ (raw * rate) * (2 * Part) = 2 * Part * (raw * e.assetRateE6)
    BY <1>1, PolicyNumbers DEF parts, unit, rate
<1> QED
    BY <1>11, <1>12, <1>13

\* A cost that is a share of the value in whole pesos is at most a peso over it in exact ones.
LEMMA CostIsShare ==
    ASSUME NEW scale \in Nat \ {0}, NEW fees \in Nat \ {0}, NEW e6 \in Nat \ {0},
           NEW value \in Nat, NEW cost \in Nat, NEW share \in Nat, NEW bps \in Nat \ {0},
           (cost \div (fees * e6)) * bps <= (value \div (scale * e6)) * share
    PROVE  cost * scale * bps < value * fees * share + scale * fees * e6 * bps
<1> DEFINE v == value \div (scale * e6)
           c == cost \div (fees * e6)
           peso == scale * fees * e6
<1>1. scale * e6 \in Nat \ {0} /\ fees * e6 \in Nat \ {0}
    BY TimesPositive
<1>2. v \in Nat /\ v * (scale * e6) <= value
    BY <1>1, Floor
<1>3. c \in Nat /\ cost < (c + 1) * (fees * e6)
    BY <1>1, Floor
<1>4. c * bps <= v * share
    OBVIOUS
<1> HIDE DEF v, c
<1>5. peso \in Nat \ {0}
    <2>1. scale * fees \in Nat \ {0}
        BY TimesPositive
    <2> QED
        BY <2>1, TimesPositive
<1>6. v * peso <= value * fees
    <2>1. v * (scale * e6) \in Nat
        BY <1>1, <1>2, TimesNat
    <2>2. (v * (scale * e6)) * fees <= value * fees
        BY <1>2, <2>1, TimesKeeps
    <2>3. (v * (scale * e6)) * fees = v * peso
        BY <1>2
    <2> QED
        BY <2>2, <2>3
<1>7. cost * scale < (c + 1) * peso
    <2>1. (c + 1) * (fees * e6) \in Nat
        BY <1>1, <1>3, TimesNat
    <2>2. cost * scale < ((c + 1) * (fees * e6)) * scale
        BY <1>3, <2>1, TimesKeepsLess
    <2>3. ((c + 1) * (fees * e6)) * scale = (c + 1) * peso
        BY <1>3
    <2> QED
        BY <2>2, <2>3
<1> HIDE DEF peso
<1>8. cost * scale \in Nat /\ (c + 1) * peso \in Nat /\ v * peso \in Nat /\ value * fees \in Nat
      /\ c * bps \in Nat /\ v * share \in Nat
    BY <1>2, <1>3, <1>5, TimesNat
<1>9. cost * scale * bps < ((c + 1) * peso) * bps
    BY <1>7, <1>8, TimesKeepsLess
<1>10. ((c + 1) * peso) * bps = (c * bps) * peso + peso * bps
    BY <1>3, <1>5
<1>11. (c * bps) * peso <= (v * share) * peso
    BY <1>4, <1>5, <1>8, TimesKeeps
<1>12. (v * share) * peso = (v * peso) * share
    BY <1>2, <1>5
<1>13. (v * peso) * share <= (value * fees) * share
    BY <1>6, <1>8, TimesKeeps
<1>14. /\ cost * scale * bps \in Nat /\ ((c + 1) * peso) * bps \in Nat /\ (c * bps) * peso \in Nat
       /\ (v * share) * peso \in Nat /\ (value * fees) * share \in Nat /\ peso * bps \in Nat
    BY <1>5, <1>8, TimesNat
<1>15. cost * scale * bps < (value * fees) * share + peso * bps
    BY <1>9, <1>10, <1>11, <1>12, <1>13, <1>14
<1> QED
    BY <1>15 DEF peso

LEMMA SweepIsWorth == ASSUME Policy!SPNumbers, PolicyInv PROVE Policy!TypeOK /\ Policy!WorthMoving
<1>1. Policy!TypeOK
    BY DEF Policy!TypeOK, PolicyInv, Priced
<1>2. ASSUME decision = "sweep"
      PROVE  LET value == candidate.amountRaw * economics.assetRateE6
                 cost == economics.feeRaw * economics.feeRateE6 * Scale
                 floor == MinUsd * usdCop * Scale * E6
                 peso == Scale * FeeScale * E6
             IN  /\ 2 * Part * value + Part * Scale * E6 > 2 * floor
                 /\ cost * Bps < value * FeeScale * MaxCostBps + peso * Bps
    <2> DEFINE e == economics
               raw == candidate.amountRaw
    <2>1. Priced(e, usdCop) /\ Decided(e, raw) /\ usdCop \in Nat /\ raw \in Nat
        BY <1>2, PolicyNumbers DEF PolicyInv
    <2>2. 2 * Part * (raw * e.assetRateE6) + Part * Scale * E6 > 2 * (MinUsd * usdCop * Scale * E6)
        BY <2>1, FloorIsWorth
    <2>3. raw * e.assetRateE6 \in Nat /\ e.feeRaw * e.feeRateE6 \in Nat
        BY <2>1, TimesNat DEF Priced
    <2>4. ((e.feeRaw * e.feeRateE6) \div (FeeScale * E6)) * Bps
            <= ((raw * e.assetRateE6) \div (Scale * E6)) * MaxCostBps
        BY <2>1 DEF Decided, Policy!toCop
    <2>5. (e.feeRaw * e.feeRateE6) * Scale * Bps
            < (raw * e.assetRateE6) * FeeScale * MaxCostBps + Scale * FeeScale * E6 * Bps
        BY <2>3, <2>4, CostIsShare, PolicyNumbers
    <2> QED
        BY <2>2, <2>5
<1> QED
    BY <1>1, <1>2 DEF Policy!WorthMoving

LEMMA PolicyInit == ASSUME Policy!SPNumbers, Policy!Init PROVE PolicyInv
BY PolicyNumbers DEF Policy!Init, PolicyInv

LEMMA PolicyStep == ASSUME Policy!SPNumbers, PolicyInv, [Policy!Next]_(Policy!vars) PROVE PolicyInv'
<1>1. CASE Policy!economicsFor
    <2> DEFINE cop(u) == Policy!rounded(MinUsd * u)
    <2>1. UNCHANGED <<candidate, decision>> /\ economics = Absent
        BY <1>1 DEF Policy!economicsFor
    <2>2. PICK asset \in RateE6 \cup {0}, gas \in RateE6 \cup {0}, usd \in UsdCop \cup {0},
               fee \in Fee, price \in Gwei, treasury \in BOOLEAN :
              /\ usdCop' = usd
              /\ economics' = [
                     minRaw |-> IF cop(usd) > 0 /\ asset > 0 THEN Policy!minimum(cop(usd), asset) ELSE 0,
                     feeRaw |-> fee, assetRateE6 |-> asset, feeRateE6 |-> gas,
                     gasPriceGwei |-> price, treasury |-> treasury]
        BY <1>1 DEF Policy!economicsFor
    <2>3. asset \in Nat /\ gas \in Nat /\ usd \in Nat /\ fee \in Nat /\ cop(usd) \in Nat
        <3>1. usd \in Nat /\ MinUsd * usd \in Nat
            BY PolicyNumbers, TimesNat
        <3>2. cop(usd) \in Nat
            BY <3>1, PolicyNumbers, Rounding DEF Policy!rounded
        <3> QED
            BY <3>1, <3>2, PolicyNumbers
    <2> HIDE DEF cop
    <2>4. economics'.minRaw \in Nat
        <3>1. CASE cop(usd) > 0 /\ asset > 0
            <4> DEFINE n == cop(usd) * E6 * Scale
            <4>1. n \in Nat
                BY <2>3, PolicyNumbers, TimesNat
            <4>2. economics'.minRaw = (n + asset - 1) \div asset
                BY <2>2, <3>1 DEF Policy!minimum
            <4> HIDE DEF n
            <4> QED
                BY <2>3, <3>1, <4>1, <4>2, Ceiling
        <3>2. CASE ~(cop(usd) > 0 /\ asset > 0)
            BY <2>2, <3>2
        <3> QED
            BY <3>1, <3>2
    <2>5. Priced(economics', usdCop')
        BY <2>2, <2>3, <2>4 DEF Priced, cop
    <2>6. decision' # "sweep"
        BY <2>1 DEF PolicyInv
    <2> QED
        BY <2>1, <2>2, <2>5, <2>6 DEF PolicyInv
<1>2. CASE Policy!decide
    <2>1. UNCHANGED <<candidate, economics, usdCop>> /\ economics # Absent
        BY <1>2 DEF Policy!decide
    <2>2. decision' \in Policy!Reason \cup {"sweep", Absent}
        BY <1>2 DEF Policy!decide, Policy!Reason
    <2>3. ASSUME decision' = "sweep" PROVE Decided(economics, candidate.amountRaw)
        <3>1. /\ ~(candidate.amountRaw < economics.minRaw)
              /\ ~(economics.assetRateE6 <= 0)
              /\ ~(Policy!feeCop * Bps > Policy!valueCop * MaxCostBps)
            BY <1>2, <2>3 DEF Policy!decide
        <3>2. Priced(economics, usdCop) /\ candidate.amountRaw \in Nat /\ usdCop \in Nat
            BY <2>1, PolicyNumbers DEF PolicyInv
        <3>3. candidate.amountRaw >= economics.minRaw /\ economics.assetRateE6 > 0
            BY <3>1, <3>2 DEF Priced
        <3>4. Policy!feeCop * Bps \in Nat /\ Policy!valueCop * MaxCostBps \in Nat
            <4>1. /\ candidate.amountRaw * economics.assetRateE6 \in Nat
                  /\ economics.feeRaw * economics.feeRateE6 \in Nat
                BY <3>2, TimesNat DEF Priced
            <4>2. Scale * E6 \in Nat \ {0} /\ FeeScale * E6 \in Nat \ {0}
                BY PolicyNumbers, TimesPositive
            <4>3. Policy!feeCop \in Nat /\ Policy!valueCop \in Nat
                BY <4>1, <4>2, Floor DEF Policy!feeCop, Policy!valueCop, Policy!toCop
            <4> QED
                BY <4>3, PolicyNumbers, TimesNat
        <3>5. Policy!feeCop * Bps <= Policy!valueCop * MaxCostBps
            BY <3>1, <3>4
        <3> QED
            BY <3>3, <3>5 DEF Decided, Policy!feeCop, Policy!valueCop
    <2> QED
        BY <2>1, <2>2, <2>3 DEF PolicyInv
<1>3. CASE Policy!NextTick
    <2>1. economics' = Absent /\ decision' = Absent /\ usdCop' = 0 /\ decision' # "sweep"
        BY <1>3, PolicyNumbers DEF Policy!NextTick
    <2>2. candidate' \in [amountRaw : Amount, via : Policy!Via, ceiling : Policy!Ceiling]
        BY <1>3 DEF Policy!NextTick, PolicyInv
    <2> QED
        BY <2>1, <2>2 DEF PolicyInv
<1>4. CASE UNCHANGED Policy!vars
    BY <1>4 DEF PolicyInv, Policy!vars
<1> QED
    BY <1>1, <1>2, <1>3, <1>4 DEF Policy!Next

-----------------------------------------------------------------------------
(* Reads: ConsoleReads. *)

Moneys == 0..MaxDeposits

\* What the transactions keep of one payment.
Booked(p) ==
    /\ p \notin torn => payments[p].confirmed <= deposits[p].confirmed
    /\ deposits[p].waiting + deposits[p].confirmed <= MaxDeposits
    /\ deposits[p].waiting + payments[p].confirmed <= MaxDeposits
    /\ ledger[p] = IF payments[p].status = "paid" THEN 1 ELSE 0
    /\ payments[p].status = "paid" => webhooks[p] > 0

TablesTyped ==
    /\ payments \in [Billed -> [status : Reads!Status, confirmed : Moneys]]
    /\ deposits \in [Billed -> [waiting : Moneys, confirmed : Moneys]]
    /\ ledger \in [Billed -> 0..1]
    /\ webhooks \in [Billed -> Nat]
    /\ torn \subseteq Billed

TablesInv ==
    /\ TablesTyped
    /\ \A p \in Billed : Booked(p)
    /\ balance = SumFunctionOnSet(ledger, Billed)

\* The queries of the waves that are over have been answered, and none of a later wave.
Waves ==
    /\ route \in DOMAIN Reads!Route \cup {Reads!Nobody}
    /\ wave \in Nat
    /\ route # Reads!Nobody =>
        /\ wave > 0
        /\ DOMAIN got \subseteq UNION Reads!Range(Reads!Route[route])
        /\ \A w \in 1..Len(Reads!Route[route]) : w < wave => Reads!Route[route][w] \subseteq DOMAIN got
        /\ wave = 1 => DOMAIN got \subseteq Reads!Route[route][1]

\* What was answered explains what was answered before, or will.
DetailInv ==
    "row" \in DOMAIN got => \A p \in Billed :
        /\ got["row"][p].confirmed \in Moneys
        /\ p \notin torn => got["row"][p].confirmed <= deposits[p].confirmed
        /\ got["row"][p].status = "paid" => ledger[p] = 1 /\ webhooks[p] > 0
        /\ "deposits" \in DOMAIN got /\ p \notin torn => got["row"][p].confirmed <= got["deposits"][p].confirmed
        /\ "ledger" \in DOMAIN got /\ got["row"][p].status = "paid" => got["ledger"][p] = 1
        /\ "webhooks" \in DOMAIN got /\ got["row"][p].status = "paid" => got["webhooks"][p] > 0

ClientInv ==
    "clientRow" \in DOMAIN got =>
        /\ got["clientRow"] \in Nat
        /\ got["clientRow"] <= SumFunctionOnSet(ledger, Billed)
        /\ "credited" \in DOMAIN got => got["clientRow"] <= got["credited"]

ListInv ==
    "rows" \in DOMAIN got => \A p \in Billed :
        /\ got["rows"][p].confirmed \in Moneys
        /\ p \notin torn => got["rows"][p].confirmed <= deposits[p].confirmed
        /\ "tallies" \in DOMAIN got /\ p \notin torn =>
               got["rows"][p].confirmed <= got["tallies"][p].waiting + got["tallies"][p].confirmed

AnswersInv ==
    /\ route = "detail" => DetailInv
    /\ route = "client" => ClientInv
    /\ route = "list" => ListInv

ReadsInv == TablesInv /\ Waves /\ AnswersInv

LEMMA ReadsTotal == ASSUME NEW f, NEW S PROVE Reads!SumFunctionOnSet(f, S) = SumFunctionOnSet(f, S)
<1>1. Reads!SumFunctionOnSet(f, S) = Iteration(f, S)[S]
    BY DEF Reads!SumFunctionOnSet, Reads!FoldFunctionOnSet, Reads!MapThenFoldSet, Iteration, Sums,
           Summed, Picked
<1> QED
    BY <1>1, SumIsIteration

LEMMA ReadsNumbers ==
    ASSUME Reads!CNumbers
    PROVE  MaxDeposits \in Nat /\ Needed \in 1..MaxDeposits /\ IsFiniteSet(Billed)
BY DEF Reads!CNumbers, Reads!IsFiniteSet, IsFiniteSet

LEMMA ReadsTyped == ASSUME Reads!CNumbers, ReadsInv PROVE Reads!TypeOK
<1>1. balance \in 0..Reads!Cardinality(Billed)
    <2>1. Reads!Cardinality(Billed) = Cardinality(Billed)
        BY DEF Reads!Cardinality, Cardinality
    <2>2. \A p \in Billed : ledger[p] \in 0..1
        BY DEF ReadsInv, TablesInv, TablesTyped
    <2> QED
        BY <2>1, <2>2, ReadsNumbers, SumAtMost DEF ReadsInv, TablesInv
<1> QED
    BY <1>1 DEF Reads!TypeOK, ReadsInv, TablesInv, TablesTyped, Waves, Moneys, Reads!Row

LEMMA ReadsInit == ASSUME Reads!CNumbers, Reads!Init PROVE ReadsInv
<1>1. TablesTyped
    BY ReadsNumbers DEF Reads!Init, TablesTyped, Moneys, Reads!Status
<1>2. \A p \in Billed : Booked(p)
    BY ReadsNumbers DEF Reads!Init, Booked
<1>3. SumFunctionOnSet(ledger, Billed) = 0
    <2>1. \A p \in Billed : ledger[p] = 0
        BY DEF Reads!Init
    <2> QED
        BY <2>1, ReadsNumbers, SumZero
<1>4. Waves
    BY DEF Reads!Init, Waves
<1>5. route = "no request"
    BY DEF Reads!Init, Reads!Nobody
<1> QED
    BY <1>1, <1>2, <1>3, <1>4, <1>5 DEF ReadsInv, TablesInv, AnswersInv, Reads!Init

\* Nothing of a payment is taken back, but the confirmed deposits of one that is torn.
Grown ==
    /\ torn \subseteq torn'
    /\ \A p \in Billed : /\ p \notin torn' => deposits[p].confirmed <= deposits'[p].confirmed
                         /\ ledger[p] <= ledger'[p]
                         /\ webhooks[p] <= webhooks'[p]
    /\ SumFunctionOnSet(ledger, Billed) <= SumFunctionOnSet(ledger', Billed)

\* One payment's rows change together.
Elsewhere(p) == \A x \in Billed \ {p} :
    /\ deposits'[x] = deposits[x] /\ payments'[x] = payments[x]
    /\ webhooks'[x] = webhooks[x] /\ ledger'[x] = ledger[x]
    /\ x \in torn' <=> x \in torn

GrownAt(p) ==
    /\ p \in torn => p \in torn'
    /\ p \notin torn' => deposits[p].confirmed <= deposits'[p].confirmed
    /\ ledger[p] <= ledger'[p]
    /\ webhooks[p] <= webhooks'[p]

LEMMA ReadsBook ==
    ASSUME Reads!CNumbers, TablesInv, NEW p \in Billed, TablesTyped', Elsewhere(p), Booked(p)',
           GrownAt(p), balance' = balance + (ledger'[p] - ledger[p])
    PROVE  TablesInv' /\ Grown
<1>1. /\ TablesTyped /\ \A x \in Billed : Booked(x)
      /\ balance = SumFunctionOnSet(ledger, Billed)
    BY DEF TablesInv
<1>2. ASSUME NEW x \in Billed PROVE Booked(x)'
    BY <1>1 DEF Booked, Elsewhere
<1>3. \A x \in Billed : ledger[x] \in Int
    BY <1>1 DEF TablesTyped
<1>4. \A x \in Billed \ {p} : ledger'[x] = ledger[x]
    BY DEF Elsewhere
<1>5. ledger'[p] \in Int /\ ledger[p] \in Int
    BY <1>1 DEF TablesTyped
<1>6. SumFunctionOnSet(ledger', Billed) = SumFunctionOnSet(ledger, Billed) + (ledger'[p] - ledger[p])
    BY <1>3, <1>4, <1>5, ReadsNumbers, SumUpdate
<1>7. SumFunctionOnSet(ledger, Billed) \in Int
    BY <1>3, ReadsNumbers, SumInt
<1>8. balance' = SumFunctionOnSet(ledger', Billed)
    BY <1>1, <1>6
<1>9. SumFunctionOnSet(ledger, Billed) <= SumFunctionOnSet(ledger', Billed)
    BY <1>5, <1>6, <1>7 DEF GrownAt
<1>10. ASSUME NEW x \in Billed PROVE GrownAt(x)
    <2>1. deposits[x].confirmed \in Nat /\ ledger[x] \in Nat /\ webhooks[x] \in Nat
        BY <1>1, ReadsNumbers DEF TablesTyped, Moneys
    <2> QED
        BY <2>1 DEF Elsewhere, GrownAt
<1>11. torn \subseteq torn'
    BY <1>1, <1>10 DEF TablesTyped, GrownAt
<1> QED
    BY <1>2, <1>8, <1>9, <1>10, <1>11 DEF TablesInv, Grown, GrownAt

LEMMA Tally ==
    ASSUME NEW r \in [waiting : Moneys, confirmed : Moneys], NEW w
    PROVE  /\ [r EXCEPT !.waiting = w] = [waiting |-> w, confirmed |-> r.confirmed]
           /\ [r EXCEPT !.confirmed = w] = [waiting |-> r.waiting, confirmed |-> w]
OBVIOUS

LEMMA Tallied ==
    ASSUME NEW f \in [Billed -> [waiting : Moneys, confirmed : Moneys]], NEW p \in Billed
    PROVE  /\ [f EXCEPT ![p].waiting = @ + 1]
                = [f EXCEPT ![p] = [waiting |-> f[p].waiting + 1, confirmed |-> f[p].confirmed]]
           /\ [f EXCEPT ![p].waiting = @ - 1]
                = [f EXCEPT ![p] = [waiting |-> f[p].waiting - 1, confirmed |-> f[p].confirmed]]
           /\ [f EXCEPT ![p].confirmed = @ - 1]
                = [f EXCEPT ![p] = [waiting |-> f[p].waiting, confirmed |-> f[p].confirmed - 1]]
           /\ [f EXCEPT ![p].waiting = @ - 1, ![p].confirmed = @ + 1]
                = [f EXCEPT ![p] = [waiting |-> f[p].waiting - 1, confirmed |-> f[p].confirmed + 1]]
<1>1. f[p] \in [waiting : Moneys, confirmed : Moneys]
    OBVIOUS
<1>2. /\ [f[p] EXCEPT !.waiting = @ + 1] = [waiting |-> f[p].waiting + 1, confirmed |-> f[p].confirmed]
      /\ [f[p] EXCEPT !.waiting = @ - 1] = [waiting |-> f[p].waiting - 1, confirmed |-> f[p].confirmed]
      /\ [f[p] EXCEPT !.confirmed = @ - 1] = [waiting |-> f[p].waiting, confirmed |-> f[p].confirmed - 1]
    BY <1>1, Tally
<1>3. [f EXCEPT ![p].waiting = @ + 1]
        = [f EXCEPT ![p] = [waiting |-> f[p].waiting + 1, confirmed |-> f[p].confirmed]]
    BY <1>2
<1>4. [f EXCEPT ![p].waiting = @ - 1]
        = [f EXCEPT ![p] = [waiting |-> f[p].waiting - 1, confirmed |-> f[p].confirmed]]
    BY <1>2
<1>5. [f EXCEPT ![p].waiting = @ - 1, ![p].confirmed = @ + 1]
        = [f EXCEPT ![p] = [waiting |-> f[p].waiting - 1, confirmed |-> f[p].confirmed + 1]]
    <2> DEFINE one == [waiting |-> f[p].waiting - 1, confirmed |-> f[p].confirmed]
               two == [waiting |-> f[p].waiting - 1, confirmed |-> f[p].confirmed + 1]
    <2>1. [f EXCEPT ![p].waiting = @ - 1, ![p].confirmed = @ + 1]
            = [[f EXCEPT ![p] = one] EXCEPT ![p].confirmed = @ + 1]
        BY <1>2
    <2>2. [f EXCEPT ![p] = one][p] = one
        OBVIOUS
    <2>3. [one EXCEPT !.confirmed = @ + 1] = two
        OBVIOUS
    <2> HIDE DEF one, two
    <2>4. [[f EXCEPT ![p] = one] EXCEPT ![p].confirmed = @ + 1] = [[f EXCEPT ![p] = one] EXCEPT ![p] = two]
        BY <2>2, <2>3
    <2>5. [[f EXCEPT ![p] = one] EXCEPT ![p] = two] = [f EXCEPT ![p] = two]
        OBVIOUS
    <2> QED
        BY <2>1, <2>4, <2>5 DEF two
<1>6. [f EXCEPT ![p].confirmed = @ - 1]
        = [f EXCEPT ![p] = [waiting |-> f[p].waiting, confirmed |-> f[p].confirmed - 1]]
    BY <1>2
<1> QED
    BY <1>3, <1>4, <1>5, <1>6

\* What a step on the rows of p may do to its deposits.
DepositStep(p, w, c) ==
    /\ deposits' \in [Billed -> [waiting : Moneys, confirmed : Moneys]]
    /\ \A x \in Billed \ {p} : deposits'[x] = deposits[x]
    /\ deposits'[p].waiting = w /\ deposits'[p].confirmed = c

LEMMA ReadsDeposit ==
    ASSUME TablesTyped, NEW p \in Billed, NEW w \in Moneys, NEW c \in Moneys,
           deposits' = [deposits EXCEPT ![p] = [waiting |-> w, confirmed |-> c]]
    PROVE  DepositStep(p, w, c)
BY DEF TablesTyped, DepositStep

LEMMA ReadsRow ==
    ASSUME TablesTyped, NEW p \in Billed, NEW s \in Reads!Status, NEW c \in Moneys,
           payments' = [payments EXCEPT ![p] = [status |-> s, confirmed |-> c]]
    PROVE  /\ payments' \in [Billed -> [status : Reads!Status, confirmed : Moneys]]
           /\ \A x \in Billed \ {p} : payments'[x] = payments[x]
           /\ payments'[p].status = s /\ payments'[p].confirmed = c
BY DEF TablesTyped

LEMMA ReadsStatus ==
    ASSUME TablesTyped, NEW p \in Billed, NEW s \in Reads!Status,
           payments' = [payments EXCEPT ![p].status = s]
    PROVE  /\ payments' \in [Billed -> [status : Reads!Status, confirmed : Moneys]]
           /\ \A x \in Billed \ {p} : payments'[x] = payments[x]
           /\ payments'[p].status = s /\ payments'[p].confirmed = payments[p].confirmed
<1>1. payments \in [Billed -> [status : Reads!Status, confirmed : Moneys]]
    BY DEF TablesTyped
<1> DEFINE row == [payments[p] EXCEPT !.status = s]
<1>2. payments' = [payments EXCEPT ![p] = row]
    OBVIOUS
<1>3. row \in [status : Reads!Status, confirmed : Moneys] /\ row.status = s
      /\ row.confirmed = payments[p].confirmed
    BY <1>1
<1> HIDE DEF row
<1> QED
    BY <1>1, <1>2, <1>3

LEMMA ReadsTransaction ==
    ASSUME Reads!CNumbers, TablesInv, NEW p \in Billed,
           \/ Reads!Register(p) \/ Reads!Confirm(p) \/ Reads!ConfirmOther(p) \/ Reads!Unwind(p)
           \/ Reads!Expire(p)
    PROVE  TablesInv' /\ Grown /\ UNCHANGED <<route, wave, got>>
<1>0. UNCHANGED <<route, wave, got>>
    BY DEF Reads!Register, Reads!Confirm, Reads!ConfirmOther, Reads!Unwind, Reads!Expire, Reads!request
<1> DEFINE d == deposits[p]
           row == payments[p]
<1>1. /\ TablesTyped /\ MaxDeposits \in Nat
      /\ d.waiting \in Moneys /\ d.confirmed \in Moneys
      /\ row.status \in Reads!Status /\ row.confirmed \in Moneys
      /\ webhooks[p] \in Nat /\ ledger[p] \in 0..1
    BY ReadsNumbers DEF TablesInv, TablesTyped
<1>2. Booked(p)
    BY DEF TablesInv
<1>3. balance \in Int
    <2>1. \A x \in Billed : ledger[x] \in Int
        BY DEF TablesInv, TablesTyped
    <2> QED
        BY <2>1, ReadsNumbers, SumInt DEF TablesInv
<1>4. CASE Reads!Register(p)
    <2>1. /\ d.waiting + d.confirmed < MaxDeposits
          /\ d.waiting + row.confirmed < MaxDeposits
          /\ webhooks' = webhooks /\ ledger' = ledger /\ balance' = balance /\ torn' = torn
          /\ deposits' = [deposits EXCEPT ![p].waiting = @ + 1]
        BY <1>4 DEF Reads!Register
    <2>2. DepositStep(p, d.waiting + 1, d.confirmed)
        <3>1. d.waiting + 1 \in Moneys
            BY <1>1, <2>1 DEF Moneys
        <3>2. deposits' = [deposits EXCEPT ![p] = [waiting |-> d.waiting + 1, confirmed |-> d.confirmed]]
            BY <1>1, <2>1, Tallied DEF TablesTyped
        <3> QED
            BY <1>1, <3>1, <3>2, ReadsDeposit
    <2>3. /\ payments' \in [Billed -> [status : Reads!Status, confirmed : Moneys]]
          /\ \A x \in Billed \ {p} : payments'[x] = payments[x]
          /\ payments'[p].confirmed = row.confirmed
          /\ payments'[p].status = "paid" => row.status = "paid"
          /\ row.status = "paid" => payments'[p].status = "paid"
        <3>1. CASE payments' = payments
            BY <1>1, <3>1 DEF TablesTyped
        <3>2. CASE row.status = "pending" /\ payments' = [payments EXCEPT ![p].status = "detecting"]
            <4>1. "detecting" \in Reads!Status
                BY DEF Reads!Status
            <4>2. payments' = [payments EXCEPT ![p].status = "detecting"]
                BY <3>2
            <4>3. /\ payments' \in [Billed -> [status : Reads!Status, confirmed : Moneys]]
                  /\ \A x \in Billed \ {p} : payments'[x] = payments[x]
                  /\ payments'[p].status = "detecting" /\ payments'[p].confirmed = payments[p].confirmed
                BY <1>1, <4>1, <4>2, ReadsStatus
            <4> QED
                BY <3>2, <4>3
        <3> QED
            BY <1>4, <3>1, <3>2 DEF Reads!Register
    <2>4. TablesTyped'
        BY <1>1, <2>1, <2>2, <2>3 DEF TablesTyped, DepositStep
    <2>5. Elsewhere(p)
        BY <2>1, <2>2, <2>3 DEF Elsewhere, DepositStep
    <2>6. Booked(p)'
        BY <1>1, <1>2, <2>1, <2>2, <2>3 DEF Booked, DepositStep, Moneys
    <2>7. GrownAt(p)
        BY <1>1, <2>1, <2>2 DEF GrownAt, DepositStep, Moneys
    <2>8. balance' = balance + (ledger'[p] - ledger[p])
        BY <1>1, <1>3, <2>1
    <2> QED
        BY <1>0, <2>4, <2>5, <2>6, <2>7, <2>8, ReadsBook
<1>5. CASE Reads!Confirm(p)
    <2> DEFINE s == IF row.status = "paid" \/ row.confirmed + 1 >= Needed THEN "paid" ELSE "partially_paid"
               settles == s = "paid" /\ row.status # "paid"
    <2>1. /\ d.waiting > 0
          /\ deposits' = [deposits EXCEPT ![p].waiting = @ - 1, ![p].confirmed = @ + 1]
          /\ payments' = [payments EXCEPT ![p] = [status |-> s, confirmed |-> row.confirmed + 1]]
          /\ webhooks' = [webhooks EXCEPT ![p] = IF s = row.status THEN @ ELSE @ + 1]
          /\ ledger' = [ledger EXCEPT ![p] = IF settles THEN @ + 1 ELSE @]
          /\ balance' = IF settles THEN balance + 1 ELSE balance
          /\ torn' = torn
        BY <1>5 DEF Reads!Confirm, Reads!confirmed
    <2>2. /\ s \in Reads!Status /\ s \in {"paid", "partially_paid"} /\ (row.status = "paid" => s = "paid")
        BY DEF Reads!Status
    <2>3. d.waiting - 1 \in Moneys /\ d.confirmed + 1 \in Moneys /\ row.confirmed + 1 \in Moneys
        BY <1>1, <1>2, <2>1 DEF Moneys, Booked
    <2> HIDE DEF s
    <2>4. DepositStep(p, d.waiting - 1, d.confirmed + 1)
        <3>1. deposits' = [deposits EXCEPT ![p] = [waiting |-> d.waiting - 1, confirmed |-> d.confirmed + 1]]
            BY <1>1, <2>1, Tallied DEF TablesTyped
        <3> QED
            BY <1>1, <2>3, <3>1, ReadsDeposit
    <2>5. /\ payments' \in [Billed -> [status : Reads!Status, confirmed : Moneys]]
          /\ \A x \in Billed \ {p} : payments'[x] = payments[x]
          /\ payments'[p].status = s /\ payments'[p].confirmed = row.confirmed + 1
        BY <1>1, <2>1, <2>2, <2>3, ReadsRow
    <2>6. /\ webhooks' \in [Billed -> Nat]
          /\ \A x \in Billed \ {p} : webhooks'[x] = webhooks[x]
          /\ webhooks'[p] = IF s = row.status THEN webhooks[p] ELSE webhooks[p] + 1
        BY <1>1, <2>1 DEF TablesTyped
    <2>7. /\ \A x \in Billed \ {p} : ledger'[x] = ledger[x]
          /\ ledger'[p] = IF settles THEN ledger[p] + 1 ELSE ledger[p]
          /\ ledger' \in [Billed -> 0..1]
        <3>1. (IF settles THEN ledger[p] + 1 ELSE ledger[p]) \in 0..1
            BY <1>1, <1>2 DEF Booked
        <3> HIDE DEF settles
        <3> QED
            BY <1>1, <2>1, <3>1 DEF TablesTyped
    <2>8. TablesTyped'
        BY <1>1, <2>1, <2>4, <2>5, <2>6, <2>7 DEF TablesTyped, DepositStep
    <2>9. Elsewhere(p)
        BY <2>1, <2>4, <2>5, <2>6, <2>7 DEF Elsewhere, DepositStep
    <2>10. Booked(p)'
        <3>1. /\ p \notin torn' => payments'[p].confirmed <= deposits'[p].confirmed
              /\ deposits'[p].waiting + deposits'[p].confirmed <= MaxDeposits
              /\ deposits'[p].waiting + payments'[p].confirmed <= MaxDeposits
            BY <1>1, <1>2, <2>1, <2>4, <2>5 DEF Booked, DepositStep, Moneys
        <3>2. /\ ledger'[p] = IF payments'[p].status = "paid" THEN 1 ELSE 0
              /\ payments'[p].status = "paid" => webhooks'[p] > 0
            BY <1>1, <1>2, <2>2, <2>5, <2>6, <2>7 DEF Booked
        <3> QED
            BY <3>1, <3>2 DEF Booked
    <2>11. GrownAt(p)
        BY <1>1, <2>1, <2>4, <2>6, <2>7 DEF GrownAt, DepositStep, Moneys
    <2>12. balance' = balance + (ledger'[p] - ledger[p])
        BY <1>1, <1>3, <2>1, <2>7
    <2> QED
        BY <1>0, <2>8, <2>9, <2>10, <2>11, <2>12, ReadsBook
<1>6. CASE Reads!ConfirmOther(p) \/ Reads!Unwind(p)
    <2>1. /\ payments' = payments /\ webhooks' = webhooks /\ ledger' = ledger /\ balance' = balance
          /\ torn' \in {torn, torn \cup {p}}
        BY <1>6 DEF Reads!ConfirmOther, Reads!Unwind
    <2>2. PICK w \in Moneys, c \in Moneys :
              /\ DepositStep(p, w, c) /\ w <= d.waiting /\ w + c <= d.waiting + d.confirmed
              /\ d.confirmed <= c \/ torn' = torn \cup {p}
        <3>1. CASE Reads!ConfirmOther(p)
            <4>1. d.waiting > 0 /\ d.waiting - 1 \in Moneys /\ d.confirmed + 1 \in Moneys
                BY <1>1, <1>2, <3>1 DEF Moneys, Booked, Reads!ConfirmOther
            <4>2. deposits' = [deposits EXCEPT ![p] = [waiting |-> d.waiting - 1,
                                                       confirmed |-> d.confirmed + 1]]
                BY <1>1, <3>1, Tallied DEF TablesTyped, Reads!ConfirmOther, Reads!confirmed
            <4>3. DepositStep(p, d.waiting - 1, d.confirmed + 1)
                BY <1>1, <4>1, <4>2, ReadsDeposit
            <4> QED
                BY <1>1, <4>1, <4>3 DEF Moneys
        <3>2. CASE d.waiting > 0 /\ deposits' = [deposits EXCEPT ![p].waiting = @ - 1]
            <4>1. d.waiting - 1 \in Moneys
                BY <1>1, <3>2 DEF Moneys
            <4>2. deposits' = [deposits EXCEPT ![p] = [waiting |-> d.waiting - 1,
                                                       confirmed |-> d.confirmed]]
                BY <1>1, <3>2, Tallied DEF TablesTyped
            <4>3. DepositStep(p, d.waiting - 1, d.confirmed)
                BY <1>1, <4>1, <4>2, ReadsDeposit
            <4> QED
                BY <1>1, <4>1, <4>3 DEF Moneys
        <3>3. CASE /\ d.confirmed > 0 /\ torn' = torn \cup {p}
                   /\ deposits' = [deposits EXCEPT ![p].confirmed = @ - 1]
            <4>1. d.confirmed - 1 \in Moneys
                BY <1>1, <3>3 DEF Moneys
            <4>2. deposits' = [deposits EXCEPT ![p] = [waiting |-> d.waiting,
                                                       confirmed |-> d.confirmed - 1]]
                BY <1>1, <3>3, Tallied DEF TablesTyped
            <4>3. DepositStep(p, d.waiting, d.confirmed - 1)
                BY <1>1, <4>1, <4>2, ReadsDeposit
            <4> QED
                BY <1>1, <3>3, <4>1, <4>3 DEF Moneys
        <3> QED
            BY <1>6, <3>1, <3>2, <3>3 DEF Reads!Unwind
    <2>3. TablesTyped'
        BY <1>1, <2>1, <2>2 DEF TablesTyped, DepositStep
    <2>4. Elsewhere(p)
        BY <2>1, <2>2 DEF Elsewhere, DepositStep
    <2>5. Booked(p)'
        <3>1. deposits'[p].waiting = w /\ deposits'[p].confirmed = c
            BY <2>2 DEF DepositStep
        <3>2. /\ w + c <= MaxDeposits /\ w + row.confirmed <= MaxDeposits
            BY <1>1, <1>2, <2>2 DEF Booked, Moneys
        <3>3. p \notin torn' => row.confirmed <= c
            BY <1>1, <1>2, <2>1, <2>2 DEF Booked, Moneys
        <3> QED
            BY <1>2, <2>1, <3>1, <3>2, <3>3 DEF Booked
    <2>6. GrownAt(p)
        BY <1>1, <2>1, <2>2 DEF GrownAt, DepositStep, Moneys
    <2>7. balance' = balance + (ledger'[p] - ledger[p])
        BY <1>1, <1>3, <2>1
    <2> QED
        BY <1>0, <2>3, <2>4, <2>5, <2>6, <2>7, ReadsBook
<1>7. CASE Reads!Expire(p)
    <2> DEFINE s == IF row.status = "pending" THEN "expired" ELSE "underpaid_expired"
    <2>1. /\ row.status # "paid" /\ deposits' = deposits
          /\ webhooks' = webhooks /\ ledger' = ledger /\ balance' = balance /\ torn' = torn
          /\ payments' = [payments EXCEPT ![p].status = s]
        BY <1>7 DEF Reads!Expire
    <2>2. s \in Reads!Status /\ s # "paid"
        BY DEF Reads!Status
    <2> HIDE DEF s
    <2>3. /\ payments' \in [Billed -> [status : Reads!Status, confirmed : Moneys]]
          /\ \A x \in Billed \ {p} : payments'[x] = payments[x]
          /\ payments'[p].status = s /\ payments'[p].confirmed = row.confirmed
        BY <1>1, <2>1, <2>2, ReadsStatus
    <2>4. TablesTyped'
        BY <1>1, <2>1, <2>3 DEF TablesTyped
    <2>5. Elsewhere(p)
        BY <2>1, <2>3 DEF Elsewhere
    <2>6. Booked(p)'
        BY <1>1, <1>2, <2>1, <2>2, <2>3 DEF Booked
    <2>7. GrownAt(p)
        BY <1>1, <2>1 DEF GrownAt, Moneys
    <2>8. balance' = balance + (ledger'[p] - ledger[p])
        BY <1>1, <1>3, <2>1
    <2> QED
        BY <1>0, <2>4, <2>5, <2>6, <2>7, <2>8, ReadsBook
<1> QED
    BY <1>4, <1>5, <1>6, <1>7

\* A transaction changes no answer, and takes nothing back that one rests on.
LEMMA ReadsGrow ==
    ASSUME Reads!CNumbers, ReadsInv, TablesInv', Grown, UNCHANGED <<route, wave, got>>
    PROVE  ReadsInv'
<1>1. Waves'
    BY DEF ReadsInv, Waves
<1>2. \A p \in Billed : /\ deposits[p].confirmed \in Nat /\ deposits'[p].confirmed \in Nat
                        /\ ledger[p] \in 0..1 /\ ledger'[p] \in 0..1
                        /\ webhooks[p] \in Nat /\ webhooks'[p] \in Nat
    BY ReadsNumbers DEF ReadsInv, TablesInv, TablesTyped, Moneys
<1>3. SumFunctionOnSet(ledger, Billed) \in Int /\ SumFunctionOnSet(ledger', Billed) \in Int
    BY <1>2, ReadsNumbers, SumInt
<1>4. ASSUME DetailInv PROVE DetailInv'
    BY <1>2, <1>4 DEF DetailInv, Grown, Moneys
<1>5. ASSUME ClientInv PROVE ClientInv'
    BY <1>3, <1>5 DEF ClientInv, Grown
<1>6. ASSUME ListInv PROVE ListInv'
    BY <1>2, <1>6 DEF ListInv, Grown, Moneys
<1> QED
    BY <1>1, <1>4, <1>5, <1>6 DEF ReadsInv, AnswersInv

LEMMA RouteShape ==
    ASSUME NEW r \in DOMAIN Reads!Route
    PROVE  DOMAIN Reads!Route[r] = 1..Len(Reads!Route[r]) /\ Len(Reads!Route[r]) \in Nat \ {0}
<1> DEFINE Good(s) == DOMAIN s = 1..Len(s) /\ Len(s) \in Nat \ {0}
<1>1. r \in {"stats", "clients", "client", "list", "detail", "sweeps", "feed", "audit", "users"}
    BY DEF Reads!Route
<1>2. ASSUME NEW a PROVE Good(<<a>>)
    OBVIOUS
<1>3. ASSUME NEW a, NEW b PROVE Good(<<a, b>>)
    OBVIOUS
<1> HIDE DEF Good
<1>4. Good(Reads!Route["stats"])
    BY <1>2 DEF Reads!Route, Reads!stats
<1>5. Good(Reads!Route["clients"])
    BY <1>2 DEF Reads!Route, Reads!clients
<1>6. Good(Reads!Route["client"])
    BY <1>3 DEF Reads!Route, Reads!client
<1>7. Good(Reads!Route["list"])
    BY <1>3 DEF Reads!Route, Reads!list
<1>8. Good(Reads!Route["detail"])
    BY <1>3 DEF Reads!Route, Reads!detail
<1>9. Good(Reads!Route["sweeps"])
    BY <1>2 DEF Reads!Route, Reads!sweepsList
<1>10. Good(Reads!Route["feed"])
    BY <1>2 DEF Reads!Route, Reads!feed
<1>11. Good(Reads!Route["audit"])
    BY <1>2 DEF Reads!Route, Reads!auditTrail
<1>12. Good(Reads!Route["users"])
    BY <1>2 DEF Reads!Route, Reads!users
<1>13. Good(Reads!Route[r])
    BY <1>1, <1>4, <1>5, <1>6, <1>7, <1>8, <1>9, <1>10, <1>11, <1>12
<1> QED
    BY <1>13 DEF Good

LEMMA RouteWaves ==
    ASSUME NEW r \in DOMAIN Reads!Route, NEW w \in 1..Len(Reads!Route[r])
    PROVE  Reads!Route[r][w] \subseteq UNION Reads!Range(Reads!Route[r])
<1>1. DOMAIN Reads!Route[r] = 1..Len(Reads!Route[r])
    BY RouteShape
<1>2. Reads!Route[r][w] \in Reads!Range(Reads!Route[r])
    BY <1>1 DEF Reads!Range
<1> QED
    BY <1>2

LEMMA RouteQueries ==
    /\ Reads!Route["detail"] = <<{"row"}, {"deposits", "webhooks", "ledger"}>>
    /\ Reads!Route["client"] = <<{"clientRow"}, {"byStatus", "credited", "jobs", "trail"}>>
    /\ Reads!Route["list"] = <<{"rows", "pageTotal"}, {"tallies"}>>
    /\ Reads!Nobody \notin DOMAIN Reads!Route
    /\ Reads!Nobody # "detail" /\ Reads!Nobody # "client" /\ Reads!Nobody # "list"
BY DEF Reads!Route, Reads!detail, Reads!client, Reads!list, Reads!Nobody

LEMMA Asked ==
    /\ Reads!Answer("row") = payments /\ Reads!Answer("rows") = payments
    /\ Reads!Answer("deposits") = deposits /\ Reads!Answer("tallies") = deposits
    /\ Reads!Answer("ledger") = ledger /\ Reads!Answer("webhooks") = webhooks
    /\ Reads!Answer("clientRow") = balance
    /\ Reads!Answer("credited") = SumFunctionOnSet(ledger, Billed)
BY ReadsTotal DEF Reads!Answer, Reads!total

\* A query is one of the wave under way, and what was answered stays.
QueryOf(q) ==
    /\ route # Reads!Nobody /\ wave \in 1..Len(Reads!Route[route])
    /\ q \in Reads!Route[route][wave] /\ q \notin DOMAIN got
    /\ DOMAIN got' = DOMAIN got \cup {q}
    /\ got'[q] = Reads!Answer(q)
    /\ \A x \in DOMAIN got : got'[x] = got[x]

LEMMA ReadsQueried ==
    ASSUME Reads!CNumbers, ReadsInv, Reads!Query
    PROVE  (\E q : QueryOf(q)) /\ Waves'
<1>1. /\ route \in DOMAIN Reads!Route /\ wave \in Nat /\ wave > 0 /\ wave <= Len(Reads!Route[route])
      /\ DOMAIN got \subseteq UNION Reads!Range(Reads!Route[route])
      /\ \A w \in 1..Len(Reads!Route[route]) : w < wave => Reads!Route[route][w] \subseteq DOMAIN got
      /\ wave = 1 => DOMAIN got \subseteq Reads!Route[route][1]
      /\ route # Reads!Nobody
    BY DEF Reads!Query, ReadsInv, Waves
<1>2. Len(Reads!Route[route]) \in Nat
    BY <1>1, RouteShape
<1>3. wave \in 1..Len(Reads!Route[route])
    BY <1>1, <1>2
<1>4. PICK q \in Reads!due \ DOMAIN got :
          got' = [x \in DOMAIN got \cup {q} |-> IF x = q THEN Reads!Answer(q) ELSE got[x]]
    BY DEF Reads!Query
<1>5. /\ DOMAIN got' = DOMAIN got \cup {q}
      /\ got'[q] = Reads!Answer(q)
      /\ \A x \in DOMAIN got : got'[x] = got[x]
    BY <1>4
<1>6. QueryOf(q)
    BY <1>1, <1>3, <1>4, <1>5 DEF QueryOf, Reads!due
<1>7. route' = route /\ wave' = IF Reads!due \subseteq DOMAIN got' THEN wave + 1 ELSE wave
    BY DEF Reads!Query
<1>8. DOMAIN got' \subseteq UNION Reads!Range(Reads!Route[route])
    BY <1>1, <1>3, <1>4, <1>5, RouteWaves DEF Reads!due
<1>9. ASSUME NEW w \in 1..Len(Reads!Route[route]), w < wave'
      PROVE  Reads!Route[route][w] \subseteq DOMAIN got'
    <2>1. CASE w < wave
        BY <1>1, <1>5, <2>1
    <2>2. CASE w >= wave
        <3>1. w = wave /\ Reads!due \subseteq DOMAIN got'
            BY <1>1, <1>7, <1>9, <2>2
        <3> QED
            BY <3>1 DEF Reads!due
    <2> QED
        BY <1>1, <1>2, <2>1, <2>2
<1>10. wave' \in Nat /\ wave' > 0 /\ (wave' = 1 => wave = 1)
    BY <1>1, <1>7
<1>11. wave' = 1 => DOMAIN got' \subseteq Reads!Route[route][1]
    BY <1>1, <1>4, <1>5, <1>10 DEF Reads!due
<1>12. Waves'
    BY <1>1, <1>7, <1>8, <1>9, <1>10, <1>11 DEF Waves
<1> QED
    BY <1>6, <1>12

LEMMA ReadsQuery == ASSUME Reads!CNumbers, ReadsInv, Reads!Query PROVE ReadsInv'
<1>1. Waves'
    BY ReadsQueried
<1>2. PICK q : QueryOf(q)
    BY ReadsQueried
<1>3. UNCHANGED <<payments, deposits, ledger, webhooks, balance, torn, route>>
    BY DEF Reads!Query, Reads!tables
<1>4. TablesInv'
    BY <1>3 DEF ReadsInv, TablesInv, TablesTyped, Booked
<1>5. \A p \in Billed : /\ payments[p].confirmed \in Moneys
                        /\ deposits[p].waiting \in Nat /\ deposits[p].confirmed \in Nat
                        /\ p \notin torn => payments[p].confirmed <= deposits[p].confirmed
                        /\ payments[p].status = "paid" => ledger[p] = 1 /\ webhooks[p] > 0
    BY ReadsNumbers DEF ReadsInv, TablesInv, TablesTyped, Booked, Moneys
<1>6. \A w \in 1..Len(Reads!Route[route]) : w < wave => Reads!Route[route][w] \subseteq DOMAIN got
    BY <1>2 DEF ReadsInv, Waves, QueryOf
<1>7. wave = 1 => DOMAIN got \subseteq Reads!Route[route][1]
    BY <1>2 DEF ReadsInv, Waves, QueryOf
<1>8. /\ wave \in 1..Len(Reads!Route[route])
      /\ q \in Reads!Route[route][wave] /\ q \notin DOMAIN got
      /\ DOMAIN got' = DOMAIN got \cup {q}
      /\ got'[q] = Reads!Answer(q)
      /\ \A x \in DOMAIN got : got'[x] = got[x]
    BY <1>2 DEF QueryOf
<1>9. ASSUME route = "detail" PROVE DetailInv'
    <2>1. wave \in {1, 2} /\ Len(Reads!Route[route]) = 2
        BY <1>8, <1>9, RouteQueries
    <2>2. CASE wave = 1
        <3>1. q = "row" /\ DOMAIN got' = {"row"} /\ got'["row"] = payments
            BY <1>7, <1>8, <1>9, <2>2, RouteQueries, Asked
        <3> QED
            BY <1>3, <1>5, <3>1 DEF DetailInv
    <2>3. CASE wave = 2
        <3>1. "row" \in DOMAIN got /\ q \in {"deposits", "webhooks", "ledger"}
            BY <1>6, <1>8, <1>9, <2>1, <2>3, RouteQueries
        <3>2. DetailInv /\ got'["row"] = got["row"]
            BY <1>8, <1>9, <3>1 DEF ReadsInv, AnswersInv
        <3>3. CASE q = "deposits"
            BY <1>3, <1>8, <3>1, <3>2, <3>3, Asked DEF DetailInv
        <3>4. CASE q = "webhooks"
            BY <1>3, <1>8, <3>1, <3>2, <3>4, Asked DEF DetailInv
        <3>5. CASE q = "ledger"
            BY <1>3, <1>8, <3>1, <3>2, <3>5, Asked DEF DetailInv
        <3> QED
            BY <3>1, <3>3, <3>4, <3>5
    <2> QED
        BY <2>1, <2>2, <2>3
<1>10. ASSUME route = "client" PROVE ClientInv'
    <2>1. wave \in {1, 2} /\ Len(Reads!Route[route]) = 2
        BY <1>8, <1>10, RouteQueries
    <2>0. balance = SumFunctionOnSet(ledger, Billed) /\ balance \in Nat
        <3>1. \A p \in Billed : ledger[p] \in 0..1
            BY DEF ReadsInv, TablesInv, TablesTyped
        <3>2. SumFunctionOnSet(ledger, Billed) \in 0..Cardinality(Billed)
            BY <3>1, ReadsNumbers, SumAtMost
        <3>3. balance = SumFunctionOnSet(ledger, Billed)
            BY DEF ReadsInv, TablesInv
        <3> QED
            BY <3>2, <3>3
    <2>2. CASE wave = 1
        <3>1. q = "clientRow" /\ DOMAIN got' = {"clientRow"} /\ got'["clientRow"] = balance
            BY <1>7, <1>8, <1>10, <2>2, RouteQueries, Asked
        <3> QED
            BY <1>3, <2>0, <3>1 DEF ClientInv
    <2>3. CASE wave = 2
        <3>1. "clientRow" \in DOMAIN got /\ q \in {"byStatus", "credited", "jobs", "trail"}
            BY <1>6, <1>8, <1>10, <2>1, <2>3, RouteQueries
        <3>2. ClientInv /\ got'["clientRow"] = got["clientRow"]
            BY <1>8, <1>10, <3>1 DEF ReadsInv, AnswersInv
        <3>3. CASE q = "credited"
            BY <1>3, <1>8, <3>1, <3>2, <3>3, Asked DEF ClientInv
        <3>4. CASE q # "credited"
            BY <1>3, <1>8, <3>1, <3>2, <3>4 DEF ClientInv
        <3> QED
            BY <3>3, <3>4
    <2> QED
        BY <2>1, <2>2, <2>3
<1>11. ASSUME route = "list" PROVE ListInv'
    <2>1. wave \in {1, 2} /\ Len(Reads!Route[route]) = 2
        BY <1>8, <1>11, RouteQueries
    <2>2. CASE wave = 1
        <3>1. q \in {"rows", "pageTotal"} /\ DOMAIN got' \subseteq {"rows", "pageTotal"}
            BY <1>7, <1>8, <1>11, <2>2, RouteQueries
        <3>2. "tallies" \notin DOMAIN got'
            BY <3>1
        <3>3. CASE q = "rows"
            <4>1. got'["rows"] = payments
                BY <1>8, <3>3, Asked
            <4> QED
                BY <1>3, <1>5, <3>2, <4>1 DEF ListInv
        <3>4. CASE q # "rows"
            <4>1. "rows" \in DOMAIN got' => "rows" \in DOMAIN got /\ got'["rows"] = got["rows"]
                BY <1>8, <3>4
            <4> QED
                BY <1>3, <1>11, <3>2, <4>1 DEF ListInv, ReadsInv, AnswersInv
        <3> QED
            BY <3>3, <3>4
    <2>3. CASE wave = 2
        <3>1. "rows" \in DOMAIN got /\ q = "tallies"
            BY <1>6, <1>8, <1>11, <2>1, <2>3, RouteQueries
        <3>2. ListInv /\ got'["rows"] = got["rows"] /\ got'["tallies"] = deposits
            BY <1>8, <1>11, <3>1, Asked DEF ReadsInv, AnswersInv
        <3>3. ASSUME NEW p \in Billed, p \notin torn
              PROVE  got["rows"][p].confirmed <= deposits[p].waiting + deposits[p].confirmed
            <4>1. got["rows"][p].confirmed \in Nat /\ got["rows"][p].confirmed <= deposits[p].confirmed
                BY <3>1, <3>3, <3>2, ReadsNumbers DEF ListInv, Moneys
            <4> QED
                BY <1>5, <4>1
        <3> QED
            BY <1>3, <3>1, <3>2, <3>3 DEF ListInv
    <2> QED
        BY <2>1, <2>2, <2>3
<1> QED
    BY <1>1, <1>3, <1>4, <1>9, <1>10, <1>11 DEF ReadsInv, AnswersInv

LEMMA ReadsStep == ASSUME Reads!CNumbers, ReadsInv, [Reads!Next]_(Reads!vars) PROVE ReadsInv'
<1>1. ASSUME NEW p \in Billed,
             \/ Reads!Register(p) \/ Reads!Confirm(p) \/ Reads!ConfirmOther(p) \/ Reads!Unwind(p)
             \/ Reads!Expire(p)
      PROVE  ReadsInv'
    <2>1. TablesInv' /\ Grown /\ UNCHANGED <<route, wave, got>>
        BY <1>1, ReadsTransaction DEF ReadsInv
    <2> QED
        BY <2>1, ReadsGrow
<1>2. ASSUME UNCHANGED <<payments, deposits, ledger, webhooks, balance, torn>> PROVE TablesInv'
    BY <1>2 DEF ReadsInv, TablesInv, TablesTyped, Booked
<1>3. ASSUME NEW r \in DOMAIN Reads!Route, Reads!Ask(r) PROVE ReadsInv'
    <2>1. route' = r /\ wave' = 1 /\ got' = <<>>
          /\ UNCHANGED <<payments, deposits, ledger, webhooks, balance, torn>>
        BY <1>3 DEF Reads!Ask, Reads!tables
    <2>2. DOMAIN got' = {}
        BY <2>1
    <2>3. Waves'
        BY <2>1, <2>2 DEF Waves
    <2>4. AnswersInv'
        BY <2>2 DEF AnswersInv, DetailInv, ClientInv, ListInv
    <2> QED
        BY <1>2, <2>1, <2>3, <2>4 DEF ReadsInv
<1>4. CASE Reads!Query
    BY <1>4, ReadsQuery
<1>5. CASE Reads!Respond
    <2>1. route' = Reads!Nobody /\ wave' = 0 /\ UNCHANGED <<payments, deposits, ledger, webhooks, balance, torn>>
        BY <1>5 DEF Reads!Respond, Reads!tables
    <2> QED
        BY <1>2, <2>1, RouteQueries DEF ReadsInv, Waves, AnswersInv
<1>6. CASE UNCHANGED Reads!vars
    <2>1. UNCHANGED <<payments, deposits, ledger, webhooks, balance, torn, route, wave, got>>
        BY <1>6 DEF Reads!vars, Reads!tables
    <2> QED
        BY <1>2, <2>1 DEF ReadsInv, Waves, AnswersInv, DetailInv, ClientInv, ListInv
<1> QED
    BY <1>1, <1>3, <1>4, <1>5, <1>6 DEF Reads!Next

LEMMA AnswersHold == ASSUME ReadsInv PROVE Reads!AnswersAddUp
<1> SUFFICES ASSUME Reads!answered PROVE
        /\ route = "detail" => \A p \in Billed :
               /\ got.row[p].status = "paid" => got.ledger[p] = 1 /\ got.webhooks[p] > 0
               /\ p \notin torn => got.row[p].confirmed <= got.deposits[p].confirmed
        /\ route = "client" => got.credited >= got.clientRow
        /\ route = "list" => \A p \in Billed \ torn :
               got.rows[p].confirmed <= got.tallies[p].waiting + got.tallies[p].confirmed
    BY DEF Reads!AnswersAddUp
<1>1. \A w \in 1..Len(Reads!Route[route]) : w < wave => Reads!Route[route][w] \subseteq DOMAIN got
    BY DEF ReadsInv, Waves, Reads!answered
<1>2. wave \in Nat /\ wave > Len(Reads!Route[route])
    BY DEF ReadsInv, Waves, Reads!answered
<1>3. ASSUME route = "detail" PROVE \A p \in Billed :
               /\ got.row[p].status = "paid" => got.ledger[p] = 1 /\ got.webhooks[p] > 0
               /\ p \notin torn => got.row[p].confirmed <= got.deposits[p].confirmed
    <2>1. Len(Reads!Route[route]) = 2 /\ wave > 2
        BY <1>2, <1>3, RouteQueries
    <2>2. {"row", "deposits", "webhooks", "ledger"} \subseteq DOMAIN got
        BY <1>1, <1>2, <1>3, <2>1, RouteQueries
    <2> QED
        BY <1>3, <2>2 DEF ReadsInv, AnswersInv, DetailInv
<1>4. ASSUME route = "client" PROVE got.credited >= got.clientRow
    <2>1. Len(Reads!Route[route]) = 2 /\ wave > 2
        BY <1>2, <1>4, RouteQueries
    <2>2. {"clientRow", "credited"} \subseteq DOMAIN got
        BY <1>1, <1>2, <1>4, <2>1, RouteQueries
    <2> QED
        BY <1>4, <2>2 DEF ReadsInv, AnswersInv, ClientInv
<1>5. ASSUME route = "list" PROVE \A p \in Billed \ torn :
               got.rows[p].confirmed <= got.tallies[p].waiting + got.tallies[p].confirmed
    <2>1. Len(Reads!Route[route]) = 2 /\ wave > 2
        BY <1>2, <1>5, RouteQueries
    <2>2. {"rows", "tallies"} \subseteq DOMAIN got
        BY <1>1, <1>2, <1>5, <2>1, RouteQueries
    <2> QED
        BY <1>5, <2>2 DEF ReadsInv, AnswersInv, ListInv
<1> QED
    BY <1>3, <1>4, <1>5

-----------------------------------------------------------------------------
(* Browser: ConsoleClient. *)

\* What is still in flight when its operator has signed out lands in a locked page.
Settled ==
    signedOut => /\ sessionExpired /\ ~cache /\ ~keys /\ ~revealed
                 /\ \A f \in Fetch : fetched[f].pc # "idle" => ~fetched[f].live

BrowserShape ==
    /\ valid \in BOOLEAN /\ sessionExpired \in BOOLEAN /\ cache \in BOOLEAN /\ keys \in BOOLEAN
    /\ revealed \in BOOLEAN /\ pending \in BOOLEAN /\ attached \in BOOLEAN /\ signedOut \in BOOLEAN
    /\ me \in {"none", "error", "in", "out"}
    /\ meReq \in Browser!Reply /\ write \in Browser!Reply /\ login \in Browser!Reply
    /\ logout \in {"idle", "sent", "answered"}
    /\ fetched \in [Fetch -> [pc : Browser!Reply, live : BOOLEAN]]

BrowserInv == BrowserShape /\ Settled

LEMMA BrowserTyped == /\ Browser!TypeOK <=> BrowserShape /\ faults \in 0..PageFaults
                      /\ Browser!TypeOK' <=> BrowserShape' /\ faults' \in 0..PageFaults
BY DEF Browser!TypeOK, BrowserShape

LEMMA BrowserFaults ==
    ASSUME PageFaults \in Nat, faults \in 0..PageFaults, [Browser!Next]_(Browser!vars)
    PROVE  faults' \in 0..PageFaults
<1>1. CASE UNCHANGED faults
    BY <1>1
<1>2. CASE Browser!Fault
    BY <1>2 DEF Browser!Fault
<1> QED
    BY <1>1, <1>2
    DEF Browser!Next, Browser!vars, Browser!MeStep, Browser!FormStep, Browser!WriteStep,
        Browser!SignOutStep, Browser!Answer, Browser!Read, Browser!ReadAnswered, Browser!ReadLands,
        Browser!Rotate, Browser!RotateAnswered, Browser!RotateLands, Browser!Dismiss, Browser!HoldKey,
        Browser!RefetchMe, Browser!MeAnswered, Browser!MeLands, Browser!Submit, Browser!LoginAnswered,
        Browser!SignedIn, Browser!Refused, Browser!SignOut, Browser!LogoutAnswered,
        Browser!LogoutReturns, Browser!Lapse, Browser!Reload

LEMMA BrowserInit == ASSUME Browser!Init PROVE BrowserInv
BY DEF Browser!Init, BrowserInv, Settled, BrowserShape, Browser!Reply, Browser!NoFetch

LEMMA BrowserFetch ==
    ASSUME BrowserInv, NEW f \in Fetch,
           Browser!Read(f) \/ Browser!ReadAnswered(f) \/ Browser!ReadLands(f)
    PROVE  BrowserInv'
<1> USE DEF BrowserInv, Settled, BrowserShape, Browser!Reply, Browser!held, Browser!console,
            Browser!locked, Browser!blank, Browser!Answer
<1>1. CASE Browser!Read(f)
    BY <1>1 DEF Browser!Read
<1>2. CASE Browser!ReadAnswered(f)
    BY <1>2 DEF Browser!ReadAnswered
<1>3. CASE Browser!ReadLands(f)
    BY <1>3 DEF Browser!ReadLands
<1> QED
    BY <1>1, <1>2, <1>3

LEMMA BrowserStep ==
    ASSUME BrowserInv, [Browser!Next]_(Browser!vars)
    PROVE  BrowserInv'
<1>1. CASE \E f \in Fetch : Browser!Read(f) \/ Browser!ReadAnswered(f) \/ Browser!ReadLands(f)
    BY <1>1, BrowserFetch
<1> USE DEF BrowserInv, Settled, BrowserShape, Browser!Reply, Browser!held, Browser!console,
            Browser!locked, Browser!blank, Browser!Answer, Browser!requests
<1>2. CASE Browser!Rotate
    BY <1>2 DEF Browser!Rotate
<1>3. CASE Browser!RotateAnswered
    BY <1>3 DEF Browser!RotateAnswered
<1>4. CASE Browser!RotateLands
    <2>1. BrowserShape'
        <3>1. write' \in Browser!Reply /\ sessionExpired' \in BOOLEAN /\ revealed' \in BOOLEAN
            BY <1>4 DEF Browser!RotateLands
        <3> QED
            BY <1>4, <3>1 DEF Browser!RotateLands
    <2>2. Settled'
        BY <1>4 DEF Browser!RotateLands
    <2> QED  BY <2>1, <2>2
<1>5. CASE Browser!Dismiss
    <2>1. BrowserShape'
        <3>1. revealed' \in BOOLEAN
            BY <1>5 DEF Browser!Dismiss
        <3> QED
            BY <1>5, <3>1 DEF Browser!Dismiss
    <2>2. Settled'
        BY <1>5 DEF Browser!Dismiss
    <2> QED  BY <2>1, <2>2
<1>6. CASE Browser!HoldKey
    BY <1>6 DEF Browser!HoldKey
<1>7. CASE Browser!RefetchMe
    BY <1>7 DEF Browser!RefetchMe
<1>8. CASE Browser!MeAnswered
    BY <1>8 DEF Browser!MeAnswered
<1>9. CASE Browser!MeLands
    BY <1>9 DEF Browser!MeLands, Browser!loginForm
<1>10. CASE Browser!Submit
    BY <1>10 DEF Browser!Submit
<1>11. CASE Browser!LoginAnswered
    <2>1. BrowserShape'
        <3>1. login' \in Browser!Reply /\ valid' \in BOOLEAN
            BY <1>11 DEF Browser!LoginAnswered
        <3> QED
            BY <1>11, <3>1 DEF Browser!LoginAnswered
    <2>2. Settled'
        BY <1>11 DEF Browser!LoginAnswered
    <2> QED  BY <2>1, <2>2
<1>12. CASE Browser!SignedIn
    BY <1>12 DEF Browser!SignedIn, Browser!loginForm
<1>13. CASE Browser!Refused
    <2>1. BrowserShape'
        <3>1. login' \in Browser!Reply /\ pending' \in BOOLEAN
            BY <1>13 DEF Browser!Refused
        <3> QED
            BY <1>13, <3>1 DEF Browser!Refused
    <2>2. Settled'
        BY <1>13 DEF Browser!Refused
    <2> QED  BY <2>1, <2>2
<1>14. CASE Browser!SignOut
    BY <1>14 DEF Browser!SignOut
<1>15. CASE Browser!LogoutAnswered
    <2>1. BrowserShape'
        <3>1. logout' \in {"idle", "sent", "answered"} /\ valid' \in BOOLEAN
            BY <1>15 DEF Browser!LogoutAnswered
        <3> QED
            BY <1>15, <3>1 DEF Browser!LogoutAnswered
    <2>2. Settled'
        BY <1>15 DEF Browser!LogoutAnswered
    <2> QED  BY <2>1, <2>2
<1>16. CASE Browser!LogoutReturns
    BY <1>16 DEF Browser!LogoutReturns, Browser!locks
<1>17. CASE Browser!Lapse
    <2>1. BrowserShape'
        <3>1. valid' \in BOOLEAN
            BY <1>17 DEF Browser!Lapse
        <3> QED
            BY <1>17, <3>1 DEF Browser!Lapse
    <2>2. Settled'
        BY <1>17 DEF Browser!Lapse
    <2> QED  BY <2>1, <2>2
<1>18. CASE Browser!Reload
    BY <1>18 DEF Browser!Reload, Browser!NoFetch
<1>19. CASE UNCHANGED Browser!vars
    BY <1>19 DEF Browser!vars
<1> QED
    BY <1>1, <1>2, <1>3, <1>4, <1>5, <1>6, <1>7, <1>8, <1>9, <1>10, <1>11, <1>12, <1>13, <1>14,
       <1>15, <1>16, <1>17, <1>18, <1>19
    DEF Browser!Next, Browser!MeStep, Browser!FormStep, Browser!WriteStep, Browser!SignOutStep

LEMMA CleanOut == ASSUME BrowserInv PROVE Browser!SignedOutIsClean
BY DEF BrowserInv, Settled, Browser!SignedOutIsClean

-----------------------------------------------------------------------------
(* Holdings: WalletOverview. *)

\* One of the calls in progress, and its reads.
ReadsType == [Funded -> [Holdings!Role -> 0..MaxTime \cup {Holdings!Blank, Holdings!Waiting}]]
AskType == [pc : {"idle", "asked"}, at : 0..MaxTime, oldest : 0..MaxTime, reads : ReadsType,
            due : SUBSET Funded]
EntryType == [at : -1..MaxTime, wallets : Holdings!Wallets]

\* No balance in an entry is older than the entry says.
Dated(entry) ==
    entry # Holdings!NoEntry =>
        /\ entry.at \in 0..now
        /\ \A r \in Holdings!Role : entry.wallets[r] # Holdings!Blank => entry.wallets[r] >= entry.at

\* What a call has is no older than it will say; what it still reads is younger than itself.
Faithful(c) ==
    /\ c.pc = "idle" => c.due = {}
    /\ c.pc = "asked" =>
        /\ c.at <= now /\ c.oldest <= c.at
        /\ c.oldest > c.at - CacheTtl \/ c.oldest = c.at
        /\ \A n \in Funded, r \in Holdings!Role :
              /\ n \notin c.due => c.reads[n][r] = Holdings!Blank \/ c.reads[n][r] >= c.oldest
              /\ n \in c.due => c.reads[n][r] \in {Holdings!Blank, Holdings!Waiting} \/ c.reads[n][r] >= c.at

HoldingsInv ==
    /\ Holdings!TypeOK
    /\ \A n \in Funded : Dated(cache[n])
    /\ \A k \in Call : Faithful(call[k])

LEMMA HoldingsTyped == Holdings!TypeOK <=> /\ now \in 0..MaxTime
    /\ settings \in [credential : SUBSET Funded, addressed : SUBSET Holdings!Role]
    /\ cache \in [Funded -> EntryType] /\ call \in [Call -> AskType] /\ faults \in 0..MaxFaults
BY DEF Holdings!TypeOK, EntryType, AskType, ReadsType

LEMMA HoldingsTypedNext == Holdings!TypeOK' <=> /\ now' \in 0..MaxTime
    /\ settings' \in [credential : SUBSET Funded, addressed : SUBSET Holdings!Role]
    /\ cache' \in [Funded -> EntryType] /\ call' \in [Call -> AskType] /\ faults' \in 0..MaxFaults
BY DEF Holdings!TypeOK, EntryType, AskType, ReadsType

LEMMA HoldingsNumbers ==
    ASSUME Holdings!WNumbers
    PROVE  CacheTtl \in Nat /\ MaxTime \in Nat /\ MaxFaults \in Nat
BY DEF Holdings!WNumbers

LEMMA Blanks == /\ Holdings!Blank = -1 /\ Holdings!Waiting = -2
                /\ Holdings!Empty \in Holdings!Wallets
                /\ \A r \in Holdings!Role : Holdings!Empty[r] = Holdings!Blank
BY DEF Holdings!Blank, Holdings!Waiting, Holdings!Empty, Holdings!Wallets

LEMMA HoldingsInit == ASSUME Holdings!WNumbers, Holdings!Init PROVE HoldingsInv
<1>1. Holdings!NoEntry \in EntryType /\ Holdings!Idle \in AskType /\ Faithful(Holdings!Idle)
    BY HoldingsNumbers, Blanks
    DEF Holdings!NoEntry, Holdings!Idle, EntryType, AskType, ReadsType, Faithful, Holdings!Wallets
<1>2. Dated(Holdings!NoEntry)
    BY DEF Dated
<1>3. now \in 0..MaxTime /\ faults \in 0..MaxFaults
    BY HoldingsNumbers DEF Holdings!Init
<1> QED
    BY <1>1, <1>2, <1>3, HoldingsTyped DEF Holdings!Init, HoldingsInv

\* One entry and one call change, if anything.
LEMMA HoldingsChange ==
    ASSUME HoldingsInv, Holdings!TypeOK', UNCHANGED now,
           \A n \in Funded : cache'[n] # cache[n] => Dated(cache'[n]),
           \A k \in Call : call'[k] # call[k] => Faithful(call'[k])
    PROVE  HoldingsInv'
BY DEF HoldingsInv, Dated, Faithful

LEMMA TickKeeps ==
    ASSUME Holdings!WNumbers, HoldingsInv, Holdings!Tick
    PROVE  HoldingsInv'
<1>1. now \in 0..MaxTime /\ now' = now + 1 /\ now' \in 0..MaxTime /\ MaxTime \in Nat
    BY HoldingsNumbers, HoldingsTyped DEF HoldingsInv, Holdings!Tick
<1>2. UNCHANGED <<settings, cache, call, faults>>
    BY DEF Holdings!Tick
<1>3. Holdings!TypeOK'
    BY <1>1, <1>2, HoldingsTyped, HoldingsTypedNext DEF HoldingsInv
<1>4. ASSUME NEW n \in Funded PROVE Dated(cache[n])'
    BY <1>1, <1>2 DEF HoldingsInv, Dated
<1>5. ASSUME NEW k \in Call PROVE Faithful(call[k])'
    <2>1. call[k].at \in 0..MaxTime /\ Faithful(call[k])
        BY HoldingsTyped DEF HoldingsInv, AskType
    <2> QED
        BY <1>1, <1>2, <2>1 DEF Faithful
<1> QED
    BY <1>3, <1>4, <1>5 DEF HoldingsInv

\* Of the ages a call uses there is an oldest one, of its own time or within the TTL.
LEMMA OldestUsed ==
    ASSUME NEW used \in SUBSET Nat, used # {}
    PROVE  LET t == CHOOSE t \in used : \A u \in used : t <= u
           IN  t \in used /\ \A u \in used : t <= u
<1>1. \E t \in used : \A u \in used : t <= u
    BY LeastNat
<1> QED
    BY <1>1

LEMMA OverviewKeeps ==
    ASSUME Holdings!WNumbers, HoldingsInv, NEW k \in Call, Holdings!walletOverview(k)
    PROVE  HoldingsInv'
<1> DEFINE hits == {n \in Funded : Holdings!hit(n)}
           read == (Funded \ hits) \cap settings.credential
           toRead == [r \in Holdings!Role |-> IF r \in settings.addressed THEN Holdings!Waiting
                                              ELSE Holdings!Blank]
           used == {now} \cup {cache[n].at : n \in hits}
           oldest == CHOOSE t \in used : \A u \in used : t <= u
           reads == [n \in Funded |-> IF n \in read THEN toRead
                                      ELSE IF n \in hits THEN cache[n].wallets ELSE Holdings!Empty]
           asked == [pc |-> "asked", at |-> now, oldest |-> oldest, reads |-> reads, due |-> read]
           blank == [at |-> now, wallets |-> Holdings!Empty]
<1>1. /\ call' = [call EXCEPT ![k] = asked]
      /\ cache' = [n \in Funded |-> IF n \in hits \cup read THEN cache[n] ELSE blank]
      /\ UNCHANGED <<now, settings, faults>>
    BY DEF Holdings!walletOverview
<1>2. /\ now \in 0..MaxTime /\ cache \in [Funded -> EntryType] /\ call \in [Call -> AskType]
      /\ \A n \in Funded : Dated(cache[n])
      /\ CacheTtl \in Nat /\ MaxTime \in Nat
    BY HoldingsTyped, HoldingsNumbers DEF HoldingsInv
<1>3. \A n \in hits : /\ cache[n].at \in 0..now /\ now - cache[n].at < CacheTtl
                      /\ cache[n].wallets \in Holdings!Wallets
                      /\ \A r \in Holdings!Role : cache[n].wallets[r] # Holdings!Blank
                            => cache[n].wallets[r] >= cache[n].at
    BY <1>2 DEF Holdings!hit, Dated, EntryType
<1>4. used \in SUBSET Nat /\ now \in used
    BY <1>2, <1>3
<1>5. oldest \in used /\ \A u \in used : oldest <= u
    BY <1>4, OldestUsed
<1>6. oldest \in 0..MaxTime /\ oldest <= now /\ (oldest > now - CacheTtl \/ oldest = now)
    <2>1. oldest \in Nat /\ oldest <= now
        BY <1>4, <1>5
    <2>2. oldest # now => \E n \in hits : oldest = cache[n].at
        BY <1>5
    <2> HIDE DEF oldest, used, hits
    <2>3. ASSUME NEW n \in hits, oldest = cache[n].at PROVE oldest > now - CacheTtl
        BY <1>2, <1>3, <2>1, <2>3
    <2> QED
        BY <1>2, <2>1, <2>2, <2>3
<1>7. \A n \in hits : oldest <= cache[n].at
    BY <1>5
<1> HIDE DEF oldest, used
<1>8. toRead \in [Holdings!Role -> 0..MaxTime \cup {Holdings!Blank, Holdings!Waiting}]
    OBVIOUS
<1>9. reads \in ReadsType
    BY <1>3, <1>8, Blanks DEF ReadsType, Holdings!Wallets
<1>10. read \in SUBSET Funded /\ read \cap hits = {}
    OBVIOUS
<1>11. \A n \in Funded, r \in Holdings!Role :
          /\ n \notin read => reads[n][r] = Holdings!Blank \/ reads[n][r] >= oldest
          /\ n \in read => reads[n][r] \in {Holdings!Blank, Holdings!Waiting}
    <2> SUFFICES ASSUME NEW n \in Funded, NEW r \in Holdings!Role
                 PROVE  /\ n \notin read => reads[n][r] = Holdings!Blank \/ reads[n][r] >= oldest
                        /\ n \in read => reads[n][r] \in {Holdings!Blank, Holdings!Waiting}
        OBVIOUS
    <2>1. CASE n \in read
        BY <2>1
    <2>2. CASE n \in hits
        <3>1. reads[n] = cache[n].wallets
            BY <1>10, <2>2
        <3>2. cache[n].wallets[r] \in 0..MaxTime \cup {Holdings!Blank}
            BY <1>3, <2>2 DEF Holdings!Wallets
        <3>3. cache[n].wallets[r] # Holdings!Blank => cache[n].wallets[r] >= oldest
            BY <1>2, <1>3, <1>6, <1>7, <2>2, <3>2, Blanks
        <3> QED
            BY <1>10, <2>2, <3>1, <3>3
    <2>3. CASE n \notin read /\ n \notin hits
        BY <2>3, Blanks
    <2> QED
        BY <2>1, <2>2, <2>3
<1> HIDE DEF reads, read, hits
<1>12. asked \in AskType
    BY <1>2, <1>6, <1>9, <1>10 DEF AskType
<1>13. Faithful(asked)
    BY <1>2, <1>6, <1>11 DEF Faithful
<1>14. blank \in EntryType /\ Dated(blank)
    BY <1>2, Blanks DEF EntryType, Dated
<1> HIDE DEF asked, blank
<1>15. Holdings!TypeOK'
    BY <1>1, <1>2, <1>12, <1>14, HoldingsTyped, HoldingsTypedNext DEF HoldingsInv
<1>16. \A n \in Funded : cache'[n] # cache[n] => cache'[n] = blank
    BY <1>1, <1>2
<1>17. \A j \in Call : call'[j] # call[j] => call'[j] = asked
    BY <1>1, <1>2
<1> QED
    BY <1>1, <1>13, <1>14, <1>15, <1>16, <1>17, HoldingsChange

LEMMA ReadWalletKeeps ==
    ASSUME Holdings!WNumbers, HoldingsInv, NEW k \in Call, NEW n \in Funded, NEW r \in Holdings!Role,
           Holdings!readWallet(k, n, r)
    PROVE  HoldingsInv'
<1> DEFINE wallets == [call[k].reads[n] EXCEPT ![r] = now]
           reads == [call[k].reads EXCEPT ![n] = wallets]
           c == [call[k] EXCEPT !.reads = reads]
<1>1. /\ now \in 0..MaxTime /\ call[k] \in AskType /\ call[k].reads \in ReadsType
      /\ call[k].reads[n] \in [Holdings!Role -> 0..MaxTime \cup {Holdings!Blank, Holdings!Waiting}]
      /\ call \in [Call -> AskType] /\ Faithful(call[k])
      /\ n \in call[k].due /\ MaxTime \in Nat
    BY HoldingsTyped, HoldingsNumbers DEF HoldingsInv, AskType, ReadsType, Holdings!readWallet
<1>2. call' = [call EXCEPT ![k] = c] /\ UNCHANGED <<now, settings, cache, faults>>
    BY <1>1 DEF Holdings!readWallet
<1>3. wallets \in [Holdings!Role -> 0..MaxTime \cup {Holdings!Blank, Holdings!Waiting}]
    BY <1>1
<1>4. reads \in ReadsType
    BY <1>1, <1>3 DEF ReadsType
<1>5. \A m \in Funded, q \in Holdings!Role :
          reads[m][q] = IF m = n /\ q = r THEN now ELSE call[k].reads[m][q]
    BY <1>1, <1>3 DEF ReadsType
<1> HIDE DEF reads, wallets
<1>6. c \in AskType
    BY <1>1, <1>4 DEF AskType
<1>7. c.pc = call[k].pc /\ c.at = call[k].at /\ c.oldest = call[k].oldest /\ c.due = call[k].due
      /\ c.reads = reads
    BY <1>1 DEF AskType
<1> HIDE DEF c
<1>8. Faithful(c)
    BY <1>1, <1>5, <1>7 DEF Faithful, AskType
<1>9. Holdings!TypeOK'
    BY <1>1, <1>2, <1>6, HoldingsTyped, HoldingsTypedNext DEF HoldingsInv
<1> QED
    BY <1>1, <1>2, <1>8, <1>9, HoldingsChange

\* readNetwork and its failure: the entry gets the time of the call, and what that has read.
LEMMA EnterKeeps ==
    ASSUME Holdings!WNumbers, HoldingsInv, NEW k \in Call, NEW n \in Funded, NEW wallets,
           n \in call[k].due, wallets \in Holdings!Wallets,
           \A r \in Holdings!Role : wallets[r] # Holdings!Blank => wallets[r] >= call[k].at,
           Holdings!Enter(k, n, wallets), faults' \in 0..MaxFaults
    PROVE  HoldingsInv'
<1> DEFINE entry == [at |-> call[k].at, wallets |-> wallets]
           reads == [call[k].reads EXCEPT ![n] = wallets]
           c == [call[k] EXCEPT !.reads = reads, !.due = @ \ {n}]
<1>1. /\ now \in 0..MaxTime /\ call[k] \in AskType /\ call[k].reads \in ReadsType
      /\ call[k].at \in 0..MaxTime /\ call[k].oldest \in 0..MaxTime
      /\ call \in [Call -> AskType] /\ cache \in [Funded -> EntryType] /\ Faithful(call[k])
      /\ MaxTime \in Nat /\ call[k].pc = "asked"
    BY HoldingsTyped, HoldingsNumbers DEF HoldingsInv, AskType, Faithful
<1>2. call' = [call EXCEPT ![k] = c] /\ cache' = [cache EXCEPT ![n] = entry] /\ UNCHANGED <<now, settings>>
    BY <1>1 DEF Holdings!Enter, Holdings!stamp
<1>3. wallets \in [Holdings!Role -> 0..MaxTime \cup {Holdings!Blank, Holdings!Waiting}]
    BY DEF Holdings!Wallets
<1>4. reads \in ReadsType
    BY <1>1, <1>3 DEF ReadsType
<1>5. \A m \in Funded : reads[m] = IF m = n THEN wallets ELSE call[k].reads[m]
    BY <1>1 DEF ReadsType
<1> HIDE DEF reads
<1>6. c \in AskType
    BY <1>1, <1>4 DEF AskType
<1>7. c.pc = "asked" /\ c.at = call[k].at /\ c.oldest = call[k].oldest /\ c.due = call[k].due \ {n}
      /\ c.reads = reads
    BY <1>1 DEF AskType
<1> HIDE DEF c
<1>8. \A r \in Holdings!Role : wallets[r] = Holdings!Blank \/ wallets[r] >= call[k].oldest
    <2> SUFFICES ASSUME NEW r \in Holdings!Role, wallets[r] # Holdings!Blank
                 PROVE  wallets[r] >= call[k].oldest
        OBVIOUS
    <2>1. wallets[r] >= call[k].at /\ wallets[r] \in 0..MaxTime
        BY DEF Holdings!Wallets
    <2>2. call[k].oldest <= call[k].at
        BY <1>1 DEF Faithful
    <2> QED
        BY <1>1, <2>1, <2>2
<1>9. Faithful(c)
    BY <1>1, <1>5, <1>7, <1>8 DEF Faithful
<1>10. entry \in EntryType /\ Dated(entry)
    BY <1>1 DEF EntryType, Dated, Faithful
<1> HIDE DEF entry
<1>11. Holdings!TypeOK'
    BY <1>1, <1>2, <1>6, <1>10, HoldingsTyped, HoldingsTypedNext DEF HoldingsInv
<1> QED
    BY <1>1, <1>2, <1>9, <1>10, <1>11, HoldingsChange

LEMMA HoldingsStep ==
    ASSUME Holdings!WNumbers, HoldingsInv, [Holdings!Next]_(Holdings!vars)
    PROVE  HoldingsInv'
<1>1. CASE Holdings!Tick
    BY <1>1, TickKeeps
<1>2. ASSUME NEW k \in Call, Holdings!walletOverview(k) PROVE HoldingsInv'
    BY <1>2, OverviewKeeps
<1>3. ASSUME NEW k \in Call, Holdings!Answer(k) PROVE HoldingsInv'
    <2>1. Holdings!Idle \in AskType /\ Faithful(Holdings!Idle)
        BY HoldingsNumbers, Blanks DEF Holdings!Idle, AskType, ReadsType, Faithful, Holdings!Wallets
    <2>2. Holdings!TypeOK'
        BY <1>3, <2>1, HoldingsTyped, HoldingsTypedNext DEF HoldingsInv, Holdings!Answer
    <2> QED
        BY <1>3, <2>1, <2>2, HoldingsTyped, HoldingsChange DEF HoldingsInv, Holdings!Answer
<1>4. ASSUME NEW k \in Call, NEW n \in Funded, Holdings!readNetwork(k, n) PROVE HoldingsInv'
    <2> DEFINE wallets == call[k].reads[n]
    <2>1. /\ wallets \in [Holdings!Role -> 0..MaxTime \cup {Holdings!Blank, Holdings!Waiting}]
          /\ n \in call[k].due /\ \A r \in Holdings!Role : wallets[r] # Holdings!Waiting
          /\ Holdings!Enter(k, n, wallets) /\ faults' \in 0..MaxFaults
          /\ Faithful(call[k]) /\ call[k].pc \in {"idle", "asked"}
        BY <1>4, HoldingsTyped DEF HoldingsInv, AskType, ReadsType, Holdings!readNetwork
    <2>2. \A r \in Holdings!Role : wallets[r] # Holdings!Blank => wallets[r] >= call[k].at
        BY <2>1 DEF Faithful
    <2>3. wallets \in Holdings!Wallets
        BY <2>1 DEF Holdings!Wallets
    <2> QED
        BY <2>1, <2>2, <2>3, EnterKeeps
<1>5. ASSUME NEW k \in Call, NEW n \in Funded, Holdings!ReadFails(k, n) PROVE HoldingsInv'
    <2>1. faults' \in 0..MaxFaults
        BY <1>5, HoldingsTyped, HoldingsNumbers DEF HoldingsInv, Holdings!ReadFails
    <2> QED
        BY <1>5, <2>1, Blanks, EnterKeeps DEF Holdings!ReadFails
<1>6. ASSUME NEW k \in Call, NEW n \in Funded, NEW r \in Holdings!Role, Holdings!readWallet(k, n, r)
      PROVE  HoldingsInv'
    BY <1>6, ReadWalletKeeps
<1>7. CASE UNCHANGED Holdings!vars
    BY <1>7, HoldingsTyped, HoldingsTypedNext, HoldingsChange DEF HoldingsInv, Holdings!vars
<1> QED
    BY <1>1, <1>2, <1>3, <1>4, <1>5, <1>6, <1>7 DEF Holdings!Next

LEMMA HonestAge == HoldingsInv => Holdings!AgeIsHonest
<1> SUFFICES ASSUME HoldingsInv, NEW k \in Call, Holdings!answered(k)
             PROVE  /\ call[k].oldest > call[k].at - CacheTtl \/ call[k].oldest = call[k].at
                    /\ \A n \in Funded, r \in Holdings!Role :
                          call[k].reads[n][r] # Holdings!Blank => call[k].reads[n][r] >= call[k].oldest
    BY DEF Holdings!AgeIsHonest
<1> QED
    BY DEF HoldingsInv, Faithful, Holdings!answered

-----------------------------------------------------------------------------
(* Process: Boot. *)

LEMMA ProcessInit == ASSUME Process!BNumbers, Process!Init PROVE Process!TypeOK
BY DEF Process!BNumbers, Process!Init, Process!TypeOK, Process!Phase, Process!Off

LEMMA ProcessStep ==
    ASSUME Process!BNumbers, Process!TypeOK, [Process!Next]_(Process!vars)
    PROVE  Process!TypeOK'
<1>1. /\ env \in Process!Env /\ phase \in Process!Phase /\ answering \subseteq Network
      /\ timer \in [Network -> -1..MaxRetry] /\ retry \in [Network -> 1..MaxRetry]
      /\ running \subseteq Network /\ MaxRetry \in Nat \ {0}
    BY DEF Process!TypeOK, Process!Off, Process!BNumbers
<1>2. CASE UNCHANGED Process!vars
    BY <1>2 DEF Process!TypeOK, Process!vars
<1>3. CASE Process!preflight \/ Process!assertSeedIdentity \/ Process!Drained \/ Process!Signal
    <2>1. phase' \in Process!Phase /\ UNCHANGED <<env, answering, timer, retry, running>>
        BY <1>3 DEF Process!preflight, Process!assertSeedIdentity, Process!Drained, Process!Signal,
                    Process!Phase
    <2> QED
        BY <2>1 DEF Process!TypeOK
<1>4. CASE Process!superviseNetworks
    <2>1. timer' \in [Network -> -1..MaxRetry] /\ phase' \in Process!Phase
          /\ UNCHANGED <<env, answering, retry, running>>
        BY <1>1, <1>4 DEF Process!superviseNetworks, Process!Off, Process!Phase
    <2> QED
        BY <1>1, <2>1 DEF Process!TypeOK, Process!Off
<1>5. CASE Process!Tick
    <2>1. timer' = [n \in Network |-> IF timer[n] > 0 THEN timer[n] - 1 ELSE timer[n]]
          /\ UNCHANGED <<env, phase, answering, retry, running>>
        BY <1>5 DEF Process!Tick
    <2>2. timer' \in [Network -> -1..MaxRetry]
        BY <1>1, <2>1
    <2> QED
        BY <1>1, <2>1, <2>2 DEF Process!TypeOK, Process!Off
<1>6. ASSUME NEW n \in Network, Process!ProbeAnswers(n) PROVE Process!TypeOK'
    BY <1>1, <1>6 DEF Process!ProbeAnswers, Process!TypeOK, Process!Off
<1>7. ASSUME NEW n \in Network, Process!ProbeFails(n) PROVE Process!TypeOK'
    <2>1. retry[n] \in 1..MaxRetry
        BY <1>1
    <2>2. Process!armed(n) \in -1..MaxRetry /\ Process!doubled(n) \in 1..MaxRetry
        BY <1>1, <2>1 DEF Process!armed, Process!doubled
    <2>3. timer' \in [Network -> -1..MaxRetry] /\ retry' \in [Network -> 1..MaxRetry]
          /\ UNCHANGED <<env, phase, answering, running>>
        BY <1>1, <1>7, <2>2 DEF Process!ProbeFails
    <2> QED
        BY <1>1, <2>3 DEF Process!TypeOK, Process!Off
<1>8. ASSUME NEW n \in Network, Process!Flap(n) PROVE Process!TypeOK'
    <2>1. answering' \subseteq Network /\ UNCHANGED <<env, phase, timer, retry, running>>
        BY <1>1, <1>8 DEF Process!Flap
    <2> QED
        BY <1>1, <2>1 DEF Process!TypeOK, Process!Off
<1> QED
    BY <1>2, <1>3, <1>4, <1>5, <1>6, <1>7, <1>8
    DEF Process!Next, Process!BootStep, Process!SuperviseStep


-----------------------------------------------------------------------------
(* Page: Checkout. *)

PageReply == [pc : {"idle", "sent", "read"}, read : Page!Status \cup {"none", "null"}]

LEMMA PageTyped == Page!TypeOK <=>
    /\ status \in Page!Status /\ slip \in {"loading", "error", "shown"}
    /\ display \in Page!Status \cup {"none", "null"}
    /\ poll \in PageReply /\ check \in PageReply /\ visible \in BOOLEAN /\ faults \in Nat
BY DEF Page!TypeOK, PageReply, Page!NoData, Page!Null

LEMMA PageTypedNext == Page!TypeOK' <=>
    /\ status' \in Page!Status /\ slip' \in {"loading", "error", "shown"}
    /\ display' \in Page!Status \cup {"none", "null"}
    /\ poll' \in PageReply /\ check' \in PageReply /\ visible' \in BOOLEAN /\ faults' \in Nat
BY DEF Page!TypeOK, PageReply, Page!NoData, Page!Null

LEMMA PageReplies ==
    /\ Page!Idle \in PageReply
    /\ [Page!Idle EXCEPT !.pc = "sent"] \in PageReply
    /\ \A s \in Page!Status \cup {"none", "null"} : [pc |-> "read", read |-> s] \in PageReply
    /\ Page!NoData = "none" /\ Page!Null = "null"
BY DEF Page!Idle, PageReply, Page!NoData, Page!Null

LEMMA PageInit == ASSUME Page!Init PROVE Page!TypeOK
BY PageTyped, PageReplies DEF Page!Init, Page!Status

LEMMA PageStep == ASSUME Page!TypeOK, [Page!Next]_(Page!vars) PROVE Page!TypeOK'
<1>0. /\ status \in Page!Status /\ slip \in {"loading", "error", "shown"}
      /\ display \in Page!Status \cup {"none", "null"}
      /\ poll \in PageReply /\ check \in PageReply /\ visible \in BOOLEAN /\ faults \in Nat
    BY PageTyped
<1>1. poll.read \in Page!Status \cup {"none", "null"} /\ check.read \in Page!Status \cup {"none", "null"}
    BY <1>0 DEF PageReply
<1>2. Page!Fault => faults' \in Nat
    BY <1>0 DEF Page!Fault
<1>3. CASE Page!Settle
    <2>1. \A s \in Page!Status : Page!after[s] \subseteq Page!Status
        BY DEF Page!after, Page!Status, Page!Lapsed
    <2>2. status' \in Page!Status /\ UNCHANGED <<slip, display, poll, check, visible, faults>>
        BY <1>0, <1>3, <2>1 DEF Page!Settle
    <2> QED
        BY <1>0, <2>2, PageTypedNext
<1>4. CASE Page!fetchCheckout
    BY <1>0, <1>2, <1>4, PageTypedNext DEF Page!fetchCheckout
<1>5. CASE Page!Reload
    BY <1>0, <1>5, PageTypedNext, PageReplies DEF Page!Reload
<1>6. CASE Page!Poll \/ Page!CheckNow
    BY <1>0, <1>6, PageTypedNext, PageReplies DEF Page!Poll, Page!CheckNow
<1>7. CASE Page!ReadForPoll \/ Page!ReadForCheck
    BY <1>0, <1>2, <1>7, PageTypedNext, PageReplies DEF Page!ReadForPoll, Page!ReadForCheck
<1>8. CASE Page!PollLands \/ Page!CheckLands
    BY <1>0, <1>1, <1>8, PageTypedNext, PageReplies DEF Page!PollLands, Page!CheckLands
<1>9. CASE Page!Blur
    BY <1>0, <1>2, <1>9, PageTypedNext DEF Page!Blur
<1>10. CASE Page!Focus
    BY <1>0, <1>10, PageTypedNext, PageReplies DEF Page!Focus
<1>11. CASE UNCHANGED Page!vars
    BY <1>0, <1>11, PageTypedNext DEF Page!vars
<1> QED
    BY <1>3, <1>4, <1>5, <1>6, <1>7, <1>8, <1>9, <1>10, <1>11
    DEF Page!Next, Page!PollStep, Page!CheckStep


-----------------------------------------------------------------------------
(* Audit: SweepRecon. *)

\* A tick's readings, each of some of the pairs.
Readings == UNION {[s -> Int] : s \in SUBSET Pair}
TickType == [pc : {"idle", "read"}, batch : SUBSET Pair, expected : Readings, live : Readings,
             onChain : Readings]

AuditInv ==
    /\ expected \in [Pair -> {-1} \cup Nat]
    /\ moving \in [Pair -> Nat]
    /\ holding \in [Pair -> Nat]
    /\ turn \in Nat
    /\ tick \in [Auditor -> TickType]
    /\ reported \subseteq Pair
    /\ faults \in Nat
    /\ \A p \in Pair : moving[p] > 0 => expected[p] = moving[p]

LEMMA AuditTyped == ASSUME AuditInv PROVE Audit!TypeOK
<1>1. ASSUME NEW t \in TickType
      PROVE  /\ t.pc \in {"idle", "read"} /\ t.batch \subseteq Pair /\ DOMAIN t.live \subseteq Pair
             /\ DOMAIN t.onChain \subseteq Pair
    BY DEF TickType, Readings
<1> QED
    BY <1>1 DEF AuditInv, Audit!TypeOK, Audit!NoDeposit

LEMMA AuditIdle == Audit!Idle \in TickType
<1>1. <<>> \in [{} -> Int]
    OBVIOUS
<1>2. <<>> \in Readings
    BY <1>1 DEF Readings
<1> QED
    BY <1>2 DEF Audit!Idle, TickType

LEMMA AuditInit == ASSUME Audit!Init PROVE AuditInv
BY AuditIdle DEF Audit!Init, AuditInv, Audit!NoDeposit

LEMMA AuditTick ==
    ASSUME Audit!RNumbers, AuditInv, NEW k \in Auditor, Audit!reconcile(k) \/ Audit!TickFails(k)
    PROVE  AuditInv'
<1>0. UNCHANGED <<expected, moving, holding>>
    BY DEF Audit!reconcile, Audit!Slice, Audit!ReadInFlight, Audit!ReadBalances, Audit!Report,
           Audit!TickFails
<1>1. /\ tick[k] \in TickType /\ turn \in Nat /\ reported \subseteq Pair /\ faults \in Nat
      /\ tick \in [Auditor -> TickType] /\ tick[k].batch \subseteq Pair
      /\ expected \in [Pair -> {-1} \cup Nat] /\ moving \in [Pair -> Nat] /\ holding \in [Pair -> Nat]
      /\ Cap \in Nat
    BY DEF AuditInv, TickType, Audit!RNumbers
<1>2. ASSUME NEW t \in TickType, tick' = [tick EXCEPT ![k] = t] PROVE tick' \in [Auditor -> TickType]
    BY <1>1, <1>2
<1>3. Audit!Fault => faults' \in Nat
    BY <1>1 DEF Audit!Fault
<1>4. CASE Audit!Slice(k)
    <2> DEFINE total == Audit!Cardinality(Audit!expectations)
               from == IF turn >= total THEN 0 ELSE turn
               next(batch) == Audit!covered(from, Audit!Cardinality(batch))
               t(batch) == [Audit!Idle EXCEPT !.pc = "read", !.batch = batch,
                                              !.expected = [p \in batch |-> expected[p]]]
    <2>1. UNCHANGED <<reported, faults>>
        BY <1>4 DEF Audit!Slice
    <2>2. Audit!expectations \subseteq Pair
        BY DEF Audit!expectations
    <2>3. PICK batch \in Audit!slices(from) :
              /\ turn' = IF next(batch) >= total THEN 0 ELSE next(batch)
              /\ tick' = [tick EXCEPT ![k] = t(batch)]
        BY <1>4 DEF Audit!Slice
    <2>4. batch \subseteq Pair
        BY <2>2, <2>3 DEF Audit!slices
    <2>5. IsFiniteSet(Pair)
        BY DEF Audit!RNumbers, Audit!IsFiniteSet, IsFiniteSet
    <2>6. ASSUME NEW S \in SUBSET Pair PROVE Audit!Cardinality(S) \in Nat
        <3>1. Cardinality(S) \in Nat
            BY <2>5, FS_Subset, FS_CardinalityType
        <3>2. Audit!Cardinality(S) = Cardinality(S)
            BY DEF Audit!Cardinality, Cardinality
        <3> QED
            BY <3>1, <3>2
    <2>7. Audit!Cardinality(batch) \in Nat /\ total \in Nat
        BY <2>2, <2>6, <2>4
    <2> HIDE DEF total
    <2>8. turn' \in Nat
        BY <1>1, <2>7, <2>3 DEF Audit!covered
    <2>9. t(batch) \in TickType
        <3>1. [p \in batch |-> expected[p]] \in [batch -> Int]
            BY <1>1, <2>4
        <3>2. [p \in batch |-> expected[p]] \in Readings
            BY <2>4, <3>1 DEF Readings
        <3> QED
            BY <2>4, <3>2, AuditIdle DEF TickType
    <2> QED
        BY <1>0, <1>1, <1>2, <2>1, <2>8, <2>9, <2>3 DEF AuditInv
<1>5. CASE Audit!ReadInFlight(k)
    <2> DEFINE read == [p \in tick[k].batch |-> moving[p]]
    <2>1. read \in [tick[k].batch -> Int]
        BY <1>1
    <2>2. read \in Readings
        BY <1>1, <2>1 DEF Readings
    <2> HIDE DEF read
    <2>3. [tick[k] EXCEPT !.live = read] \in TickType
        BY <1>1, <2>2 DEF TickType
    <2>4. tick' = [tick EXCEPT ![k] = [tick[k] EXCEPT !.live = read]] /\ UNCHANGED <<turn, reported, faults>>
        BY <1>5 DEF Audit!ReadInFlight, read
    <2> QED
        BY <1>0, <1>1, <1>2, <2>3, <2>4 DEF AuditInv
<1>6. CASE Audit!ReadBalances(k)
    <2>1. PICK read \in [tick[k].batch -> Int] : tick' = [tick EXCEPT ![k].onChain = read]
        <3>1. [p \in tick[k].batch |-> holding[p]] \in [tick[k].batch -> Int]
            BY <1>1
        <3>2. ASSUME NEW p
              PROVE  [q \in tick[k].batch |-> IF q = p THEN Audit!Unreadable ELSE holding[q]]
                        \in [tick[k].batch -> Int]
            BY <1>1 DEF Audit!Unreadable
        <3> QED
            BY <1>6, <3>1, <3>2 DEF Audit!ReadBalances
    <2>2. read \in Readings
        BY <1>1, <2>1 DEF Readings
    <2>3. [tick[k] EXCEPT !.onChain = read] \in TickType
        BY <1>1, <2>2 DEF TickType
    <2>4. tick' = [tick EXCEPT ![k] = [tick[k] EXCEPT !.onChain = read]]
        BY <2>1
    <2>5. UNCHANGED <<turn, reported>> /\ faults' \in Nat
        BY <1>1, <1>3, <1>6 DEF Audit!ReadBalances
    <2> QED
        BY <1>0, <1>1, <1>2, <2>3, <2>4, <2>5 DEF AuditInv
<1>7. CASE Audit!Report(k)
    <2>1. tick' = [tick EXCEPT ![k] = Audit!Idle] /\ reported' \subseteq Pair /\ UNCHANGED <<turn, faults>>
        BY <1>1, <1>7 DEF Audit!Report
    <2> QED
        BY <1>0, <1>1, <1>2, <2>1, AuditIdle DEF AuditInv
<1>8. CASE Audit!TickFails(k)
    <2>1. tick' = [tick EXCEPT ![k] = Audit!Idle] /\ UNCHANGED <<turn, reported>> /\ faults' \in Nat
        BY <1>3, <1>8 DEF Audit!TickFails
    <2> QED
        BY <1>0, <1>1, <1>2, <2>1, AuditIdle DEF AuditInv
<1> QED
    BY <1>4, <1>5, <1>6, <1>7, <1>8 DEF Audit!reconcile

LEMMA AuditStep == ASSUME Audit!RNumbers, AuditInv, [Audit!Next]_(Audit!vars) PROVE AuditInv'
<1>1. ASSUME NEW k \in Auditor, Audit!reconcile(k) \/ Audit!TickFails(k) PROVE AuditInv'
    BY <1>1, AuditTick
<1>0. /\ expected \in [Pair -> {-1} \cup Nat] /\ moving \in [Pair -> Nat] /\ holding \in [Pair -> Nat]
      /\ \A p \in Pair : moving[p] > 0 => expected[p] = moving[p]
    BY DEF AuditInv
<1> DEFINE Funds == /\ expected \in [Pair -> {-1} \cup Nat] /\ moving \in [Pair -> Nat]
                    /\ holding \in [Pair -> Nat]
                    /\ \A p \in Pair : moving[p] > 0 => expected[p] = moving[p]
<1>2. ASSUME Funds', UNCHANGED <<turn, tick, reported>>, faults' \in Nat PROVE AuditInv'
    BY <1>2 DEF AuditInv
<1>3. faults \in Nat
    BY DEF AuditInv
<1>4. ASSUME NEW p \in Pair, Audit!Arrive(p) PROVE AuditInv'
    <2>1. Funds' /\ UNCHANGED <<turn, tick, reported, faults>>
        BY <1>0, <1>4 DEF Audit!Arrive
    <2> QED
        BY <1>2, <1>3, <2>1
<1>5. ASSUME NEW p \in Pair, Audit!Confirm(p) PROVE AuditInv'
    <2>1. Funds' /\ UNCHANGED <<turn, tick, reported, faults>>
        BY <1>0, <1>5 DEF Audit!Confirm, Audit!NoDeposit
    <2> QED
        BY <1>2, <1>3, <2>1
<1>6. ASSUME NEW p \in Pair, Audit!Plan(p) PROVE AuditInv'
    <2>1. Funds' /\ UNCHANGED <<turn, tick, reported, faults>>
        BY <1>0, <1>6 DEF Audit!Plan
    <2> QED
        BY <1>2, <1>3, <2>1
<1>7. ASSUME NEW p \in Pair, Audit!Move(p) PROVE AuditInv'
    <2>1. Funds' /\ UNCHANGED <<turn, tick, reported, faults>>
        BY <1>0, <1>7 DEF Audit!Move
    <2> QED
        BY <1>2, <1>3, <2>1
<1>8. ASSUME NEW p \in Pair, Audit!ConfirmSweep(p) PROVE AuditInv'
    <2>1. Funds' /\ UNCHANGED <<turn, tick, reported, faults>>
        BY <1>0, <1>8 DEF Audit!ConfirmSweep
    <2> QED
        BY <1>2, <1>3, <2>1
<1>9. ASSUME NEW p \in Pair, Audit!Drift(p) PROVE AuditInv'
    <2>1. Funds' /\ UNCHANGED <<turn, tick, reported>> /\ faults' \in Nat
        BY <1>0, <1>3, <1>9 DEF Audit!Drift, Audit!Fault
    <2> QED
        BY <1>2, <2>1
<1>10. CASE UNCHANGED Audit!vars
    BY <1>10 DEF Audit!vars, AuditInv
<1> QED
    BY <1>1, <1>4, <1>5, <1>6, <1>7, <1>8, <1>9, <1>10 DEF Audit!Next


-----------------------------------------------------------------------------
(* The composition. *)

OfficeInv ==
    /\ on = "merchants" => Inv
    /\ on # "merchants" => client = Absent /\ trail = <<>>
    /\ on = "sessions" => SessionsInv
    /\ on = "logs" => LogsInv
    /\ on = "reads" => ReadsInv
    /\ on = "browser" => BrowserInv /\ faults \in 0..PageFaults
    /\ on = "policy" => PolicyInv
    /\ on = "holdings" => HoldingsInv
    /\ on = "process" => Process!TypeOK
    /\ on = "audit" => AuditInv
    /\ on = "page" => Page!TypeOK

LEMMA OfficeInit == ASSUME MCInit PROVE OfficeInv
<1>1. on = "merchants" => Inv
    BY InitInv DEF MCInit
<1>2. on # "merchants" => client = Absent /\ trail = <<>>
    BY DEF MCInit, NoMerchant
<1>3. on = "sessions" => SessionsInv
    BY SessionsInit, OfficeAssumption DEF MCInit
<1>4. on = "logs" => LogsInv
    BY LogsInit, OfficeAssumption DEF MCInit
<1>5. on = "reads" => ReadsInv
    BY ReadsInit, OfficeAssumption DEF MCInit
<1>6. on = "browser" => BrowserInv /\ faults \in 0..PageFaults
    BY BrowserInit, OfficeAssumption DEF MCInit
<1>7. on = "policy" => PolicyInv
    BY PolicyInit, OfficeAssumption DEF MCInit
<1>8. on = "holdings" => HoldingsInv
    BY HoldingsInit, OfficeAssumption DEF MCInit
<1>9. on = "process" => Process!TypeOK
    BY ProcessInit, OfficeAssumption DEF MCInit
<1>10. on = "audit" => AuditInv
    BY AuditInit DEF MCInit
<1>11. on = "page" => Page!TypeOK
    BY PageInit DEF MCInit
<1> QED
    BY <1>1, <1>2, <1>3, <1>4, <1>5, <1>6, <1>7, <1>8, <1>9, <1>10, <1>11 DEF OfficeInv

\* A step is one of the component that is on, or of none.
LEMMA OneSteps ==
    ASSUME [MCNext]_all
    PROVE  /\ on' = on
           /\ on = "merchants" => [Next]_vars
           /\ on # "merchants" => client' = client /\ trail' = trail
           /\ on = "sessions" => [Sessions!Next]_(Sessions!vars)
           /\ on = "logs" => [Logs!Next]_(Logs!vars)
           /\ on = "reads" => [Reads!Next]_(Reads!vars)
           /\ on = "browser" => [Browser!Next]_(Browser!vars)
           /\ on = "policy" => [Policy!Next]_(Policy!vars)
           /\ on = "holdings" => [Holdings!Next]_(Holdings!vars)
           /\ on = "process" => [Process!Next]_(Process!vars)
           /\ on = "audit" => [Audit!Next]_(Audit!vars)
           /\ on = "page" => [Page!Next]_(Page!vars)
<1>1. CASE MCNext
    BY <1>1 DEF MCNext, merchantOnly
<1>2. CASE UNCHANGED all
    <2>1. UNCHANGED <<on, shared, merchantOnly, sessionsOnly, logsOnly, readsOnly, browserOnly, policyOnly,
                      holdingsOnly, processOnly, auditOnly, pageOnly>>
        BY <1>2 DEF all, aside
    <2>2. UNCHANGED vars
        BY <2>1 DEF vars, shared, merchantOnly
    <2>3. UNCHANGED Sessions!vars
        BY <2>1 DEF Sessions!vars, Sessions!history, shared, sessionsOnly
    <2>4. UNCHANGED Logs!vars
        BY <2>1 DEF Logs!vars, shared, logsOnly
    <2>5. UNCHANGED Reads!vars
        BY <2>1 DEF Reads!vars, Reads!tables, shared, readsOnly
    <2>6. UNCHANGED Browser!vars
        BY <2>1 DEF Browser!vars, Browser!requests, Browser!held, shared, browserOnly
    <2>7. UNCHANGED Policy!vars
        BY <2>1 DEF Policy!vars, policyOnly
    <2>8. UNCHANGED Holdings!vars
        BY <2>1 DEF Holdings!vars, shared, holdingsOnly
    <2>9. UNCHANGED Process!vars
        BY <2>1 DEF Process!vars, processOnly
    <2>10. UNCHANGED Audit!vars
        BY <2>1 DEF Audit!vars, shared, auditOnly
    <2>11. UNCHANGED Page!vars
        BY <2>1 DEF Page!vars, shared, pageOnly
    <2> QED
        BY <2>1, <2>2, <2>3, <2>4, <2>5, <2>6, <2>7, <2>8, <2>9, <2>10, <2>11 DEF merchantOnly
<1> QED
    BY <1>1, <1>2

LEMMA OfficeStep == ASSUME OfficeInv, [MCNext]_all PROVE OfficeInv'
<1>0. on' = on
    BY OneSteps
<1>1. on = "merchants" => Inv'
    BY OneSteps, Steps DEF OfficeInv
<1>2. on # "merchants" => client' = Absent /\ trail' = <<>>
    BY OneSteps DEF OfficeInv
<1>3. on = "sessions" => SessionsInv'
    BY OneSteps, SessionsStep, OfficeAssumption DEF OfficeInv
<1>4. on = "logs" => LogsInv'
    BY OneSteps, LogsStep, OfficeAssumption DEF OfficeInv
<1>5. on = "reads" => ReadsInv'
    BY OneSteps, ReadsStep, OfficeAssumption DEF OfficeInv
<1>6. on = "browser" => BrowserInv' /\ faults' \in 0..PageFaults
    BY OneSteps, BrowserStep, BrowserFaults, OfficeAssumption DEF OfficeInv
<1>7. on = "policy" => PolicyInv'
    BY OneSteps, PolicyStep, OfficeAssumption DEF OfficeInv
<1>8. on = "holdings" => HoldingsInv'
    BY OneSteps, HoldingsStep, OfficeAssumption DEF OfficeInv
<1>9. on = "process" => Process!TypeOK'
    BY OneSteps, ProcessStep, OfficeAssumption DEF OfficeInv
<1>10. on = "audit" => AuditInv'
    BY OneSteps, AuditStep, OfficeAssumption DEF OfficeInv
<1>11. on = "page" => Page!TypeOK'
    BY OneSteps, PageStep DEF OfficeInv
<1> QED
    BY <1>0, <1>1, <1>2, <1>3, <1>4, <1>5, <1>6, <1>7, <1>8, <1>9, <1>10, <1>11 DEF OfficeInv

LEMMA OfficeHolds == MCSpec => []OfficeInv
BY OfficeInit, OfficeStep, PTL DEF MCSpec, Behaviours

\* Whatever component runs, its rows, requests, queues and counters keep their types.
THEOREM OfficeTyped == MCSpec => []OfficeTypeOK
<1>1. OfficeInv => OfficeTypeOK
    BY InvTyped, ReadsTyped, BrowserTyped, SweepIsWorth, AuditTyped, OfficeAssumption
    DEF OfficeInv, OfficeTypeOK, SessionsInv, LogsInv, BrowserInv, HoldingsInv
<1> QED
    BY <1>1, OfficeHolds, PTL

\* The audit trail of the console accounts for the merchant it is about.
THEOREM TrailOfOffice == MCSpec => []TrailExplains
<1>1. OfficeInv => TrailExplains
    BY InvExplains DEF OfficeInv, TrailExplains
<1> QED
    BY <1>1, OfficeHolds, PTL

\* What a logout, an expiry, a deactivation or a rotated password has ended stays ended.
THEOREM RevokedInOffice == MCSpec => []RevokedStaysRevoked
<1>1. OfficeInv => RevokedStaysRevoked
    BY DEF OfficeInv, RevokedStaysRevoked, SessionsInv
<1> QED
    BY <1>1, OfficeHolds, PTL

\* Of any number of records and repeats, each waits, is delivered or is counted once, and a
\* poller of the tail is shown none twice.
THEOREM EveryRecordCounted == MCSpec => []NothingUncounted
<1>1. OfficeInv => NothingUncounted
    BY DEF OfficeInv, NothingUncounted, LogsInv
<1> QED
    BY <1>1, OfficeHolds, PTL

\* For any payments and deposits, the queries of an answer add up, whatever is committed
\* between them; the deposits of a payment as long as no confirmed one of it is unwound.
THEOREM AnswersConsistent == MCSpec => []AnswersAddUp
<1>1. OfficeInv => AnswersAddUp
    BY AnswersHold DEF OfficeInv, AnswersAddUp
<1> QED
    BY <1>1, OfficeHolds, PTL

\* Signing out leaves no data, key or form of the session in the browser, whatever request of
\* it is still to land.
THEOREM CleanAfterSignOut == MCSpec => []SignedOutIsClean
<1>1. OfficeInv => SignedOutIsClean
    BY CleanOut DEF OfficeInv, SignedOutIsClean
<1> QED
    BY <1>1, OfficeHolds, PTL

\* For all amounts, fees, rates, scales and shares, three roundings of decide (value, fee and
\* floor) add up to less than half a peso of the floor and one peso of the cost.
THEOREM SweptIsWorth == MCSpec => []WorthMoving
<1>1. OfficeInv => WorthMoving
    BY SweepIsWorth, OfficeAssumption DEF OfficeInv, WorthMoving
<1> QED
    BY <1>1, OfficeHolds, PTL

\* However many calls overlap, no balance of an answer is older than the age it states.
THEOREM StatedAgeHolds == MCSpec => []AgeIsHonest
<1>1. OfficeInv => AgeIsHonest
    BY HonestAge DEF OfficeInv, AgeIsHonest
<1> QED
    BY <1>1, OfficeHolds, PTL

=============================================================================
