---------------------------- MODULE TaskViewProofs ----------------------------
(***************************************************************************)
(* The document of a manual backup, which the request and the worker both  *)
(* write, and the log, for any number of entries, processes and rewrites.  *)
(***************************************************************************)
EXTENDS TaskView, FiniteSetTheorems, SequenceTheorems, TLAPS

TaskTypes ==
    /\ doc \in Docs /\ got \in Docs
    /\ state \in {"PENDING", "STARTED", "SUCCESS", "FAILURE", "REVOKED", "forgotten"} /\ closed \in BOOLEAN
    /\ web \in {"start", "register", "log", "done"}
    /\ worker \in {"queued", "read", "write", "log", "work", "readEnd", "writeEnd", "logEnd", "ended"}

\* A document the worker closed after the registration is open to no later write:
\* the worker has none left. And from the first write of the request on there is a
\* document, which no write removes.
EndKnown ==
    /\ closed => doc.completed /\ worker \in {"logEnd", "ended"} /\ web \in {"log", "done"}
    /\ web \in {"log", "done"} => doc.known

TaskInv == TaskTypes /\ EndKnown

LEMMA TaskInit == Init => TaskInv
<1> SUFFICES ASSUME Init PROVE TaskInv
  OBVIOUS
<1>1. doc \in Docs /\ got \in Docs
  BY DEF Init, NoDoc, Docs
<1>2. closed = FALSE /\ state = "PENDING" /\ web = "start" /\ worker = "queued"
  BY DEF Init
<1> QED
  BY <1>1, <1>2 DEF TaskInv, TaskTypes, EndKnown

LEMMA TaskKept == TaskInv /\ [Next]_vars => TaskInv'
<1> SUFFICES ASSUME TaskInv, [Next]_vars PROVE TaskInv'
  OBVIOUS
<1> USE DEF TaskInv, TaskTypes, EndKnown, Docs
<1>1. CASE Send
  BY <1>1 DEF Send
<1>2. CASE Register
  BY <1>2 DEF Register
<1>3. CASE WebLogs
  BY <1>3 DEF WebLogs
<1>4. CASE Begin
  BY <1>4 DEF Begin
<1>5. CASE MetaRead
  BY <1>5 DEF MetaRead
<1>6. CASE MetaWrite
  <2>1. doc' \in Docs /\ doc'.known
    BY <1>6 DEF MetaWrite
  <2>2. got' \in Docs
    BY <1>6 DEF MetaWrite, NoDoc
  <2>3. closed' => doc'.completed /\ worker' = "logEnd" /\ web' \in {"log", "done"}
    BY <1>6 DEF MetaWrite
  <2>4. closed' \in BOOLEAN
    BY <1>6 DEF MetaWrite
  <2> QED
    BY <1>6, <2>1, <2>2, <2>3, <2>4 DEF MetaWrite
<1>7. CASE WorkerLogs
  BY <1>7 DEF WorkerLogs
<1>8. CASE WorkDone
  BY <1>8 DEF WorkDone
<1>9. CASE End
  BY <1>9 DEF End
<1>10. CASE Killed
  BY <1>10 DEF Killed, NoDoc
<1>11. CASE Forget
  BY <1>11 DEF Forget
<1>12. ASSUME UNCHANGED taskVars PROVE TaskInv'
  BY <1>12 DEF taskVars
<1>13. CASE Poll \/ ClearRead \/ ClearWrite \/ (\E p \in Processes : Push(p)) \/ (\E p \in Neighbours : NeighbourLogs(p))
  BY <1>12, <1>13 DEF Poll, ClearRead, ClearWrite, Push, NeighbourLogs
<1>14. CASE UNCHANGED vars
  BY <1>12, <1>14 DEF vars
<1>15. CASE StopAll
  BY <1>15 DEF StopAll, NoDoc
<1> QED
  BY <1>15, <1>1, <1>2, <1>3, <1>4, <1>5, <1>6, <1>7, <1>8, <1>9, <1>10, <1>11, <1>13, <1>14 DEF Next, Task

\* For a log of any length, any number of neighbours and any bounds: a task that
\* closed its registered document is shown as ended, stopped or forgotten as it
\* may be, and one that ran to its end or was killed is so though its request
\* registered it, as not completed, over a document the worker had closed.
THEOREM EndShown == Spec => []EndIsShown
<1>1. TaskInv => EndIsShown
  BY DEF TaskInv, EndKnown, EndIsShown, Shown
<1> QED
  BY TaskInit, TaskKept, <1>1, PTL DEF Spec

-----------------------------------------------------------------------------
(* Positions: the least and the greatest, and what At keeps. *)

LEMMA NatMin ==
    ASSUME NEW T, T \subseteq Nat, T # {}
    PROVE  \E m \in T : \A k \in T : m <= k
<1>1. PICK x \in T : \A y \in T : ~(<<y, x>> \in OpToRel(<, Nat))
  BY WFMin, NatLessThanWellFounded
<1>2. \A y \in T : ~(y < x)
  BY <1>1 DEF OpToRel
<1> QED
  BY <1>2

LEMMA NatMax ==
    ASSUME NEW T, T \subseteq Nat, T # {}, NEW b \in Nat, \A k \in T : k <= b
    PROVE  Max(T) \in T /\ \A k \in T : k <= Max(T)
<1> DEFINE R == {b - k : k \in T}
<1>1. R \subseteq Nat /\ R # {}
  <2>1. \A k \in T : b - k \in Nat
    OBVIOUS
  <2>2. \A k \in T : b - k \in R
    OBVIOUS
  <2>3. R \subseteq Nat
    BY <2>1
  <2>4. R # {}
    BY <2>2
  <2> HIDE DEF R
  <2> QED
    BY <2>3, <2>4
<1>2. PICK m \in R : \A k \in R : m <= k
  BY <1>1, NatMin
<1>3. PICK x \in T : m = b - x
  OBVIOUS
<1>4. \A k \in T : b - x <= b - k
  BY <1>2, <1>3
<1>5. \A k \in T : x >= k
  BY <1>4
<1> HIDE DEF R
<1> QED
  BY <1>5 DEF Max

\* The k-th of a finite set of positions, as At finds it.
Nth(I, k) == CHOOSE i \in I : Cardinality({j \in I : j <= i}) = k
Upto(I, i) == {j \in I : j <= i}

LEMMA NthFacts ==
    ASSUME NEW I, I \subseteq Nat, IsFiniteSet(I)
    PROVE  /\ Cardinality(I) \in Nat
           /\ \A k \in 1 .. Cardinality(I) : Nth(I, k) \in I
           /\ \A k, l \in 1 .. Cardinality(I) : k < l => Nth(I, k) < Nth(I, l)
           /\ \A i \in I : \E k \in 1 .. Cardinality(I) : Nth(I, k) = i
<1> DEFINE n == Cardinality(I)
           rank == [i \in I |-> Cardinality(Upto(I, i))]
<1>1. n \in Nat
  BY FS_CardinalityType
<1>2. \A i \in I : IsFiniteSet(Upto(I, i)) /\ Cardinality(Upto(I, i)) \in Nat /\ Cardinality(Upto(I, i)) \in 1 .. n
  <2> SUFFICES ASSUME NEW i \in I PROVE IsFiniteSet(Upto(I, i)) /\ Cardinality(Upto(I, i)) \in Nat /\ Cardinality(Upto(I, i)) \in 1 .. n
    OBVIOUS
  <2>1. Upto(I, i) \subseteq I /\ i \in Upto(I, i)
    BY DEF Upto
  <2>2. IsFiniteSet(Upto(I, i)) /\ Cardinality(Upto(I, i)) <= n /\ Cardinality(Upto(I, i)) \in Nat
    BY <2>1, FS_Subset, FS_CardinalityType
  <2>3. Cardinality(Upto(I, i)) # 0
    BY <2>1, <2>2, FS_EmptySet
  <2> QED
    BY <1>1, <2>2, <2>3
<1>3. \A i, j \in I : i < j => Cardinality(Upto(I, i)) < Cardinality(Upto(I, j))
  <2> SUFFICES ASSUME NEW i \in I, NEW j \in I, i < j PROVE Cardinality(Upto(I, i)) < Cardinality(Upto(I, j))
    OBVIOUS
  <2>0. i \in Int /\ j \in Int /\ \A x \in I : x \in Int
    OBVIOUS
  <2>1. \A x \in I : x <= i => x <= j
    BY <2>0
  <2>2. Upto(I, i) \subseteq Upto(I, j)
    BY <2>1 DEF Upto
  <2>3. j \in Upto(I, j) /\ j \notin Upto(I, i)
    BY <2>0 DEF Upto
  <2>4. Cardinality(Upto(I, i)) <= Cardinality(Upto(I, j)) /\ Cardinality(Upto(I, i)) # Cardinality(Upto(I, j))
    BY <1>2, <2>2, <2>3, FS_Subset
  <2> QED
    BY <1>2, <2>4
<1>4. \A i, j \in I : Cardinality(Upto(I, i)) = Cardinality(Upto(I, j)) => i = j
  <2> SUFFICES ASSUME NEW i \in I, NEW j \in I, Cardinality(Upto(I, i)) = Cardinality(Upto(I, j)), i # j PROVE FALSE
    OBVIOUS
  <2>1. i < j \/ j < i
    OBVIOUS
  <2> QED
    BY <1>2, <1>3, <2>1
<1>5. rank \in Injection(I, 1 .. n)
  BY <1>2, <1>4 DEF Injection, IsInjective
<1>6. rank \in Surjection(I, 1 .. n)
  <2>1. IsFiniteSet(1 .. n) /\ Cardinality(1 .. n) = n
    BY <1>1, FS_Interval
  <2> QED
    BY <1>5, <2>1, FS_Injection
<1>7. \A k \in 1 .. n : \E i \in I : Cardinality(Upto(I, i)) = k
  BY <1>6 DEF Surjection
<1>8. \A k \in 1 .. n : Nth(I, k) \in I /\ Cardinality(Upto(I, Nth(I, k))) = k
  BY <1>7 DEF Nth, Upto
<1>9. \A i \in I : \E k \in 1 .. n : Nth(I, k) = i
  BY <1>2, <1>4, <1>8
<1>10. \A k, l \in 1 .. n : k < l => Nth(I, k) < Nth(I, l)
  <2> SUFFICES ASSUME NEW k \in 1 .. n, NEW l \in 1 .. n, k < l, ~(Nth(I, k) < Nth(I, l)) PROVE FALSE
    OBVIOUS
  <2>1. /\ Nth(I, k) \in I /\ Cardinality(Upto(I, Nth(I, k))) = k
        /\ Nth(I, l) \in I /\ Cardinality(Upto(I, Nth(I, l))) = l
    BY <1>8
  <2> DEFINE a == Nth(I, k)
             b == Nth(I, l)
  <2> HIDE DEF a, b, n, rank
  <2>2. a \in I /\ b \in I /\ ~(a < b)
    BY <2>1 DEF a, b
  <2>3. b = a \/ b < a
    BY <2>2
  <2>4. l = k \/ l < k
    BY <1>3, <2>1, <2>2, <2>3 DEF a, b
  <2>5. k \in Int /\ l \in Int
    OBVIOUS
  <2> QED
    BY <2>4, <2>5
<1> QED
  BY <1>1, <1>8, <1>9, <1>10

LEMMA AtFacts ==
    ASSUME NEW S, NEW s \in Seq(S), NEW I \in SUBSET (1 .. Len(s))
    PROVE  /\ At(s, I) \in Seq(S) /\ Len(At(s, I)) \in Nat
           /\ \A k \in 1 .. Len(At(s, I)) : Nth(I, k) \in I /\ At(s, I)[k] = s[Nth(I, k)]
           /\ \A k, l \in 1 .. Len(At(s, I)) : k < l => Nth(I, k) < Nth(I, l)
           /\ \A i \in I : \E k \in 1 .. Len(At(s, I)) : Nth(I, k) = i
<1>1. I \subseteq Nat /\ IsFiniteSet(I)
  <2>1. Len(s) \in Nat
    BY LenProperties
  <2>2. IsFiniteSet(1 .. Len(s)) /\ 1 .. Len(s) \subseteq Nat
    BY <2>1, FS_Interval
  <2> QED
    BY <2>2, FS_Subset
<1>2. At(s, I) = [k \in 1 .. Cardinality(I) |-> s[Nth(I, k)]]
  BY DEF At, Nth
<1>3. Cardinality(I) \in Nat /\ \A k \in 1 .. Cardinality(I) : s[Nth(I, k)] \in S
  BY <1>1, NthFacts, ElementOfSeq
<1>4. At(s, I) \in Seq(S) /\ Len(At(s, I)) = Cardinality(I)
  BY <1>2, <1>3
<1> QED
  BY <1>1, <1>2, <1>3, <1>4, NthFacts

-----------------------------------------------------------------------------
(* The log: numbers that are never used twice, and what a list keeps. *)

Entry == [n : Nat \ {0}, of : {"own", "other", "nobody"}]

Distinct(s) == \A i, j \in 1 .. Len(s) : s[i].n = s[j].n => i = j
Sorted(s) == \A i, j \in 1 .. Len(s) : i < j => s[i].n < s[j].n

LogTypes ==
    /\ seq \in Nat /\ top \in Nat /\ cursor \in Nat
    /\ list \in Seq(Entry) /\ seen \in Seq(Entry)
    /\ entry \in [Processes -> Entry \cup {Nothing}]
    /\ clear \in [pc : {"idle", "read"}, own : BOOLEAN, keep : Seq(Entry)]

\* Every number is at most the highest pushed, and what was sent is at most the cursor.
Numbered ==
    /\ cursor <= top /\ top <= seq
    /\ \A e \in Entries(list) \cup Entries(clear.keep) : e.n <= top
    /\ \A e \in Entries(seen) : e.n <= cursor

\* An entry on its way has a number of its own, even when a later one came first.
OnTheWay ==
    \A p \in Processes : entry[p] # Nothing =>
        /\ entry[p].n <= seq /\ entry[p].n # top
        /\ \A e \in Entries(list) \cup Entries(clear.keep) : e.n # entry[p].n
        /\ \A q \in Processes \ {p} : entry[q] # Nothing => entry[q].n # entry[p].n

NoNumberTwice == Distinct(list) /\ Distinct(clear.keep)

\* The flag disorder says all there is to say about the order.
InOrder == ~disorder => Sorted(list) /\ Sorted(clear.keep)

\* While the log is rewritten, what is not kept is of the cleared tenant, or came since.
KeepsForeign ==
    clear.pc = "read" =>
        \A e \in Entries(list) : e \in Entries(clear.keep) \/ e \in lost \/ e.of = (IF clear.own THEN "own" ELSE "other")

LogInv == LogTypes /\ Numbered /\ OnTheWay /\ NoNumberTwice /\ InOrder /\ KeepsForeign /\ SentOnce

\* A list cut out of another: nothing new, and as distinct and as sorted as that was.
CutOf(t, s) ==
    /\ t \in Seq(Entry)
    /\ Entries(t) \subseteq Entries(s)
    /\ Distinct(s) => Distinct(t)
    /\ Sorted(s) => Sorted(t)

LEMMA EntriesAre ==
    ASSUME NEW s \in Seq(Entry)
    PROVE  /\ Len(s) \in Nat
           /\ \A i \in 1 .. Len(s) : s[i] \in Entry /\ s[i].n \in Nat \ {0} /\ s[i] \in Entries(s)
           /\ \A e \in Entries(s) : e \in Entry /\ e.n \in Nat \ {0} /\ \E i \in 1 .. Len(s) : e = s[i]
           /\ DOMAIN s = 1 .. Len(s)
<1>1. Len(s) \in Nat /\ DOMAIN s = 1 .. Len(s)
  BY LenProperties
<1>2. \A i \in 1 .. Len(s) : s[i] \in Entry
  BY ElementOfSeq
<1>3. \A e \in Entry : e.n \in Nat \ {0}
  BY DEF Entry
<1> QED
  BY <1>1, <1>2, <1>3 DEF Entries

LEMMA TailFacts ==
    ASSUME NEW s \in Seq(Entry), NEW m \in 1 .. Len(s) + 1
    PROVE  /\ CutOf(SubSeq(s, m, Len(s)), s)
           /\ Len(SubSeq(s, m, Len(s))) = Len(s) - m + 1
           /\ \A i \in 1 .. Len(s) - m + 1 : SubSeq(s, m, Len(s))[i] = s[m + i - 1]
           /\ \A i \in m .. Len(s) : s[i] \in Entries(SubSeq(s, m, Len(s)))
<1> DEFINE t == SubSeq(s, m, Len(s))
<1>1. Len(s) \in Nat /\ \A i \in 1 .. Len(s) : s[i] \in Entry
  BY EntriesAre
<1>2. \A i \in m .. Len(s) : s[i] \in Entry
  BY <1>1
<1>3. t \in Seq(Entry) /\ Len(t) = Len(s) - m + 1 /\ \A i \in 1 .. Len(s) - m + 1 : t[i] = s[m + i - 1]
  BY <1>1, <1>2, SubSeqProperties
<1> HIDE DEF t
<1>4. \A i \in 1 .. Len(t) : m + i - 1 \in 1 .. Len(s)
  BY <1>1, <1>3
<1>5. Entries(t) \subseteq Entries(s)
  <2>1. \A i \in 1 .. Len(t) : t[i] \in Entries(s)
    BY <1>1, <1>3, <1>4, EntriesAre
  <2>2. DOMAIN t = 1 .. Len(t)
    BY <1>3, LenProperties
  <2> QED
    BY <2>1, <2>2 DEF Entries
<1>6. Distinct(s) => Distinct(t)
  <2> SUFFICES ASSUME Distinct(s), NEW i \in 1 .. Len(t), NEW j \in 1 .. Len(t), t[i].n = t[j].n PROVE i = j
    BY DEF Distinct
  <2>1. m + i - 1 = m + j - 1
    BY <1>3, <1>4 DEF Distinct
  <2> QED
    BY <2>1, <1>3, <1>1
<1>7. Sorted(s) => Sorted(t)
  <2> SUFFICES ASSUME Sorted(s), NEW i \in 1 .. Len(t), NEW j \in 1 .. Len(t), i < j PROVE t[i].n < t[j].n
    BY DEF Sorted
  <2>1. m + i - 1 < m + j - 1
    BY <1>1, <1>3
  <2> QED
    BY <2>1, <1>3, <1>4 DEF Sorted
<1>8. \A i \in m .. Len(s) : i - m + 1 \in 1 .. Len(t) /\ t[i - m + 1] = s[i]
  BY <1>1, <1>3
<1>9. \A i \in m .. Len(s) : s[i] \in Entries(t)
  BY <1>3, <1>8, EntriesAre
<1> QED
  BY <1>3, <1>5, <1>6, <1>7, <1>9 DEF CutOf, t

LEMMA AtCut ==
    ASSUME NEW s \in Seq(Entry), NEW I \in SUBSET (1 .. Len(s))
    PROVE  /\ CutOf(At(s, I), s)
           /\ \A i \in I : s[i] \in Entries(At(s, I))
           /\ \A e \in Entries(At(s, I)) : \E i \in I : e = s[i]
<1> DEFINE t == At(s, I)
<1>1. /\ t \in Seq(Entry) /\ Len(t) \in Nat
      /\ \A k \in 1 .. Len(t) : Nth(I, k) \in I /\ t[k] = s[Nth(I, k)]
      /\ \A k, l \in 1 .. Len(t) : k < l => Nth(I, k) < Nth(I, l)
      /\ \A i \in I : \E k \in 1 .. Len(t) : Nth(I, k) = i
  BY AtFacts
<1> HIDE DEF t
<1>2. \A k \in 1 .. Len(t) : Nth(I, k) \in 1 .. Len(s)
  BY <1>1
<1>3. Entries(t) \subseteq Entries(s)
  BY <1>1, <1>2, EntriesAre
<1>4. \A k, l \in 1 .. Len(t) : Nth(I, k) = Nth(I, l) => k = l
  <2> SUFFICES ASSUME NEW k \in 1 .. Len(t), NEW l \in 1 .. Len(t), Nth(I, k) = Nth(I, l), k # l PROVE FALSE
    OBVIOUS
  <2>1. k < l \/ l < k
    BY <1>1
  <2>2. Nth(I, k) < Nth(I, l) \/ Nth(I, l) < Nth(I, k)
    BY <1>1, <2>1
  <2>3. Nth(I, k) \in Int
    BY <1>2
  <2> QED
    BY <2>2, <2>3
<1>5. Distinct(s) => Distinct(t)
  BY <1>1, <1>2, <1>4 DEF Distinct
<1>6. Sorted(s) => Sorted(t)
  BY <1>1, <1>2 DEF Sorted
<1>7. \A i \in I : s[i] \in Entries(t)
  BY <1>1, EntriesAre
<1>8. \A e \in Entries(t) : \E i \in I : e = s[i]
  <2> SUFFICES ASSUME NEW e \in Entries(t) PROVE \E i \in I : e = s[i]
    OBVIOUS
  <2>1. PICK k \in 1 .. Len(t) : e = t[k]
    BY <1>1, EntriesAre
  <2>2. Nth(I, k) \in I /\ e = s[Nth(I, k)]
    BY <1>1, <2>1
  <2> QED
    BY <2>2
<1> QED
  BY <1>1, <1>3, <1>5, <1>6, <1>7, <1>8 DEF CutOf, t

LEMMA CutOfCut ==
    ASSUME NEW r, NEW s, NEW t, CutOf(r, s), CutOf(s, t)
    PROVE  CutOf(r, t)
  BY DEF CutOf

LEMMA MaxOfTwo ==
    ASSUME NEW a \in Int, NEW b \in Int
    PROVE  Max({a, b}) = IF a >= b THEN a ELSE b
<1> DEFINE m == IF a >= b THEN a ELSE b
<1>1. m \in {a, b} /\ \A y \in {a, b} : m >= y
  OBVIOUS
<1>2. \A x \in {a, b} : (\A y \in {a, b} : x >= y) => x = m
  OBVIOUS
<1> QED
  BY <1>1, <1>2 DEF Max

LEMMA AppendFacts ==
    ASSUME NEW s \in Seq(Entry), NEW e \in Entry
    PROVE  /\ Append(s, e) \in Seq(Entry) /\ Len(Append(s, e)) = Len(s) + 1
           /\ Entries(Append(s, e)) = Entries(s) \cup {e}
           /\ Distinct(s) /\ (\A d \in Entries(s) : d.n # e.n) => Distinct(Append(s, e))
           /\ Sorted(s) /\ (\A d \in Entries(s) : d.n < e.n) => Sorted(Append(s, e))
<1> DEFINE t == Append(s, e)
<1>1. /\ t \in Seq(Entry) /\ Len(t) = Len(s) + 1 /\ t[Len(s) + 1] = e
      /\ \A i \in 1 .. Len(s) : t[i] = s[i]
  BY AppendProperties
<1> HIDE DEF t
<1>2. Len(s) \in Nat /\ \A i \in 1 .. Len(s) : s[i] \in Entries(s)
  BY EntriesAre
<1>3. 1 .. Len(t) = (1 .. Len(s)) \cup {Len(s) + 1}
  BY <1>1, <1>2
<1>4. Entries(t) = Entries(s) \cup {e}
  BY <1>1, <1>3, LenProperties DEF Entries
<1>5. Distinct(s) /\ (\A d \in Entries(s) : d.n # e.n) => Distinct(t)
  BY <1>1, <1>2, <1>3 DEF Distinct
<1>6. Sorted(s) /\ (\A d \in Entries(s) : d.n < e.n) => Sorted(t)
  <2> SUFFICES ASSUME Sorted(s), \A d \in Entries(s) : d.n < e.n, NEW i \in 1 .. Len(t), NEW j \in 1 .. Len(t), i < j
               PROVE  t[i].n < t[j].n
    BY DEF Sorted
  <2>1. i \in 1 .. Len(s)
    BY <1>1, <1>2
  <2> QED
    BY <1>1, <1>2, <1>3, <2>1 DEF Sorted
<1> QED
  BY <1>1, <1>4, <1>5, <1>6 DEF t

LEMMA LogInit == Init => LogInv
<1> SUFFICES ASSUME Init PROVE LogInv
  OBVIOUS
<1>1. /\ seq = 0 /\ top = 0 /\ cursor = 0 /\ list = <<>> /\ seen = <<>>
      /\ entry = [p \in Processes |-> Nothing] /\ clear = Idle /\ Idle.keep = <<>> /\ Idle.pc = "idle"
  BY DEF Init, Idle
<1>2. <<>> \in Seq(Entry) /\ Len(<<>>) = 0 /\ Entries(<<>>) = {}
  BY EmptySeq DEF Entries
<1>3. LogTypes
  BY <1>1, <1>2 DEF LogTypes, Idle
<1>4. Distinct(<<>>) /\ Sorted(<<>>)
  BY <1>2 DEF Distinct, Sorted
<1>5. Numbered /\ OnTheWay /\ NoNumberTwice /\ InOrder /\ KeepsForeign
  BY <1>1, <1>2, <1>4 DEF Numbered, OnTheWay, NoNumberTwice, InOrder, KeepsForeign
<1>6. SentOnce
  BY <1>1, <1>2 DEF SentOnce, NeverTwice, NothingSkipped
<1> QED
  BY <1>3, <1>5, <1>6 DEF LogInv

\* Steps that neither push, poll nor rewrite; a kill loses the entry on its way.
LEMMA LogQuiet ==
    ASSUME LogInv, UNCHANGED <<seq, list, top, disorder, readVars, clear, lost>>,
           entry' = entry \/ entry' = [entry EXCEPT !["worker"] = Nothing]
    PROVE  LogInv'
<1> USE DEF LogInv, readVars
<1>1. /\ entry' \in [Processes -> Entry \cup {Nothing}]
      /\ \A p \in Processes : entry'[p] # Nothing => entry'[p] = entry[p]
  BY DEF LogTypes
<1>2. LogTypes'
  BY <1>1 DEF LogTypes
<1>3. OnTheWay'
  BY <1>1 DEF OnTheWay
<1>4. Numbered' /\ NoNumberTwice' /\ InOrder' /\ KeepsForeign'
  BY DEF Numbered, NoNumberTwice, InOrder, KeepsForeign
<1>5. SentOnce'
  BY DEF SentOnce, NeverTwice, NothingSkipped
<1> QED
  BY <1>2, <1>3, <1>4, <1>5

LEMMA LogStamp ==
    ASSUME LogInv, NEW p \in Processes, Stamp(p), UNCHANGED <<readVars, clear, lost>>
    PROVE  LogInv'
<1> USE DEF LogInv, readVars
<1> DEFINE e == [n |-> seq + 1, of |-> IF p \in Neighbours THEN "other" ELSE IF doc.owned THEN "own" ELSE "nobody"]
<1>1. seq \in Nat /\ seq' = seq + 1 /\ UNCHANGED <<list, top, disorder, cursor, seen, polled, clear, lost>> /\ entry' = [entry EXCEPT ![p] = e]
  BY DEF Stamp, LogTypes
<1>2. e \in Entry /\ e.n = seq + 1
  <2>1. seq + 1 \in Nat \ {0}
    BY <1>1
  <2> QED
    BY <2>1 DEF Entry
<1> HIDE DEF e
<1>3. /\ entry' \in [Processes -> Entry \cup {Nothing}]
      /\ entry'[p] = e
      /\ \A q \in Processes \ {p} : entry'[q] = entry[q]
  BY <1>1, <1>2 DEF LogTypes
<1>4. LogTypes'
  BY <1>1, <1>3 DEF LogTypes
<1>5. cursor \in Nat /\ top \in Nat /\ cursor <= top /\ top <= seq
      /\ \A d \in Entries(list) \cup Entries(clear.keep) : d.n \in Nat /\ d.n <= top
  <2>1. list \in Seq(Entry) /\ clear.keep \in Seq(Entry)
    BY DEF LogTypes
  <2>2. \A d \in Entries(list) \cup Entries(clear.keep) : d.n \in Nat
    BY <2>1, EntriesAre
  <2> QED
    BY <2>2 DEF LogTypes, Numbered
<1>6. Numbered'
  BY <1>1, <1>5 DEF Numbered
<1>7. \A q \in Processes \ {p} : entry[q] # Nothing => entry[q].n \in Nat /\ entry[q].n <= seq
  BY DEF LogTypes, OnTheWay, Entry
<1>8. OnTheWay'
  <2> SUFFICES ASSUME NEW q \in Processes, entry'[q] # Nothing
               PROVE  /\ entry'[q].n <= seq' /\ entry'[q].n # top'
                      /\ \A d \in Entries(list') \cup Entries(clear'.keep) : d.n # entry'[q].n
                      /\ \A r \in Processes \ {q} : entry'[r] # Nothing => entry'[r].n # entry'[q].n
    BY DEF OnTheWay
  <2>1. CASE q = p
    <3>1. entry'[q].n = seq + 1
      BY <1>2, <1>3, <2>1
    <3>2. \A r \in Processes \ {q} : entry'[r] # Nothing => entry'[r].n # entry'[q].n
      BY <1>1, <1>3, <1>7, <2>1, <3>1
    <3>3. seq + 1 # top /\ \A d \in Entries(list) \cup Entries(clear.keep) : d.n # seq + 1
      BY <1>1, <1>5
    <3> QED
      BY <1>1, <3>1, <3>2, <3>3
  <2>2. CASE q # p
    <3>1. entry'[q] = entry[q] /\ entry[q] # Nothing
      BY <1>3, <2>2
    <3>2. entry[q].n \in Nat /\ entry[q].n <= seq
      BY <1>7, <2>2, <3>1
    <3>3. entry'[p].n # entry'[q].n
      BY <1>1, <1>2, <1>3, <3>1, <3>2
    <3>4. \A r \in Processes \ {q} : entry'[r] # Nothing => entry'[r].n # entry'[q].n
      BY <1>3, <3>1, <3>3 DEF OnTheWay
    <3>5. entry[q].n <= seq'
      BY <1>1, <3>2
    <3> QED
      BY <1>1, <3>1, <3>4, <3>5 DEF OnTheWay
  <2> QED
    BY <2>1, <2>2
<1>9. NoNumberTwice' /\ InOrder' /\ KeepsForeign'
  BY <1>1 DEF NoNumberTwice, InOrder, KeepsForeign
<1>10. SentOnce'
  BY <1>1 DEF SentOnce, NeverTwice, NothingSkipped
<1> QED
  BY <1>4, <1>6, <1>8, <1>9, <1>10

\* A push appends, and a trim or a prune only takes from the front.
LEMMA PushedList ==
    ASSUME LogInv, NEW p \in Processes, NEW k \in 0 .. Len(list), Pushed(p, k)
    PROVE  CutOf(list', Append(list, entry[p]))
<1>1. list \in Seq(Entry) /\ entry[p] \in Entry
  BY DEF LogInv, LogTypes, Pushed
<1> DEFINE s == Append(list, entry[p])
           t == SubSeq(s, k + 1, Len(s))
           m == Max({1, Len(t) - Cap + 1})
<1>2. s \in Seq(Entry) /\ Len(s) = Len(list) + 1 /\ Len(list) \in Nat
  BY <1>1, AppendFacts, EntriesAre
<1> HIDE DEF s
<1>3. k + 1 \in 1 .. Len(s) + 1
  BY <1>2
<1>4. CutOf(t, s)
  BY <1>2, <1>3, TailFacts
<1>5. t \in Seq(Entry) /\ Len(t) \in Nat /\ Len(t) = Len(s) - (k + 1) + 1
  BY <1>2, <1>3, <1>4, TailFacts, EntriesAre DEF CutOf
<1> HIDE DEF t
<1>6. m \in 1 .. Len(t) + 1
  <2>1. Cap \in Nat \ {0}
    BY CapAssumption
  <2>2. Len(t) - Cap + 1 \in Int /\ Len(t) - Cap + 1 <= Len(t)
    BY <1>5, <2>1
  <2>3. m = IF 1 >= Len(t) - Cap + 1 THEN 1 ELSE Len(t) - Cap + 1
    BY <2>2, MaxOfTwo
  <2> HIDE DEF m
  <2> QED
    BY <1>5, <2>2, <2>3
<1>7. CutOf(SubSeq(t, m, Len(t)), t)
  BY <1>5, <1>6, TailFacts
<1>8. list' = SubSeq(t, m, Len(t))
  BY DEF Pushed, Trimmed, Pruned, t, s
<1> QED
  BY <1>4, <1>7, <1>8, CutOfCut DEF s

LEMMA LogPush ==
    ASSUME LogInv, NEW p \in Processes, NEW k \in 0 .. Len(list), Pushed(p, k), UNCHANGED <<readVars, clear>>
    PROVE  LogInv'
<1> USE DEF LogInv, readVars
<1> DEFINE e == entry[p]
<1>1. /\ e # Nothing /\ e \in Entry /\ e.n \in Nat \ {0}
      /\ entry' = [entry EXCEPT ![p] = Nothing] /\ top' = Max({top, e.n})
      /\ disorder' = (disorder \/ top > e.n)
      /\ lost' = (IF clear.pc = "read" THEN lost \cup {e} ELSE lost)
      /\ UNCHANGED <<seq, cursor, seen, polled, clear>>
  BY DEF Pushed, LogTypes, Entry
<1>2. list \in Seq(Entry) /\ top \in Nat /\ seq \in Nat /\ cursor \in Nat /\ clear.keep \in Seq(Entry)
  BY DEF LogTypes
<1>3. e.n <= seq /\ e.n # top /\ \A d \in Entries(list) \cup Entries(clear.keep) : d.n # e.n
  BY <1>1 DEF OnTheWay
<1>4. \A q \in Processes : entry'[q] # Nothing => q # p /\ entry'[q] = entry[q] /\ entry[q].n # e.n
  BY <1>1 DEF LogTypes, OnTheWay
<1>5. entry' \in [Processes -> Entry \cup {Nothing}]
  BY <1>1 DEF LogTypes
<1>6. CutOf(list', Append(list, e))
  BY PushedList
<1>7. list' \in Seq(Entry) /\ Entries(list') \subseteq Entries(list) \cup {e}
  BY <1>1, <1>2, <1>6, AppendFacts DEF CutOf
<1>8. Distinct(list')
  BY <1>1, <1>2, <1>3, <1>6, AppendFacts DEF CutOf, NoNumberTwice
<1> HIDE DEF e
<1>9. top' = (IF top >= e.n THEN top ELSE e.n) /\ top' \in Nat
  BY <1>1, <1>2, MaxOfTwo
<1>10. LogTypes'
  BY <1>1, <1>2, <1>5, <1>7, <1>9 DEF LogTypes
<1>11. \A d \in Entries(list) \cup Entries(clear.keep) : d.n \in Nat /\ d.n <= top
  BY <1>2, EntriesAre DEF Numbered
<1>12. Numbered'
  <2>1. cursor <= top /\ top <= seq
    BY DEF Numbered
  <2> DEFINE m == e.n
  <2>2. m \in Nat
    BY <1>1
  <2>3. top \in Nat /\ top' = (IF top >= m THEN top ELSE m)
    BY <1>2, <1>9
  <2> HIDE DEF m
  <2>4. top <= top' /\ m <= top'
    BY <2>2, <2>3
  <2>5. cursor <= top' /\ top' <= seq
    BY <1>2, <1>3, <1>9, <2>1, <2>2, <2>4 DEF m
  <2>6. \A d \in Entries(list) \cup Entries(clear.keep) : d.n <= top'
    BY <1>2, <1>9, <1>11, <2>4
  <2> QED
    BY <1>1, <1>7, <2>1, <2>4, <2>5, <2>6 DEF Numbered, m
<1>13. OnTheWay'
  <2> SUFFICES ASSUME NEW q \in Processes, entry'[q] # Nothing
               PROVE  /\ entry'[q].n <= seq' /\ entry'[q].n # top'
                      /\ \A d \in Entries(list') \cup Entries(clear'.keep) : d.n # entry'[q].n
                      /\ \A r \in Processes \ {q} : entry'[r] # Nothing => entry'[r].n # entry'[q].n
    BY DEF OnTheWay
  <2>1. q # p /\ entry'[q] = entry[q] /\ entry[q] # Nothing /\ entry[q].n # e.n
    BY <1>4
  <2>2. entry[q].n # top /\ entry[q].n <= seq /\ \A d \in Entries(list) \cup Entries(clear.keep) : d.n # entry[q].n
    BY <2>1 DEF OnTheWay
  <2>3. entry[q].n # top'
    BY <1>9, <2>1, <2>2
  <2>4. \A d \in Entries(list') \cup Entries(clear'.keep) : d.n # entry[q].n
    BY <1>1, <1>7, <2>1, <2>2
  <2>5. \A r \in Processes \ {q} : entry'[r] # Nothing => entry'[r].n # entry[q].n
    BY <1>4, <2>1 DEF OnTheWay
  <2> QED
    BY <1>1, <2>1, <2>2, <2>3, <2>4, <2>5
<1>14. NoNumberTwice'
  BY <1>1, <1>8 DEF NoNumberTwice
<1>15. ~disorder' => ~disorder /\ top < e.n
  <2>1. ~disorder' => ~disorder /\ ~(top > e.n)
    BY <1>1, Zenon
  <2>2. ~(top > e.n) => top < e.n
    BY <1>1, <1>2, <1>3
  <2> QED
    BY <2>1, <2>2
<1>16. InOrder'
  <2> SUFFICES ASSUME ~disorder' PROVE Sorted(list') /\ Sorted(clear'.keep)
    BY DEF InOrder
  <2>1. Sorted(list) /\ Sorted(clear.keep) /\ top < e.n
    BY <1>15 DEF InOrder
  <2>2. \A d \in Entries(list) : d.n < e.n
    BY <1>1, <1>2, <1>11, <2>1
  <2>3. Sorted(Append(list, e))
    BY <1>1, <1>2, <2>1, <2>2, AppendFacts
  <2> QED
    BY <1>1, <1>6, <2>1, <2>3 DEF CutOf, e
<1>17. KeepsForeign'
  BY <1>1, <1>7 DEF KeepsForeign
<1>18. SentOnce'
  <2>1. NeverTwice'
    BY <1>1 DEF SentOnce, NeverTwice
  <2>2. NothingSkipped'
    <3> SUFFICES ASSUME ~polled', ~disorder', NEW d \in Entries(list'), Mine(d), d.n <= cursor' PROVE d \in Entries(seen')
      BY DEF NothingSkipped
    <3>1. cursor <= top /\ top < e.n
      BY <1>15 DEF Numbered
    <3>2. d # e
      BY <1>1, <1>2, <3>1
    <3>3. d \in Entries(list) /\ ~polled /\ ~disorder /\ d.n <= cursor
      BY <1>1, <1>7, <1>15, <3>2
    <3> QED
      BY <1>1, <3>3 DEF SentOnce, NothingSkipped
  <2> QED
    BY <2>1, <2>2 DEF SentOnce
<1> QED
  BY <1>10, <1>12, <1>13, <1>14, <1>16, <1>17, <1>18

LEMMA KeptFacts ==
    ASSUME list \in Seq(Entry), NEW own \in BOOLEAN
    PROVE  /\ CutOf(Kept(own), list)
           /\ \A e \in Entries(list) : e \in Entries(Kept(own)) \/ e.of = (IF own THEN "own" ELSE "other")
<1> DEFINE I == {i \in DOMAIN list : list[i].of # IF own THEN "own" ELSE "other"}
<1>1. I \in SUBSET (1 .. Len(list))
  BY LenProperties
<1>2. CutOf(At(list, I), list) /\ \A i \in I : list[i] \in Entries(At(list, I))
  BY <1>1, AtCut
<1>3. \A i \in DOMAIN list : i \in I \/ list[i].of = (IF own THEN "own" ELSE "other")
  OBVIOUS
<1>4. Kept(own) = At(list, I)
  BY DEF Kept
<1> HIDE DEF I
<1>5. \A e \in Entries(list) : \E i \in DOMAIN list : e = list[i]
  BY DEF Entries
<1> QED
  BY <1>2, <1>3, <1>4, <1>5

LEMMA LogClearRead == ASSUME LogInv, ClearRead PROVE LogInv'
<1> USE DEF LogInv
<1>1. PICK own \in BOOLEAN : clear' = [pc |-> "read", own |-> own, keep |-> Kept(own)]
  BY DEF ClearRead
<1>2. UNCHANGED <<seq, list, entry, top, disorder, cursor, seen, polled, lost>>
  BY DEF ClearRead, logVars, readVars
<1>3. clear'.pc = "read" /\ clear'.own = own /\ clear'.keep = Kept(own)
  BY <1>1
<1>4. list \in Seq(Entry)
  BY DEF LogTypes
<1>5. Kept(own) \in Seq(Entry) /\ Entries(Kept(own)) \subseteq Entries(list) /\ CutOf(Kept(own), list)
  BY <1>4, KeptFacts DEF CutOf
<1>6. LogTypes'
  BY <1>1, <1>2, <1>5 DEF LogTypes
<1>7. Numbered' /\ OnTheWay'
  BY <1>2, <1>3, <1>5 DEF Numbered, OnTheWay
<1>8. NoNumberTwice' /\ InOrder'
  BY <1>2, <1>3, <1>5 DEF NoNumberTwice, InOrder, CutOf
<1>9. KeepsForeign'
  <2>1. \A e \in Entries(list) : e \in Entries(Kept(own)) \/ e.of = (IF own THEN "own" ELSE "other")
    BY <1>4, KeptFacts
  <2> QED
    BY <1>2, <1>3, <2>1 DEF KeepsForeign
<1>10. SentOnce'
  BY <1>2 DEF SentOnce, NeverTwice, NothingSkipped
<1> QED
  BY <1>6, <1>7, <1>8, <1>9, <1>10

LEMMA LogClearWrite == ASSUME LogInv, ClearWrite PROVE LogInv'
<1> USE DEF LogInv
<1>1. /\ UNCHANGED <<seq, entry, top, cursor, seen, polled, lost>>
      /\ list' = clear.keep /\ clear' = Idle
      /\ disorder' = (disorder \/ ~(Entries(clear.keep) \subseteq Entries(list)))
  BY DEF ClearWrite, readVars
<1>2. Idle \in [pc : {"idle", "read"}, own : BOOLEAN, keep : Seq(Entry)] /\ Idle.pc = "idle" /\ Idle.keep = <<>>
  BY EmptySeq DEF Idle
<1>3. Len(<<>>) = 0 /\ Entries(<<>>) = {}
  BY EmptySeq DEF Entries
<1>4. LogTypes'
  BY <1>1, <1>2 DEF LogTypes
<1>5. Numbered' /\ OnTheWay'
  BY <1>1, <1>2, <1>3 DEF Numbered, OnTheWay
<1>6. Distinct(<<>>) /\ Sorted(<<>>)
  BY <1>3 DEF Distinct, Sorted
<1>7. NoNumberTwice' /\ InOrder'
  BY <1>1, <1>2, <1>6 DEF NoNumberTwice, InOrder
<1>8. KeepsForeign'
  BY <1>1, <1>2 DEF KeepsForeign
<1>9. SentOnce'
  BY <1>1 DEF SentOnce, NeverTwice, NothingSkipped
<1> QED
  BY <1>4, <1>5, <1>7, <1>8, <1>9

\* What a poll reads: only entries above the cursor, and, in a sorted log, all of them.
LEMMA UnreadFacts ==
    ASSUME list \in Seq(Entry), cursor \in Nat
    PROVE  /\ CutOf(Unread, list)
           /\ \A e \in Entries(Unread) : e.n > cursor
           /\ Sorted(list) => \A e \in Entries(list) : e.n > cursor => e \in Entries(Unread)
<1> DEFINE old == {i \in DOMAIN list : list[i].n <= cursor}
           m == IF old = {} THEN 1 ELSE Max(old) + 1
<1>1. Len(list) \in Nat /\ DOMAIN list = 1 .. Len(list) /\ \A i \in 1 .. Len(list) : list[i].n \in Nat
  BY EntriesAre
<1>2. /\ m \in 1 .. Len(list) + 1
      /\ old # {} => m - 1 \in old
      /\ \A i \in old : i < m
  <2>1. CASE old = {}
    BY <1>1, <2>1
  <2>2. CASE old # {}
    <3>1. old \subseteq Nat /\ \A i \in old : i <= Len(list)
      BY <1>1
    <3>2. Max(old) \in old /\ \A i \in old : i <= Max(old)
      BY <1>1, <2>2, <3>1, NatMax
    <3>3. m = Max(old) + 1
      BY <2>2
    <3>4. Max(old) \in 1 .. Len(list)
      BY <1>1, <3>2
    <3>5. \A i \in old : i \in Nat
      BY <3>1
    <3> HIDE DEF old, m
    <3> QED
      BY <1>1, <3>2, <3>3, <3>4, <3>5
  <2> QED
    BY <2>1, <2>2
<1>3. \A i \in 1 .. Len(list) : i \in old <=> ~(list[i].n > cursor)
  BY <1>1
<1>4. Unread = SubSeq(list, m, Len(list))
  BY DEF Unread
<1> HIDE DEF old, m
<1>5. /\ CutOf(Unread, list) /\ Unread \in Seq(Entry) /\ Len(Unread) = Len(list) - m + 1
      /\ \A i \in 1 .. Len(list) - m + 1 : Unread[i] = list[m + i - 1]
      /\ \A i \in m .. Len(list) : list[i] \in Entries(Unread)
  BY <1>2, <1>4, TailFacts DEF CutOf
<1>6. \A e \in Entries(Unread) : e.n > cursor
  <2> SUFFICES ASSUME NEW e \in Entries(Unread) PROVE e.n > cursor
    OBVIOUS
  <2>1. PICK i \in 1 .. Len(Unread) : e = Unread[i]
    BY <1>5, EntriesAre
  <2>2. e = list[m + i - 1] /\ m + i - 1 \in 1 .. Len(list) /\ ~(m + i - 1 < m)
    BY <1>1, <1>2, <1>5, <2>1
  <2>3. m + i - 1 \notin old
    BY <1>2, <2>2
  <2> QED
    BY <1>3, <2>2, <2>3
<1>7. Sorted(list) => \A e \in Entries(list) : e.n > cursor => e \in Entries(Unread)
  <2> SUFFICES ASSUME Sorted(list), NEW e \in Entries(list), e.n > cursor PROVE e \in Entries(Unread)
    OBVIOUS
  <2>1. PICK i \in 1 .. Len(list) : e = list[i]
    BY EntriesAre
  <2>2. i >= m
    <3> SUFFICES ASSUME i < m PROVE FALSE
      BY <1>1, <1>2
    <3>1. i # 0 /\ i <= m - 1 /\ (m - 1 \in 1 .. Len(list))
      BY <1>1, <1>2
    <3>2. CASE old = {}
      <4>1. m = 1
        BY <3>2 DEF m
      <4> QED
        BY <3>1, <4>1
    <3>3. CASE old # {}
      <4>1. m - 1 \in old /\ list[m - 1].n <= cursor
        BY <1>2, <3>3 DEF old
      <4>2. list[i].n <= list[m - 1].n
        BY <1>1, <3>1 DEF Sorted
      <4> QED
        BY <1>1, <2>1, <3>1, <4>1, <4>2
    <3> QED
      BY <3>2, <3>3
  <2>3. i \in m .. Len(list)
    BY <1>1, <1>2, <2>2
  <2> QED
    BY <1>5, <2>1, <2>3
<1> QED
  BY <1>5, <1>6, <1>7

\* What a poll sends: entries it read, and all of the tenant's, unless they are too many.
LEMMA SentFacts ==
    ASSUME list \in Seq(Entry), cursor \in Nat
    PROVE  /\ CutOf(Sent, Unread) /\ CutOf(Sent, list)
           /\ ~(Len(UnreadMine) > Limit) =>
                \A e \in Entries(Unread) : Mine(e) => e \in Entries(Sent)
<1> DEFINE I == {i \in DOMAIN Unread : Mine(Unread[i])}
           m == Max({1, Len(UnreadMine) - Limit + 1})
<1>1. CutOf(Unread, list) /\ Unread \in Seq(Entry)
  BY UnreadFacts DEF CutOf
<1>2. I \in SUBSET (1 .. Len(Unread))
  BY <1>1, LenProperties
<1>3. CutOf(UnreadMine, Unread) /\ \A i \in I : Unread[i] \in Entries(UnreadMine)
  BY <1>1, <1>2, AtCut DEF UnreadMine
<1>4. UnreadMine \in Seq(Entry) /\ Len(UnreadMine) \in Nat
  BY <1>3, EntriesAre DEF CutOf
<1>5. m \in 1 .. Len(UnreadMine) + 1 /\ (~(Len(UnreadMine) > Limit) => m = 1)
  <2>1. Limit \in Nat \ {0}
    BY CapAssumption
  <2>2. m = IF 1 >= Len(UnreadMine) - Limit + 1 THEN 1 ELSE Len(UnreadMine) - Limit + 1
    BY <1>4, <2>1, MaxOfTwo
  <2> HIDE DEF m
  <2> QED
    BY <1>4, <2>1, <2>2
<1>6. Sent = SubSeq(UnreadMine, m, Len(UnreadMine))
  BY DEF Sent
<1> HIDE DEF m
<1>7. CutOf(Sent, UnreadMine) /\ \A i \in m .. Len(UnreadMine) : UnreadMine[i] \in Entries(Sent)
  BY <1>4, <1>5, <1>6, TailFacts
<1>8. CutOf(Sent, Unread) /\ CutOf(Sent, list)
  BY <1>1, <1>3, <1>7, CutOfCut
<1>9. \A e \in Entries(Unread) : Mine(e) => e \in Entries(UnreadMine)
  BY <1>3 DEF Entries
<1>10. m = 1 => \A e \in Entries(UnreadMine) : e \in Entries(Sent)
  BY <1>4, <1>7, EntriesAre
<1> QED
  BY <1>5, <1>8, <1>9, <1>10

LEMMA LogPoll == ASSUME LogInv, Poll PROVE LogInv'
<1> USE DEF LogInv
<1> DEFINE T == {cursor} \cup {e.n : e \in Entries(Sent)}
<1>1. /\ UNCHANGED <<seq, list, entry, top, disorder, clear, lost>>
      /\ seen' = seen \o Sent /\ cursor' = Max(T)
  BY DEF Poll, logVars, clearVars
<1>2. /\ list \in Seq(Entry) /\ seen \in Seq(Entry) /\ cursor \in Nat /\ top \in Nat
      /\ Distinct(list) /\ cursor <= top /\ \A e \in Entries(list) : e.n <= top
  BY DEF LogTypes, NoNumberTwice, Numbered
<1>3. /\ Sent \in Seq(Entry) /\ Distinct(Sent) /\ Entries(Sent) \subseteq Entries(list)
      /\ \A e \in Entries(Sent) : e.n > cursor
  BY <1>2, SentFacts, UnreadFacts DEF CutOf
<1>4. \A e \in Entries(Sent) : e.n \in Nat
  BY <1>3, EntriesAre
<1>5. T \subseteq Nat /\ T # {} /\ \A k \in T : k <= top
  BY <1>2, <1>3, <1>4
<1>6. cursor' \in T /\ \A k \in T : k <= cursor'
  BY <1>1, <1>2, <1>5, NatMax
<1>7. cursor' \in Nat /\ cursor <= cursor' /\ cursor' <= top /\ \A e \in Entries(Sent) : e.n <= cursor'
  BY <1>5, <1>6
<1> HIDE DEF T
<1>8. /\ seen' \in Seq(Entry) /\ Len(seen') = Len(seen) + Len(Sent) /\ Len(seen) \in Nat /\ Len(Sent) \in Nat
      /\ \A i \in 1 .. Len(seen) : seen'[i] = seen[i]
      /\ \A i \in 1 .. Len(Sent) : seen'[Len(seen) + i] = Sent[i]
  <2>1. Len(seen) \in Nat /\ Len(Sent) \in Nat
    BY <1>2, <1>3, EntriesAre
  <2>2. /\ seen \o Sent \in Seq(Entry) /\ Len(seen \o Sent) = Len(seen) + Len(Sent)
        /\ \A i \in 1 .. Len(seen) + Len(Sent) : (seen \o Sent)[i] = IF i <= Len(seen) THEN seen[i] ELSE Sent[i - Len(seen)]
    BY <1>2, <1>3, ConcatProperties
  <2> QED
    BY <1>1, <2>1, <2>2
<1>9. \A i \in 1 .. Len(seen') : i \in 1 .. Len(seen) \/ \E j \in 1 .. Len(Sent) : i = Len(seen) + j
  <2>1. \A i \in 1 .. Len(seen') : i \in 1 .. Len(seen) \/ (i - Len(seen) \in 1 .. Len(Sent) /\ i = Len(seen) + (i - Len(seen)))
    BY <1>8
  <2> QED
    BY <2>1
<1>10. Entries(seen') = Entries(seen) \cup Entries(Sent)
  <2>1. Entries(seen') \subseteq Entries(seen) \cup Entries(Sent)
    <3> SUFFICES ASSUME NEW e \in Entries(seen') PROVE e \in Entries(seen) \cup Entries(Sent)
      OBVIOUS
    <3>1. PICK i \in 1 .. Len(seen') : e = seen'[i]
      BY <1>8, EntriesAre
    <3>2. CASE i \in 1 .. Len(seen)
      BY <1>2, <1>8, <3>1, <3>2, EntriesAre
    <3>3. CASE \E j \in 1 .. Len(Sent) : i = Len(seen) + j
      BY <1>3, <1>8, <3>1, <3>3, EntriesAre
    <3> QED
      BY <1>9, <3>2, <3>3
  <2>2. \A i \in 1 .. Len(seen) : i \in 1 .. Len(seen')
    BY <1>8
  <2>3. \A i \in 1 .. Len(Sent) : Len(seen) + i \in 1 .. Len(seen')
    BY <1>8
  <2>4. Entries(seen) \subseteq Entries(seen')
    BY <1>2, <1>8, <2>2, EntriesAre
  <2>5. Entries(Sent) \subseteq Entries(seen')
    BY <1>3, <1>8, <2>3, EntriesAre
  <2> QED
    BY <2>1, <2>4, <2>5
<1>11. LogTypes'
  BY <1>1, <1>7, <1>8 DEF LogTypes
<1>12. Numbered'
  <2>1. \A e \in Entries(seen) : e.n \in Nat /\ e.n <= cursor
    BY <1>2, EntriesAre DEF Numbered
  <2>2. \A e \in Entries(seen') : e.n <= cursor'
    BY <1>2, <1>7, <1>10, <2>1
  <2> QED
    BY <1>1, <1>7, <2>2 DEF Numbered
<1>13. OnTheWay' /\ NoNumberTwice' /\ InOrder' /\ KeepsForeign'
  BY <1>1 DEF OnTheWay, NoNumberTwice, InOrder, KeepsForeign
<1>14. NeverTwice'
  <2>1. \A i \in 1 .. Len(seen) : seen[i].n \in Nat /\ seen[i].n <= cursor
    BY <1>2, EntriesAre DEF Numbered
  <2>2. \A j \in 1 .. Len(Sent) : Sent[j].n \in Nat /\ Sent[j].n > cursor
    BY <1>3, EntriesAre
  <2>3. \A i \in 1 .. Len(seen), j \in 1 .. Len(Sent) : seen[i].n # Sent[j].n
    BY <1>2, <2>1, <2>2
  <2>4. \A i, j \in 1 .. Len(seen) : seen[i].n = seen[j].n => i = j
    BY <1>2, EntriesAre DEF SentOnce, NeverTwice
  <2>5. \A i, j \in 1 .. Len(Sent) : Sent[i].n = Sent[j].n => i = j
    BY <1>3 DEF Distinct
  <2> SUFFICES ASSUME NEW i \in 1 .. Len(seen'), NEW j \in 1 .. Len(seen'), seen'[i].n = seen'[j].n PROVE i = j
    BY <1>8, EntriesAre DEF NeverTwice
  <2>6. CASE i \in 1 .. Len(seen) /\ j \in 1 .. Len(seen)
    BY <1>8, <2>4, <2>6
  <2>7. ASSUME NEW k \in 1 .. Len(Sent), NEW l \in 1 .. Len(Sent), i = Len(seen) + k, j = Len(seen) + l PROVE i = j
    BY <1>8, <2>5, <2>7
  <2>8. ASSUME i \in 1 .. Len(seen), NEW l \in 1 .. Len(Sent), j = Len(seen) + l PROVE FALSE
    <3>1. seen'[i] = seen[i] /\ seen'[j] = Sent[l]
      BY <1>8, <2>8
    <3> QED
      BY <2>3, <2>8, <3>1
  <2>9. ASSUME j \in 1 .. Len(seen), NEW k \in 1 .. Len(Sent), i = Len(seen) + k PROVE FALSE
    <3>1. seen'[j] = seen[j] /\ seen'[i] = Sent[k]
      BY <1>8, <2>9
    <3> QED
      BY <2>3, <2>9, <3>1
  <2> QED
    BY <1>9, <2>6, <2>7, <2>8, <2>9
<1>15. NothingSkipped'
  <2> SUFFICES ASSUME ~polled', ~disorder', NEW e \in Entries(list'), Mine(e), e.n <= cursor' PROVE e \in Entries(seen')
    BY DEF NothingSkipped
  <2>1. ~polled /\ ~(Len(UnreadMine) > Limit) /\ ~disorder /\ e \in Entries(list)
    BY <1>1 DEF Poll
  <2>2. CASE e.n <= cursor
    BY <1>10, <2>1, <2>2 DEF SentOnce, NothingSkipped
  <2>3. CASE e.n > cursor
    <3>1. e \in Entries(Unread)
      BY <1>2, <2>1, <2>3, UnreadFacts DEF InOrder
    <3>2. e \in Entries(Sent)
      BY <1>2, <2>1, <3>1, SentFacts
    <3> QED
      BY <1>10, <3>2
  <2>4. e.n \in Nat
    BY <1>2, <2>1, EntriesAre
  <2> QED
    BY <1>2, <2>2, <2>3, <2>4
<1> QED
  BY <1>11, <1>12, <1>13, <1>14, <1>15 DEF SentOnce

LEMMA LogKept == LogInv /\ [Next]_vars => LogInv'
<1> SUFFICES ASSUME LogInv, [Next]_vars PROVE LogInv'
  OBVIOUS
<1>1. ASSUME UNCHANGED <<logVars, readVars, clearVars>> PROVE LogInv'
  BY <1>1, LogQuiet DEF logVars, clearVars
<1>2. ASSUME NEW p \in Processes, Logs(p), UNCHANGED <<readVars, clearVars>> PROVE LogInv'
  <2>1. CASE Stamp(p)
    BY <1>2, <2>1, LogStamp DEF clearVars
  <2>2. CASE UNCHANGED logVars
    BY <1>1, <1>2, <2>2
  <2> QED
    BY <1>2, <2>1, <2>2 DEF Logs
<1>3. "web" \in Processes /\ "worker" \in Processes /\ Neighbours \subseteq Processes
  BY DEF Processes
<1>4. CASE Task
  <2>1. CASE Send \/ Register \/ Begin \/ MetaRead \/ MetaWrite \/ WorkDone
    BY <1>1, <2>1 DEF Send, Register, Begin, MetaRead, MetaWrite, WorkDone
  <2>2. CASE WebLogs
    BY <1>2, <1>3, <2>2 DEF WebLogs
  <2>3. CASE WorkerLogs
    BY <1>2, <1>3, <2>3 DEF WorkerLogs
  <2>4. CASE End
    BY <1>2, <1>3, <2>4 DEF End
  <2> QED
    BY <1>4, <2>1, <2>2, <2>3, <2>4 DEF Task
<1>5. CASE Killed \/ StopAll
  BY <1>5, LogQuiet DEF Killed, StopAll, clearVars
<1>6. CASE Forget
  BY <1>1, <1>6 DEF Forget
<1>7. CASE Poll
  BY <1>7, LogPoll
<1>8. CASE ClearRead
  BY <1>8, LogClearRead
<1>9. CASE ClearWrite
  BY <1>9, LogClearWrite
<1>10. ASSUME NEW p \in Processes, Push(p) PROVE LogInv'
  BY <1>10, LogPush DEF Push
<1>11. ASSUME NEW p \in Neighbours, NeighbourLogs(p) PROVE LogInv'
  BY <1>3, <1>11, LogStamp DEF NeighbourLogs, clearVars
<1>12. CASE UNCHANGED vars
  BY <1>1, <1>12 DEF vars
<1> QED
  BY <1>4, <1>5, <1>6, <1>7, <1>8, <1>9, <1>10, <1>11, <1>12 DEF Next

\* For any number of processes, whatever order their entries come in, and
\* however often the log is trimmed, pruned or cleared meanwhile: a browser gets
\* no entry twice, and, with the two exceptions of NothingSkipped, all of them.
THEOREM EachSentOnce == Spec => []SentOnce
<1>1. LogInv => SentOnce
  BY DEF LogInv
<1> QED
  BY LogInit, LogKept, <1>1, PTL DEF Spec

\* A rewrite of the log takes away no entry of another tenant that it had the
\* chance to read.
LEMMA ForeignStep ==
    ASSUME LogInv, [Next]_vars, clear.pc = "read", clear'.pc = "idle"
    PROVE  \A e \in Entries(list) \ (Entries(list') \cup lost) : e.of = IF clear.own THEN "own" ELSE "other"
<1>1. ASSUME UNCHANGED clear PROVE FALSE
  BY <1>1
<1>2. ClearWrite
  BY <1>1 DEF Next, Task, Send, Register, WebLogs, Begin, MetaRead, MetaWrite, WorkerLogs, WorkDone, End, Killed, StopAll, Forget,
              Poll, ClearRead, Push, NeighbourLogs, vars, clearVars
<1> QED
  BY <1>2 DEF ClearWrite, LogInv, KeepsForeign

\* Clearing one tenant's log takes no entry of another but those pushed meanwhile.
THEOREM ForeignStays == Spec => ForeignKept
<1>1. LogInv /\ [Next]_vars =>
        [clear.pc = "read" /\ clear'.pc = "idle" =>
            \A e \in Entries(list) \ (Entries(list') \cup lost) : e.of = IF clear.own THEN "own" ELSE "other"]_vars
  BY ForeignStep
<1> QED
  BY LogInit, LogKept, <1>1, PTL DEF Spec, ForeignKept
=============================================================================
