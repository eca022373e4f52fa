----------------------- MODULE ConnectionPool_proofs -----------------------
(***************************************************************************)
(* What ConnectionPool promises for every number of threads and every      *)
(* trait: a connection belongs to one thread at a time and is not deleted  *)
(* while it does, none is lost, the limits of the trait hold, and no       *)
(* wakeup is lost.                                                         *)
(***************************************************************************)
EXTENDS ConnectionPool, SequenceTheorems, FiniteSetTheorems, FunctionTheorems, TLAPS

-----------------------------------------------------------------------------
(* Lists of connections *)

\* The empty list holds nothing, a list is shorter without its head.
LEMMA OfTail ==
    ASSUME NEW S, NEW s \in Seq(S), s # <<>>
    PROVE  /\ Head(s) \in S /\ Tail(s) \in Seq(S)
           /\ Len(Tail(s)) = Len(s) - 1 /\ Len(s) >= 1
           /\ Elements(s) = Elements(Tail(s)) \cup {Head(s)}
           /\ Distinct(s) => /\ Distinct(Tail(s))
                             /\ Head(s) \notin Elements(Tail(s))
<1>1. /\ Head(s) = s[1] /\ Len(s) \in Nat /\ Len(s) >= 1
      /\ Tail(s) \in Seq(S) /\ Len(Tail(s)) = Len(s) - 1
      /\ DOMAIN s = 1 .. Len(s) /\ DOMAIN Tail(s) = 1 .. Len(s) - 1
  OBVIOUS
<1>2. \A i \in 1 .. Len(s) - 1 : Tail(s)[i] = s[i + 1]
  OBVIOUS
<1>3. Elements(s) = Elements(Tail(s)) \cup {Head(s)}
  <2>1. ASSUME NEW i \in 1 .. Len(s)
        PROVE  s[i] \in Elements(Tail(s)) \cup {Head(s)}
    <3>1. CASE i = 1
      BY <3>1, <1>1
    <3>2. CASE i # 1
      <4>1. i - 1 \in 1 .. Len(s) - 1 /\ Tail(s)[i - 1] = s[i]
        BY <3>2, <1>1, <1>2
      <4> QED
        BY <4>1, <1>1 DEF Elements
    <3> QED
      BY <3>1, <3>2
  <2>2. ASSUME NEW i \in 1 .. Len(s) - 1
        PROVE  Tail(s)[i] \in Elements(s)
    <3>1. i + 1 \in 1 .. Len(s) /\ Tail(s)[i] = s[i + 1]
      BY <1>1, <1>2
    <3> QED
      BY <3>1, <1>1 DEF Elements
  <2>3. Head(s) \in Elements(s)
    BY <1>1 DEF Elements
  <2> QED
    BY <1>1, <2>1, <2>2, <2>3 DEF Elements
<1>4. ASSUME Distinct(s)
      PROVE  Distinct(Tail(s)) /\ Head(s) \notin Elements(Tail(s))
  <2>1. ASSUME NEW i \in 1 .. Len(s) - 1, NEW j \in 1 .. Len(s) - 1,
               Tail(s)[i] = Tail(s)[j]
        PROVE  i = j
    <3>1. i + 1 = j + 1
      BY <1>1, <1>2, <1>4, <2>1 DEF Distinct
    <3> QED
      BY <3>1
  <2>2. ASSUME NEW i \in 1 .. Len(s) - 1, Tail(s)[i] = Head(s)
        PROVE  FALSE
    <3>1. i + 1 = 1
      BY <1>1, <1>2, <1>4, <2>2 DEF Distinct
    <3> QED
      BY <3>1
  <2> QED
    BY <1>1, <2>1, <2>2 DEF Distinct, Elements
<1> QED
  BY <1>1, <1>3, <1>4

LEMMA OfAppend ==
    ASSUME NEW S, NEW s \in Seq(S), NEW c \in S
    PROVE  /\ Append(s, c) \in Seq(S)
           /\ Len(Append(s, c)) = Len(s) + 1
           /\ Elements(Append(s, c)) = Elements(s) \cup {c}
           /\ Distinct(s) /\ c \notin Elements(s) => Distinct(Append(s, c))
<1>1. /\ Append(s, c) \in Seq(S) /\ Len(Append(s, c)) = Len(s) + 1
      /\ Len(s) \in Nat /\ DOMAIN s = 1 .. Len(s)
      /\ DOMAIN Append(s, c) = 1 .. Len(s) + 1
      /\ \A i \in 1 .. Len(s) : Append(s, c)[i] = s[i]
      /\ Append(s, c)[Len(s) + 1] = c
  OBVIOUS
<1>2. 1 .. Len(s) + 1 = (1 .. Len(s)) \cup {Len(s) + 1}
  BY <1>1
<1>3. Elements(Append(s, c)) = Elements(s) \cup {c}
  BY <1>1, <1>2 DEF Elements
<1>4. ASSUME Distinct(s), c \notin Elements(s)
      PROVE  Distinct(Append(s, c))
  BY <1>1, <1>2, <1>4 DEF Distinct, Elements
<1> QED
  BY <1>1, <1>3, <1>4

LEMMA OfWithout ==
    ASSUME NEW S, NEW s \in Seq(S), NEW i \in 1 .. Len(s), Distinct(s)
    PROVE  /\ Without(s, i) \in Seq(S)
           /\ Len(Without(s, i)) = Len(s) - 1
           /\ Elements(Without(s, i)) = Elements(s) \ {s[i]}
           /\ Distinct(Without(s, i))
<1> DEFINE w == Without(s, i)
           n == Len(s)
           Place(j) == IF j < i THEN j ELSE j + 1
           f == SubSeq(s, 1, i - 1)
           b == SubSeq(s, i + 1, n)
<1>1. /\ n \in Nat /\ DOMAIN s = 1 .. n /\ i \in 1 .. n /\ n = Len(s)
      /\ w = f \o b
  BY DEF Without
<1>2. n \in Nat /\ i \in 1 .. n
  BY <1>1
<1>3. /\ f \in Seq(S) /\ Len(f) = i - 1
      /\ \A j \in 1 .. i - 1 : f[j] = s[j]
  BY <1>1
<1>4. /\ b \in Seq(S) /\ Len(b) = n - i
      /\ \A j \in 1 .. n - i : b[j] = s[i + j]
  <2>1. \A j \in i + 1 .. n : s[j] \in S
    BY <1>1
  <2>2. /\ b \in Seq(S) /\ Len(b) = IF i + 1 <= n THEN n - (i + 1) + 1 ELSE 0
        /\ \A j \in 1 .. n - (i + 1) + 1 : b[j] = s[(i + 1) + j - 1]
    <3>1. i + 1 \in Int /\ n \in Int
      BY <1>1
    <3> HIDE DEF n
    <3> QED
      BY <2>1, <3>1, SubSeqProperties
  <2> HIDE DEF n, b
  <2>3. n - (i + 1) + 1 = n - i /\ \A j \in Int : (i + 1) + j - 1 = i + j
    BY <1>1
  <2>4. Len(b) = n - i
    BY <1>2, <2>2
  <2> QED
    BY <2>2, <2>3, <2>4
<1> HIDE DEF w, n, f, b
<1>5. /\ w \in Seq(S) /\ Len(w) = n - 1 /\ DOMAIN w = 1 .. n - 1
      /\ \A j \in 1 .. n - 1 : w[j] = s[Place(j)]
  <2>1. /\ w \in Seq(S) /\ Len(w) = Len(f) + Len(b)
        /\ \A j \in 1 .. Len(f) + Len(b) :
              w[j] = IF j <= Len(f) THEN f[j] ELSE b[j - Len(f)]
    BY <1>1, <1>3, <1>4, ConcatProperties
  <2>2. Len(w) = n - 1 /\ DOMAIN w = 1 .. n - 1
    <3>1. Len(w) = n - 1
      BY <2>1, <1>1, <1>3, <1>4
    <3> QED
      BY <2>1, <3>1
  <2>3. ASSUME NEW j \in 1 .. n - 1 PROVE w[j] = s[Place(j)]
    <3>1. CASE j < i
      <4>1. j \in 1 .. i - 1 /\ w[j] = f[j]
        BY <3>1, <2>1, <1>1, <1>3, <1>4
      <4>2. Place(j) = j
        BY <3>1
      <4> QED
        BY <4>1, <4>2, <1>3
    <3>2. CASE j >= i
      <4>1. j - (i - 1) \in 1 .. n - i /\ w[j] = b[j - (i - 1)]
        BY <3>2, <2>1, <1>1, <1>3, <1>4
      <4>2. i + (j - (i - 1)) = j + 1
        BY <1>1
      <4>3. Place(j) = j + 1
        BY <3>2, <1>1
      <4> QED
        BY <4>1, <4>2, <4>3, <1>4
    <3> QED
      BY <1>2, <3>1, <3>2
  <2> QED
    BY <2>1, <2>2, <2>3
<1>6. /\ \A j \in 1 .. n - 1 : Place(j) \in 1 .. n /\ Place(j) # i
      /\ \A j, k \in 1 .. n - 1 : Place(j) = Place(k) => j = k
      /\ \A k \in 1 .. n : k # i => \E j \in 1 .. n - 1 : Place(j) = k
  <2>1. ASSUME NEW k \in 1 .. n, k # i
        PROVE  \E j \in 1 .. n - 1 : Place(j) = k
    <3>1. CASE k < i
      <4>1. k \in 1 .. n - 1 /\ Place(k) = k
        BY <3>1, <1>2
      <4> QED
        BY <4>1
    <3>2. CASE k > i
      <4>1. k - 1 \in 1 .. n - 1 /\ Place(k - 1) = k
        BY <3>2, <1>2
      <4> QED
        BY <4>1
    <3> QED
      BY <2>1, <1>2, <3>1, <3>2
  <2> QED
    BY <2>1, <1>2
<1> HIDE DEF Place
<1>7. \A j, k \in 1 .. n : s[j] = s[k] => j = k
  BY <1>1 DEF Distinct
<1>8. Elements(w) = {w[j] : j \in 1 .. n - 1} /\ Elements(s) = {s[j] : j \in 1 .. n}
  BY <1>1, <1>5 DEF Elements
<1>9. Elements(w) = Elements(s) \ {s[i]}
  <2>1. ASSUME NEW j \in 1 .. n - 1
        PROVE  w[j] \in Elements(s) \ {s[i]}
    <3>1. w[j] = s[Place(j)] /\ Place(j) \in 1 .. n /\ Place(j) # i
      BY <1>5, <1>6
    <3>2. s[Place(j)] # s[i]
      BY <3>1, <1>2, <1>7
    <3> QED
      BY <3>1, <3>2, <1>8
  <2>2. ASSUME NEW k \in 1 .. n, k # i
        PROVE  s[k] \in Elements(w)
    <3>1. PICK j \in 1 .. n - 1 : Place(j) = k
      BY <1>6, <2>2
    <3> QED
      BY <3>1, <1>5, <1>8
  <2> QED
    BY <1>2, <1>8, <2>1, <2>2
<1>10. Distinct(w)
  <2> SUFFICES ASSUME NEW j \in 1 .. n - 1, NEW k \in 1 .. n - 1,
                      w[j] = w[k]
               PROVE  j = k
    BY <1>5 DEF Distinct
  <2>1. /\ w[j] = s[Place(j)] /\ w[k] = s[Place(k)]
        /\ Place(j) \in 1 .. n /\ Place(k) \in 1 .. n
    BY <1>5, <1>6
  <2>2. Place(j) = Place(k)
    BY <2>1, <1>7
  <2> QED
    BY <2>2, <1>6
<1> QED
  BY <1>5, <1>9, <1>10 DEF w, n

\* A list without repetitions has as many elements as it is long.
LEMMA DistinctLength ==
    ASSUME NEW S, NEW s \in Seq(S), Distinct(s)
    PROVE  IsFiniteSet(Elements(s)) /\ Cardinality(Elements(s)) = Len(s)
<1>1. Len(s) \in Nat /\ DOMAIN s = 1 .. Len(s)
  OBVIOUS
<1>2. s \in Bijection(1 .. Len(s), Elements(s))
  BY <1>1, Fun_IsBij DEF Elements, Distinct
<1>3. IsFiniteSet(1 .. Len(s)) /\ Cardinality(1 .. Len(s)) = Len(s)
  BY <1>1, FS_Interval
<1>4. ExistsBijection(1 .. Len(s), Elements(s))
  BY <1>2 DEF ExistsBijection
<1> QED
  BY <1>3, <1>4, FS_Bijection
-----------------------------------------------------------------------------
(* The inductive invariant *)

Lifecycle ==
    /\ closed => /\ idle = <<>> /\ scan = 0
                 /\ \A t \in Threads : pc[t] = "out"
    /\ Watching => scan > MinConnection + 1

IInv ==
    /\ TypeOK
    /\ Exclusive
    /\ NothingLost
    /\ WithinLimit
    /\ NeverBelowMinimum
    /\ Lifecycle

LEMMA Initial == Init => IInv
<1> SUFFICES ASSUME Init PROVE IInv
  OBVIOUS
<1>1. idle \in Seq(Connections) /\ Len(idle) = MinConnection /\ Distinct(idle)
  BY TraitAssumption DEF Init
<1>2. Holders = {} /\ Held = {}
  BY DEF Init, Holders, Held
<1>3. live \subseteq Connections /\ Elements(idle) = live
  <2>1. \A i \in DOMAIN idle : idle[i] \in Connections
    BY <1>1
  <2> QED
    BY <2>1 DEF Init, Elements
<1>4. Cardinality(live) = MinConnection
  BY <1>1, <1>3, DistinctLength
<1>5. TypeOK
  <2>1. count \in 0 .. MaxConnection /\ scan \in 0 .. Len(idle)
    BY <1>1, TraitAssumption DEF Init
  <2>2. /\ stale \subseteq Connections
        /\ pc \in [Threads -> PoolStep] /\ call \in [Threads -> Calls]
        /\ conn \in [Threads -> Connections \cup {NoConnection}]
        /\ closed \in BOOLEAN /\ warned \in BOOLEAN
    BY DEF Init, PoolStep, Calls
  <2> QED
    BY <1>1, <1>3, <2>1, <2>2 DEF TypeOK
<1>6. Exclusive /\ NothingLost
  BY <1>1, <1>2, <1>3 DEF Exclusive, NothingLost
<1>7. WithinLimit /\ NeverBelowMinimum
  BY <1>4, TraitAssumption DEF Init, WithinLimit, NeverBelowMinimum
<1>8. Lifecycle
  BY DEF Init, Lifecycle, Watching
<1> QED
  BY <1>5, <1>6, <1>7, <1>8 DEF IInv

\* Who uses what after a thread was given a connection.
LEMMA Given ==
    ASSUME TypeOK, NEW t \in Threads, t \notin Holders, NEW c \in Connections,
           Hold(t, c)
    PROVE  /\ pc' \in [Threads -> PoolStep]
           /\ conn' \in [Threads -> Connections \cup {NoConnection}]
           /\ Holders' = Holders \cup {t}
           /\ \A u \in Holders : conn'[u] = conn[u]
           /\ conn'[t] = c
           /\ Held' = Held \cup {c}
<1>1. /\ pc \in [Threads -> PoolStep]
      /\ conn \in [Threads -> Connections \cup {NoConnection}]
      /\ pc' = [pc EXCEPT ![t] = "holding"] /\ conn' = [conn EXCEPT ![t] = c]
  BY DEF TypeOK, Hold
<1>2. /\ pc' \in [Threads -> PoolStep]
      /\ conn' \in [Threads -> Connections \cup {NoConnection}]
  BY <1>1 DEF PoolStep
<1>3. /\ pc'[t] = "holding" /\ conn'[t] = c
      /\ \A u \in Threads : u # t => pc'[u] = pc[u] /\ conn'[u] = conn[u]
  BY <1>1
<1>4. Holders' = Holders \cup {t} /\ \A u \in Holders : u \in Threads /\ u # t
  BY <1>3 DEF Holders
<1> QED
  BY <1>2, <1>3, <1>4 DEF Held

\* The front of the list is taken.
LEMMA Taking ==
    ASSUME IInv, NEW t \in Threads, t \notin Holders, ~Watching, TakeFront(t),
           call' \in [Threads -> Calls], UNCHANGED <<scan, closed, warned>>
    PROVE  IInv'
<1> DEFINE c == Head(idle)
<1>1. /\ idle \in Seq(Connections) /\ idle # <<>> /\ idle' = Tail(idle)
      /\ Hold(t, c) /\ UNCHANGED <<count, live, stale>>
      /\ scan = 0 /\ scan' = 0 /\ ~closed /\ ~closed' /\ ~Watching'
  BY DEF IInv, TypeOK, TakeFront, Watching, Lifecycle
<1>2. /\ c \in Connections /\ Tail(idle) \in Seq(Connections)
      /\ Elements(idle) = Elements(Tail(idle)) \cup {c}
      /\ Distinct(Tail(idle)) /\ c \notin Elements(Tail(idle))
      /\ Len(Tail(idle)) \in Nat
  BY <1>1, OfTail DEF IInv, Exclusive
<1>3. Elements(idle)' = Elements(Tail(idle)) /\ Distinct(idle)' = Distinct(Tail(idle))
  BY <1>1 DEF Elements, Distinct
<1> HIDE DEF c
<1>4. /\ pc' \in [Threads -> PoolStep]
      /\ conn' \in [Threads -> Connections \cup {NoConnection}]
      /\ Holders' = Holders \cup {t} /\ Held' = Held \cup {c}
      /\ \A u \in Holders : conn'[u] = conn[u]
      /\ conn'[t] = c
  BY <1>1, <1>2, Given DEF IInv
<1>5. TypeOK'
  BY <1>1, <1>2, <1>4 DEF IInv, TypeOK
<1>6. Exclusive'
  <2>1. \A u \in Holders : conn[u] \in Held /\ conn[u] # c
    BY <1>2 DEF IInv, Exclusive, Held
  <2>2. \A u, v \in Holders' : conn'[u] = conn'[v] => u = v
    BY <1>4, <2>1 DEF IInv, Exclusive
  <2> QED
    BY <1>1, <1>2, <1>3, <1>4, <2>2 DEF IInv, Exclusive
<1>7. NothingLost'
  BY <1>1, <1>2, <1>3, <1>4 DEF IInv, NothingLost
<1>8. WithinLimit' /\ NeverBelowMinimum' /\ Lifecycle'
  BY <1>1 DEF IInv, WithinLimit, NeverBelowMinimum, Lifecycle
<1> QED
  BY <1>5, <1>6, <1>7, <1>8 DEF IInv

\* The sets of connections are finite.
LEMMA FinitePool ==
    ASSUME TypeOK
    PROVE  IsFiniteSet(live) /\ Cardinality(live) \in Nat
BY PoolAssumption, FS_Subset, FS_CardinalityType DEF TypeOK

\* A connection is created.
LEMMA Creating ==
    ASSUME IInv, NEW t \in Threads, t \notin Holders, ~Watching, ~closed,
           Create(t), call' \in [Threads -> Calls],
           UNCHANGED <<scan, closed, warned>>
    PROVE  IInv'
<1>1. PICK c \in Connections \ live :
        Hold(t, c) /\ live' = live \cup {c} /\ stale' = stale \ {c}
  BY DEF Create
<1>2. /\ idle = <<>> /\ idle' = idle /\ count' = count + 1
      /\ count < MaxConnection /\ count \in 0 .. MaxConnection
      /\ scan = 0 /\ scan' = 0 /\ ~closed' /\ ~Watching'
  BY DEF IInv, TypeOK, Create, Watching
<1>3. /\ pc' \in [Threads -> PoolStep]
      /\ conn' \in [Threads -> Connections \cup {NoConnection}]
      /\ Holders' = Holders \cup {t} /\ Held' = Held \cup {c}
      /\ \A u \in Holders : conn'[u] = conn[u]
      /\ conn'[t] = c
  BY <1>1, Given DEF IInv
<1>4. Elements(idle)' = Elements(idle) /\ Distinct(idle)' = Distinct(idle)
  BY <1>2 DEF Elements, Distinct
<1>5. count' \in 0 .. MaxConnection
  BY <1>2, TraitAssumption
<1>6. TypeOK'
  BY <1>1, <1>2, <1>3, <1>5 DEF IInv, TypeOK
<1>7. Exclusive'
  <2>1. \A u \in Holders : conn[u] \in live /\ conn[u] # c
    BY <1>1 DEF IInv, Exclusive, Held
  <2>2. \A u, v \in Holders' : conn'[u] = conn'[v] => u = v
    BY <1>3, <2>1 DEF IInv, Exclusive
  <2>3. c \notin Elements(idle)
    BY <1>1 DEF IInv, Exclusive
  <2> QED
    BY <1>1, <1>3, <1>4, <2>2, <2>3 DEF IInv, Exclusive
<1>8. NothingLost'
  BY <1>1, <1>3, <1>4 DEF IInv, NothingLost
<1>9. WithinLimit' /\ NeverBelowMinimum'
  <2>1. Cardinality(live') = Cardinality(live) + 1 /\ Cardinality(live) \in Nat
    BY <1>1, FinitePool, FS_AddElement DEF IInv
  <2> QED
    BY <1>2, <2>1, TraitAssumption DEF IInv, WithinLimit, NeverBelowMinimum
<1>10. Lifecycle'
  BY <1>2 DEF Lifecycle
<1> QED
  BY <1>6, <1>7, <1>8, <1>9, <1>10 DEF IInv

\* A thread that uses nothing goes to another place where it uses nothing.
LEMMA Moving ==
    ASSUME IInv, ~closed, NEW t \in Threads, t \notin Holders,
           NEW q \in PoolStep \ {"holding"}, pc' = [pc EXCEPT ![t] = q],
           call' \in [Threads -> Calls],
           UNCHANGED <<idle, count, live, stale, conn, scan, closed, warned>>
    PROVE  IInv'
<1>1. pc \in [Threads -> PoolStep] /\ pc' \in [Threads -> PoolStep]
  BY DEF IInv, TypeOK
<1>2. Holders' = Holders
  BY <1>1 DEF Holders
<1>3. Held' = Held
  BY <1>2 DEF Held
<1>4. Elements(idle)' = Elements(idle) /\ Distinct(idle)' = Distinct(idle)
  BY DEF Elements, Distinct
<1>5. TypeOK'
  BY <1>1 DEF IInv, TypeOK
<1>6. Exclusive' /\ NothingLost'
  BY <1>2, <1>3, <1>4 DEF IInv, Exclusive, NothingLost
<1>7. WithinLimit' /\ NeverBelowMinimum' /\ Lifecycle'
  BY DEF IInv, WithinLimit, NeverBelowMinimum, Lifecycle, Watching
<1> QED
  BY <1>5, <1>6, <1>7 DEF IInv

\* A connection is given back.
LEMMA Releasing ==
    ASSUME IInv, NEW t \in Threads, ReleaseConnection(t)
    PROVE  IInv'
<1> DEFINE c == conn[t]
<1>1. /\ pc[t] = "holding" /\ t \in Holders /\ ~Watching
      /\ idle' = Append(idle, c)
      /\ \/ conn' = conn
         \/ conn' = [conn EXCEPT ![t] = NoConnection]
      /\ UNCHANGED <<count, live, scan, closed, warned>>
      /\ scan = 0 /\ ~closed
  BY DEF IInv, TypeOK, ReleaseConnection, GiveBack, Watching, Holders, Lifecycle
<1>2. stale' \subseteq Connections /\ call' \in [Threads -> Calls]
  BY DEF IInv, TypeOK, ReleaseConnection, GiveBack, Calls
<1>3. /\ idle \in Seq(Connections) /\ c \in live /\ c \in Connections
      /\ c \in Held /\ c \notin Elements(idle)
  BY <1>1 DEF IInv, TypeOK, Exclusive, Held
<1>4. /\ Append(idle, c) \in Seq(Connections)
      /\ Len(Append(idle, c)) \in Nat
      /\ Elements(Append(idle, c)) = Elements(idle) \cup {c}
      /\ Distinct(Append(idle, c))
  BY <1>3, OfAppend DEF IInv, Exclusive
<1>5. Elements(idle)' = Elements(Append(idle, c)) /\ Distinct(idle)'
  BY <1>1, <1>4 DEF Elements, Distinct
<1>6. /\ pc' \in [Threads -> PoolStep]
      /\ Holders' = Holders \ {t}
  <2> DEFINE r == Released(t)
  <2>0. r \in PoolStep \ {"holding"}
    BY DEF Released, PoolStep
  <2>1. PICK q \in PoolStep \ {"holding"}, w \in Threads :
          /\ w # t => pc[w] # "holding"
          /\ pc' = [pc EXCEPT ![t] = r, ![w] = q]
    <3>1. CASE Waiting = {} /\ pc' = [pc EXCEPT ![t] = r]
      <4>1. pc' = [pc EXCEPT ![t] = r, ![t] = r]
        BY <3>1 DEF IInv, TypeOK
      <4> QED
        BY <2>0, <4>1
    <3>2. ASSUME NEW w \in Waiting,
                 pc' = [pc EXCEPT ![t] = r, ![w] = "notified"]
          PROVE  \E q \in PoolStep \ {"holding"}, v \in Threads :
                    /\ v # t => pc[v] # "holding"
                    /\ pc' = [pc EXCEPT ![t] = r, ![v] = q]
      BY <3>2 DEF PoolStep, Waiting
    <3> QED
      BY <3>1, <3>2 DEF ReleaseConnection, NotifyOne
  <2>2. pc \in [Threads -> PoolStep]
    BY DEF IInv, TypeOK
  <2>3. /\ pc' \in [Threads -> PoolStep]
        /\ pc'[t] # "holding"
        /\ \A u \in Threads \ {t} : pc'[u] = "holding" <=> pc[u] = "holding"
    <3> HIDE DEF r
    <3> QED
      BY <2>0, <2>1, <2>2 DEF PoolStep
  <2> QED
    BY <2>3 DEF Holders
<1>7. /\ conn' \in [Threads -> Connections \cup {NoConnection}]
      /\ \A u \in Holders' : u \in Holders /\ u # t /\ conn'[u] = conn[u]
  BY <1>1, <1>6 DEF IInv, TypeOK, Holders
<1>8. \A u \in Holders : u # t => conn[u] # c
  BY <1>1 DEF IInv, Exclusive
<1>9. Held' = Held \ {c}
  BY <1>1, <1>6, <1>7, <1>8 DEF Held
<1> HIDE DEF c
<1>10. TypeOK'
  BY <1>1, <1>2, <1>4, <1>6, <1>7 DEF IInv, TypeOK
<1>11. Exclusive'
  <2>1. \A u, v \in Holders' : conn'[u] = conn'[v] => u = v
    BY <1>7 DEF IInv, Exclusive
  <2> QED
    BY <1>1, <1>3, <1>4, <1>5, <1>9, <2>1 DEF IInv, Exclusive
<1>12. NothingLost'
  BY <1>1, <1>4, <1>5, <1>9 DEF IInv, NothingLost
<1>13. WithinLimit' /\ NeverBelowMinimum' /\ Lifecycle'
  BY <1>1 DEF IInv, WithinLimit, NeverBelowMinimum, Lifecycle, Watching
<1> QED
  BY <1>10, <1>11, <1>12, <1>13 DEF IInv

\* The query of a connection that was given back is gone.
LEMMA Destroying ==
    ASSUME IInv, NEW t \in Threads, EndQuery(t)
    PROVE  IInv'
<1>1. /\ t \notin Holders /\ pc' = [pc EXCEPT ![t] = "out"]
      /\ conn' = [conn EXCEPT ![t] = NoConnection]
      /\ UNCHANGED <<idle, count, live, stale, call, scan, closed, warned>>
  BY DEF EndQuery, Holders
<1>2. /\ pc \in [Threads -> PoolStep] /\ pc' \in [Threads -> PoolStep]
      /\ conn' \in [Threads -> Connections \cup {NoConnection}]
  BY <1>1 DEF IInv, TypeOK, PoolStep
<1>3. Holders' = Holders /\ \A u \in Holders : conn'[u] = conn[u]
  BY <1>1, <1>2 DEF Holders
<1>4. Held' = Held
  BY <1>3 DEF Held
<1>5. Elements(idle)' = Elements(idle) /\ Distinct(idle)' = Distinct(idle)
  BY <1>1 DEF Elements, Distinct
<1>6. TypeOK'
  BY <1>1, <1>2 DEF IInv, TypeOK
<1>7. Exclusive' /\ NothingLost'
  BY <1>1, <1>3, <1>4, <1>5 DEF IInv, Exclusive, NothingLost
<1>8. WithinLimit' /\ NeverBelowMinimum' /\ Lifecycle'
  BY <1>1, <1>2 DEF IInv, WithinLimit, NeverBelowMinimum, Lifecycle, Watching
<1> QED
  BY <1>6, <1>7, <1>8 DEF IInv

\* A query changes hands.
LEMMA Handing ==
    ASSUME IInv, NEW t \in Threads, NEW u \in Threads, MoveQuery(t, u)
    PROVE  IInv'
<1>1. /\ t # u /\ t \in Holders /\ u \notin Holders /\ ~closed
      /\ pc' = [pc EXCEPT ![t] = "out", ![u] = "holding"]
      /\ conn' = [conn EXCEPT ![t] = NoConnection, ![u] = conn[t]]
      /\ call' = [call EXCEPT ![u] = "query"]
      /\ UNCHANGED <<idle, count, live, stale, scan, closed, warned>>
  BY DEF MoveQuery, Holders
<1>2. /\ pc' \in [Threads -> PoolStep] /\ call' \in [Threads -> Calls]
      /\ conn' \in [Threads -> Connections \cup {NoConnection}]
  BY <1>1 DEF IInv, TypeOK, PoolStep, Calls
<1>3. /\ Holders' = (Holders \ {t}) \cup {u}
      /\ conn'[u] = conn[t]
      /\ \A v \in Holders \ {t} : v # u /\ conn'[v] = conn[v]
  BY <1>1 DEF IInv, TypeOK, Holders
<1>4. Held' = Held
  BY <1>1, <1>3 DEF Held
<1>5. Elements(idle)' = Elements(idle) /\ Distinct(idle)' = Distinct(idle)
  BY <1>1 DEF Elements, Distinct
<1>6. TypeOK'
  BY <1>1, <1>2 DEF IInv, TypeOK
<1>7. Exclusive' /\ NothingLost'
  <2>1. \A v, w \in Holders' : conn'[v] = conn'[w] => v = w
    BY <1>1, <1>3 DEF IInv, Exclusive
  <2> QED
    BY <1>1, <1>4, <1>5, <2>1 DEF IInv, Exclusive, NothingLost
<1>8. WithinLimit' /\ NeverBelowMinimum' /\ Lifecycle'
  BY <1>1 DEF IInv, WithinLimit, NeverBelowMinimum, Lifecycle, Watching
<1> QED
  BY <1>6, <1>7, <1>8 DEF IInv

\* The watch timer looks at a connection, and deletes it when it is stale.
LEMMA Watched ==
    ASSUME IInv, WatchIndex
    PROVE  IInv'
<1>1. /\ scan \in 0 .. Len(idle) /\ scan > MinConnection + 1 /\ ~closed
      /\ idle \in Seq(Connections) /\ Distinct(idle) /\ Len(idle) \in Nat
      /\ scan' = IF scan - 1 > MinConnection + 1 THEN scan - 1 ELSE 0
      /\ UNCHANGED <<count, stale, pc, call, conn, closed, warned>>
  BY DEF IInv, TypeOK, Exclusive, WatchIndex, Lifecycle, Watching
<1>2. scan \in 1 .. Len(idle)
  BY <1>1, TraitAssumption
<1>3. Holders' = Holders /\ Held' = Held
  BY <1>1 DEF Holders, Held
<1>4. Lifecycle'
  BY <1>1, TraitAssumption DEF Lifecycle, Watching
<1>5. CASE idle[scan] \in stale
  <2>1. idle' = Without(idle, scan) /\ live' = live \ {idle[scan]}
    BY <1>5 DEF WatchIndex
  <2>2. /\ idle' \in Seq(Connections) /\ Len(idle') = Len(idle) - 1
        /\ Elements(idle') = Elements(idle) \ {idle[scan]}
        /\ Distinct(idle')
    BY <1>1, <1>2, <2>1, OfWithout
  <2>3. Elements(idle)' = Elements(idle') /\ Distinct(idle)' = Distinct(idle')
    BY DEF Elements, Distinct
  <2>4. idle[scan] \in Elements(idle)
    BY <1>1, <1>2 DEF Elements
  <2>5. scan' \in 0 .. Len(idle')
    BY <1>1, <1>2, <2>2, TraitAssumption
  <2>6. TypeOK'
    BY <1>1, <2>1, <2>2, <2>5 DEF IInv, TypeOK
  <2>7. Exclusive' /\ NothingLost'
    BY <1>1, <1>3, <2>1, <2>2, <2>3, <2>4 DEF IInv, Exclusive, NothingLost
  <2>8. WithinLimit' /\ NeverBelowMinimum'
    <3>1. /\ IsFiniteSet(live) /\ Cardinality(live) \in Nat
          /\ Cardinality(live') \in Nat /\ Cardinality(live') <= Cardinality(live)
      BY <2>1, FinitePool, FS_Subset, FS_CardinalityType DEF IInv
    <3>2. Elements(idle') \subseteq live'
      BY <2>3, <2>7 DEF Exclusive
    <3>3. Len(idle') <= Cardinality(live')
      <4>1. IsFiniteSet(live')
        BY <2>1, <3>1, FS_Subset
      <4> QED
        BY <2>2, <3>2, <4>1, FS_Subset, DistinctLength
    <3>4. Len(idle') > MinConnection
      BY <1>1, <1>2, <2>2, TraitAssumption
    <3>5. count \in 0 .. MaxConnection /\ count' = count
      BY <1>1 DEF IInv, TypeOK
    <3>6. Len(idle') \in Nat
      BY <2>2
    <3> QED
      BY <1>1, <3>1, <3>3, <3>4, <3>5, <3>6, TraitAssumption
      DEF IInv, WithinLimit, NeverBelowMinimum
  <2> QED
    BY <1>4, <2>6, <2>7, <2>8 DEF IInv
<1>6. CASE idle[scan] \notin stale
  <2>1. idle' = idle /\ live' = live
    BY <1>6 DEF WatchIndex
  <2>2. scan' \in 0 .. Len(idle')
    BY <1>1, <2>1, TraitAssumption
  <2>3. TypeOK'
    BY <1>1, <2>1, <2>2 DEF IInv, TypeOK
  <2>4. Elements(idle)' = Elements(idle) /\ Distinct(idle)' = Distinct(idle)
    BY <2>1 DEF Elements, Distinct
  <2>5. Exclusive' /\ NothingLost' /\ WithinLimit' /\ NeverBelowMinimum'
    BY <1>1, <1>3, <2>1, <2>4
    DEF IInv, Exclusive, NothingLost, WithinLimit, NeverBelowMinimum
  <2> QED
    BY <1>4, <2>3, <2>5 DEF IInv
<1> QED
  BY <1>5, <1>6

\* The ware is destroyed: the list held every connection that was left.
LEMMA Closing ==
    ASSUME IInv, Shutdown
    PROVE  IInv'
<1>1. /\ \A t \in Threads : pc[t] = "out"
      /\ ~closed /\ scan = 0 /\ closed' = TRUE /\ warned' \in BOOLEAN
      /\ count' = count - Len(idle) /\ live' = live \ Elements(idle)
      /\ idle' = <<>> /\ UNCHANGED <<stale, pc, call, conn, scan>>
  BY DEF IInv, TypeOK, Shutdown, Watching
<1>2. Holders = {} /\ Holders' = {} /\ Held = {} /\ Held' = {}
  BY <1>1 DEF Holders, Held
<1>3. live = Elements(idle) /\ live' = {}
  BY <1>1, <1>2 DEF IInv, Exclusive, NothingLost
<1>4. /\ Cardinality(live) = Len(idle) /\ Len(idle) \in Nat
      /\ Cardinality(live') = 0
  BY <1>3, DistinctLength, FS_EmptySet DEF IInv, TypeOK, Exclusive
<1>5. count' \in 0 .. MaxConnection
  BY <1>1, <1>4, TraitAssumption DEF IInv, TypeOK, WithinLimit
<1>6. /\ idle' \in Seq(Connections) /\ scan' \in 0 .. Len(idle')
      /\ Elements(idle)' = {} /\ Distinct(idle)'
  BY <1>1 DEF Elements, Distinct
<1>7. TypeOK'
  BY <1>1, <1>3, <1>5, <1>6 DEF IInv, TypeOK
<1>8. Exclusive' /\ NothingLost'
  BY <1>2, <1>3, <1>6 DEF Exclusive, NothingLost
<1>9. WithinLimit' /\ NeverBelowMinimum' /\ Lifecycle'
  BY <1>1, <1>4, <1>5, TraitAssumption
  DEF WithinLimit, NeverBelowMinimum, Lifecycle, Watching
<1> QED
  BY <1>7, <1>8, <1>9 DEF IInv

\* The timer starts its loop, or time passes.
LEMMA Ticking ==
    ASSUME IInv, TimerTask \/ \E c \in Connections : Age(c)
    PROVE  IInv'
<1>1. /\ UNCHANGED <<idle, count, live, pc, call, conn, closed, warned>>
      /\ stale' \subseteq Connections
  BY DEF IInv, TypeOK, TimerTask, Age
<1>2. Holders' = Holders /\ Held' = Held
  BY <1>1 DEF Holders, Held
<1>3. Elements(idle)' = Elements(idle) /\ Distinct(idle)' = Distinct(idle)
  BY <1>1 DEF Elements, Distinct
<1>4. scan' \in 0 .. Len(idle) /\ Lifecycle'
  <2>1. CASE TimerTask
    <3>1. /\ scan' = Len(idle) /\ Len(idle) > MinConnection + 1 /\ ~closed
          /\ Len(idle) \in Nat
      BY <2>1 DEF TimerTask, IInv, TypeOK
    <3> QED
      BY <1>1, <3>1 DEF Lifecycle, Watching
  <2>2. CASE \E c \in Connections : Age(c)
    <3>1. scan' = scan
      BY <2>2 DEF Age
    <3> QED
      BY <1>1, <3>1 DEF IInv, TypeOK, Lifecycle, Watching
  <2> QED
    BY <2>1, <2>2
<1>5. TypeOK'
  BY <1>1, <1>4 DEF IInv, TypeOK
<1>6. Exclusive' /\ NothingLost' /\ WithinLimit' /\ NeverBelowMinimum'
  BY <1>1, <1>2, <1>3
  DEF IInv, Exclusive, NothingLost, WithinLimit, NeverBelowMinimum
<1> QED
  BY <1>4, <1>5, <1>6 DEF IInv

LEMMA Inductive == IInv /\ [Next]_vars => IInv'
<1> SUFFICES ASSUME IInv, [Next]_vars PROVE IInv'
  OBVIOUS
<1>1. ASSUME NEW t \in Threads, NEW k \in Calls, LockConnection(t, k)
      PROVE  IInv'
  <2>1. /\ ~closed /\ ~Watching /\ pc[t] = "out" /\ t \notin Holders
        /\ call' \in [Threads -> Calls] /\ UNCHANGED <<scan, closed, warned>>
    BY <1>1 DEF LockConnection, Holders, IInv, TypeOK
  <2>2. CASE TakeFront(t)
    BY <2>1, <2>2, Taking
  <2>3. CASE Create(t)
    BY <2>1, <2>3, Creating
  <2>4. CASE WaitForOne(t)
    BY <2>1, <2>4, Moving, "waiting" \in PoolStep \ {"holding"}
    DEF WaitForOne, PoolStep
  <2> QED
    BY <1>1, <2>2, <2>3, <2>4 DEF LockConnection
<1>2. ASSUME NEW t \in Threads, TimeOut(t)
      PROVE  IInv'
  <2>1. "timedOut" \in PoolStep \ {"holding"}
    BY DEF PoolStep
  <2>2. /\ ~closed /\ t \notin Holders /\ call' \in [Threads -> Calls]
        /\ pc' = [pc EXCEPT ![t] = "timedOut"]
        /\ UNCHANGED <<idle, count, live, stale, conn, scan, closed, warned>>
    BY <1>2 DEF TimeOut, Holders, IInv, Lifecycle, TypeOK
  <2> QED
    BY <2>1, <2>2, Moving
<1>3. ASSUME NEW t \in Threads, Wake(t)
      PROVE  IInv'
  <2>1. /\ ~closed /\ ~Watching /\ t \notin Holders
        /\ call' \in [Threads -> Calls] /\ UNCHANGED <<scan, closed, warned>>
    BY <1>3 DEF Wake, Woken, Holders, IInv, Lifecycle, TypeOK
  <2>2. CASE TakeFront(t)
    BY <2>1, <2>2, Taking
  <2>3. CASE ~TakeFront(t)
    <3>1. PICK q \in {"waiting", "out"} : pc' = [pc EXCEPT ![t] = q]
      BY <1>3, <2>3 DEF Wake
    <3>2. q \in PoolStep \ {"holding"}
      BY DEF PoolStep
    <3>3. UNCHANGED <<idle, count, live, stale, conn>>
      BY <1>3, <2>3 DEF Wake
    <3> QED
      BY <2>1, <3>1, <3>2, <3>3, Moving
  <2> QED
    BY <2>2, <2>3
<1>4. ASSUME NEW t \in Threads, ReleaseConnection(t)
      PROVE  IInv'
  BY <1>4, Releasing
<1>5. ASSUME NEW t \in Threads, NEW u \in Threads, MoveQuery(t, u)
      PROVE  IInv'
  BY <1>5, Handing
<1>6. CASE TimerTask \/ \E c \in Connections : Age(c)
  BY <1>6, Ticking
<1>7. CASE WatchIndex
  BY <1>7, Watched
<1>8. CASE Shutdown
  BY <1>8, Closing
<1>9. ASSUME NEW t \in Threads, EndQuery(t)
      PROVE  IInv'
  BY <1>9, Destroying
<1>10. CASE UNCHANGED vars
  <2>1. /\ UNCHANGED <<idle, count, live, stale, pc, call, conn>>
        /\ UNCHANGED <<scan, closed, warned>>
    BY <1>10 DEF vars
  <2>2. Holders' = Holders /\ Held' = Held
    BY <2>1 DEF Holders, Held
  <2>3. Elements(idle)' = Elements(idle) /\ Distinct(idle)' = Distinct(idle)
    BY <2>1 DEF Elements, Distinct
  <2>4. TypeOK'
    BY <2>1 DEF IInv, TypeOK
  <2>5. Exclusive' /\ NothingLost'
    BY <2>1, <2>2, <2>3 DEF IInv, Exclusive, NothingLost
  <2>6. WithinLimit' /\ NeverBelowMinimum' /\ Lifecycle'
    BY <2>1 DEF IInv, WithinLimit, NeverBelowMinimum, Lifecycle, Watching
  <2> QED
    BY <2>4, <2>5, <2>6 DEF IInv
<1> QED
  BY <1>1, <1>2, <1>3, <1>4, <1>5, <1>6, <1>7, <1>8, <1>9, <1>10 DEF Next

THEOREM Invariance == Spec => []IInv
<1> QED
  BY Initial, Inductive, PTL DEF Spec

\* Every variable of the pool keeps its type: m_connectionCount stays between
\* 0 and maxConnection for every trait.
THEOREM TypeCorrect == Spec => []TypeOK
BY Invariance, PTL DEF IInv

\* Every connection that is open lies in the list once or belongs to one thread, from
\* lockConnection to unlockConnection, whatever moves and deletes it.  That it is touched
\* by one thread does not follow: ~ISqlQuery goes on after it has given it back.
THEOREM Owners == Spec => []OneOwner
BY Invariance, PTL DEF IInv, OneOwner

\* There are never more connections than maxConnection, nor fewer than minConnection, and
\* one more is left once one more was opened, which is why the branch of timerTask that
\* creates connections is never taken (lockConnection, timerTask).
THEOREM Limited == Spec => []Limits
BY Invariance, PTL DEF IInv, Limits

-----------------------------------------------------------------------------
(* The condition variable *)

LEMMA Counted ==
    ASSUME TypeOK
    PROVE  IsFiniteSet(Woken) /\ Cardinality(Woken) \in Nat /\ Len(idle) \in Nat
<1>1. Woken \subseteq Threads
  BY DEF Woken
<1> QED
  BY <1>1, PoolAssumption, FS_Subset, FS_CardinalityType DEF TypeOK

LEMMA WakeupsKept ==
    ASSUME IInv, TypeOK, TypeOK', NoLostWakeup, [Next]_vars
    PROVE  NoLostWakeup'
<1> DEFINE waiting == Waiting' # {}
<1>0. /\ Len(idle) \in Nat /\ Len(idle') \in Nat
      /\ IsFiniteSet(Woken) /\ IsFiniteSet(Woken')
      /\ Cardinality(Woken) \in Nat /\ Cardinality(Woken') \in Nat
      /\ pc \in [Threads -> PoolStep]
  <2>1. IsFiniteSet(Woken') /\ Cardinality(Woken') \in Nat /\ Len(idle') \in Nat
    <3>1. Woken' \subseteq Threads
      BY DEF Woken
    <3> QED
      BY <3>1, PoolAssumption, FS_Subset, FS_CardinalityType DEF TypeOK
  <2> QED
    BY <2>1, Counted DEF TypeOK
<1>1. CASE UNCHANGED <<idle, pc>>
  BY <1>1 DEF NoLostWakeup, Waiting, Woken
<1>2. ASSUME idle' = <<>> PROVE NoLostWakeup'
  BY <1>2, <1>0 DEF NoLostWakeup
<1>3. ASSUME NEW t \in Threads, TakeFront(t), t \notin Holders
      PROVE  NoLostWakeup'
  <2>1. /\ idle # <<>> /\ Len(idle') = Len(idle) - 1
        /\ pc' = [pc EXCEPT ![t] = "holding"]
    BY <1>3 DEF TakeFront, Hold, TypeOK
  <2>2. Waiting' \subseteq Waiting /\ Woken' = Woken \ {t}
    BY <2>1, <1>0 DEF Waiting, Woken
  <2>3. Cardinality(Woken') >= Cardinality(Woken) - 1
    BY <2>2, <1>0, FS_RemoveElement
  <2> QED
    BY <1>0, <2>1, <2>2, <2>3 DEF NoLostWakeup
<1>4. ASSUME NEW t \in Threads, NEW k \in Calls, LockConnection(t, k)
      PROVE  NoLostWakeup'
  <2>1. t \notin Holders
    BY <1>4 DEF LockConnection, Holders
  <2>2. CASE idle = <<>>
    BY <1>2, <1>4, <2>2 DEF LockConnection, TakeFront, Create, WaitForOne
  <2> QED
    BY <1>3, <1>4, <2>1, <2>2 DEF LockConnection, Create, WaitForOne
<1>5. ASSUME NEW t \in Threads, TimeOut(t)
      PROVE  NoLostWakeup'
  <2>1. /\ pc[t] \in {"waiting", "notified"} /\ idle' = idle
        /\ pc' = [pc EXCEPT ![t] = "timedOut"]
    BY <1>5 DEF TimeOut
  <2>2. Waiting' \subseteq Waiting /\ Woken \subseteq Woken'
    BY <2>1, <1>0 DEF Waiting, Woken
  <2>3. Cardinality(Woken) <= Cardinality(Woken')
    BY <2>2, <1>0, FS_Subset
  <2> QED
    BY <1>0, <2>1, <2>2, <2>3 DEF NoLostWakeup
<1>6. ASSUME NEW t \in Threads, Wake(t)
      PROVE  NoLostWakeup'
  <2>1. t \notin Holders
    BY <1>6 DEF Wake, Woken, Holders
  <2>2. CASE idle = <<>>
    BY <1>2, <1>6, <2>2 DEF Wake, TakeFront
  <2> QED
    BY <1>3, <1>6, <2>1, <2>2 DEF Wake
<1>7. ASSUME NEW t \in Threads, ReleaseConnection(t)
      PROVE  NoLostWakeup'
  <2> DEFINE r == Released(t)
  <2>0. r \in {"closing", "out"}
    BY DEF Released
  <2>1. Len(idle') = Len(idle) + 1 /\ pc[t] = "holding"
    <3>1. idle' = Append(idle, conn[t])
      BY <1>7 DEF ReleaseConnection, GiveBack
    <3> QED
      BY <1>7, <3>1 DEF TypeOK, ReleaseConnection, GiveBack
  <2>2. (pc' = [pc EXCEPT ![t] = r] /\ Waiting = {})
        \/ \E w \in Waiting : pc' = [pc EXCEPT ![t] = r, ![w] = "notified"]
    BY <1>7 DEF ReleaseConnection, NotifyOne
  <2> HIDE DEF r
  <2>3. CASE pc' = [pc EXCEPT ![t] = r] /\ Waiting = {}
    <3>1. Waiting' = {}
      BY <2>0, <2>3, <1>0 DEF Waiting
    <3> QED
      BY <3>1 DEF NoLostWakeup
  <2>4. ASSUME NEW w \in Waiting,
               pc' = [pc EXCEPT ![t] = r, ![w] = "notified"]
        PROVE  NoLostWakeup'
    <3>1. Woken' = Woken \cup {w} /\ w \notin Woken
      BY <1>0, <2>0, <2>1, <2>4 DEF Waiting, Woken
    <3>2. Cardinality(Woken') = Cardinality(Woken) + 1
      BY <3>1, <1>0, FS_AddElement
    <3>3. Len(idle) <= Cardinality(Woken)
      BY <2>4 DEF NoLostWakeup
    <3> QED
      BY <1>0, <2>1, <3>2, <3>3 DEF NoLostWakeup
  <2> QED
    BY <2>2, <2>3, <2>4
<1>8. ASSUME NEW t \in Threads, NEW u \in Threads, MoveQuery(t, u)
      PROVE  NoLostWakeup'
  <2>1. /\ pc[t] = "holding" /\ pc[u] = "out" /\ idle' = idle
        /\ pc' = [pc EXCEPT ![t] = "out", ![u] = "holding"]
    BY <1>8 DEF MoveQuery
  <2>2. Waiting' = Waiting /\ Woken' = Woken
    BY <2>1, <1>0 DEF Waiting, Woken
  <2> QED
    BY <2>1, <2>2 DEF NoLostWakeup
<1>9. CASE TimerTask \/ \E c \in Connections : Age(c)
  BY <1>1, <1>9 DEF TimerTask, Age
<1>10. CASE WatchIndex
  <2>1. pc' = pc
    BY <1>10 DEF WatchIndex
  <2>2. Len(idle') <= Len(idle)
    <3>1. scan \in 1 .. Len(idle) /\ idle \in Seq(Connections)
      BY <1>10 DEF WatchIndex, Watching, TypeOK
    <3>2. Len(Without(idle, scan)) <= Len(idle)
      BY <1>0, <3>1, OfWithout DEF IInv, Exclusive
    <3> QED
      BY <1>0, <1>10, <3>2 DEF WatchIndex
  <2> QED
    BY <1>0, <2>1, <2>2 DEF NoLostWakeup, Waiting, Woken
<1>11. CASE Shutdown
  BY <1>2, <1>11 DEF Shutdown
<1>12. ASSUME NEW t \in Threads, EndQuery(t)
       PROVE  NoLostWakeup'
  <2>1. pc[t] = "closing" /\ idle' = idle /\ pc' = [pc EXCEPT ![t] = "out"]
    BY <1>12 DEF EndQuery
  <2>2. Waiting' = Waiting /\ Woken' = Woken
    BY <2>1, <1>0 DEF Waiting, Woken
  <2> QED
    BY <2>1, <2>2 DEF NoLostWakeup
<1>13. CASE UNCHANGED vars
  BY <1>1, <1>13 DEF vars
<1> QED
  BY <1>4, <1>5, <1>6, <1>7, <1>8, <1>9, <1>10, <1>11, <1>12, <1>13 DEF Next

\* notify_one of unlockConnection is never lost: idle connections never lie
\* beside waiting threads without as many threads being woken for them.
THEOREM WakeupsArrive == Spec => []NoLostWakeup
<1>1. Init => NoLostWakeup
  BY DEF Init, NoLostWakeup, Waiting
<1> QED
  BY <1>1, Invariance, TypeCorrect, WakeupsKept, PTL DEF Spec
=============================================================================
