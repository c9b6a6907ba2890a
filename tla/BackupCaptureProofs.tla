------------------------- MODULE BackupCaptureProofs -------------------------
(***************************************************************************)
(* What every change of SQLite does to SqliteInv, the part of the          *)
(* inductive invariant that speaks of one instance: a new source, the      *)
(* seeding of added tables, a business write, an acknowledgement.          *)
(***************************************************************************)
EXTENDS BackupInvariant, BackupTypes

-----------------------------------------------------------------------------
(* Seeding *)

LEMMA SeedsAppended ==
  ASSUME CaptureTypeOK, NEW p \in Primaries, NEW id \in Nat, NEW image \in [Keys -> Row],
         NEW S \in SUBSET Keys, NEW f \in SeedOrders(S),
         log'[p] = log[p] \o Seeds(p, id, f, image)
  PROVE  /\ Len(f) \in Nat /\ Len(log[p]) \in Nat
         /\ DOMAIN log[p] = 1..Len(log[p])
         /\ Len(log'[p]) = Len(log[p]) + Len(f)
         /\ DOMAIN log'[p] = 1..Len(log[p]) + Len(f)
         /\ \A n \in 1..Len(log[p]) : log'[p][n] = log[p][n]
         /\ \A i \in 1..Len(f) : log'[p][Len(log[p]) + i] = Seeds(p, id, f, image)[i]
<1>1. /\ Seeds(p, id, f, image) \in Seq(Event)
      /\ Len(Seeds(p, id, f, image)) = Len(f) /\ Len(f) \in Nat
  BY SeedsType
<1> DEFINE seeds == Seeds(p, id, f, image)
<1>2. log[p] \in Seq(Event) /\ log \in [Primaries -> Seq(Event)]
  BY DEF CaptureTypeOK
<1>3. seeds \in Seq(Event) /\ Len(seeds) = Len(f) /\ Len(f) \in Nat
  BY <1>1
<1>4. log'[p] = log[p] \o seeds
  OBVIOUS
<1> HIDE DEF seeds
<1>5. \A n \in 1..Len(log[p]) : (log[p] \o seeds)[n] = log[p][n]
  BY <1>2, <1>3
<1>6. \A i \in 1..Len(f) : (log[p] \o seeds)[Len(log[p]) + i] = seeds[i]
  BY <1>2, <1>3
<1>7. Len(log[p] \o seeds) = Len(log[p]) + Len(f) /\ Len(log[p]) \in Nat
  <2>1. Len(log[p]) \in Nat
    BY <1>2
  <2>2. Len(log[p] \o seeds) = Len(log[p]) + Len(seeds)
    BY <1>2, <1>3, ConcatProperties
  <2> QED
    BY <1>3, <2>1, <2>2
<1>8. DOMAIN (log[p] \o seeds) = 1..Len(log[p]) + Len(f) /\ DOMAIN log[p] = 1..Len(log[p])
  <2>1. log[p] \o seeds \in Seq(Event)
    BY <1>2, <1>3
  <2> QED
    BY <1>2, <1>7, <2>1
<1>9. /\ Len(log'[p]) = Len(log[p]) + Len(f)
      /\ DOMAIN log'[p] = 1..Len(log[p]) + Len(f)
      /\ \A n \in 1..Len(log[p]) : log'[p][n] = log[p][n]
      /\ \A i \in 1..Len(f) : log'[p][Len(log[p]) + i] = seeds[i]
  BY <1>4, <1>5, <1>6, <1>7, <1>8
<1>10. \A i \in 1..Len(f) : seeds[i] = Seeds(p, id, f, image)[i]
  BY Zenon DEF seeds
<1>11. \A i \in 1..Len(f) : log'[p][Len(log[p]) + i] = Seeds(p, id, f, image)[i]
  BY <1>9, <1>10
<1> QED
  BY <1>3, <1>7, <1>8, <1>9, <1>11

\* Seed i takes one image to the next.
SeedLink(p, id, f, image, i) ==
  LET seed == Seeds(p, id, f, image)[i] IN
  seed.image = [(IF i = 1 THEN image ELSE Seeds(p, id, f, image)[i - 1].image)
                   EXCEPT ![seed.key] = seed.row]

LEMMA SeedsChain ==
  ASSUME NEW p \in Primaries, NEW id \in Nat, NEW image \in [Keys -> Row],
         NEW S \in SUBSET Keys, NEW f \in SeedOrders(S)
  PROVE  \A i \in 1..Len(f) : /\ Seeds(p, id, f, image)[i].source = id
                              /\ SeedLink(p, id, f, image, i)
<1>1. f \in Seq(S) /\ Len(f) \in Nat /\ DOMAIN f = 1..Len(f)
  BY SeedOrderType, FS_Subset, CaptureAssumption
<1> DEFINE upto(i) == [k \in Keys |-> IF \E j \in 1..i : f[j] = k THEN rows[p][k] ELSE image[k]]
<1>2. \A i \in 1..Len(f) : Seeds(p, id, f, image)[i] =
         [source |-> id, key |-> f[i], row |-> rows[p][f[i]], image |-> upto(i)]
  BY DEF Seeds
<1>3. upto(0) = image
  <2>1. \A j \in 1..0 : FALSE
    OBVIOUS
  <2> QED
    BY <2>1
<1>4. ASSUME NEW i \in 1..Len(f)
      PROVE  upto(i) = [upto(i - 1) EXCEPT ![f[i]] = rows[p][f[i]]]
  <2>1. f[i] \in Keys
    BY <1>1
  <2>2. \A j : j \in 1..i <=> j \in 1..(i - 1) \/ j = i
    BY <1>1
  <2> QED
    BY <2>1, <2>2
<1> HIDE DEF upto
<1>5. ASSUME NEW i \in 1..Len(f), i # 1
      PROVE  i - 1 \in 1..Len(f)
  BY <1>1, <1>5
<1> DEFINE e(i) == Seeds(p, id, f, image)[i]
<1> HIDE DEF e
<1>6. \A i \in 1..Len(f) : /\ e(i).source = id /\ e(i).key = f[i] /\ e(i).row = rows[p][f[i]]
                           /\ e(i).image = upto(i)
  <2>1. \A i \in 1..Len(f) : e(i) = [source |-> id, key |-> f[i], row |-> rows[p][f[i]],
                                     image |-> upto(i)]
    BY Zenon, <1>2 DEF e
  <2> QED
    BY <2>1
<1>7. ASSUME NEW i \in 1..Len(f)
      PROVE  e(i).image = [(IF i = 1 THEN image ELSE e(i - 1).image) EXCEPT ![e(i).key] = e(i).row]
  <2>1. upto(i - 1) = IF i = 1 THEN image ELSE e(i - 1).image
    BY <1>1, <1>3, <1>5, <1>6
  <2>2. e(i).image = [upto(i - 1) EXCEPT ![e(i).key] = e(i).row]
    BY <1>4, <1>6
  <2> QED
    BY <2>1, <2>2
<1> QED
  BY Zenon, <1>6, <1>7 DEF e, SeedLink

\* A seed covers every row of S.
SeedsCover(p, id, f, image, S) ==
  \A k \in Keys : Seeds(p, id, f, image)[Len(f)].image[k] = IF k \in S THEN rows[p][k] ELSE image[k]

LEMMA SeedsComplete ==
  ASSUME NEW p \in Primaries, NEW id \in Nat, NEW image \in [Keys -> Row],
         NEW S \in SUBSET Keys, NEW f \in SeedOrders(S)
  PROVE  /\ Len(f) = 0 => S = {}
         /\ Len(f) > 0 => SeedsCover(p, id, f, image, S)
<1>1. f \in Seq(S) /\ Len(f) \in Nat /\ DOMAIN f = 1..Len(f)
  BY SeedOrderType, FS_Subset, CaptureAssumption
<1>2. \A k \in Keys : k \in S <=> \E j \in 1..Len(f) : f[j] = k
  BY <1>1 DEF SeedOrders
<1>3. Len(f) = 0 => S = {}
  BY <1>1, <1>2
<1>4. ASSUME Len(f) > 0
      PROVE  SeedsCover(p, id, f, image, S)
  <2>1. Len(f) \in 1..Len(f)
    BY <1>1, <1>4
  <2>2. Seeds(p, id, f, image)[Len(f)].image =
          [k \in Keys |-> IF \E j \in 1..Len(f) : f[j] = k THEN rows[p][k] ELSE image[k]]
    BY <2>1 DEF Seeds
  <2> QED
    BY <1>2, <2>2 DEF SeedsCover
<1> QED
  BY <1>3, <1>4

-----------------------------------------------------------------------------
(* SqliteInv *)

\* What SqliteInv(q) looks at; the instance q is not touched.
SqliteSame(q) ==
  /\ rows'[q] = rows[q] /\ captured'[q] = captured[q] /\ source'[q] = source[q]
  /\ log'[q] = log[q] /\ base'[q] = base[q]
  /\ outbox'[q] = outbox[q] /\ acknowledged'[q] = acknowledged[q]

LEMMA SqliteInvSame ==
  ASSUME TypeOK, NEW q \in Primaries, SqliteInv(q), SqliteSame(q),
         committed'[q] \in Nat, committed[q] <= committed'[q]
  PROVE  SqliteInv(q)'
<1>1. LogOrder(q)'
  BY DEF SqliteInv, SqliteSame, LogOrder
<1>2. ImageChain(q)'
  BY DEF SqliteInv, SqliteSame, ImageChain, Before, EmptyDB
<1>3. (source[q] > 0 => ShowsTables(q))'
  BY DEF SqliteInv, SqliteSame, ShowsTables, Image, EmptyDB
<1>4. QueueIsUnacknowledged(q)'
  BY DEF SqliteInv, SqliteSame, QueueIsUnacknowledged, Current, Reached, TypeOK, CaptureTypeOK,
         TargetTypeOK
<1> QED
  BY <1>1, <1>2, <1>3, <1>4 DEF SqliteInv

LEMMA NewSourceInv ==
  ASSUME TypeOK, NEW p \in Primaries, SqliteInv(p), NewSource(p), UNCHANGED committed
  PROVE  SqliteInv(p)'
<1> DEFINE S == SeedRows(p, Keys)
           L == Len(log[p])
           id == source[p] + 1
<1>1. CaptureTypeOK /\ id \in Nat /\ source[p] \in Nat
  BY CaptureAssumption DEF TypeOK, CaptureTypeOK
<1>2. EmptyDB \in [Keys -> Row] /\ S \in SUBSET Keys
  BY EmptyType DEF SeedRows
<1>3. InstallCapture(p, id, Keys, EmptyDB, {})
  BY DEF NewSource
<1>4. PICK f \in SeedOrders(S) :
        /\ captured' = [captured EXCEPT ![p] = @ \cup Keys]
        /\ log' = [log EXCEPT ![p] = @ \o Seeds(p, id, f, EmptyDB)]
        /\ outbox' = [outbox EXCEPT ![p] = {} \cup NextSequences(p, Len(f))]
  BY <1>3 DEF InstallCapture
<1> DEFINE seed(i) == Seeds(p, id, f, EmptyDB)[i]
<1>5. /\ Len(f) \in Nat /\ L \in Nat
      /\ DOMAIN log[p] = 1..L
      /\ Len(log'[p]) = L + Len(f)
      /\ DOMAIN log'[p] = 1..L + Len(f)
      /\ \A n \in 1..L : log'[p][n] = log[p][n]
      /\ \A i \in 1..Len(f) : log'[p][L + i] = seed(i)
  <2>1. log'[p] = log[p] \o Seeds(p, id, f, EmptyDB)
    BY <1>1, <1>4 DEF CaptureTypeOK
  <2> QED
    BY <1>1, <1>2, <2>1, SeedsAppended
<1>6. \A i \in 1..Len(f) :
        /\ seed(i).source = id
        /\ SeedLink(p, id, f, EmptyDB, i)
  BY <1>1, <1>2, SeedsChain
<1>7. /\ Len(f) = 0 => S = {}
      /\ Len(f) > 0 => SeedsCover(p, id, f, EmptyDB, S)
  BY <1>1, <1>2, SeedsComplete
<1>8. /\ source'[p] = id /\ base'[p] = L /\ acknowledged'[p] = 0
      /\ captured'[p] = Keys /\ outbox'[p] = L + 1 .. L + Len(f)
      /\ rows' = rows /\ committed'[p] \in Nat
  BY <1>4 DEF NewSource, StartProgress, NextSequences, TypeOK, CaptureTypeOK, TargetTypeOK
<1> HIDE DEF seed, L, S, id
<1>9. \A n \in L + 1 .. L + Len(f) : n - L \in 1..Len(f) /\ n = L + (n - L)
  BY <1>5
<1>10. \A n \in L + 1 .. L + Len(f) : log'[p][n] = seed(n - L)
  BY <1>5, <1>9
<1>11. LogOrder(p)'
  <2>1. \A n \in 1..L : log[p][n].source <= source[p] /\ log[p][n].source \in Nat
    BY <1>1, <1>5, EventType DEF SqliteInv, LogOrder, Event
  <2>2. \A n \in 1..L : log'[p][n].source <= id /\ log'[p][n].source # id
    BY <1>1, <1>5, <2>1 DEF id
  <2>3. \A n \in L + 1 .. L + Len(f) : log'[p][n].source = id
    <3>1. \A n \in L + 1 .. L + Len(f) : log'[p][n].source = seed(n - L).source
      BY <1>10
    <3> QED
      BY <1>6, <1>9, <3>1
  <2>4. \A n \in 1..L + Len(f) : n \in 1..L \/ n \in L + 1 .. L + Len(f)
    BY <1>5
  <2>5. id > 0 /\ id <= id
    BY <1>1 DEF id
  <2> QED
    BY <1>5, <1>8, <2>2, <2>3, <2>4, <2>5 DEF LogOrder
<1>12. ImageChain(p)'
  <2>1. ASSUME NEW n \in L + 1 .. L + Len(f)
        PROVE  log'[p][n].image = [(IF n = L + 1 THEN EmptyDB ELSE log'[p][n - 1].image)
                                      EXCEPT ![log'[p][n].key] = log'[p][n].row]
    <3> DEFINE i == n - L
    <3>1. i \in 1..Len(f) /\ log'[p][n] = seed(i)
      BY <1>9, <1>10
    <3>2. n = L + 1 <=> i = 1
      BY <1>5
    <3>3. n # L + 1 => log'[p][n - 1] = seed(i - 1)
      <4>1. n # L + 1 => n - 1 \in L + 1 .. L + Len(f) /\ (n - 1) - L = i - 1
        BY <1>5
      <4> QED
        BY <1>10, <4>1
    <3>4. seed(i).image = [(IF i = 1 THEN EmptyDB ELSE seed(i - 1).image)
                              EXCEPT ![seed(i).key] = seed(i).row]
      BY Zenon, <1>6, <3>1 DEF SeedLink, seed
    <3> HIDE DEF i
    <3> QED
      BY <3>1, <3>2, <3>3, <3>4
  <2>2. \A n \in 1..L + Len(f) : L < n => n \in L + 1 .. L + Len(f)
    BY <1>5
  <2>3. EmptyDB' = EmptyDB
    BY DEF EmptyDB
  <2> QED
    BY <1>5, <1>8, <2>1, <2>2, <2>3 DEF ImageChain, Before
<1>13. ShowsTables(p)'
  <2>1. \A k \in Keys : EmptyDB[k] = Absent /\ (k \in S <=> rows[p][k] # Absent)
    BY DEF EmptyDB, S, SeedRows
  <2>2. CASE Len(f) = 0
    <3>1. \A k \in Keys : rows[p][k] = Absent
      BY <1>7, <2>1, <2>2
    <3> QED
      BY <1>5, <1>8, <2>1, <2>2, <3>1 DEF ShowsTables, Image, EmptyDB
  <2>3. CASE Len(f) > 0
    <3>1. Len(f) \in 1..Len(f)
      BY <1>5, <2>3
    <3>2. log'[p][L + Len(f)] = seed(Len(f))
      BY <1>5, <3>1
    <3>3. Image(p)' = seed(Len(f)).image
      <4>1. L + Len(f) > L
        BY <1>5, <2>3
      <4> QED
        BY <1>5, <1>8, <3>2, <4>1 DEF Image
    <3> QED
      BY <1>7, <1>8, <2>1, <2>3, <3>3 DEF ShowsTables, SeedsCover, seed
  <2> QED
    BY <1>5, <2>2, <2>3
<1>14. QueueIsUnacknowledged(p)'
  <2>1. Current(p)' = L + 1 .. L + Len(f)
    BY <1>5, <1>8 DEF Current
  <2>2. \A n \in L + 1 .. L + Len(f) : 0 < n
    BY <1>5
  <2> QED
    BY <1>8, <2>1, <2>2 DEF QueueIsUnacknowledged, Reached
<1> QED
  BY <1>11, <1>12, <1>13, <1>14 DEF SqliteInv

LEMMA KeepSourceInv ==
  ASSUME TypeOK, NEW p \in Primaries, SqliteInv(p), KeepSource(p), UNCHANGED committed
  PROVE  SqliteInv(p)'
<1> DEFINE keys == CacheKeys \ captured[p]
           S == SeedRows(p, keys)
           L == Len(log[p])
           b == base[p]
           id == source[p]
           image == Image(p)
<1>1. CaptureTypeOK /\ id \in Nat /\ id > 0 /\ b \in Nat /\ acknowledged[p] \in Nat
  BY CaptureAssumption DEF KeepSource, TypeOK, CaptureTypeOK
<1>2. image \in [Keys -> Row] /\ S \in SUBSET Keys /\ keys \in SUBSET Keys
  BY <1>1, ImageType, CaptureAssumption DEF SeedRows
<1>3. InstallCapture(p, id, keys, image, outbox[p])
  BY DEF KeepSource
<1>4. PICK f \in SeedOrders(S) :
        /\ captured' = [captured EXCEPT ![p] = @ \cup keys]
        /\ log' = [log EXCEPT ![p] = @ \o Seeds(p, id, f, image)]
        /\ outbox' = [outbox EXCEPT ![p] = outbox[p] \cup NextSequences(p, Len(f))]
  BY <1>3 DEF InstallCapture
<1> DEFINE seed(i) == Seeds(p, id, f, image)[i]
<1>5. /\ Len(f) \in Nat /\ L \in Nat
      /\ DOMAIN log[p] = 1..L
      /\ Len(log'[p]) = L + Len(f)
      /\ DOMAIN log'[p] = 1..L + Len(f)
      /\ \A n \in 1..L : log'[p][n] = log[p][n]
      /\ \A i \in 1..Len(f) : log'[p][L + i] = seed(i)
  <2>1. log'[p] = log[p] \o Seeds(p, id, f, image)
    BY <1>1, <1>4 DEF CaptureTypeOK
  <2> HIDE DEF image
  <2> QED
    BY <1>1, <1>2, <2>1, SeedsAppended
<1>6. \A i \in 1..Len(f) : seed(i).source = id /\ SeedLink(p, id, f, image, i)
  <2> HIDE DEF image
  <2> QED
    BY <1>1, <1>2, SeedsChain
<1>7. /\ Len(f) = 0 => S = {}
      /\ Len(f) > 0 => SeedsCover(p, id, f, image, S)
  <2> HIDE DEF image
  <2> QED
    BY <1>1, <1>2, SeedsComplete
<1>8. /\ source'[p] = id /\ base'[p] = b /\ acknowledged'[p] = acknowledged[p]
      /\ captured'[p] = captured[p] \cup keys
      /\ outbox'[p] = outbox[p] \cup L + 1 .. L + Len(f)
      /\ rows' = rows /\ committed' = committed
  BY <1>4 DEF KeepSource, NextSequences, TypeOK, CaptureTypeOK
<1>9. b <= L /\ (b < L => image = log[p][L].image) /\ (b = L => image = EmptyDB)
  BY <1>1, <1>5 DEF SqliteInv, LogOrder, Image
<1>10. ShowsTables(p) /\ \A k \in Keys : k \in S <=> k \in keys /\ rows[p][k] # Absent
  BY <1>1, <1>2 DEF SqliteInv, SeedRows
<1> HIDE DEF seed, L, S, id, b, image, keys
<1>11. \A n \in L + 1 .. L + Len(f) : n - L \in 1..Len(f) /\ log'[p][n] = seed(n - L)
  <2>1. \A n \in L + 1 .. L + Len(f) : n - L \in 1..Len(f) /\ n = L + (n - L)
    BY <1>5
  <2> QED
    BY <1>5, <2>1
<1>12. \A n \in 1..L + Len(f) : n \in 1..L \/ n \in L + 1 .. L + Len(f)
  BY <1>5
<1>13. LogOrder(p)'
  <2>1. \A n \in 1..L : log[p][n].source <= id /\ (log[p][n].source = id <=> b < n)
    BY <1>5 DEF SqliteInv, LogOrder, id, b
  <2>2. \A n \in L + 1 .. L + Len(f) : log'[p][n].source = id /\ b < n
    <3>1. \A n \in L + 1 .. L + Len(f) : log'[p][n].source = seed(n - L).source
      BY <1>11
    <3> QED
      BY <1>1, <1>5, <1>6, <1>9, <1>11, <3>1
  <2>3. \A n \in 1..L + Len(f) : /\ log'[p][n].source <= id
                                 /\ log'[p][n].source = id <=> b < n
    <3>1. \A n \in 1..L : log'[p][n] = log[p][n]
      BY <1>5
    <3>2. \A n \in 1..L : log'[p][n].source <= id /\ (log'[p][n].source = id <=> b < n)
      BY <2>1, <3>1
    <3>3. id <= id
      BY <1>1
    <3> QED
      BY <1>12, <2>2, <3>2, <3>3
  <2>4. b <= L + Len(f)
    BY <1>1, <1>5, <1>9
  <2>5. /\ Len(log'[p]) = L + Len(f) /\ DOMAIN log'[p] = 1..L + Len(f)
        /\ source'[p] = id /\ base'[p] = b /\ id # 0
    BY <1>1, <1>5, <1>8
  <2>6. \A n \in DOMAIN log'[p] : /\ log'[p][n].source <= source'[p]
                                  /\ log'[p][n].source = source'[p] <=> base'[p] < n
    BY <2>3, <2>5
  <2>7. base'[p] <= Len(log'[p]) /\ source'[p] # 0
    BY <2>4, <2>5
  <2> QED
    BY <2>6, <2>7 DEF LogOrder
<1>14. ImageChain(p)'
  <2> DEFINE before(n) == IF n = b + 1 THEN EmptyDB ELSE log'[p][n - 1].image
  <2>1. ASSUME NEW n \in 1..L, b < n
        PROVE  log'[p][n].image = [before(n) EXCEPT ![log'[p][n].key] = log'[p][n].row]
    <3>1. log[p][n].image = [Before(p, n) EXCEPT ![log[p][n].key] = log[p][n].row]
      BY <1>5, <2>1 DEF SqliteInv, ImageChain, b
    <3>2. before(n) = Before(p, n)
      <4>1. n # b + 1 => n - 1 \in 1..L
        BY <1>1, <1>5, <2>1
      <4> QED
        BY <1>5, <4>1 DEF Before, b
    <3> HIDE DEF before
    <3> QED
      BY <1>5, <3>1, <3>2
  <2>2. ASSUME NEW n \in L + 1 .. L + Len(f)
        PROVE  log'[p][n].image = [before(n) EXCEPT ![log'[p][n].key] = log'[p][n].row]
    <3> DEFINE i == n - L
    <3>1. i \in 1..Len(f) /\ log'[p][n] = seed(i)
      BY <1>11
    <3>2. seed(i).image = [(IF i = 1 THEN image ELSE seed(i - 1).image)
                              EXCEPT ![seed(i).key] = seed(i).row]
      BY Zenon, <1>6, <3>1 DEF SeedLink, seed
    <3>3. before(n) = IF i = 1 THEN image ELSE seed(i - 1).image
      <4>1. CASE i = 1
        <5>1. n - 1 = L /\ (n = b + 1 <=> b = L)
          BY <1>1, <1>5, <4>1
        <5>2. b # L => L \in 1..L
          BY <1>1, <1>5, <1>9
        <5> QED
          BY <1>1, <1>5, <1>9, <4>1, <5>1, <5>2
      <4>2. CASE i # 1
        <5>1. n - 1 \in L + 1 .. L + Len(f) /\ (n - 1) - L = i - 1 /\ n # b + 1
          BY <1>1, <1>5, <1>9, <4>2
        <5> QED
          BY <1>11, <4>2, <5>1
      <4> QED
        BY <4>1, <4>2
    <3> HIDE DEF i, before
    <3> QED
      BY <3>1, <3>2, <3>3
  <2>3. EmptyDB' = EmptyDB
    BY DEF EmptyDB
  <2> QED
    BY <1>5, <1>8, <1>12, <2>1, <2>2, <2>3 DEF ImageChain, Before
<1>15. ShowsTables(p)'
  <2>1. ASSUME NEW k \in Keys
        PROVE  /\ k \in keys => k \notin captured[p]
               /\ image[k] = IF k \in captured[p] THEN rows[p][k] ELSE Absent
    BY <1>10 DEF keys, ShowsTables, image
  <2>2. CASE Len(f) = 0
    <3>1. \A k \in keys : rows[p][k] = Absent
      BY <1>2, <1>7, <1>10, <2>2
    <3>2. Image(p)' = image
      <4>1. CASE b = L
        BY <1>5, <1>8, <1>9, <2>2, <4>1 DEF Image, EmptyDB
      <4>2. CASE b < L
        <5>1. L \in 1..L
          BY <1>1, <1>5, <4>2
        <5> QED
          BY <1>1, <1>5, <1>8, <1>9, <2>2, <4>2, <5>1 DEF Image
      <4> QED
        BY <1>1, <1>5, <1>9, <4>1, <4>2
    <3> QED
      BY <1>8, <2>1, <3>1, <3>2 DEF ShowsTables
  <2>3. CASE Len(f) > 0
    <3>1. Len(f) \in 1..Len(f) /\ L + Len(f) > b
      BY <1>1, <1>5, <1>9, <2>3
    <3>2. log'[p][L + Len(f)] = seed(Len(f))
      BY <1>5, <3>1
    <3>3. Image(p)' = seed(Len(f)).image
      BY <1>5, <1>8, <3>1, <3>2 DEF Image
    <3> QED
      BY <1>7, <1>8, <1>10, <2>1, <2>3, <3>3 DEF ShowsTables, SeedsCover, seed
  <2> QED
    BY <1>5, <2>2, <2>3
<1>16. QueueIsUnacknowledged(p)'
  <2>1. Current(p) = {n \in 1..L : b < n}
    BY <1>5 DEF Current, b
  <2>2. Current(p)' = {n \in 1..L + Len(f) : b < n}
    BY <1>5, <1>8 DEF Current
  <2>3. acknowledged[p] <= L /\ Reached(p, acknowledged[p])
        /\ outbox[p] = {n \in Current(p) : acknowledged[p] < n}
        /\ acknowledged[p] <= committed[p]
    BY <1>1, <1>5, <2>1 DEF SqliteInv, QueueIsUnacknowledged, Reached
  <2>4. Reached(p, acknowledged[p])'
    BY <1>5, <1>8, <2>1, <2>2, <2>3 DEF Reached
  <2>5. outbox'[p] = {n \in 1..L + Len(f) : b < n /\ acknowledged[p] < n}
    BY <1>1, <1>5, <1>8, <1>9, <2>1, <2>3
  <2> QED
    BY <1>8, <2>2, <2>3, <2>4, <2>5 DEF QueueIsUnacknowledged
<1> QED
  BY <1>13, <1>14, <1>15, <1>16 DEF SqliteInv

LEMMA WriteRowInv ==
  ASSUME TypeOK, NEW p \in Primaries, NEW k \in Keys, NEW r \in Row,
         SqliteInv(p), WriteRow(p, k, r), UNCHANGED committed
  PROVE  SqliteInv(p)'
<1> DEFINE L == Len(log[p])
           b == base[p]
           image == Image(p)
           e == [source |-> source[p], key |-> k, row |-> r, image |-> [image EXCEPT ![k] = r]]
<1>1. /\ CaptureTypeOK /\ source[p] \in Nat /\ b \in Nat /\ acknowledged[p] \in Nat
      /\ log[p] \in Seq(Event) /\ L \in Nat /\ DOMAIN log[p] = 1..L
  BY CaptureAssumption DEF TypeOK, CaptureTypeOK
<1>2. image \in [Keys -> Row]
  BY <1>1, ImageType
<1>3. b <= L /\ (b < L => image = log[p][L].image) /\ (b = L => image = EmptyDB)
  BY <1>1 DEF SqliteInv, LogOrder, Image
<1>4. /\ rows' = [rows EXCEPT ![p][k] = r]
      /\ UNCHANGED <<captured, source, base, acknowledged, committed>>
  BY DEF WriteRow
<1>5. CASE Captures(p, k)
  <2>1. log'[p] = Append(log[p], e) /\ outbox'[p] = outbox[p] \cup {L + 1}
    BY <1>1, <1>5 DEF WriteRow, CaptureTypeOK, NextSequences
  <2>2. e \in Event
    BY <1>1, <1>2 DEF Event
  <2>3. k \in captured[p] /\ source[p] > 0
    BY <1>1, <1>5 DEF Captures, SqliteInv, LogOrder
  <2>4. e.source = source[p] /\ e.key = k /\ e.row = r /\ e.image = [image EXCEPT ![k] = r]
    OBVIOUS
  <2> HIDE DEF e
  <2>5. /\ Len(log'[p]) = L + 1 /\ DOMAIN log'[p] = 1..L + 1
        /\ \A n \in 1..L : log'[p][n] = log[p][n]
        /\ log'[p][L + 1] = e
    BY <1>1, <2>1, <2>2
  <2> HIDE DEF L, b, image
  <2>6. \A n \in 1..L + 1 : n \in 1..L \/ n = L + 1
    BY <1>1
  <2>7. LogOrder(p)'
    <3>1. \A n \in 1..L : log[p][n].source <= source[p] /\ (log[p][n].source = source[p] <=> b < n)
      BY <1>1 DEF SqliteInv, LogOrder, b
    <3>2. \A n \in 1..L + 1 : /\ log'[p][n].source <= source[p]
                              /\ log'[p][n].source = source[p] <=> b < n
      BY <1>1, <1>3, <2>4, <2>5, <2>6, <3>1
    <3>3. b <= L + 1
      BY <1>1, <1>3
    <3> QED
      BY <1>4, <2>3, <2>5, <3>2, <3>3 DEF LogOrder, b
  <2>8. ImageChain(p)'
    <3> DEFINE before(n) == IF n = b + 1 THEN EmptyDB ELSE log'[p][n - 1].image
    <3>1. ASSUME NEW n \in 1..L, b < n
          PROVE  log'[p][n].image = [before(n) EXCEPT ![log'[p][n].key] = log'[p][n].row]
      <4>1. log[p][n].image = [Before(p, n) EXCEPT ![log[p][n].key] = log[p][n].row]
        BY <1>1, <3>1 DEF SqliteInv, ImageChain, b
      <4>2. before(n) = Before(p, n)
        <5>1. n # b + 1 => n - 1 \in 1..L
          BY <1>1, <3>1
        <5> QED
          BY <2>5, <5>1 DEF Before, b
      <4> HIDE DEF before
      <4> QED
        BY <2>5, <4>1, <4>2
    <3>2. before(L + 1) = image
      <4>1. b # L => L \in 1..L /\ (L + 1) - 1 = L
        BY <1>1, <1>3
      <4> QED
        BY <1>1, <1>3, <2>5, <4>1
    <3>3. EmptyDB' = EmptyDB
      BY DEF EmptyDB
    <3>4. \A n \in 1..L + 1 : b < n =>
            log'[p][n].image = [before(n) EXCEPT ![log'[p][n].key] = log'[p][n].row]
      <4> HIDE DEF before
      <4>1. log'[p][L + 1].image =
              [before(L + 1) EXCEPT ![log'[p][L + 1].key] = log'[p][L + 1].row]
        BY <2>4, <2>5, <3>2
      <4> QED
        BY <2>6, <3>1, <4>1
    <3> QED
      BY <1>4, <2>5, <3>3, <3>4 DEF ImageChain, Before, b
  <2>9. ShowsTables(p)'
    <3>1. Image(p)' = [image EXCEPT ![k] = r]
      <4>1. L + 1 > b
        BY <1>1, <1>3
      <4> QED
        BY <1>4, <2>4, <2>5, <4>1 DEF Image, b
    <3>2. \A j \in Keys : image[j] = IF j \in captured[p] THEN rows[p][j] ELSE Absent
      BY <2>3 DEF SqliteInv, ShowsTables, image
    <3>3. rows \in [Primaries -> [Keys -> Row]]
      BY <1>1 DEF CaptureTypeOK
    <3> QED
      BY <1>2, <1>4, <2>3, <3>1, <3>2, <3>3 DEF ShowsTables
  <2>10. QueueIsUnacknowledged(p)'
    <3>1. Current(p) = {n \in 1..L : b < n}
      BY <1>1 DEF Current, b
    <3>2. Current(p)' = {n \in 1..L + 1 : b < n}
      BY <1>4, <2>5 DEF Current, b
    <3>3. /\ acknowledged[p] <= L /\ Reached(p, acknowledged[p])
          /\ outbox[p] = {n \in Current(p) : acknowledged[p] < n}
          /\ acknowledged[p] <= committed[p]
      BY <1>1, <3>1 DEF SqliteInv, QueueIsUnacknowledged, Reached
    <3>4. Reached(p, acknowledged[p])'
      BY <1>1, <1>4, <3>1, <3>2, <3>3 DEF Reached
    <3>5. outbox'[p] = {n \in 1..L + 1 : b < n /\ acknowledged[p] < n}
      BY <1>1, <1>3, <2>1, <2>6, <3>1, <3>3 DEF L
    <3> QED
      BY <1>4, <3>2, <3>3, <3>4, <3>5 DEF QueueIsUnacknowledged
  <2> QED
    BY <2>7, <2>8, <2>9, <2>10 DEF SqliteInv
<1>6. CASE ~Captures(p, k)
  <2>1. UNCHANGED <<log, outbox>> /\ k \notin captured[p]
    BY <1>6 DEF WriteRow, Captures
  <2>2. LogOrder(p)' /\ ImageChain(p)' /\ QueueIsUnacknowledged(p)'
    BY <1>4, <2>1 DEF SqliteInv, LogOrder, ImageChain, Before, EmptyDB, QueueIsUnacknowledged,
                      Current, Reached
  <2>3. (source[p] > 0 => ShowsTables(p))'
    BY <1>1, <1>4, <2>1 DEF SqliteInv, ShowsTables, Image, EmptyDB, CaptureTypeOK
  <2> QED
    BY <2>2, <2>3 DEF SqliteInv
<1> QED
  BY <1>5, <1>6

LEMMA AckEventsInv ==
  ASSUME TypeOK, NEW p \in Primaries, NEW c \in Nat, SqliteInv(p), AckEvents(p, c),
         Reached(p, c), c <= committed[p], UNCHANGED committed
  PROVE  SqliteInv(p)'
<1>1. /\ UNCHANGED <<rows, captured, source, log, base>>
      /\ acknowledged'[p] = IF acknowledged[p] < c THEN c ELSE acknowledged[p]
      /\ outbox'[p] = outbox[p] \ {n \in outbox[p] : n <= c}
      /\ acknowledged[p] \in Nat /\ outbox[p] \subseteq Nat
  BY DEF AckEvents, Confirmed, TypeOK, CaptureTypeOK
<1>2. LogOrder(p)' /\ ImageChain(p)' /\ (source[p] > 0 => ShowsTables(p))'
  BY <1>1 DEF SqliteInv, LogOrder, ImageChain, Before, ShowsTables, Image, EmptyDB
<1>3. QueueIsUnacknowledged(p)'
  <2>1. Current(p) \subseteq Nat
    BY DEF Current, TypeOK, CaptureTypeOK
  <2>2. outbox'[p] = {n \in Current(p) : acknowledged'[p] < n}
    BY <1>1, <2>1 DEF SqliteInv, QueueIsUnacknowledged
  <2> QED
    BY <1>1, <2>2 DEF SqliteInv, QueueIsUnacknowledged, Current, Reached
<1> QED
  BY <1>2, <1>3 DEF SqliteInv
=============================================================================
