------------------------------ MODULE MarketSafety ------------------------------
(***************************************************************************)
(* The market cache and its jobs, for any number of securities, goroutines *)
(* and requests: keys, slots and the rates lock stay exact, stored history *)
(* keeps one basis, and a slot of the day that is complete stays so.       *)
(***************************************************************************)
EXTENDS MarketJobs, FiniteSetTheorems, TLAPS

\* The map and the goroutines at work name each other.
FlightsOK ==
  /\ \A f \in Flights : flight[f].pc \in Running => registered[flight[f].key] = f
  /\ \A k \in Keys : registered[k] # Nobody =>
       flight[registered[k]].pc \in Running /\ flight[registered[k]].key = k

\* Only the goroutine of a security fetches and stores history.
OfSecurity == {"fetch", "refetch", "commit", "calculate", "delay"}
KeysOK == \A f \in Flights : flight[f].pc \in OfSecurity => flight[f].key # FX

\* A part that is about to be stored has the basis of what it is added to.
BasisOK ==
  \A f \in Flights : flight[f].pc \in {"fx", "rates", "commit"} /\ flight[f].key # FX /\ ~flight[f].full
                       => flight[f].basis = prices[flight[f].key].recent

ResultsOK == \A s \in Securities : cached[s].current => cached[s].from = prices[s]

StoreInv == SeriesHasOneBasis /\ BasisOK /\ ResultsOK
CacheInv == TypeOK /\ FlightsOK /\ KeysOK /\ SlotsMatchFlights /\ StoreInv

Holders == {f \in Flights : flight[f].pc \in Holding}
-----------------------------------------------------------------------------
(* Goroutines *)

LEMMA States ==
  /\ Holding \subseteq Running /\ Running \subseteq FlightState
  /\ NoGoroutine \in Goroutine /\ NoGoroutine.pc = "none" /\ NoGoroutine.key = FX
  /\ {"none", "closed"} \cap Running = {} /\ "slot" \in Running \ Holding /\ "leave" \in Running \ Holding
  /\ "closed" \in FlightState
  <1>1. Attempts \in Nat /\ Attempts >= 1 /\ MaxRevision \in Nat /\ MaxRevision >= 1 BY CacheAssumption
  <1>2. NoGoroutine \in Goroutine BY <1>1 DEF NoGoroutine, Goroutine, FlightState, Keys
  <1> QED BY <1>2 DEF Holding, Running, FlightState, NoGoroutine

\* The channel counts as many goroutines as it did when one comes in or goes out.
LEMMA Counting ==
  ASSUME SlotsMatchFlights, NEW f \in Flights, NEW H \in SUBSET Flights
  PROVE  /\ H = Holders => Cardinality(H) = slotsUsed
         /\ H = Holders \cup {f} /\ f \notin Holders => Cardinality(H) = slotsUsed + 1
         /\ H = Holders \ {f} /\ f \in Holders => Cardinality(H) = slotsUsed - 1 /\ slotsUsed >= 1
         /\ slotsUsed \in Nat
  <1>1. IsFiniteSet(Flights) BY CacheAssumption
  <1>2. IsFiniteSet(Holders) BY <1>1, FS_Subset DEF Holders
  <1>3. slotsUsed = Cardinality(Holders) BY DEF SlotsMatchFlights, Holders
  <1>4. Cardinality(Holders) \in Nat BY <1>2, FS_CardinalityType
  <1>5. H = Holders \cup {f} /\ f \notin Holders => Cardinality(H) = slotsUsed + 1
    BY <1>2, <1>3, FS_AddElement
  <1>6. H = Holders \ {f} /\ f \in Holders => Cardinality(H) = slotsUsed - 1
    BY <1>2, <1>3, FS_RemoveElement
  <1>7. f \in Holders => slotsUsed # 0 BY <1>2, <1>3, FS_EmptySet
  <1> QED BY <1>3, <1>4, <1>5, <1>6, <1>7

\* One goroutine goes on, and stays registered.
LEMMA Moving ==
  ASSUME TypeOK, FlightsOK, KeysOK, SlotsMatchFlights,
         NEW f \in Flights, NEW g \in Goroutine,
         flight' = [flight EXCEPT ![f] = g], registered' = registered,
         flight[f].pc \in Running, g.pc \in Running, g.key = flight[f].key,
         g.pc \in OfSecurity => g.key # FX,
         \/ (g.pc \in Holding <=> flight[f].pc \in Holding) /\ slotsUsed' = slotsUsed
         \/ g.pc \in Holding /\ flight[f].pc \notin Holding /\ slotsUsed' = slotsUsed + 1 /\ slotsUsed < SlotCap
         \/ g.pc \notin Holding /\ flight[f].pc \in Holding /\ slotsUsed' = slotsUsed - 1,
         g.pc = "rates" => fxMu \in {Nobody, f},
         fxMu' = IF g.pc = "rates" THEN f ELSE IF fxMu = f THEN Nobody ELSE fxMu
  PROVE  /\ FlightsOK' /\ KeysOK' /\ SlotsMatchFlights'
         /\ flight' \in [Flights -> Goroutine] /\ slotsUsed' \in Nat /\ fxMu' \in Flights \cup {Nobody}
  <1>1. flight'[f] = g /\ \A h \in Flights : h # f => flight'[h] = flight[h] BY DEF TypeOK
  <1>2. flight' \in [Flights -> Goroutine] BY DEF TypeOK
  <1>3. fxMu' \in Flights \cup {Nobody} BY DEF TypeOK
  <1>4. FlightsOK'
    <2>1. ASSUME NEW h \in Flights, flight'[h].pc \in Running PROVE registered[flight'[h].key] = h
      BY <1>1, <2>1 DEF FlightsOK
    <2>2. ASSUME NEW k \in Keys, registered[k] # Nobody
          PROVE  flight'[registered[k]].pc \in Running /\ flight'[registered[k]].key = k
      <3>1. registered[k] \in Flights BY <2>2 DEF TypeOK
      <3> QED BY <1>1, <2>2, <3>1 DEF FlightsOK
    <2> QED BY <2>1, <2>2 DEF FlightsOK
  <1>5. KeysOK' BY <1>1 DEF KeysOK
  <1>6. PICK H \in SUBSET Flights : H = {h \in Flights : flight'[h].pc \in Holding} OBVIOUS
  <1>7. slotsUsed' = Cardinality(H) /\ slotsUsed' <= SlotCap /\ slotsUsed' \in Nat
    <2>1. SlotCap \in Nat BY CacheAssumption
    <2>2. slotsUsed \in Nat /\ slotsUsed <= SlotCap BY Counting DEF SlotsMatchFlights
    <2>3. CASE (g.pc \in Holding <=> flight[f].pc \in Holding) /\ slotsUsed' = slotsUsed
      <3>1. H = Holders BY <1>1, <1>6, <2>3 DEF Holders
      <3> QED BY <2>2, <2>3, <3>1, Counting
    <2>4. CASE g.pc \in Holding /\ flight[f].pc \notin Holding /\ slotsUsed' = slotsUsed + 1 /\ slotsUsed < SlotCap
      <3>1. H = Holders \cup {f} /\ f \notin Holders BY <1>1, <1>6, <2>4 DEF Holders
      <3>2. Cardinality(H) = slotsUsed + 1 BY <3>1, Counting
      <3> QED BY <2>1, <2>2, <2>4, <3>2
    <2>5. CASE g.pc \notin Holding /\ flight[f].pc \in Holding /\ slotsUsed' = slotsUsed - 1
      <3>1. H = Holders \ {f} /\ f \in Holders BY <1>1, <1>6, <2>5 DEF Holders
      <3>2. Cardinality(H) = slotsUsed - 1 /\ slotsUsed >= 1 BY <3>1, Counting
      <3> QED BY <2>1, <2>2, <2>5, <3>2
    <2> QED BY <2>3, <2>4, <2>5
  <1>8. ASSUME NEW h \in Flights PROVE fxMu' = h <=> flight'[h].pc = "rates"
    <2>1. f # Nobody /\ h # Nobody BY CacheAssumption
    <2>2. fxMu = h <=> flight[h].pc = "rates" BY DEF SlotsMatchFlights
    <2>3. fxMu = f <=> flight[f].pc = "rates" BY DEF SlotsMatchFlights
    <2> QED BY <1>1, <2>1, <2>2, <2>3
  <1> QED BY <1>2, <1>3, <1>4, <1>5, <1>6, <1>7, <1>8 DEF SlotsMatchFlights

\* What all steps of a goroutine but the last have in common.
Move(f, g) ==
  /\ flight' = [flight EXCEPT ![f] = g] /\ registered' = registered
  /\ flight[f].pc \in Running /\ g.pc \in Running /\ g.key = flight[f].key
  /\ g.pc \in OfSecurity => g.key # FX
  /\ \/ (g.pc \in Holding <=> flight[f].pc \in Holding) /\ slotsUsed' = slotsUsed
     \/ g.pc \in Holding /\ flight[f].pc \notin Holding /\ slotsUsed' = slotsUsed + 1 /\ slotsUsed < SlotCap
     \/ g.pc \notin Holding /\ flight[f].pc \in Holding /\ slotsUsed' = slotsUsed - 1
  /\ g.pc = "rates" => fxMu \in {Nobody, f}
  /\ fxMu' = IF g.pc = "rates" THEN f ELSE IF fxMu = f THEN Nobody ELSE fxMu
  /\ UNCHANGED worldVars

LEMMA MoveInv ==
  ASSUME CacheInv, NEW f \in Flights, NEW g \in Goroutine, Move(f, g),
         UNCHANGED <<prices, rows, cached>>, rates' \in 0..MaxRevision, failure' \in [Keys -> FailureState],
         reader' \in [Readers -> Request],
         g.pc \in {"fx", "rates", "commit"} /\ g.key # FX /\ ~g.full => g.basis = prices[g.key].recent
  PROVE  CacheInv'
  <1>1. /\ FlightsOK' /\ KeysOK' /\ SlotsMatchFlights'
        /\ flight' \in [Flights -> Goroutine] /\ slotsUsed' \in Nat /\ fxMu' \in Flights \cup {Nobody}
    BY Moving DEF CacheInv, Move
  <1>2. TypeOK' BY <1>1 DEF CacheInv, TypeOK, Move, worldVars
  <1>3. SeriesHasOneBasis' /\ ResultsOK' BY DEF CacheInv, StoreInv, SeriesHasOneBasis, ResultsOK
  <1>4. flight'[f] = g /\ \A h \in Flights : h # f => flight'[h] = flight[h] BY DEF CacheInv, TypeOK, Move
  <1>5. BasisOK' BY <1>4 DEF CacheInv, StoreInv, BasisOK
  <1> QED BY <1>1, <1>2, <1>3, <1>5 DEF CacheInv, StoreInv

\* A goroutine's record, with another pc.
LEMMA GoingOn ==
  ASSUME TypeOK, NEW f \in Flights, NEW from, NEW to \in FlightState, GoOn(f, from, to)
  PROVE  \E g \in Goroutine :
           /\ flight[f].pc = from /\ flight' = [flight EXCEPT ![f] = g] /\ g.pc = to
           /\ g.key = flight[f].key /\ g.full = flight[f].full /\ g.basis = flight[f].basis
  <1>1. flight[f] \in Goroutine BY DEF TypeOK
  <1>2. PICK g : g = [flight[f] EXCEPT !.pc = to] OBVIOUS
  <1>3. g \in Goroutine /\ g.pc = to /\ g.key = flight[f].key /\ g.full = flight[f].full /\ g.basis = flight[f].basis
    BY <1>1, <1>2 DEF Goroutine
  <1>4. flight' = [flight EXCEPT ![f] = g] /\ flight[f].pc = from BY <1>2 DEF GoOn
  <1> QED BY <1>3, <1>4

LEMMA TakeSlotInv == ASSUME CacheInv, NEW f \in Flights, TakeSlot(f) PROVE CacheInv'
  <1>1. PICK to : to = IF flight[f].key = FX THEN "fx" ELSE "fetch" OBVIOUS
  <1>2. to \in FlightState BY <1>1 DEF FlightState, Running, Holding
  <1>3. GoOn(f, "slot", to) BY <1>1 DEF TakeSlot
  <1>4. PICK g \in Goroutine :
           /\ flight[f].pc = "slot" /\ flight' = [flight EXCEPT ![f] = g] /\ g.pc = to
           /\ g.key = flight[f].key /\ g.full = flight[f].full /\ g.basis = flight[f].basis
    BY <1>2, <1>3, GoingOn DEF CacheInv
  <1>5. fxMu # f BY <1>4 DEF CacheInv, SlotsMatchFlights
  <1>6. Move(f, g) BY <1>1, <1>4, <1>5 DEF Move, TakeSlot, Running, Holding, OfSecurity
  <1> QED BY <1>1, <1>4, <1>6, MoveInv DEF TakeSlot, storeVars, CacheInv, TypeOK

LEMMA ExpireInv == ASSUME CacheInv, NEW f \in Flights, Expire(f) PROVE CacheInv'
  <1>1. flight[f] \in Goroutine /\ 0 \in 0..Attempts - 1 BY CacheAssumption DEF CacheInv, TypeOK
  <1>2. flight[f].pc \in {"slot", "delay"} BY DEF Expire
  <1>3. PICK g : g = [flight[f] EXCEPT !.pc = Abandon(f), !.attempt = 0] OBVIOUS
  <1>4. Abandon(f) = IF flight[f].pc = "slot" THEN "leave" ELSE "release" BY DEF Abandon
  <1>5. g \in Goroutine /\ g.pc = Abandon(f) /\ g.key = flight[f].key
    BY <1>1, <1>3, <1>4 DEF Goroutine, FlightState, Running, Holding
  <1>6. flight' = [flight EXCEPT ![f] = g] BY <1>3 DEF Expire
  <1>7. fxMu # f BY <1>2 DEF CacheInv, SlotsMatchFlights
  <1>8. Move(f, g) BY <1>2, <1>4, <1>5, <1>6, <1>7 DEF Move, Expire, Running, Holding, OfSecurity
  <1> QED BY <1>4, <1>5, <1>8, MoveInv DEF Expire, storeVars, CacheInv, TypeOK

LEMMA FetchInv == ASSUME CacheInv, NEW f \in Flights, Fetch(f) PROVE CacheInv'
  <1>1. flight[f].pc = "fetch" /\ flight[f] \in Goroutine /\ flight[f].key \in Securities
    BY DEF Fetch, CacheInv, TypeOK, KeysOK, OfSecurity, Goroutine, Keys
  <1>2. PICK s \in Securities : s = flight[f].key BY <1>1
  <1>3. PICK full \in BOOLEAN :
          flight' = [flight EXCEPT ![f].full = full, ![f].basis = world[s],
                                   ![f].pc = IF ~full /\ Revised(f, world[s]) THEN "refetch" ELSE AfterHistory(f)]
    BY <1>2 DEF Fetch
  <1>4. PICK to : to = IF ~full /\ Revised(f, world[s]) THEN "refetch" ELSE AfterHistory(f) OBVIOUS
  <1>5. to \in {"refetch", "fx", "commit"} /\ (to # "refetch" => full \/ world[s] = prices[s].recent)
    BY <1>2, <1>4 DEF AfterHistory, Revised
  <1>6. PICK g : g = [flight[f] EXCEPT !.full = full, !.basis = world[s], !.pc = to] OBVIOUS
  <1>7. world[s] \in 0..MaxRevision BY CacheAssumption DEF CacheInv, TypeOK
  <1>8. g \in Goroutine /\ g.pc = to /\ g.key = s /\ g.full = full /\ g.basis = world[s]
    BY <1>1, <1>2, <1>5, <1>6, <1>7 DEF Goroutine, FlightState, Running, Holding
  <1>9. flight' = [flight EXCEPT ![f] = g] BY <1>3, <1>4, <1>6
  <1>10. fxMu # f BY <1>1 DEF CacheInv, SlotsMatchFlights
  <1>11. s # FX BY CacheAssumption
  <1>12. Move(f, g) BY <1>1, <1>2, <1>5, <1>8, <1>9, <1>10, <1>11 DEF Move, Fetch, Running, Holding, OfSecurity
  <1> QED BY <1>5, <1>8, <1>12, MoveInv DEF Fetch, storeVars, CacheInv, TypeOK

LEMMA RefetchInv == ASSUME CacheInv, NEW f \in Flights, Refetch(f) PROVE CacheInv'
  <1>1. flight[f].pc = "refetch" /\ flight[f] \in Goroutine /\ flight[f].key \in Securities
    BY DEF Refetch, CacheInv, TypeOK, KeysOK, OfSecurity, Goroutine, Keys
  <1>2. PICK g : g = [flight[f] EXCEPT !.full = TRUE, !.basis = world[flight[f].key], !.pc = AfterHistory(f)] OBVIOUS
  <1>3. world[flight[f].key] \in 0..MaxRevision BY <1>1, CacheAssumption DEF CacheInv, TypeOK
  <1>4. AfterHistory(f) \in {"fx", "commit"} BY DEF AfterHistory
  <1>5. g \in Goroutine /\ g.pc = AfterHistory(f) /\ g.key = flight[f].key /\ g.full
    BY <1>1, <1>2, <1>3, <1>4 DEF Goroutine, FlightState, Running, Holding
  <1>6. flight' = [flight EXCEPT ![f] = g] BY <1>2 DEF Refetch
  <1>7. fxMu # f BY <1>1 DEF CacheInv, SlotsMatchFlights
  <1>8. flight[f].key # FX BY <1>1, CacheAssumption
  <1>9. Move(f, g) BY <1>1, <1>4, <1>5, <1>6, <1>7, <1>8 DEF Move, Refetch, Running, Holding, OfSecurity
  <1> QED BY <1>5, <1>9, MoveInv DEF Refetch, storeVars, CacheInv, TypeOK

LEMMA RatesInv == ASSUME CacheInv, NEW f \in Flights, EnsureRates(f) \/ FetchRates(f) PROVE CacheInv'
  <1>1. PICK from \in {"fx", "rates"}, to \in {"rates", "release", "commit"} :
          /\ GoOn(f, from, to) /\ (to = "rates" => from = "fx" /\ fxMu = Nobody /\ fxMu' = f)
          /\ to # "rates" => /\ to = AfterRates(f)
                             /\ fxMu' = (IF from = "rates" THEN Nobody ELSE fxMu)
    BY DEF EnsureRates, FetchRates, AfterRates
  <1>2. PICK g \in Goroutine :
           /\ flight[f].pc = from /\ flight' = [flight EXCEPT ![f] = g] /\ g.pc = to
           /\ g.key = flight[f].key /\ g.full = flight[f].full /\ g.basis = flight[f].basis
    BY <1>1, GoingOn DEF CacheInv, FlightState, Running, Holding
  <1>3. to = "commit" => g.key # FX BY <1>1, <1>2 DEF AfterRates
  <1>4. fxMu = f <=> from = "rates" BY <1>2 DEF CacheInv, SlotsMatchFlights
  <1>5. UNCHANGED <<worldVars, registered, slotsUsed, reader, prices, rows, cached>>
    BY DEF EnsureRates, FetchRates, StoreRates, storeVars
  <1>6. Move(f, g)
    <2>1. f # Nobody BY CacheAssumption
    <2>2. fxMu' = IF g.pc = "rates" THEN f ELSE IF fxMu = f THEN Nobody ELSE fxMu BY <1>1, <1>2, <1>4
    <2> QED BY <1>1, <1>2, <1>3, <1>4, <1>5, <2>2 DEF Move, Running, Holding, OfSecurity
  <1>7. rates' \in 0..MaxRevision /\ failure' \in [Keys -> FailureState]
    <2>1. CASE EnsureRates(f) BY <2>1 DEF EnsureRates, storeVars, CacheInv, TypeOK
    <2>2. CASE FetchRates(f)
      <3>1. rates' \in 0..MaxRevision BY <2>2, CacheAssumption DEF FetchRates, StoreRates, CacheInv, TypeOK
      <3>2. failure' \in [Keys -> FailureState] BY <2>2 DEF FetchRates, CacheInv, TypeOK, FailureState
      <3> QED BY <3>1, <3>2
    <2> QED BY <2>1, <2>2
  <1>8. ~g.full /\ g.key # FX => g.basis = prices[g.key].recent
    BY <1>2 DEF CacheInv, StoreInv, BasisOK
  <1>9. reader' \in [Readers -> Request] BY <1>5 DEF CacheInv, TypeOK
  <1> QED BY <1>5, <1>6, <1>7, <1>8, <1>9, MoveInv

LEMMA AttemptFailsInv == ASSUME CacheInv, NEW f \in Flights, AttemptFails(f) PROVE CacheInv'
  <1>1. flight[f] \in Goroutine /\ Attempts \in Nat \ {0} BY CacheAssumption DEF CacheInv, TypeOK
  <1>2. PICK to \in {"delay", "fail"}, attempt \in 0..Attempts - 1 :
          /\ flight' = [flight EXCEPT ![f] = Interrupted(f, to, attempt)]
          /\ to = "delay" => flight[f].key # FX
    <2>1. CASE /\ flight[f].key # FX /\ TriesLeft(f)
               /\ flight' = [flight EXCEPT ![f] = Interrupted(f, "delay", @.attempt + 1)]
      <3>1. flight[f].attempt \in Nat /\ flight[f].attempt + 1 < Attempts BY <1>1, <2>1 DEF Goroutine, TriesLeft
      <3>2. flight[f].attempt + 1 \in 0..Attempts - 1 BY <1>1, <3>1
      <3>3. flight' = [flight EXCEPT ![f] = Interrupted(f, "delay", flight[f].attempt + 1)]
        BY <2>1 DEF CacheInv, TypeOK
      <3> QED BY <2>1, <3>2, <3>3
    <2>2. CASE flight' = [flight EXCEPT ![f] = Interrupted(f, "fail", 0)]
      <3>1. 0 \in 0..Attempts - 1 BY <1>1
      <3> QED BY <2>2, <3>1
    <2> QED BY <2>1, <2>2 DEF AttemptFails
  <1>3. PICK g : g = Interrupted(f, to, attempt) OBVIOUS
  <1>4. 0 \in 0..MaxRevision BY CacheAssumption
  <1>5. g \in Goroutine /\ g.pc = to /\ g.key = flight[f].key
    BY <1>1, <1>3, <1>4 DEF Interrupted, Goroutine, FlightState, Running, Holding
  <1>6. flight[f].pc \in {"fetch", "refetch", "rates", "commit", "calculate"} BY DEF AttemptFails
  <1>7. flight' = [flight EXCEPT ![f] = g] BY <1>2, <1>3
  <1>8. Move(f, g) BY <1>2, <1>5, <1>6, <1>7 DEF Move, AttemptFails, Unlocked, Running, Holding, OfSecurity
  <1> QED BY <1>5, <1>8, MoveInv DEF AttemptFails, storeVars, CacheInv, TypeOK

LEMMA OtherMovesInv ==
  ASSUME CacheInv, NEW f \in Flights, TryAgain(f) \/ SaveFailure(f) \/ Release(f) PROVE CacheInv'
  <1>1. PICK from \in {"delay", "fail", "release"}, to \in {"fetch", "release", "leave"} :
          /\ GoOn(f, from, to)
          /\ \/ from = "delay" /\ to = "fetch" /\ slotsUsed' = slotsUsed
             \/ from = "fail" /\ to = "release" /\ slotsUsed' = slotsUsed
             \/ from = "release" /\ to = "leave" /\ slotsUsed' = slotsUsed - 1
    BY DEF TryAgain, SaveFailure, Release
  <1>2. PICK g \in Goroutine :
           /\ flight[f].pc = from /\ flight' = [flight EXCEPT ![f] = g] /\ g.pc = to
           /\ g.key = flight[f].key /\ g.full = flight[f].full /\ g.basis = flight[f].basis
    BY <1>1, GoingOn DEF CacheInv, FlightState, Running, Holding
  <1>3. from = "delay" => g.key # FX BY <1>2 DEF CacheInv, KeysOK, OfSecurity
  <1>4. UNCHANGED <<worldVars, registered, fxMu, reader, prices, rows, cached, rates>>
    BY DEF TryAgain, SaveFailure, Release, storeVars
  <1>5. fxMu # f BY <1>1, <1>2 DEF CacheInv, SlotsMatchFlights
  <1>6. Move(f, g) BY <1>1, <1>2, <1>3, <1>4, <1>5 DEF Move, Running, Holding, OfSecurity
  <1>7. rates' \in 0..MaxRevision /\ failure' \in [Keys -> FailureState]
    BY <1>4 DEF TryAgain, SaveFailure, Release, storeVars, CacheInv, TypeOK, FailureState
  <1>8. reader' \in [Readers -> Request] BY <1>4 DEF CacheInv, TypeOK
  <1> QED BY <1>1, <1>2, <1>4, <1>6, <1>7, <1>8, MoveInv

\* The history of a security changes by its own goroutine only.
LEMMA CommitInv == ASSUME CacheInv, NEW f \in Flights, Commit(f) PROVE CacheInv'
  <1>1. flight[f].pc = "commit" /\ flight[f] \in Goroutine /\ flight[f].key \in Securities
    BY DEF Commit, CacheInv, TypeOK, KeysOK, OfSecurity, Goroutine, Keys
  <1>2. PICK s \in Securities : s = flight[f].key /\ s # FX BY <1>1, CacheAssumption
  <1>3. PICK full \in BOOLEAN, basis \in 0..MaxRevision : full = flight[f].full /\ basis = flight[f].basis
    BY <1>1 DEF Goroutine
  <1>4. PICK g : g = [flight[f] EXCEPT !.pc = "calculate", !.full = FALSE, !.basis = 0] OBVIOUS
  <1>5. 0 \in 0..MaxRevision BY CacheAssumption
  <1>6. g \in Goroutine /\ g.pc = "calculate" /\ g.key = s
    BY <1>1, <1>2, <1>4, <1>5 DEF Goroutine, FlightState, Running, Holding
  <1>7. flight' = [flight EXCEPT ![f] = g] BY <1>4 DEF Commit
  <1>8. fxMu # f BY <1>1 DEF CacheInv, SlotsMatchFlights
  <1>9. Move(f, g) BY <1>1, <1>2, <1>6, <1>7, <1>8 DEF Move, Commit, Running, Holding, OfSecurity
  <1>10. /\ FlightsOK' /\ KeysOK' /\ SlotsMatchFlights'
         /\ flight' \in [Flights -> Goroutine] /\ slotsUsed' \in Nat /\ fxMu' \in Flights \cup {Nobody}
    BY <1>6, <1>9, Moving DEF CacheInv, Move
  <1>11. StoreSeries(s, full, basis) BY <1>2, <1>3 DEF Commit
  <1>12. prices[s] \in Series /\ prices[s].early = prices[s].recent /\ (full \/ basis = prices[s].recent)
    BY <1>1, <1>2, <1>3 DEF CacheInv, TypeOK, StoreInv, SeriesHasOneBasis, BasisOK
  <1>13. PICK new \in Series : new = [early |-> IF full THEN basis ELSE prices[s].early, recent |-> basis]
    BY <1>12 DEF Series
  <1>14. prices' = [prices EXCEPT ![s] = new] /\ new.early = new.recent
    BY <1>11, <1>12, <1>13 DEF StoreSeries
  <1>15. prices' \in [Securities -> Series] BY <1>14 DEF CacheInv, TypeOK
  <1>16. cached[s] \in Result BY DEF CacheInv, TypeOK
  <1>17. PICK result : result = [cached[s] EXCEPT !.current = FALSE] OBVIOUS
  <1>18. result \in Result /\ ~result.current BY <1>16, <1>17 DEF Result
  <1>19. cached' = [cached EXCEPT ![s] = result] BY <1>11, <1>17 DEF StoreSeries, KeepsVersion
  <1>20. rows' \in [Securities -> RowState]
    <2>1. PICK new2 \in RowState : rows' = [rows EXCEPT ![s] = new2]
      BY <1>11 DEF StoreSeries, CacheInv, TypeOK, RowState
    <2> QED BY <2>1 DEF CacheInv, TypeOK
  <1>21. failure' \in [Keys -> FailureState] BY <1>11 DEF StoreSeries, CacheInv, TypeOK, FailureState
  <1>22. UNCHANGED <<worldVars, rates, registered, reader>> BY DEF Commit
  <1>23. TypeOK' BY <1>10, <1>15, <1>18, <1>19, <1>20, <1>21, <1>22 DEF CacheInv, TypeOK, worldVars
  <1>24. SeriesHasOneBasis' BY <1>14 DEF CacheInv, TypeOK, StoreInv, SeriesHasOneBasis
  <1>25. ResultsOK' BY <1>14, <1>18, <1>19 DEF CacheInv, TypeOK, StoreInv, ResultsOK
  <1>26. BasisOK'
    <2>1. ASSUME NEW h \in Flights, h # f, flight[h].pc \in {"fx", "rates", "commit"} PROVE flight[h].key # s
      <3>1. h # f /\ flight[h].pc \in Running /\ flight[f].pc \in Running BY <1>1, <2>1 DEF Running, Holding
      <3> QED BY <1>2, <3>1 DEF CacheInv, FlightsOK
    <2>2. flight'[f].pc = "calculate" /\ \A h \in Flights : h # f => flight'[h] = flight[h]
      BY <1>6, <1>7 DEF CacheInv, TypeOK
    <2>3. ASSUME NEW h \in Flights, flight'[h].pc \in {"fx", "rates", "commit"}, flight'[h].key # FX, ~flight'[h].full
          PROVE  flight'[h].basis = prices'[flight'[h].key].recent
      <3>1. h # f /\ flight'[h] = flight[h] BY <2>2, <2>3
      <3>2. flight[h].key \in Securities /\ flight[h].key # s BY <2>1, <2>3, <3>1 DEF CacheInv, TypeOK, Goroutine, Keys
      <3>3. prices'[flight[h].key] = prices[flight[h].key] BY <1>14, <3>2 DEF CacheInv, TypeOK
      <3> QED BY <2>3, <3>1, <3>3 DEF CacheInv, StoreInv, BasisOK
    <2> QED BY <2>3 DEF BasisOK
  <1> QED BY <1>10, <1>23, <1>24, <1>25, <1>26 DEF CacheInv, StoreInv

\* A result that was calculated is of the prices that are stored.
LEMMA Calculating ==
  ASSUME CacheInv, NEW s \in Securities, Calculate(s), prices' = prices
  PROVE  cached' \in [Securities -> Result] /\ ResultsOK'
  <1>1. prices[s] \in Series /\ rates \in 0..MaxRevision BY DEF CacheInv, TypeOK
  <1>2. PICK r : r = [ready |-> TRUE, current |-> TRUE, from |-> prices[s], rates |-> rates] OBVIOUS
  <1>3. r \in Result /\ r.from = prices[s] BY <1>1, <1>2 DEF Result
  <1>4. cached' = [cached EXCEPT ![s] = r] BY <1>2 DEF Calculate
  <1>5. cached' \in [Securities -> Result] BY <1>3, <1>4 DEF CacheInv, TypeOK
  <1>6. ResultsOK' BY <1>3, <1>4 DEF CacheInv, TypeOK, StoreInv, ResultsOK
  <1> QED BY <1>5, <1>6

LEMMA CalculateReturnsInv == ASSUME CacheInv, NEW f \in Flights, CalculateReturns(f) PROVE CacheInv'
  <1>1. flight[f].pc = "calculate" /\ flight[f] \in Goroutine /\ flight[f].key \in Securities
    BY DEF CalculateReturns, CacheInv, TypeOK, KeysOK, OfSecurity, Goroutine, Keys
  <1>2. PICK g : g = [flight[f] EXCEPT !.pc = "release", !.good = TRUE, !.attempt = 0] OBVIOUS
  <1>3. 0 \in 0..Attempts - 1 BY CacheAssumption
  <1>4. g \in Goroutine /\ g.pc = "release" /\ g.key = flight[f].key
    BY <1>1, <1>2, <1>3 DEF Goroutine, FlightState, Running, Holding
  <1>5. flight' = [flight EXCEPT ![f] = g] BY <1>2 DEF CalculateReturns
  <1>6. fxMu # f BY <1>1 DEF CacheInv, SlotsMatchFlights
  <1>7. Move(f, g) BY <1>1, <1>4, <1>5, <1>6 DEF Move, CalculateReturns, Running, Holding, OfSecurity
  <1>8. /\ FlightsOK' /\ KeysOK' /\ SlotsMatchFlights'
        /\ flight' \in [Flights -> Goroutine] /\ slotsUsed' \in Nat /\ fxMu' \in Flights \cup {Nobody}
    BY <1>4, <1>7, Moving DEF CacheInv, Move
  <1>9. UNCHANGED <<worldVars, prices, rows, rates, failure, registered, reader>> BY DEF CalculateReturns
  <1>10. cached' \in [Securities -> Result] /\ ResultsOK' BY <1>1, <1>9, Calculating DEF CalculateReturns
  <1>11. TypeOK' BY <1>8, <1>9, <1>10 DEF CacheInv, TypeOK, worldVars
  <1>12. SeriesHasOneBasis' BY <1>9 DEF CacheInv, StoreInv, SeriesHasOneBasis
  <1>13. BasisOK'
    <2>1. flight'[f] = g /\ \A h \in Flights : h # f => flight'[h] = flight[h] BY <1>5 DEF CacheInv, TypeOK
    <2> QED BY <1>4, <1>9, <2>1 DEF CacheInv, StoreInv, BasisOK
  <1> QED BY <1>8, <1>10, <1>11, <1>12, <1>13 DEF CacheInv, StoreInv

\* Who has no slot ends, and is registered no more; or a batch has looked at one that ended.
LEMMA EndingInv ==
  ASSUME CacheInv, NEW f \in Flights, NEW g \in Goroutine, g.pc \notin Running, flight[f].pc \notin Holding,
         flight' = [flight EXCEPT ![f] = g],
         registered' = IF flight[f].pc \in Running THEN [registered EXCEPT ![flight[f].key] = Nobody] ELSE registered,
         UNCHANGED <<worldVars, storeVars, slotsUsed, fxMu, reader>>
  PROVE  CacheInv'
  <1>1. flight'[f] = g /\ \A h \in Flights : h # f => flight'[h] = flight[h] BY DEF CacheInv, TypeOK
  <1>2. flight[f].key \in Keys /\ f # Nobody BY CacheAssumption DEF CacheInv, TypeOK, Goroutine
  <1>3. TypeOK' BY <1>2 DEF CacheInv, TypeOK, worldVars, storeVars
  <1>4. FlightsOK'
    <2>1. \A k \in Keys : registered'[k] = IF flight[f].pc \in Running /\ k = flight[f].key THEN Nobody ELSE registered[k]
      BY <1>2 DEF CacheInv, TypeOK
    <2>2. ASSUME NEW h \in Flights, flight'[h].pc \in Running PROVE registered'[flight'[h].key] = h
      <3>1. h # f /\ flight'[h] = flight[h] BY <1>1, <2>2
      <3>2. registered[flight[h].key] = h /\ flight[h].key \in Keys BY <2>2, <3>1 DEF CacheInv, FlightsOK, TypeOK, Goroutine
      <3>3. flight[f].pc \in Running => registered[flight[f].key] = f BY DEF CacheInv, FlightsOK
      <3> QED BY <2>1, <3>1, <3>2, <3>3
    <2>3. ASSUME NEW k \in Keys, registered'[k] # Nobody
          PROVE  flight'[registered'[k]].pc \in Running /\ flight'[registered'[k]].key = k
      <3>1. registered'[k] = registered[k] /\ registered[k] \in Flights BY <2>1, <2>3 DEF CacheInv, TypeOK
      <3>2. flight[registered[k]].pc \in Running /\ flight[registered[k]].key = k BY <2>3, <3>1 DEF CacheInv, FlightsOK
      <3>3. registered[k] # f BY <2>1, <2>3, <3>1, <3>2
      <3> QED BY <1>1, <3>1, <3>2, <3>3
    <2> QED BY <2>2, <2>3 DEF FlightsOK
  <1>5. g.pc \notin Holding /\ g.pc \notin OfSecurity /\ g.pc \notin {"fx", "rates", "commit"}
    BY DEF Running, Holding, OfSecurity
  <1>6. KeysOK' BY <1>1, <1>5 DEF CacheInv, KeysOK
  <1>7. SlotsMatchFlights'
    <2>1. {h \in Flights : flight'[h].pc \in Holding} = {h \in Flights : flight[h].pc \in Holding} BY <1>1, <1>5
    <2>2. \A h \in Flights : flight'[h].pc = "rates" <=> flight[h].pc = "rates" BY <1>1, <1>5 DEF Holding
    <2> QED BY <2>1, <2>2 DEF CacheInv, SlotsMatchFlights
  <1>8. StoreInv' BY <1>1, <1>5 DEF CacheInv, StoreInv, SeriesHasOneBasis, BasisOK, ResultsOK, storeVars
  <1> QED BY <1>3, <1>4, <1>6, <1>7, <1>8 DEF CacheInv

LEMMA LeaveInv == ASSUME CacheInv, NEW f \in Flights, Leave(f) PROVE CacheInv'
  <1>1. flight[f] \in Goroutine /\ flight[f].pc = "leave" BY DEF Leave, CacheInv, TypeOK
  <1>2. PICK g : g = IF flight[f].awaited THEN [flight[f] EXCEPT !.pc = "closed"] ELSE NoGoroutine OBVIOUS
  <1>3. g \in Goroutine /\ g.pc \in {"closed", "none"}
    <2>1. CASE flight[f].awaited BY <1>1, <1>2, <2>1 DEF Goroutine, FlightState
    <2>2. CASE ~flight[f].awaited BY <1>2, <2>2, States
    <2> QED BY <2>1, <2>2
  <1>4. flight' = [flight EXCEPT ![f] = g] BY <1>2 DEF Leave
  <1>5. "leave" \in Running \ Holding /\ g.pc \notin Running BY <1>3, States
  <1> QED BY <1>1, <1>3, <1>4, <1>5, EndingInv DEF Leave

\* A goroutine is joined, or one is started under a key that has none.
LEMMA StartFlightInv ==
  ASSUME CacheInv, NEW k \in Keys, NEW force \in BOOLEAN, NEW awaited \in BOOLEAN, StartFlight(k, force, awaited),
         UNCHANGED <<worldVars, storeVars>>, reader' \in [Readers -> Request]
  PROVE  CacheInv'
  <1>1. CASE Busy(k)
    <2>1. PICK f : f = registered[k] OBVIOUS
    <2>2. f \in Flights /\ flight[f].pc \in Running /\ flight[f] \in Goroutine
      BY <1>1, <2>1 DEF Busy, CacheInv, TypeOK, FlightsOK
    <2>3. PICK g : g = [flight[f] EXCEPT !.awaited = @ \/ awaited] OBVIOUS
    <2>4. g \in Goroutine /\ g.pc = flight[f].pc /\ g.key = flight[f].key /\ g.full = flight[f].full
          /\ g.basis = flight[f].basis
      <3>1. (flight[f].awaited \/ awaited) \in BOOLEAN OBVIOUS
      <3> QED BY <2>2, <2>3, <3>1 DEF Goroutine
    <2>5. flight' = [flight EXCEPT ![f] = g] BY <1>1, <2>1, <2>3 DEF StartFlight
    <2>6. fxMu = f <=> flight[f].pc = "rates" BY <2>2 DEF CacheInv, SlotsMatchFlights
    <2>7. UNCHANGED <<registered, slotsUsed, fxMu>> BY <1>1 DEF StartFlight
    <2>8. g.pc \in OfSecurity => g.key # FX BY <2>2, <2>4 DEF CacheInv, KeysOK
    <2>9. Move(f, g) BY <2>2, <2>4, <2>5, <2>6, <2>7, <2>8 DEF Move
    <2>10. g.pc \in {"fx", "rates", "commit"} /\ g.key # FX /\ ~g.full => g.basis = prices[g.key].recent
      BY <2>2, <2>4 DEF CacheInv, StoreInv, BasisOK
    <2>11. UNCHANGED <<prices, rows, cached>> /\ rates' \in 0..MaxRevision /\ failure' \in [Keys -> FailureState]
      BY DEF storeVars, CacheInv, TypeOK
    <2> QED BY <2>2, <2>4, <2>9, <2>10, <2>11, MoveInv
  <1>2. CASE ~Busy(k)
    <2>1. PICK f : f = CHOOSE h \in Free : TRUE OBVIOUS
    <2>2. f \in Flights /\ flight[f].pc = "none" BY <1>2, <2>1 DEF StartFlight, Free
    <2>3. PICK g : g = [NoGoroutine EXCEPT !.pc = "slot", !.key = k, !.force = force, !.awaited = awaited] OBVIOUS
    <2>4. g \in Goroutine /\ g.pc = "slot" /\ g.key = k
      BY <2>3, States DEF Goroutine, FlightState, Running
    <2>5. flight' = [flight EXCEPT ![f] = g] /\ registered' = [registered EXCEPT ![k] = f]
          /\ UNCHANGED <<slotsUsed, fxMu>>
      BY <1>2, <2>1, <2>3 DEF StartFlight
    <2>6. flight'[f] = g /\ \A h \in Flights : h # f => flight'[h] = flight[h] BY <2>2, <2>5 DEF CacheInv, TypeOK
    <2>7. registered[k] = Nobody /\ \A l \in Keys : registered'[l] = IF l = k THEN f ELSE registered[l]
      BY <1>2, <2>5 DEF Busy, CacheInv, TypeOK
    <2>8. TypeOK' BY <2>2, <2>4, <2>5 DEF CacheInv, TypeOK, worldVars, storeVars
    <2>9. FlightsOK'
      <3>1. ASSUME NEW h \in Flights, flight'[h].pc \in Running PROVE registered'[flight'[h].key] = h
        <4>1. CASE h = f BY <2>4, <2>6, <2>7, <4>1
        <4>2. CASE h # f
          <5>1. registered[flight[h].key] = h /\ flight[h].key \in Keys /\ h # Nobody
            BY <2>6, <3>1, <4>2, CacheAssumption DEF CacheInv, FlightsOK, TypeOK, Goroutine
          <5> QED BY <2>6, <2>7, <4>2, <5>1
        <4> QED BY <4>1, <4>2
      <3>2. ASSUME NEW l \in Keys, registered'[l] # Nobody
            PROVE  flight'[registered'[l]].pc \in Running /\ flight'[registered'[l]].key = l
        <4>1. CASE l = k BY <2>4, <2>6, <2>7, <4>1, States
        <4>2. CASE l # k
          <5>1. registered'[l] = registered[l] /\ registered[l] \in Flights BY <2>7, <3>2, <4>2 DEF CacheInv, TypeOK
          <5>2. flight[registered[l]].pc \in Running /\ flight[registered[l]].key = l BY <3>2, <5>1 DEF CacheInv, FlightsOK
          <5>3. registered[l] # f BY <2>2, <5>2, States
          <5> QED BY <2>6, <5>1, <5>2, <5>3
        <4> QED BY <4>1, <4>2
      <3> QED BY <3>1, <3>2 DEF FlightsOK
    <2>10. KeysOK' BY <2>4, <2>6 DEF CacheInv, KeysOK, OfSecurity
    <2>11. SlotsMatchFlights'
      <3>1. {h \in Flights : flight'[h].pc \in Holding} = {h \in Flights : flight[h].pc \in Holding}
        BY <2>2, <2>4, <2>6 DEF Holding
      <3>2. \A h \in Flights : flight'[h].pc = "rates" <=> flight[h].pc = "rates" BY <2>2, <2>4, <2>6
      <3> QED BY <2>5, <3>1, <3>2 DEF CacheInv, SlotsMatchFlights
    <2>12. StoreInv' BY <2>4, <2>6 DEF CacheInv, StoreInv, SeriesHasOneBasis, BasisOK, ResultsOK, storeVars
    <2> QED BY <2>8, <2>9, <2>10, <2>11, <2>12 DEF CacheInv
  <1> QED BY <1>1, <1>2

-----------------------------------------------------------------------------
(* Requests, the world and the process *)

\* Steps that touch neither the goroutines nor the stored history.
LEMMA ApartInv ==
  ASSUME CacheInv, UNCHANGED <<goVars, prices>>, TypeOK', ResultsOK' PROVE CacheInv'
  <1>1. FlightsOK' /\ KeysOK' BY DEF CacheInv, FlightsOK, KeysOK, goVars
  <1>2. SlotsMatchFlights'
    <2>1. UNCHANGED <<flight, slotsUsed, fxMu>> BY DEF goVars
    <2> QED BY <2>1 DEF CacheInv, SlotsMatchFlights
  <1>3. SeriesHasOneBasis' /\ BasisOK' BY DEF CacheInv, StoreInv, SeriesHasOneBasis, BasisOK, goVars
  <1> QED BY <1>1, <1>2, <1>3 DEF CacheInv, StoreInv

LEMMA SameResults == ASSUME CacheInv, UNCHANGED <<cached, prices>> PROVE ResultsOK'
  BY DEF CacheInv, StoreInv, ResultsOK

\* A request at work is about a security.
LEMMA Asking ==
  ASSUME CacheInv, NEW r \in Readers, reader[r].pc # "none"
  PROVE  reader[r] \in [pc : {"calculate", "decide", "start"}, key : Securities, stale : BOOLEAN, force : BOOLEAN]
  <1>1. reader[r] \in Request BY DEF CacheInv, TypeOK
  <1> QED BY <1>1 DEF Request, NoRequest

LEMMA LookInv == ASSUME CacheInv, NEW r \in Readers, NEW s \in Securities, Look(r, s) PROVE CacheInv'
  <1>1. PICK pc \in {"calculate", "decide"}, stale \in BOOLEAN, force \in BOOLEAN :
          reader' = [reader EXCEPT ![r] = [pc |-> pc, key |-> s, stale |-> stale, force |-> force]]
    <2>1. (ShownStale(s) \/ Damaged(s)) \in BOOLEAN /\ Damaged(s) \in BOOLEAN BY DEF ShownStale, Damaged
    <2> QED BY <2>1 DEF Look, SetReader
  <1>2. PICK q \in Request : q = [pc |-> pc, key |-> s, stale |-> stale, force |-> force] BY DEF Request
  <1>3. reader' \in [Readers -> Request] BY <1>1, <1>2 DEF CacheInv, TypeOK
  <1>4. TypeOK' BY <1>3 DEF Look, CacheInv, TypeOK, worldVars, storeVars, goVars
  <1> QED BY <1>4, ApartInv, SameResults DEF Look, storeVars

LEMMA CalculateMissingInv == ASSUME CacheInv, NEW r \in Readers, CalculateMissing(r) PROVE CacheInv'
  <1>1. reader[r].pc = "calculate" BY DEF CalculateMissing
  <1>2. reader[r] \in [pc : {"calculate", "decide", "start"}, key : Securities, stale : BOOLEAN, force : BOOLEAN]
    BY <1>1, Asking
  <1>3. PICK s \in Securities : s = reader[r].key BY <1>2
  <1>4. PICK stale \in BOOLEAN : reader' = [reader EXCEPT ![r] = [reader[r] EXCEPT !.pc = "decide", !.stale = stale]]
    <2>1. (CanCalculate(s) /\ failure[s] # "none") \in BOOLEAN OBVIOUS
    <2> QED BY <1>3, <2>1 DEF CalculateMissing, SetReader
  <1>5. PICK q : q = [reader[r] EXCEPT !.pc = "decide", !.stale = stale] OBVIOUS
  <1>6. q \in Request BY <1>2, <1>5 DEF Request
  <1>7. reader' \in [Readers -> Request] BY <1>4, <1>5, <1>6 DEF CacheInv, TypeOK
  <1>8. UNCHANGED <<worldVars, prices, rows, rates, failure, goVars>> BY DEF CalculateMissing
  <1>9. cached' \in [Securities -> Result] /\ ResultsOK'
    <2>1. CASE CanCalculate(s) BY <1>3, <1>8, <2>1, Calculating DEF CalculateMissing
    <2>2. CASE ~CanCalculate(s)
      <3>1. cached' = cached BY <1>3, <2>2 DEF CalculateMissing
      <3> QED BY <1>8, <3>1, SameResults DEF CacheInv, TypeOK
    <2> QED BY <2>1, <2>2
  <1>10. TypeOK' BY <1>7, <1>8, <1>9 DEF CacheInv, TypeOK, worldVars, goVars
  <1> QED BY <1>8, <1>9, <1>10, ApartInv

LEMMA DecideInv == ASSUME CacheInv, NEW r \in Readers, Decide(r) PROVE CacheInv'
  <1>1. reader[r] \in [pc : {"calculate", "decide", "start"}, key : Securities, stale : BOOLEAN, force : BOOLEAN]
    BY Asking DEF Decide
  <1>2. PICK forced \in BOOLEAN, due \in BOOLEAN :
          reader' = [reader EXCEPT ![r] = IF due THEN [reader[r] EXCEPT !.pc = "start", !.force = @ \/ forced] ELSE NoRequest]
    <2>1. \A forced, old \in BOOLEAN : Due(reader[r].key, reader[r].stale, forced, old) \in BOOLEAN BY <1>1 DEF Due
    <2> QED BY <2>1 DEF Decide, SetReader
  <1>3. PICK q : q = IF due THEN [reader[r] EXCEPT !.pc = "start", !.force = @ \/ forced] ELSE NoRequest OBVIOUS
  <1>4. q \in Request
    <2>1. (reader[r].force \/ forced) \in BOOLEAN OBVIOUS
    <2>2. CASE due BY <1>1, <1>3, <2>1, <2>2 DEF Request
    <2>3. CASE ~due BY <1>3, <2>3 DEF Request
    <2> QED BY <2>2, <2>3
  <1>5. reader' \in [Readers -> Request] BY <1>2, <1>3, <1>4 DEF CacheInv, TypeOK
  <1>6. TypeOK' BY <1>5 DEF Decide, CacheInv, TypeOK, worldVars, storeVars, goVars
  <1> QED BY <1>6, ApartInv, SameResults DEF Decide, storeVars

LEMMA StartSyncInv == ASSUME CacheInv, NEW r \in Readers, StartSync(r) PROVE CacheInv'
  <1>1. reader[r].key \in Keys /\ reader[r].force \in BOOLEAN BY Asking DEF StartSync, Keys
  <1>2. reader' \in [Readers -> Request] BY DEF StartSync, SetReader, CacheInv, TypeOK, Request
  <1> QED BY <1>1, <1>2, StartFlightInv DEF StartSync

LEMMA WarmForecastFXInv == ASSUME CacheInv, WarmForecastFX PROVE CacheInv'
  <1>1. FX \in Keys /\ reader' \in [Readers -> Request] BY DEF WarmForecastFX, Keys, CacheInv, TypeOK
  <1> QED BY <1>1, StartFlightInv DEF WarmForecastFX

\* The latest rates change no history, and no result that was calculated.
LEMMA StoreRatesInv ==
  ASSUME CacheInv, StoreRates, UNCHANGED <<worldVars, failure, goVars, reader>> PROVE CacheInv'
  <1>1. rates' \in 0..MaxRevision BY CacheAssumption DEF StoreRates, CacheInv, TypeOK
  <1>2. TypeOK' BY <1>1 DEF StoreRates, CacheInv, TypeOK, worldVars, goVars
  <1> QED BY <1>2, ApartInv, SameResults DEF StoreRates

LEMMA WorldInv ==
  ASSUME CacheInv,
         \/ \E k \in Keys : CooldownEnds(k)
         \/ \E s \in Securities : Revise(s) \/ LoseRows(s)
         \/ ReviseRates \/ CalmDown
  PROVE  CacheInv'
  <1>1. UNCHANGED <<cached, prices, goVars, reader, rates>>
    BY DEF CooldownEnds, Revise, LoseRows, ReviseRates, CalmDown, storeVars
  <1>2. failure' \in [Keys -> FailureState]
    BY DEF CooldownEnds, Revise, LoseRows, ReviseRates, CalmDown, storeVars, CacheInv, TypeOK, FailureState
  <1>3. rows' \in [Securities -> RowState]
    BY DEF CooldownEnds, Revise, LoseRows, ReviseRates, CalmDown, storeVars, CacheInv, TypeOK, RowState
  <1>4. world' \in [Securities -> 1..MaxRevision] /\ worldRates' \in 1..MaxRevision /\ calm' \in BOOLEAN
    <2>1. MaxRevision \in Nat BY CacheAssumption
    <2>2. CASE \E s \in Securities : Revise(s)
      <3>1. PICK s \in Securities : Revise(s) BY <2>2
      <3>2. world[s] \in 1..MaxRevision /\ world[s] < MaxRevision BY <3>1 DEF Revise, CacheInv, TypeOK
      <3>3. world[s] + 1 \in 1..MaxRevision BY <2>1, <3>2
      <3> QED BY <3>1, <3>3 DEF Revise, CacheInv, TypeOK
    <2>3. CASE ReviseRates BY <2>1, <2>3 DEF ReviseRates, CacheInv, TypeOK
    <2>4. CASE \/ \E k \in Keys : CooldownEnds(k)
               \/ \E s \in Securities : LoseRows(s)
               \/ CalmDown
      BY <2>4 DEF CooldownEnds, LoseRows, CalmDown, worldVars, CacheInv, TypeOK
    <2> QED BY <2>2, <2>3, <2>4
  <1>5. TypeOK' BY <1>1, <1>2, <1>3, <1>4 DEF CacheInv, TypeOK, goVars
  <1> QED BY <1>1, <1>5, ApartInv, SameResults

\* No goroutine, no request: what a process starts with.
LEMMA IdleInv ==
  ASSUME TypeOK, flight = [f \in Flights |-> NoGoroutine], registered = [k \in Keys |-> Nobody],
         slotsUsed = 0, fxMu = Nobody
  PROVE  FlightsOK /\ KeysOK /\ SlotsMatchFlights /\ BasisOK
  <1>1. \A f \in Flights : flight[f].pc = "none" BY States
  <1>2. FlightsOK BY <1>1, States DEF FlightsOK
  <1>3. KeysOK /\ BasisOK BY <1>1 DEF KeysOK, BasisOK, OfSecurity
  <1>4. {f \in Flights : flight[f].pc \in Holding} = {} BY <1>1, States
  <1>5. SlotsMatchFlights
    <2>1. \A f \in Flights : f # Nobody BY CacheAssumption
    <2>2. 0 <= SlotCap BY CacheAssumption
    <2> QED BY <1>1, <1>4, <2>1, <2>2, FS_EmptySet DEF SlotsMatchFlights
  <1> QED BY <1>2, <1>3, <1>5

LEMMA RestartInv == ASSUME CacheInv, Restart PROVE CacheInv'
  <1>1. TypeOK' BY States DEF Restart, CacheInv, TypeOK, worldVars, storeVars, Request
  <1>2. \A f \in Flights : flight'[f].pc = "none" BY States DEF Restart
  <1>3. FlightsOK' BY <1>2, States DEF FlightsOK, Restart
  <1>4. KeysOK' /\ BasisOK' BY <1>2 DEF KeysOK, BasisOK, OfSecurity
  <1>5. {f \in Flights : flight'[f].pc \in Holding} = {} BY <1>2, States
  <1>6. SlotsMatchFlights'
    <2>1. \A f \in Flights : f # Nobody BY CacheAssumption
    <2>2. 0 <= SlotCap BY CacheAssumption
    <2> QED BY <1>2, <1>5, <2>1, <2>2, FS_EmptySet DEF SlotsMatchFlights, Restart
  <1>7. SeriesHasOneBasis' /\ ResultsOK'
    BY DEF Restart, storeVars, CacheInv, StoreInv, SeriesHasOneBasis, ResultsOK
  <1> QED BY <1>1, <1>3, <1>4, <1>6, <1>7 DEF CacheInv, StoreInv

LEMMA InitInv == CacheInit => CacheInv
  <1> SUFFICES ASSUME CacheInit PROVE CacheInv OBVIOUS
  <1>1. NoSeries \in Series /\ NoResult \in Result BY CacheAssumption DEF NoSeries, Series, NoResult, Result
  <1>2. 1 \in 1..MaxRevision /\ 0 \in 0..MaxRevision BY CacheAssumption
  <1>3. TypeOK BY <1>1, <1>2, States DEF CacheInit, TypeOK, RowState, FailureState, Request
  <1>4. FlightsOK /\ KeysOK /\ SlotsMatchFlights /\ BasisOK BY <1>3, IdleInv DEF CacheInit
  <1>5. SeriesHasOneBasis BY DEF CacheInit, SeriesHasOneBasis, NoSeries
  <1>6. ResultsOK
    <2>1. NoResult.current = FALSE BY DEF NoResult
    <2>2. \A s \in Securities : cached[s] = NoResult BY DEF CacheInit
    <2> QED BY <2>1, <2>2 DEF ResultsOK
  <1> QED BY <1>3, <1>4, <1>5, <1>6 DEF CacheInv, StoreInv

LEMMA FlightStepInv == ASSUME CacheInv, NEW f \in Flights, FlightStep(f) PROVE CacheInv'
  BY TakeSlotInv, ExpireInv, FetchInv, RefetchInv, RatesInv, CommitInv, CalculateReturnsInv, AttemptFailsInv,
     OtherMovesInv, LeaveInv DEF FlightStep

LEMMA CacheStepInv == ASSUME CacheInv, CacheStep PROVE CacheInv'
  <1>1. CASE \E f \in Flights : FlightStep(f) BY <1>1, FlightStepInv
  <1>2. CASE \E r \in Readers : RequestStep(r)
    BY <1>2, LookInv, CalculateMissingInv, DecideInv, StartSyncInv DEF RequestStep
  <1>3. CASE WarmForecastFX BY <1>3, WarmForecastFXInv
  <1>4. CASE RefreshRates BY <1>4, StoreRatesInv DEF RefreshRates
  <1>5. CASE \/ \E k \in Keys : CooldownEnds(k)
             \/ \E s \in Securities : Revise(s) \/ LoseRows(s)
             \/ ReviseRates \/ CalmDown
    BY <1>5, WorldInv
  <1> QED BY <1>1, <1>2, <1>3, <1>4, <1>5 DEF CacheStep

LEMMA StutterInv == ASSUME CacheInv, UNCHANGED vars PROVE CacheInv'
  <1>1. UNCHANGED <<goVars, prices, cached>> /\ TypeOK'
    BY DEF vars, worldVars, storeVars, goVars, CacheInv, TypeOK
  <1> QED BY <1>1, ApartInv, SameResults

\* What the invariant says of the properties.
LEMMA InvHolds ==
  CacheInv => TypeOK /\ SlotsMatchFlights /\ SeriesHasOneBasis /\ FreshIsCurrent /\ OneFlightPerKey
  <1> SUFFICES ASSUME CacheInv PROVE FreshIsCurrent /\ OneFlightPerKey BY DEF CacheInv, StoreInv
  <1>1. FreshIsCurrent BY DEF CacheInv, StoreInv, ResultsOK, FreshIsCurrent, Stale
  <1>2. OneFlightPerKey BY DEF CacheInv, FlightsOK, OneFlightPerKey, Busy
  <1> QED BY <1>1, <1>2

LEMMA CacheInvAlways == CacheSpec => []CacheInv
  <1>1. CacheInv /\ [CacheNext]_vars => CacheInv'
    BY CacheStepInv, RestartInv, StutterInv DEF CacheNext
  <1> QED BY <1>1, InitInv, PTL DEF CacheSpec

\* The types of the cache: the map flights names goroutines only, and a request at work
\* is about a security.
THEOREM CacheTypes == CacheSpec => []TypeOK
  BY CacheInvAlways, InvHolds, PTL

\* No failure, no end of a context and no crash loses a slot of the channel or leaves
\* the rates locked.
THEOREM SlotsAreExact == CacheSpec => []SlotsMatchFlights
  BY CacheInvAlways, InvHolds, PTL

\* A history never mixes prices from before and after a revision at its source, however
\* many revisions come between a fetch and its commit.
THEOREM HistoryHasOneBasis == CacheSpec => []SeriesHasOneBasis
  BY CacheInvAlways, InvHolds, PTL

\* What is shown as up to date was calculated from the prices that are stored.
THEOREM FreshResults == CacheSpec => []FreshIsCurrent
  BY CacheInvAlways, InvHolds, PTL

-----------------------------------------------------------------------------
(* The jobs *)

\* What the job is about to write: slots that have come, are not complete and do not
\* cool down.  Between, it walks over securities.
OpenSlots ==
  /\ job.slots \subseteq 1..elapsed
  /\ job.pc # "finish" => \A i \in job.slots : DueSlot(i)
  /\ job.pc \in {"mark", "finish"} => job.rest \subseteq job.slots /\ \A i \in job.rest : DueSlot(i)
  /\ job.pc \in {"start", "wait"} => job.rest \subseteq Securities

OwnTypes ==
  /\ elapsed \in 0..SlotCount
  /\ runs \in [Slots -> RunState] /\ \A i \in Slots : i > elapsed => runs[i] = "none"
  /\ cooling \subseteq {i \in Slots : runs[i] = "failed"}
  /\ job \in Job

JobInv == OwnTypes /\ OpenSlots

LEMMA AtJob ==
  ASSUME NEW pc \in JobState, NEW S \in SUBSET Slots, NEW R \in SUBSET (Slots \cup Securities)
  PROVE  [At(pc) EXCEPT !.slots = S, !.rest = R] \in Job
  BY DEF At, Job

LEMMA Walking ==
  ASSUME job \in Job, NEW x, NEW pc \in {"start", "wait", "rates", "finish"}, NEW next \in {Securities, {}},
         NEW d, d = Done(x, pc, next)
  PROVE  /\ d \in Job /\ d.slots = job.slots
         /\ job.rest = {x} => d.pc = pc /\ d.rest = next
         /\ job.rest # {x} => d.pc = job.pc /\ d.rest = job.rest \ {x}
  <1>1. pc \in JobState /\ next \in SUBSET (Slots \cup Securities) BY DEF JobState
  <1>2. CASE job.rest = {x} BY <1>1, <1>2 DEF Done, Job
  <1>3. CASE job.rest # {x}
    <2>1. PICK R \in SUBSET (Slots \cup Securities) : R = job.rest \ {x} BY DEF Job
    <2> QED BY <1>3, <2>1 DEF Done, Job
  <1> QED BY <1>2, <1>3

LEMMA IdleJob == At("boot") \in Job /\ At("idle") \in Job /\ \A pc \in JobState : At(pc).slots = {} /\ At(pc).rest = {} /\ At(pc).pc = pc
  BY DEF At, Job, JobState

\* The job goes on, and writes nothing.
LEMMA JobGoesOn ==
  ASSUME JobInv, UNCHANGED <<elapsed, runs, cooling>>, job' \in Job,
         job'.slots = {} \/ (job'.slots = job.slots /\ job.pc # "finish"),
         job'.pc \in {"mark", "finish"} => job'.rest \subseteq job'.slots,
         job'.pc \in {"start", "wait"} => job'.rest \subseteq Securities
  PROVE  JobInv'
  <1>1. OwnTypes' BY DEF JobInv, OwnTypes
  <1>2. \A i : DueSlot(i)' = DueSlot(i) BY DEF DueSlot
  <1>3. job'.slots \subseteq 1..elapsed /\ \A i \in job'.slots : DueSlot(i) BY DEF JobInv, OpenSlots
  <1> QED BY <1>1, <1>2, <1>3 DEF JobInv, OpenSlots, DueSlot
\* It writes the row of a slot it has to write.
LEMMA JobWrites ==
  ASSUME JobInv, NEW i \in job.rest, job.pc \in {"mark", "finish"}, NEW state \in RunState \ {"none"},
         WriteRun(i, state), state # "failed" \/ job.pc = "finish", state # "complete" \/ job.pc = "finish",
         job' \in Job,
         job'.slots = {} \/ job'.slots = job.slots, job'.pc = "mark" => job.pc = "mark",
         job.pc = "finish" => job'.pc \in {"finish", "idle"},
         job'.pc = job.pc => job'.slots = job.slots /\ job'.rest = job.rest \ {i},
         job.pc = "mark" => job'.pc \in {"mark", "start"},
         job'.pc = "idle" => job'.slots = {},
         job'.pc = "start" => job'.rest \subseteq Securities
  PROVE  JobInv'
  <1>1. i \in Slots /\ i <= elapsed /\ DueSlot(i) /\ elapsed \in Nat
    BY JobsAssumption DEF JobInv, OwnTypes, OpenSlots, Slots
  <1>2. elapsed' = elapsed /\ runs' = [runs EXCEPT ![i] = state] BY DEF WriteRun
  <1>3. cooling' = IF state = "failed" THEN cooling \cup {i} ELSE cooling BY DEF WriteRun
  <1>4. \A k \in Slots : runs'[k] = IF k = i THEN state ELSE runs[k] BY <1>2 DEF JobInv, OwnTypes
  <1>5. OwnTypes'
    <2>1. runs' \in [Slots -> RunState] BY <1>2 DEF JobInv, OwnTypes
    <2>2. \A k \in Slots : k > elapsed' => runs'[k] = "none"
      <3>1. ASSUME NEW k \in Slots, k > elapsed PROVE runs'[k] = "none"
        <4>1. k # i BY <1>1, <3>1 DEF Slots
        <4> QED BY <1>4, <3>1, <4>1 DEF JobInv, OwnTypes
      <3> QED BY <1>2, <3>1
    <2>3. cooling' \subseteq {k \in Slots : runs'[k] = "failed"}
      <3>1. i \notin cooling BY <1>1 DEF DueSlot
      <3> QED BY <1>1, <1>3, <1>4, <3>1 DEF JobInv, OwnTypes
    <2> QED BY <1>2, <2>1, <2>2, <2>3 DEF JobInv, OwnTypes
  <1>6. \A k \in Slots : k # i /\ DueSlot(k) => DueSlot(k)' BY <1>3, <1>4 DEF DueSlot
  <1>7. job.pc = "mark" => DueSlot(i)' BY <1>1, <1>3, <1>4 DEF DueSlot
  <1>8. job.slots \subseteq Slots BY DEF JobInv, OwnTypes, Job
  <1>9. job'.slots \subseteq 1..elapsed' BY <1>2 DEF JobInv, OpenSlots
  <1>10. job'.pc # "finish" => \A k \in job'.slots : DueSlot(k)'
    <2>1. CASE job.pc = "mark" BY <1>6, <1>7, <1>8, <2>1 DEF JobInv, OpenSlots
    <2>2. CASE job.pc = "finish" BY <2>2
    <2> QED BY <2>1, <2>2
  <1>11. job'.pc \in {"mark", "finish"} => job'.rest \subseteq job'.slots /\ \A k \in job'.rest : DueSlot(k)'
    <2>1. CASE job'.pc = job.pc BY <1>6, <1>8, <2>1 DEF JobInv, OpenSlots
    <2>2. CASE job'.pc # job.pc BY <2>2
    <2> QED BY <2>1, <2>2
  <1>12. job'.pc \in {"start", "wait"} => job'.rest \subseteq Securities OBVIOUS
  <1> QED BY <1>5, <1>9, <1>10, <1>11, <1>12 DEF JobInv, OpenSlots

LEMMA TakeUpInv == ASSUME JobInv, TakeUp PROVE JobInv'
  <1>1. elapsed \in 0..SlotCount /\ SlotCount \in Nat BY JobsAssumption DEF JobInv, OwnTypes
  <1>2. Missing \subseteq Slots /\ Missing \subseteq 1..elapsed /\ \A i \in Missing : DueSlot(i)
    BY <1>1 DEF Missing, Slots
  <1>3. UNCHANGED <<elapsed, runs, cooling>> BY DEF TakeUp
  <1>4. OwnTypes' /\ OpenSlots'
    <2>1. CASE job' = [At("mark") EXCEPT !.slots = Missing, !.rest = Missing]
      <3>1. job' \in Job /\ job'.pc = "mark" /\ job'.slots = Missing /\ job'.rest = Missing
        BY <1>2, <2>1 DEF At, Job, JobState
      <3>2. \A i \in Missing : DueSlot(i)' BY <1>2, <1>3 DEF DueSlot
      <3> QED BY <1>2, <1>3, <3>1, <3>2 DEF JobInv, OwnTypes, OpenSlots
    <2>2. CASE job' = [At("start") EXCEPT !.rest = Securities]
      <3>1. job' \in Job /\ job'.pc = "start" /\ job'.slots = {} /\ job'.rest = Securities
        BY <2>2 DEF At, Job, JobState
      <3> QED BY <1>3, <3>1, JobGoesOn DEF JobInv
    <2>3. CASE job' = At("idle")
      <3>1. job' \in Job /\ job'.pc = "idle" /\ job'.slots = {} BY <2>3, IdleJob DEF JobState
      <3> QED BY <1>3, <3>1, JobGoesOn DEF JobInv
    <2> QED BY <2>1, <2>2, <2>3 DEF TakeUp
  <1> QED BY <1>4 DEF JobInv

LEMMA GiveUpInv == ASSUME JobInv, GiveUp PROVE JobInv'
  <1>1. job' \in Job /\ job'.pc = "idle" /\ job'.slots = {} BY IdleJob DEF GiveUp, JobState
  <1> QED BY <1>1, JobGoesOn DEF GiveUp

LEMMA MarkRunningInv == ASSUME JobInv, MarkRunning PROVE JobInv'
  <1>1. CASE GiveUp BY <1>1, GiveUpInv
  <1>2. CASE \E i \in job.rest : WriteRun(i, "running") /\ job' = Done(i, "start", Securities)
    <2>1. PICK i \in job.rest : WriteRun(i, "running") /\ job' = Done(i, "start", Securities) BY <1>2
    <2>2. job.pc = "mark" BY DEF MarkRunning
    <2>3. job \in Job /\ "running" \in RunState \ {"none"}
      BY DEF JobInv, OwnTypes, JobState, RunState
    <2>4. PICK d : d = Done(i, "start", Securities) OBVIOUS
    <2>5. /\ d \in Job /\ d.slots = job.slots
          /\ job.rest = {i} => d.pc = "start" /\ d.rest = Securities
          /\ job.rest # {i} => d.pc = job.pc /\ d.rest = job.rest \ {i}
      BY <2>3, <2>4, Walking
    <2>6. job' = d BY <2>1, <2>4
    <2>7. /\ job'.pc \in {"mark", "start"} /\ (job'.pc = job.pc => job'.rest = job.rest \ {i})
          /\ job'.pc = "start" => job'.rest \subseteq Securities
      BY <2>2, <2>5, <2>6
    <2> QED BY <2>1, <2>2, <2>3, <2>5, <2>6, <2>7, JobWrites
  <1> QED BY <1>1, <1>2 DEF MarkRunning

LEMMA FinishInv == ASSUME JobInv, Finish PROVE JobInv'
  <1>1. CASE GiveUp BY <1>1, GiveUpInv
  <1>2. CASE ~GiveUp
    <2>1. PICK i \in job.rest, state \in {"failed", "complete"} :
            WriteRun(i, state) /\ job' = IF job.rest = {i} THEN At("idle") ELSE Done(i, "finish", {})
      BY <1>2 DEF Finish
    <2>2. job.pc = "finish" BY DEF Finish
    <2>3. job \in Job /\ state \in RunState \ {"none"}
      BY DEF JobInv, OwnTypes, JobState, RunState
    <2>4. CASE job.rest = {i}
      <3>1. job' \in Job /\ job'.pc = "idle" /\ job'.slots = {} BY <2>1, <2>3, <2>4, IdleJob DEF JobState
      <3> QED BY <2>1, <2>2, <2>3, <3>1, JobWrites
    <2>5. CASE job.rest # {i}
      <3>1. PICK d : d = Done(i, "finish", {}) OBVIOUS
      <3>2. d \in Job /\ d.slots = job.slots /\ d.pc = job.pc /\ d.rest = job.rest \ {i}
        BY <2>3, <2>5, <3>1, Walking
      <3>3. job' = d BY <2>1, <2>5, <3>1
      <3> QED BY <2>1, <2>2, <2>3, <3>2, <3>3, JobWrites
    <2> QED BY <2>4, <2>5
  <1> QED BY <1>1, <1>2
LEMMA StartFlightsInv == ASSUME CacheInv, JobInv, StartFlights PROVE CacheInv' /\ JobInv'
  <1>1. PICK s \in job.rest : StartFlight(s, FALSE, TRUE) /\ job' = Done(s, "wait", Securities) BY DEF StartFlights
  <1>2. job.pc = "start" /\ job \in Job /\ job.rest \subseteq Securities BY DEF StartFlights, JobInv, OwnTypes, OpenSlots
  <1>3. CacheInv'
    <2>1. s \in Keys /\ reader' \in [Readers -> Request] BY <1>2 DEF Keys, StartFlights, CacheInv, TypeOK
    <2> QED BY <1>1, <2>1, StartFlightInv DEF StartFlights
  <1>5. PICK d : d = Done(s, "wait", Securities) OBVIOUS
  <1>6. /\ d \in Job /\ d.slots = job.slots
        /\ job.rest = {s} => d.pc = "wait" /\ d.rest = Securities
        /\ job.rest # {s} => d.pc = job.pc /\ d.rest = job.rest \ {s}
    BY <1>2, <1>5, Walking
  <1>7. job' = d BY <1>1, <1>5
  <1>8. job'.pc \in {"start", "wait"} /\ job'.rest \subseteq Securities BY <1>2, <1>6, <1>7
  <1>9. UNCHANGED <<elapsed, runs, cooling>> BY DEF StartFlights
  <1>10. JobInv' BY <1>2, <1>6, <1>7, <1>8, <1>9, JobGoesOn
  <1> QED BY <1>3, <1>10

LEMMA WaitFlightsInv == ASSUME CacheInv, JobInv, WaitFlights PROVE CacheInv' /\ JobInv'
  <1>1. job.pc = "wait" /\ job \in Job /\ job.rest \subseteq Securities BY DEF WaitFlights, JobInv, OwnTypes, OpenSlots
  <1>2. PICK f \in Flights, bad \in BOOLEAN, missed \in BOOLEAN :
          /\ flight[f].pc = "closed" /\ flight[f].key \in job.rest
          /\ job' = [Done(flight[f].key, "rates", {}) EXCEPT !.bad = @ \/ bad, !.missed = @ \/ missed]
          /\ flight' = [flight EXCEPT ![f] = NoGoroutine]
    <2>1. \A f \in Flights : Counts(flight[f].key) \in BOOLEAN /\ (~(flight[f].good \/ Counts(flight[f].key))) \in BOOLEAN
      BY DEF Counts
    <2> QED BY <2>1 DEF WaitFlights
  <1>3. CacheInv'
    <2>1. flight[f].pc \notin Running /\ flight[f].pc \notin Holding BY <1>2, States
    <2>2. NoGoroutine \in Goroutine /\ NoGoroutine.pc \notin Running BY States
    <2>3. UNCHANGED <<worldVars, storeVars, registered, slotsUsed, fxMu, reader>> BY DEF WaitFlights
    <2> QED BY <1>2, <2>1, <2>2, <2>3, EndingInv
  <1>4. PICK s : s = flight[f].key OBVIOUS
  <1>5. PICK d : d = Done(s, "rates", {}) OBVIOUS
  <1>7. /\ d \in Job /\ d.slots = job.slots
        /\ job.rest = {s} => d.pc = "rates" /\ d.rest = {}
        /\ job.rest # {s} => d.pc = job.pc /\ d.rest = job.rest \ {s}
    BY <1>1, <1>5, Walking
  <1>8. PICK j : j = [d EXCEPT !.bad = @ \/ bad, !.missed = @ \/ missed] OBVIOUS
  <1>9. j \in Job /\ j.slots = d.slots /\ j.pc = d.pc /\ j.rest = d.rest
    <2>1. (d.bad \/ bad) \in BOOLEAN /\ (d.missed \/ missed) \in BOOLEAN OBVIOUS
    <2> QED BY <1>7, <1>8, <2>1 DEF Job
  <1>10. job' = j BY <1>2, <1>4, <1>5, <1>8
  <1>11. job'.pc \in {"wait", "rates"} /\ job'.rest \subseteq Securities BY <1>1, <1>7, <1>9, <1>10
  <1>12. UNCHANGED <<elapsed, runs, cooling>> BY DEF WaitFlights
  <1>13. JobInv' BY <1>1, <1>7, <1>9, <1>10, <1>11, <1>12, JobGoesOn
  <1> QED BY <1>3, <1>13

LEMMA BatchRatesInv == ASSUME CacheInv, JobInv, BatchRates PROVE CacheInv' /\ JobInv'
  <1>1. UNCHANGED <<worldVars, failure, goVars, reader, elapsed, runs, cooling>> BY DEF BatchRates
  <1>2. StoreRates \/ UNCHANGED <<prices, rows, rates, cached>> BY DEF BatchRates
  <1>3. CacheInv'
    <2>1. CASE StoreRates BY <1>1, <2>1, StoreRatesInv
    <2>2. CASE UNCHANGED <<prices, rows, rates, cached>>
      <3>1. UNCHANGED vars BY <1>1, <2>2 DEF vars, worldVars, storeVars, goVars
      <3> QED BY <3>1, StutterInv
    <2> QED BY <1>2, <2>1, <2>2
  <1>4. PICK bad \in BOOLEAN : job' = [job EXCEPT !.pc = "snapshots", !.bad = bad]
    <2>1. job \in Job BY DEF JobInv, OwnTypes
    <2>2. [job EXCEPT !.pc = "snapshots"] = [job EXCEPT !.pc = "snapshots", !.bad = job.bad] BY <2>1 DEF Job
    <2>3. job.bad \in BOOLEAN BY <2>1 DEF Job
    <2> QED BY <2>2, <2>3 DEF BatchRates
  <1>5. PICK j : j = [job EXCEPT !.pc = "snapshots", !.bad = bad] OBVIOUS
  <1>6. j \in Job /\ j.slots = job.slots /\ j.pc = "snapshots" BY <1>5 DEF JobInv, OwnTypes, Job, JobState
  <1>7. job' = j /\ job.pc = "rates" BY <1>4, <1>5 DEF BatchRates
  <1>8. JobInv' BY <1>1, <1>6, <1>7, JobGoesOn
  <1> QED BY <1>3, <1>8

LEMMA BatchSnapshotsInv == ASSUME JobInv, BatchSnapshots PROVE JobInv'
  <1>1. job.pc = "snapshots" /\ UNCHANGED <<elapsed, runs, cooling>> BY DEF BatchSnapshots
  <1>2. CASE job.slots = {}
    <2>1. job' = At("idle") BY <1>2 DEF BatchSnapshots
    <2>2. job' \in Job /\ job'.pc = "idle" /\ job'.slots = {} BY <2>1, IdleJob DEF JobState
    <2> QED BY <1>1, <2>2, JobGoesOn
  <1>3. CASE job.slots # {}
    <2>1. PICK bad \in BOOLEAN : job' = [job EXCEPT !.pc = "finish", !.rest = job.slots, !.bad = bad]
      <3>1. \A failed \in {FALSE, ~calm} : (job.bad \/ failed) \in BOOLEAN OBVIOUS
      <3> QED BY <1>3, <3>1 DEF BatchSnapshots
    <2>2. PICK j : j = [job EXCEPT !.pc = "finish", !.rest = job.slots, !.bad = bad] OBVIOUS
    <2>3. job' = j BY <2>1, <2>2
    <2>4. j \in Job /\ j.slots = job.slots /\ j.pc = "finish" /\ j.rest = job.slots
      BY <2>2 DEF JobInv, OwnTypes, Job, JobState
    <2> QED BY <1>1, <2>3, <2>4, JobGoesOn
  <1> QED BY <1>2, <1>3

LEMMA JobStepInv == ASSUME CacheInv, JobInv, JobStep PROVE CacheInv' /\ JobInv'
  <1>1. CASE UNCHANGED vars
    <2>1. CacheInv' BY <1>1, StutterInv
    <2>2. CASE TakeUp \/ MarkRunning \/ BatchSnapshots \/ Finish
      BY <2>1, <2>2, TakeUpInv, MarkRunningInv, BatchSnapshotsInv, FinishInv
    <2>3. CASE StartFlights \/ WaitFlights \/ BatchRates
      BY <2>3, StartFlightsInv, WaitFlightsInv, BatchRatesInv
    <2> QED BY <2>2, <2>3 DEF JobStep
  <1>2. CASE ~UNCHANGED vars
    <2>1. StartFlights \/ WaitFlights \/ BatchRates
      BY <1>2 DEF JobStep, TakeUp, MarkRunning, BatchSnapshots, Finish, GiveUp, WriteRun
    <2> QED BY <2>1, StartFlightsInv, WaitFlightsInv, BatchRatesInv
  <1> QED BY <1>1, <1>2

LEMMA ClockInv ==
  ASSUME JobInv, SlotComes \/ (\E i \in Slots : RunCools(i)) \/ UNCHANGED jobVars PROVE JobInv'
  <1>1. elapsed \in 0..SlotCount /\ SlotCount \in Nat BY JobsAssumption DEF JobInv, OwnTypes
  <1>2. UNCHANGED <<runs, job>> BY DEF SlotComes, RunCools, jobVars
  <1>3. cooling' \subseteq cooling BY DEF SlotComes, RunCools, jobVars
  <1>4. elapsed' \in 0..SlotCount /\ elapsed' >= elapsed BY <1>1 DEF SlotComes, RunCools, jobVars
  <1>5. \A i \in Slots : DueSlot(i) => DueSlot(i)' BY <1>2, <1>3 DEF DueSlot
  <1>6. OwnTypes'
    <2>1. \A i \in Slots : i > elapsed' => runs'[i] = "none"
      <3>1. \A i \in Slots : i > elapsed' => i > elapsed BY <1>1, <1>4 DEF Slots
      <3> QED BY <1>2, <3>1 DEF JobInv, OwnTypes
    <2> QED BY <1>2, <1>3, <1>4, <2>1 DEF JobInv, OwnTypes
  <1>7. job.slots \subseteq Slots /\ 1..elapsed \subseteq 1..elapsed' BY <1>1, <1>4 DEF JobInv, OwnTypes, Job
  <1>8. OpenSlots'
    <2>1. job'.slots \subseteq 1..elapsed' BY <1>2, <1>7 DEF JobInv, OpenSlots
    <2>2. job'.pc # "finish" => \A i \in job'.slots : DueSlot(i)' BY <1>2, <1>5, <1>7 DEF JobInv, OpenSlots
    <2>3. job'.pc \in {"mark", "finish"} => job'.rest \subseteq job'.slots /\ \A i \in job'.rest : DueSlot(i)'
      BY <1>2, <1>5, <1>7 DEF JobInv, OpenSlots
    <2>4. job'.pc \in {"start", "wait"} => job'.rest \subseteq Securities BY <1>2 DEF JobInv, OpenSlots
    <2> QED BY <2>1, <2>2, <2>3, <2>4 DEF OpenSlots
  <1> QED BY <1>6, <1>8 DEF JobInv

LEMMA RestartJobsInv == ASSUME CacheInv, JobInv, RestartJobs PROVE CacheInv' /\ JobInv'
  <1>1. CacheInv' BY RestartInv DEF RestartJobs
  <1>2. job' \in Job /\ job'.pc = "boot" /\ job'.slots = {} BY IdleJob DEF RestartJobs, JobState
  <1>3. JobInv' BY <1>2, JobGoesOn DEF RestartJobs
  <1> QED BY <1>1, <1>3

LEMMA JobsInv == JobsSpec => [](CacheInv /\ JobInv)
  <1>1. JobsInit => CacheInv /\ JobInv
    <2> SUFFICES ASSUME JobsInit PROVE CacheInv /\ JobInv OBVIOUS
    <2>1. CacheInv BY InitInv DEF JobsInit
    <2>2. SlotCount \in Nat /\ Slots = 1..SlotCount BY JobsAssumption DEF Slots
    <2>3. job \in Job /\ job.slots = {} /\ job.pc = "boot" BY IdleJob DEF JobsInit, JobState
    <2>4. OwnTypes BY <2>2, <2>3 DEF JobsInit, OwnTypes, RunState
    <2>5. OpenSlots BY <2>3 DEF OpenSlots
    <2> QED BY <2>1, <2>4, <2>5 DEF JobInv
  <1>2. CacheInv /\ JobInv /\ [JobsNext]_allVars => CacheInv' /\ JobInv'
    <2> SUFFICES ASSUME CacheInv, JobInv, [JobsNext]_allVars PROVE CacheInv' /\ JobInv' OBVIOUS
    <2>1. CASE CacheStep /\ UNCHANGED jobVars BY <2>1, CacheStepInv, ClockInv
    <2>2. CASE JobStep BY <2>2, JobStepInv
    <2>3. CASE SlotComes \/ \E i \in Slots : RunCools(i)
      <3>1. UNCHANGED vars BY <2>3 DEF SlotComes, RunCools
      <3> QED BY <2>3, <3>1, StutterInv, ClockInv
    <2>4. CASE RestartJobs BY <2>4, RestartJobsInv
    <2>5. CASE UNCHANGED allVars
      <3>1. UNCHANGED vars /\ UNCHANGED jobVars BY <2>5 DEF allVars
      <3> QED BY <3>1, StutterInv, ClockInv
    <2> QED BY <2>1, <2>2, <2>3, <2>4, <2>5 DEF JobsNext
  <1> QED BY <1>1, <1>2, PTL DEF JobsSpec

\* The types of jobs and cache together; a row of market_refresh_runs is of a slot that
\* has come.
THEOREM JobsTypes == JobsSpec => []JobsTypeOK
  <1>1. CacheInv /\ JobInv => JobsTypeOK BY InvHolds DEF JobInv, OwnTypes, JobsTypeOK
  <1> QED BY <1>1, JobsInv, PTL

\* Jobs, requests and forecasts together never synchronise a key twice at a time.
THEOREM OneFlight == JobsSpec => []OneFlightPerKey
  BY InvHolds, JobsInv, PTL

\* What is proved of the cache alone holds beside the jobs too.
THEOREM CacheHoldsBesideJobs == JobsSpec => [](SlotsMatchFlights /\ SeriesHasOneBasis /\ FreshIsCurrent)
  BY InvHolds, JobsInv, PTL

\* A slot of the day that is complete is never refreshed again, across any number of
\* restarts, failures and batches.
THEOREM CompleteIsKept == JobsSpec => CompleteSlotsStay
  <1>1. CacheInv /\ JobInv /\ [JobsNext]_allVars
          => [\A i \in Slots : runs[i] = "complete" => runs'[i] = "complete"]_allVars
    <2> SUFFICES ASSUME JobInv, [JobsNext]_allVars, NEW i \in Slots, runs[i] = "complete" PROVE runs'[i] = "complete"
      OBVIOUS
    <2>1. CASE UNCHANGED runs BY <2>1
    <2>2. CASE job.pc \in {"mark", "finish"} /\ \E k \in job.rest, state \in RunState : WriteRun(k, state)
      <3>1. PICK k \in job.rest, state \in RunState : WriteRun(k, state) BY <2>2
      <3>2. DueSlot(k) /\ k \in Slots BY <2>2 DEF JobInv, OwnTypes, OpenSlots, Job
      <3>3. k # i BY <3>2 DEF DueSlot
      <3> QED BY <3>1, <3>3 DEF WriteRun, JobInv, OwnTypes
    <2>3. UNCHANGED runs \/ (job.pc \in {"mark", "finish"} /\ \E k \in job.rest, state \in RunState : WriteRun(k, state))
      <3>1. {"running", "failed", "complete"} \subseteq RunState BY DEF RunState
      <3>2. CASE MarkRunning BY <3>1, <3>2 DEF MarkRunning, GiveUp
      <3>3. CASE Finish BY <3>1, <3>3 DEF Finish, GiveUp
      <3>4. CASE ~MarkRunning /\ ~Finish
        BY <3>4 DEF JobsNext, JobStep, TakeUp, StartFlights, WaitFlights, BatchRates, BatchSnapshots, SlotComes,
                    RunCools, RestartJobs, jobVars, allVars
      <3> QED BY <3>2, <3>3, <3>4
    <2> QED BY <2>1, <2>2, <2>3
  <1> QED BY <1>1, JobsInv, PTL DEF JobsSpec, CompleteSlotsStay
=============================================================================
