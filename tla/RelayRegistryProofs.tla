------------------------ MODULE RelayRegistryProofs ------------------------
(***************************************************************************)
(* What holds of GetRelayURL for any number of goroutines and relay keys,  *)
(* every ttl and every bound on the time of a call.                        *)
(***************************************************************************)
EXTENDS RelayRegistry, TLAPS

-----------------------------------------------------------------------------
(* Types.                                                                  *)

LEMMA InitTyped == Init => TypeOK
  BY RegistryAssumption DEF Init, TypeOK, NoEntry, Times, Versions

LEMMA NextTyped == TypeOK /\ [Next]_vars => TypeOK'
<1> SUFFICES ASSUME TypeOK, [Next]_vars PROVE TypeOK'
  OBVIOUS
<1> USE RegistryAssumption DEF TypeOK, Times, Versions
<1>1. CASE Tick
  BY <1>1 DEF Tick, local
<1>2. ASSUME NEW k \in Keys, Update(k) PROVE TypeOK'
  <2>1. current' \in [Keys -> Versions]
    BY <1>2 DEF Update
  <2>2. replaced' \in [Keys -> [Versions -> Times \cup {-1}]]
    BY <1>2 DEF Update
  <2> QED
    BY <1>2, <2>1, <2>2 DEF Update, local
<1>3. ASSUME NEW c \in Callers, NEW k \in Keys, Miss(c, k) PROVE TypeOK'
  BY <1>3 DEF Miss, chain
<1>4. ASSUME NEW c \in Callers, CallReturns(c) PROVE TypeOK'
  BY <1>4 DEF CallReturns, chain
<1>5. ASSUME NEW c \in Callers, CallFails(c) PROVE TypeOK'
  BY <1>5 DEF CallFails, chain
<1>6. ASSUME NEW c \in Callers, Store(c) PROVE TypeOK'
  BY <1>6 DEF Store, Entry, chain
<1>7. CASE UNCHANGED vars
  BY <1>7 DEF vars, chain, local
<1> QED
  BY <1>1, <1>2, <1>3, <1>4, <1>5, <1>6, <1>7 DEF Next

\* Types: every variable keeps to its set in every reachable state.
THEOREM TypeCorrect == Spec => []TypeOK
  BY InitTyped, NextTyped, PTL DEF Spec

-----------------------------------------------------------------------------
(* How old an answer can be.                                               *)

EntryInv(k) ==
  Cached(k) =>
    /\ cache[k].readAt \in Times
    /\ cache[k].readAt <= cache[k].fetchedAt
    /\ cache[k].fetchedAt <= cache[k].readAt + MaxCall
    /\ ValidSince(k, cache[k].url, cache[k].readAt)

CallInv(c) ==
  /\ pc[c] # "idle" => asked[c] <= now /\ now <= asked[c] + MaxCall
  /\ pc[c] = "store" => /\ asked[c] <= readAt[c] /\ readAt[c] <= now
                        /\ ValidSince(key[c], url[c], readAt[c])

AgeInv ==
  /\ \A k \in Keys : EntryInv(k) /\ cache[k].fetchedAt <= now
  /\ \A c \in Callers : CallInv(c)

LEMMA InitAgeInv == Init => AgeInv
  BY RegistryAssumption DEF Init, AgeInv, EntryInv, CallInv, Cached, NoEntry

\* A version that was in the contract at t or later still was, after an update.
LEMMA UpdateKeepsValid ==
  ASSUME TypeOK, NEW k \in Keys, Update(k),
         NEW j \in Keys, NEW v \in Versions, NEW t \in Times, t <= now, ValidSince(j, v, t)
  PROVE  ValidSince(j, v, t)'
<1> USE RegistryAssumption DEF TypeOK, Times, Versions
<1>1. CASE j = k /\ v = current[k]
  <2>1. replaced'[j][v] = now
    BY <1>1 DEF Update
  <2> QED
    BY <2>1 DEF ValidSince
<1>2. CASE ~ (j = k /\ v = current[k])
  <2>1. replaced'[j][v] = replaced[j][v]
    BY <1>2 DEF Update
  <2>2. j # k => current'[j] = current[j]
    BY DEF Update
  <2> QED
    BY <1>2, <2>1, <2>2 DEF ValidSince
<1> QED
  BY <1>1, <1>2

LEMMA NextAgeInv == TypeOK /\ AgeInv /\ [Next]_vars => AgeInv'
<1> SUFFICES ASSUME TypeOK, AgeInv, [Next]_vars PROVE AgeInv'
  OBVIOUS
<1> USE RegistryAssumption
<1>1. CASE Tick
  <2>1. now' = now + 1 /\ UNCHANGED <<current, replaced, cache, local>> /\ now \in Int
    BY <1>1 DEF Tick, TypeOK, Times
  <2>2. \A k \in Keys : EntryInv(k)' /\ cache'[k].fetchedAt <= now'
    BY <2>1 DEF AgeInv, EntryInv, Cached, ValidSince, TypeOK, Times
  <2>3. ASSUME NEW c \in Callers PROVE CallInv(c)'
    <3>1. pc[c] # "idle" => now' <= asked[c] + MaxCall
      BY <1>1, <2>1 DEF Tick, TypeOK, Times
    <3> QED
      BY <2>1, <3>1 DEF AgeInv, CallInv, ValidSince, TypeOK, Times, local
  <2> QED
    BY <2>2, <2>3 DEF AgeInv
<1>2. ASSUME NEW k \in Keys, Update(k) PROVE AgeInv'
  <2>1. UNCHANGED <<now, cache, pc, key, url, asked, readAt>>
    BY <1>2 DEF Update, local
  <2>2. ASSUME NEW j \in Keys PROVE EntryInv(j)' /\ cache'[j].fetchedAt <= now'
    <3>1. Cached(j) => /\ cache[j].readAt \in Times
                       /\ cache[j].readAt <= now
                       /\ cache[j].url \in Versions
                       /\ ValidSince(j, cache[j].url, cache[j].readAt)
      BY DEF AgeInv, EntryInv, TypeOK, Times
    <3>2. Cached(j) => ValidSince(j, cache[j].url, cache[j].readAt)'
      <4> SUFFICES ASSUME Cached(j) PROVE ValidSince(j, cache[j].url, cache[j].readAt)'
        OBVIOUS
      <4>1. \A v \in Versions, t \in Times : t <= now /\ ValidSince(j, v, t) => ValidSince(j, v, t)'
        BY <1>2, UpdateKeepsValid
      <4>2. ValidSince(j, cache[j].url, cache[j].readAt)' <=>
              (cache[j].url = current'[j] \/ replaced'[j][cache[j].url] >= cache[j].readAt)
        BY <2>1 DEF ValidSince
      <4> QED
        BY <3>1, <4>1, <4>2 DEF ValidSince
    <3> QED
      BY <2>1, <3>1, <3>2 DEF AgeInv, EntryInv, Cached
  <2>3. ASSUME NEW c \in Callers PROVE CallInv(c)'
    BY <1>2, <2>1, UpdateKeepsValid DEF AgeInv, CallInv, TypeOK, Times
  <2> QED
    BY <2>2, <2>3 DEF AgeInv
<1>3. ASSUME NEW c \in Callers, NEW k \in Keys, Miss(c, k) PROVE AgeInv'
  BY <1>3 DEF Miss, AgeInv, EntryInv, CallInv, Cached, ValidSince, TypeOK, Times, chain
<1>4. ASSUME NEW c \in Callers, CallReturns(c) PROVE AgeInv'
  BY <1>4 DEF CallReturns, AgeInv, EntryInv, CallInv, Cached, ValidSince, TypeOK, Times, chain
<1>5. ASSUME NEW c \in Callers, CallFails(c) PROVE AgeInv'
  BY <1>5 DEF CallFails, AgeInv, EntryInv, CallInv, Cached, ValidSince, TypeOK, Times, chain
<1>6. ASSUME NEW c \in Callers, Store(c) PROVE AgeInv'
  <2>1. /\ cache' = [cache EXCEPT ![key[c]] = Entry(url[c], now, readAt[c])]
        /\ pc' = [pc EXCEPT ![c] = "idle"]
        /\ UNCHANGED <<now, current, replaced, key, url, asked, readAt>>
    BY <1>6 DEF Store, chain
  <2>2. ASSUME NEW k \in Keys PROVE EntryInv(k)' /\ cache'[k].fetchedAt <= now'
    <3>1. CASE k = key[c]
      <4>1. cache'[k] = Entry(url[c], now, readAt[c])
        BY <2>1, <3>1 DEF TypeOK
      <4>2. /\ readAt[c] \in Times /\ now \in Times /\ asked[c] \in Times
            /\ readAt[c] <= now /\ now <= readAt[c] + MaxCall
            /\ ValidSince(key[c], url[c], readAt[c])
        BY <1>6 DEF Store, AgeInv, CallInv, TypeOK, Times
      <4> QED
        BY <2>1, <3>1, <4>1, <4>2 DEF EntryInv, Entry, ValidSince, Times
    <3>2. CASE k # key[c]
      BY <2>1, <3>2 DEF AgeInv, EntryInv, Cached, ValidSince, TypeOK
    <3> QED
      BY <3>1, <3>2
  <2>3. \A d \in Callers : CallInv(d)'
    BY <2>1 DEF AgeInv, CallInv, ValidSince, TypeOK
  <2> QED
    BY <2>2, <2>3 DEF AgeInv
<1>7. CASE UNCHANGED vars
  BY <1>7 DEF vars, chain, local, AgeInv, EntryInv, CallInv, Cached, ValidSince
<1> QED
  BY <1>1, <1>2, <1>3, <1>4, <1>5, <1>6, <1>7 DEF Next

LEMMA AgeIsBounded == TypeOK /\ AgeInv => AnswersAreRecent
<1> SUFFICES ASSUME TypeOK, AgeInv PROVE AnswersAreRecent
  OBVIOUS
<1> USE RegistryAssumption DEF TypeOK, Times, Versions
<1>1. ASSUME NEW k \in Keys, Fresh(k)
      PROVE  ValidSince(k, cache[k].url, now - (Ttl + MaxCall - 1))
  <2>1. /\ ValidSince(k, cache[k].url, cache[k].readAt)
        /\ cache[k].readAt \in Int /\ cache[k].fetchedAt \in Int /\ now \in Int
        /\ cache[k].fetchedAt <= cache[k].readAt + MaxCall
        /\ now - cache[k].fetchedAt < Ttl
    BY <1>1 DEF AgeInv, EntryInv, Fresh
  <2>2. cache[k].readAt >= now - (Ttl + MaxCall - 1)
    BY <2>1
  <2>3. replaced[k][cache[k].url] \in Int
    OBVIOUS
  <2> QED
    BY <2>1, <2>2, <2>3 DEF ValidSince
<1>2. ASSUME NEW c \in Callers, pc[c] = "store"
      PROVE  ValidSince(key[c], url[c], now - MaxCall)
  <2>1. /\ ValidSince(key[c], url[c], readAt[c])
        /\ asked[c] <= readAt[c] /\ now <= asked[c] + MaxCall
    BY <1>2 DEF AgeInv, CallInv
  <2>2. readAt[c] >= now - MaxCall
    BY <2>1
  <2>3. replaced[key[c]][url[c]] \in Int
    OBVIOUS
  <2> QED
    BY <2>1, <2>2, <2>3 DEF ValidSince
<1> QED
  BY <1>1, <1>2 DEF AnswersAreRecent

\* No answer of GetRelayURL is older than the ttl and one call together, whoever wrote
\* the entry it comes from.
THEOREM StalenessIsBounded == Spec => []AnswersAreRecent
  BY InitAgeInv, NextAgeInv, AgeIsBounded, TypeCorrect, PTL DEF Spec

-----------------------------------------------------------------------------
(* When the cache goes back.                                               *)

RaceInv ==
  /\ \A k \in Keys : cache[k].url <= current[k] /\ cache[k].fetchedAt <= now
  /\ \A c \in Callers : pc[c] # "idle" => asked[c] <= now
  /\ \A c \in Callers :
       pc[c] = "store" => /\ url[c] <= current[key[c]]
                          /\ \/ asked[c] <= cache[key[c]].fetchedAt
                             \/ url[c] >= cache[key[c]].url

LEMMA NextRaceInv == TypeOK /\ RaceInv /\ [Next]_vars => RaceInv'
<1> SUFFICES ASSUME TypeOK, RaceInv, [Next]_vars PROVE RaceInv'
  OBVIOUS
<1> USE RegistryAssumption DEF TypeOK, Times, Versions
<1>1. CASE Tick
  <2>1. now' = now + 1 /\ UNCHANGED <<current, replaced, cache, pc, key, url, asked, readAt>>
    BY <1>1 DEF Tick, local
  <2>2. ASSUME NEW k \in Keys PROVE cache'[k].url <= current'[k] /\ cache'[k].fetchedAt <= now'
    <3>1. cache[k].fetchedAt \in Times \cup {-1}
      OBVIOUS
    <3>2. cache[k].fetchedAt <= now /\ cache[k].url <= current[k]
      BY DEF RaceInv
    <3> QED
      BY <2>1, <3>1, <3>2
  <2>3. \A c \in Callers : pc'[c] # "idle" => asked'[c] <= now'
    BY <2>1 DEF RaceInv
  <2> QED
    BY <2>1, <2>2, <2>3 DEF RaceInv
<1>2. ASSUME NEW k \in Keys, Update(k) PROVE RaceInv'
  <2>1. \A j \in Keys : current[j] <= current'[j] /\ current'[j] \in Int
    BY <1>2 DEF Update
  <2> QED
    BY <1>2, <2>1 DEF Update, RaceInv, local
<1>3. ASSUME NEW c \in Callers, NEW k \in Keys, Miss(c, k) PROVE RaceInv'
  BY <1>3 DEF Miss, RaceInv, chain
<1>4. ASSUME NEW c \in Callers, CallReturns(c) PROVE RaceInv'
  BY <1>4 DEF CallReturns, RaceInv, chain
<1>5. ASSUME NEW c \in Callers, CallFails(c) PROVE RaceInv'
  BY <1>5 DEF CallFails, RaceInv, chain
<1>6. ASSUME NEW c \in Callers, Store(c) PROVE RaceInv'
  BY <1>6 DEF Store, Entry, RaceInv, chain
<1>7. CASE UNCHANGED vars
  BY <1>7 DEF vars, chain, local, RaceInv
<1> QED
  BY <1>1, <1>2, <1>3, <1>4, <1>5, <1>6, <1>7 DEF Next

LEMMA StepBackIsARace ==
  TypeOK /\ RaceInv /\ [Next]_vars
    => [\A k \in Keys :
          cache'[k].url < cache[k].url
            => \E c \in Callers :
                 pc[c] = "store" /\ key[c] = k /\ asked[c] <= cache[k].fetchedAt]_vars
<1> SUFFICES ASSUME TypeOK, RaceInv, Next, NEW k \in Keys, cache'[k].url < cache[k].url
             PROVE  \E c \in Callers :
                      pc[c] = "store" /\ key[c] = k /\ asked[c] <= cache[k].fetchedAt
  OBVIOUS
<1>1. cache[k].url \in Int
  BY DEF TypeOK, Versions
<1>2. cache' # cache
  BY <1>1
<1>3. PICK c \in Callers : Store(c)
  BY <1>2 DEF Next, Tick, Update, Miss, CallReturns, CallFails
<1>4. key[c] = k /\ cache'[k].url = url[c]
  BY <1>1, <1>3 DEF Store, Entry, TypeOK
<1>5. url[c] \in Int
  BY DEF TypeOK, Versions
<1> QED
  BY <1>1, <1>3, <1>4, <1>5 DEF Store, RaceInv

\* The cache goes back to an older URL only while a goroutine with an answer for that key
\* called the contract before the newer entry was written.
THEOREM OnlyRacesStepBack == Spec => StepsBackOnlyInARace
<1>1. Init => RaceInv
  BY RegistryAssumption DEF Init, RaceInv, NoEntry
<1>2. Spec => []RaceInv
  BY <1>1, TypeCorrect, NextRaceInv, PTL DEF Spec
<1> QED
  BY <1>2, TypeCorrect, StepBackIsARace, PTL DEF Spec, StepsBackOnlyInARace

=============================================================================
