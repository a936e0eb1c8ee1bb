---------------------------- MODULE RelayRegistry ----------------------------
(***************************************************************************)
(* The relay registry: GetRelayURL answers from a cache for ttl, and       *)
(* otherwise asks the contract and writes what it was told into the cache. *)
(* The goroutines of a batch and the reverifier call it at the same time;  *)
(* the lock covers the look-up and the write, not the call between them.   *)
(*                                                                         *)
(* A URL is the number of its version: the contract holds version          *)
(* current[k] of relay key k.  Time is a counter of ticks.                 *)
(*                                                                         *)
(* replaced, asked and the field readAt are history variables.             *)
(***************************************************************************)
EXTENDS Integers

CONSTANTS
  Callers,        \* the goroutines of the prober
  Keys,           \* relay keys
  Ttl,            \* ttl
  MaxCall,        \* the longest that a caller holds a call and its answer
  MaxTime,        \* bound: the last tick
  MaxVersion      \* bound: how often a URL changes

ASSUME RegistryAssumption ==
  /\ Ttl \in Nat \ {0}
  /\ MaxCall \in Nat
  /\ MaxTime \in Nat
  /\ MaxVersion \in Nat

VARIABLES
  now,            \* time.Now()
  current,        \* the contract: the version of every key
  replaced,       \* history: when each version of a key was replaced
  cache,          \* cache of RelayRegistry: [url, fetchedAt, readAt] for the keys it has
  pc,             \* where a caller is: "idle", "call", "store"
  key,            \* the relay key it asks for
  url,            \* what the contract told it
  asked,          \* history: when it made the call
  readAt          \* history: when the contract was read for it

chain == <<now, current, replaced>>
local == <<pc, key, url, asked, readAt>>
vars  == <<chain, cache, local>>

Times    == 0..MaxTime
Versions == 0..MaxVersion

-----------------------------------------------------------------------------
NoEntry == [url |-> 0, fetchedAt |-> -1, readAt |-> -1]

Entry(u, t, r) == [url |-> u, fetchedAt |-> t, readAt |-> r]

Cached(k) == cache[k] # NoEntry

\* Mutant: an entry is good for ever.
FreshForever(k) == Cached(k)

Fresh(k) == Cached(k) /\ now - cache[k].fetchedAt < Ttl

Init ==
  /\ now = 0
  /\ current = [k \in Keys |-> 0]
  /\ replaced = [k \in Keys |-> [v \in Versions |-> -1]]
  /\ cache = [k \in Keys |-> NoEntry]
  /\ pc = [c \in Callers |-> "idle"]
  /\ key \in [Callers -> Keys]
  /\ url = [c \in Callers |-> 0]
  /\ asked = [c \in Callers |-> 0]
  /\ readAt = [c \in Callers |-> 0]

(* The environment: time and the contract.                                 *)

Tick ==
  /\ now < MaxTime
  /\ \A c \in Callers : pc[c] # "idle" => now - asked[c] < MaxCall
  /\ now' = now + 1
  /\ UNCHANGED <<current, replaced, cache, local>>

Update(k) ==
  /\ current[k] < MaxVersion
  /\ current' = [current EXCEPT ![k] = @ + 1]
  /\ replaced' = [replaced EXCEPT ![k][current[k]] = now]
  /\ UNCHANGED <<now, cache, local>>

-----------------------------------------------------------------------------
(* GetRelayURL.  A caller that finds a fresh entry answers from it, which  *)
(* changes nothing.                                                        *)

Miss(c, k) ==
  /\ pc[c] = "idle"
  /\ ~ Fresh(k)
  /\ pc' = [pc EXCEPT ![c] = "call"]
  /\ key' = [key EXCEPT ![c] = k]
  /\ asked' = [asked EXCEPT ![c] = now]
  /\ UNCHANGED <<chain, cache, url, readAt>>

\* relayKeyToUrl is read and its answer unpacked.
CallReturns(c) ==
  /\ pc[c] = "call"
  /\ url' = [url EXCEPT ![c] = current[key[c]]]
  /\ readAt' = [readAt EXCEPT ![c] = now]
  /\ pc' = [pc EXCEPT ![c] = "store"]
  /\ UNCHANGED <<chain, cache, key, asked>>

\* Mutant: the error is not looked at, and what the caller has from before is cached.
CallFailsStores(c) ==
  /\ pc[c] = "call"
  /\ pc' = [pc EXCEPT ![c] = "store"]
  /\ UNCHANGED <<chain, cache, key, url, asked, readAt>>

\* The call fails, or its context was cancelled: nothing is cached.
CallFails(c) ==
  /\ pc[c] = "call"
  /\ pc' = [pc EXCEPT ![c] = "idle"]
  /\ UNCHANGED <<chain, cache, key, url, asked, readAt>>

\* Mutant: the time the entry expires is stored for the time it was fetched.
StoreExpiry(c) ==
  /\ pc[c] = "store"
  /\ cache' = [cache EXCEPT ![key[c]] = Entry(url[c], now + Ttl, readAt[c])]
  /\ pc' = [pc EXCEPT ![c] = "idle"]
  /\ UNCHANGED <<chain, key, url, asked, readAt>>

Store(c) ==
  /\ pc[c] = "store"
  /\ cache' = [cache EXCEPT ![key[c]] = Entry(url[c], now, readAt[c])]
  /\ pc' = [pc EXCEPT ![c] = "idle"]
  /\ UNCHANGED <<chain, key, url, asked, readAt>>

Next ==
  \/ Tick
  \/ \E k \in Keys : Update(k)
  \/ \E c \in Callers, k \in Keys : Miss(c, k)
  \/ \E c \in Callers : CallReturns(c) \/ CallFails(c) \/ Store(c)

Spec == Init /\ [][Next]_vars

-----------------------------------------------------------------------------
(* Properties.                                                             *)

\* Types of all variables.
TypeOK ==
  /\ now \in Times
  /\ current \in [Keys -> Versions]
  /\ replaced \in [Keys -> [Versions -> Times \cup {-1}]]
  /\ cache \in [Keys -> [url : Versions, fetchedAt : Times \cup {-1}, readAt : Times \cup {-1}]]
  /\ pc \in [Callers -> {"idle", "call", "store"}]
  /\ key \in [Callers -> Keys]
  /\ url \in [Callers -> Versions]
  /\ asked \in [Callers -> Times]
  /\ readAt \in [Callers -> Times]

\* Version v of key k was in the contract at time t or later.
ValidSince(k, v, t) == v = current[k] \/ replaced[k][v] >= t

\* What GetRelayURL answers is never older than the ttl and one call together: neither
\* the entry it would answer from, although its fetchedAt is taken after the call and
\* any other caller may have written it, nor the answer a caller has in hand
\* (registry.go:214-253).
AnswersAreRecent ==
  /\ \A k \in Keys : Fresh(k) => ValidSince(k, cache[k].url, now - (Ttl + MaxCall - 1))
  /\ \A c \in Callers : pc[c] = "store" => ValidSince(key[c], url[c], now - MaxCall)

\* The cache goes back to an older URL only while some goroutine that is about to store an
\* answer for that key had called the contract before the newer entry was written: without
\* two calls for one key that overlapped, no answer is undone (registry.go:222-250).
StepsBackOnlyInARace ==
  [][\A k \in Keys :
       cache'[k].url < cache[k].url
         => \E c \in Callers : pc[c] = "store" /\ key[c] = k /\ asked[c] <= cache[k].fetchedAt]_vars

=============================================================================
