---------------------------- MODULE StartupProofs ----------------------------
(***************************************************************************)
(* What holds when the goroutines start, for every directory, every list   *)
(* of candidates and every number of kills.                                *)
(***************************************************************************)
EXTENDS Startup, TLAPS

-----------------------------------------------------------------------------
(* Types.                                                                  *)

LEMMA InitTyped == Init => TypeOK
<1> SUFFICES ASSUME Init PROVE TypeOK
  OBVIOUS
<1>1. kills \in 0..MaxKills /\ next \in Nat \ {0}
  BY StartupAssumption DEF Init
<1>2. listed \in BOOLEAN
  BY DEF Init
<1> QED
  BY <1>1, <1>2 DEF Init, TypeOK, Stages

\* The name that is tried is one of the names of the directory.
LEMMA TriedName ==
  ASSUME TypeOK, Trying
  PROVE  Tried[next] \in Names
  BY StartupAssumption DEF TypeOK, Trying, Tried

LEMMA NextTyped == TypeOK /\ [Next]_vars => TypeOK'
<1> SUFFICES ASSUME TypeOK, [Next]_vars PROVE TypeOK'
  OBVIOUS
<1> USE DEF TypeOK, Stages, settings
<1>1. CASE OpenDatabase
  BY <1>1 DEF OpenDatabase
<1>2. CASE DatabaseFails
  BY <1>2 DEF DatabaseFails, Fatal
<1>3. CASE Migrate
  <2>1. tables' \in BOOLEAN
    BY <1>3 DEF Migrate
  <2>2. pc' \in Stages
    BY <1>3 DEF Migrate, AfterRegistry
  <2> QED
    BY <1>3, <2>1, <2>2 DEF Migrate, AfterRegistry
<1>4. CASE MigrateFails
  BY <1>4 DEF MigrateFails, Fatal
<1>5. CASE NamesListed
  BY <1>5 DEF NamesListed
<1>6. CASE ListFails
  BY <1>6 DEF ListFails
<1>18. CASE Dial
  BY <1>18 DEF Dial
<1>19. CASE DialFails
  BY <1>19 DEF DialFails, Fatal
<1>7. CASE AddressFound
  <2>1. registryAddr' \in Addresses
    BY <1>7, TriedName DEF AddressFound
  <2>2. pc' \in Stages /\ discovery # "index"
    BY <1>7 DEF AddressFound, AfterRegistry, Trying
  <2> QED
    BY <1>7, <2>1, <2>2 DEF AddressFound
<1>8. CASE AddressZero
  BY <1>8 DEF AddressZero
<1>9. CASE AddressFails
  BY <1>9, TriedName DEF AddressFails, Trying
<1>10. CASE FallBack
  BY <1>10 DEF FallBack
<1>11. CASE NotFound
  BY <1>11 DEF NotFound, Fatal
<1>12. CASE ResolveIndex
  BY <1>12 DEF ResolveIndex
<1>13. CASE ResolveSocket
  BY <1>13 DEF ResolveSocket
<1>14. CASE ResolveFails
  BY <1>14 DEF ResolveFails
<1>15. CASE Kill
  BY <1>15, StartupAssumption DEF Kill
<1>16. CASE Restart
  <2>1. next' \in Nat \ {0}
    BY <1>16 DEF Restart
  <2>2. listed' \in BOOLEAN
    BY <1>16 DEF Restart
  <2> QED
    BY <1>16, <2>1, <2>2 DEF Restart
<1>17. CASE UNCHANGED vars
  BY <1>17 DEF vars
<1> QED
  BY <1>1, <1>2, <1>3, <1>4, <1>5, <1>6, <1>7, <1>8, <1>9, <1>10, <1>11, <1>12, <1>13,
     <1>14, <1>15, <1>16, <1>17, <1>18, <1>19 DEF Next, Main, Resolve

\* Types: every variable keeps to its set, and discovery has both contracts or none.
THEOREM TypeCorrect == Spec => []TypeOK
  BY InitTyped, NextTyped, PTL DEF Spec

-----------------------------------------------------------------------------
(* The tables and the registry.                                            *)

ReadyInv ==
  /\ pc \in {"dial", "names", "candidates", "fallback", "discovery", "run"} => tables
  /\ pc \in {"discovery", "run"} /\ configured => registryAddr # NoAddress

LEMMA NextReady == TypeOK /\ ReadyInv /\ [Next]_vars => ReadyInv'
<1> SUFFICES ASSUME TypeOK, ReadyInv, [Next]_vars PROVE ReadyInv'
  OBVIOUS
<1> USE DEF ReadyInv, settings
<1>1. CASE OpenDatabase \/ DatabaseFails
  BY <1>1 DEF OpenDatabase, DatabaseFails, Fatal
<1>2. CASE Migrate \/ MigrateFails
  BY <1>2 DEF Migrate, MigrateFails, Fatal, AfterRegistry
<1>11. CASE Dial \/ DialFails
  BY <1>11 DEF Dial, DialFails, Fatal
<1>3. CASE NamesListed \/ ListFails
  BY <1>3 DEF NamesListed, ListFails
<1>4. CASE AddressFound
  BY <1>4 DEF AddressFound, AfterRegistry, Trying
<1>5. CASE AddressZero \/ AddressFails
  BY <1>5 DEF AddressZero, AddressFails, Trying
<1>6. CASE FallBack
  BY <1>6 DEF FallBack
<1>7. CASE NotFound
  BY <1>7 DEF NotFound, Fatal
<1>8. CASE ResolveIndex \/ ResolveSocket \/ ResolveFails
  BY <1>8 DEF ResolveIndex, ResolveSocket, ResolveFails
<1>9. CASE Kill \/ Restart
  BY <1>9 DEF Kill, Restart
<1>10. CASE UNCHANGED vars
  BY <1>10 DEF vars
<1> QED
  BY <1>1, <1>2, <1>3, <1>4, <1>5, <1>6, <1>7, <1>8, <1>9, <1>10, <1>11 DEF Next, Main, Resolve

\* The goroutines start with their tables, and with a relay registry if the chain is
\* configured, whatever failed before and however often.
THEOREM NeverStartsUnprepared == Spec => []ReadyToRun
<1>1. Init => ReadyInv
  BY DEF Init, ReadyInv
<1>2. ReadyInv => ReadyToRun
  BY DEF ReadyInv, ReadyToRun
<1> QED
  BY <1>1, <1>2, NextReady, TypeCorrect, PTL DEF Spec

-----------------------------------------------------------------------------
(* Which contract is taken for the relay registry.                         *)

\* A name has no address, or its address could not be read.
Excused(n) == directory[n] = NoAddress \/ n \in missed

Winner(i) ==
  /\ registryAddr = directory[LookupOrder[i]]
  /\ registryAddr # NoAddress
  /\ \A j \in 1..(i - 1) : Excused(LookupOrder[j])

LookupInv ==
  /\ pc \in {"database", "migrations", "dial", "names"} => next = 1
  /\ pc = "candidates" => \A j \in DOMAIN Candidates : j < next => Excused(Candidates[j])
  /\ pc = "fallback" => /\ \A j \in DOMAIN Candidates : Excused(Candidates[j])
                        /\ \A j \in DOMAIN RelayNames : j < next => Excused(RelayNames[j])
  /\ pc \in {"discovery", "run"} /\ configured => \E i \in DOMAIN LookupOrder : Winner(i)

\* The order is the candidates and then the listed names.
LEMMA OrderIsBoth ==
  /\ DOMAIN LookupOrder = 1..(Len(Candidates) + Len(RelayNames))
  /\ DOMAIN Candidates = 1..Len(Candidates) /\ Len(Candidates) \in Nat
  /\ DOMAIN RelayNames = 1..Len(RelayNames) /\ Len(RelayNames) \in Nat
  /\ \A i \in DOMAIN Candidates : LookupOrder[i] = Candidates[i]
  /\ \A i \in DOMAIN RelayNames : LookupOrder[Len(Candidates) + i] = RelayNames[i]
  BY StartupAssumption DEF LookupOrder

LEMMA FoundIsFirst ==
  ASSUME TypeOK, LookupInv, AddressFound
  PROVE  \E i \in DOMAIN LookupOrder : Winner(i)'
<1> USE OrderIsBoth DEF TypeOK
<1>1. /\ registryAddr' = directory[Tried[next]]
      /\ UNCHANGED <<directory, missed>>
      /\ directory[Tried[next]] # NoAddress
      /\ next \in Nat \ {0} /\ next \in 1..Len(Tried)
      /\ pc \in {"candidates", "fallback"}
  BY StartupAssumption DEF AddressFound, Trying, Tried, settings
<1>2. CASE pc = "candidates"
  <2>1. next \in DOMAIN Candidates /\ Tried = Candidates
    BY <1>1, <1>2 DEF Tried
  <2>2. \A j \in 1..(next - 1) : j \in DOMAIN Candidates /\ j < next
    BY <2>1
  <2>3. \A j \in 1..(next - 1) : Excused(LookupOrder[j])
    BY <1>2, <2>2 DEF LookupInv
  <2>4. next \in DOMAIN LookupOrder /\ LookupOrder[next] = Candidates[next]
    BY <2>1
  <2> QED
    BY <1>1, <2>1, <2>3, <2>4 DEF Winner, Excused
<1>3. CASE pc = "fallback"
  <2> DEFINE i == Len(Candidates) + next
  <2>1. next \in DOMAIN RelayNames /\ Tried = RelayNames
    BY <1>1, <1>3 DEF Tried
  <2>2. ASSUME NEW j \in 1..(i - 1) PROVE Excused(LookupOrder[j])
    <3>1. CASE j <= Len(Candidates)
      <4>1. j \in DOMAIN Candidates
        BY <3>1
      <4> QED
        BY <1>3, <4>1 DEF LookupInv
    <3>2. CASE j > Len(Candidates)
      <4>1. PICK k \in 1..(next - 1) : j = Len(Candidates) + k
        <5>1. j - Len(Candidates) \in 1..(next - 1) /\ j = Len(Candidates) + (j - Len(Candidates))
          BY <3>2
        <5> QED
          BY <5>1
      <4>2. k \in DOMAIN RelayNames /\ k < next
        BY <2>1
      <4> QED
        BY <1>3, <4>1, <4>2 DEF LookupInv
    <3> QED
      BY <3>1, <3>2
  <2>3. i \in DOMAIN LookupOrder /\ LookupOrder[i] = RelayNames[next]
    BY <2>1
  <2> QED
    BY <1>1, <2>1, <2>2, <2>3 DEF Winner, Excused
<1> QED
  BY <1>1, <1>2, <1>3

LEMMA NextLookup == TypeOK /\ LookupInv /\ [Next]_vars => LookupInv'
<1> SUFFICES ASSUME TypeOK, LookupInv, [Next]_vars PROVE LookupInv'
  OBVIOUS
<1> USE DEF LookupInv, Excused, Winner, settings
<1>1. CASE OpenDatabase \/ DatabaseFails
  BY <1>1 DEF OpenDatabase, DatabaseFails, Fatal
<1>2. CASE Migrate \/ MigrateFails
  BY <1>2 DEF Migrate, MigrateFails, Fatal, AfterRegistry
<1>11. CASE Dial \/ DialFails
  BY <1>11 DEF Dial, DialFails, Fatal
<1>3. CASE NamesListed \/ ListFails
  <2>1. pc = "names" /\ pc' = "candidates" /\ next = 1 /\ next' = 1
    BY <1>3 DEF NamesListed, ListFails
  <2>2. \A j \in DOMAIN Candidates : ~ (j < next')
    BY <2>1, StartupAssumption
  <2> QED
    BY <2>1, <2>2
<1>4. CASE AddressFound
  <2>1. (\E i \in DOMAIN LookupOrder : Winner(i)') /\ pc' \in {"discovery", "run"}
    BY <1>4, FoundIsFirst DEF AddressFound, AfterRegistry
  <2> QED
    BY <2>1
<1>5. CASE AddressZero \/ AddressFails
  <2>1. /\ pc' = pc /\ UNCHANGED directory /\ missed \subseteq missed'
        /\ next' = next + 1 /\ next \in Nat
        /\ directory[Tried[next]] = NoAddress \/ Tried[next] \in missed'
        /\ pc \in {"candidates", "fallback"}
    BY <1>5 DEF AddressZero, AddressFails, Trying, TypeOK
  <2>2. CASE pc = "candidates"
    <3>1. ASSUME NEW j \in DOMAIN Candidates, j < next' PROVE Excused(Candidates[j])'
      <4>1. j \in Int /\ Tried = Candidates
        BY <2>2, StartupAssumption DEF Tried
      <4>2. CASE j = next
        BY <2>1, <4>1, <4>2
      <4>3. CASE j < next
        BY <2>1, <2>2, <4>3
      <4> QED
        BY <2>1, <3>1, <4>1, <4>2, <4>3
    <3> QED
      BY <2>1, <2>2, <3>1
  <2>3. CASE pc = "fallback"
    <3>1. ASSUME NEW j \in DOMAIN RelayNames, j < next' PROVE Excused(RelayNames[j])'
      <4>1. j \in Int /\ Tried = RelayNames
        BY <2>3, StartupAssumption DEF Tried
      <4>2. CASE j = next
        BY <2>1, <4>1, <4>2
      <4>3. CASE j < next
        BY <2>1, <2>3, <4>3
      <4> QED
        BY <2>1, <3>1, <4>1, <4>2, <4>3
    <3>2. \A j \in DOMAIN Candidates : Excused(Candidates[j])'
      BY <2>1, <2>3
    <3> QED
      BY <2>1, <2>3, <3>1, <3>2
  <2> QED
    BY <2>1, <2>2, <2>3
<1>6. CASE FallBack
  <2>1. \A j \in DOMAIN Candidates : j < next
    BY <1>6, StartupAssumption DEF FallBack, TypeOK
  <2>2. \A j \in DOMAIN RelayNames : ~ (j < 1)
    BY StartupAssumption
  <2> QED
    BY <1>6, <2>1, <2>2 DEF FallBack
<1>7. CASE NotFound
  BY <1>7 DEF NotFound, Fatal
<1>8. CASE ResolveIndex \/ ResolveSocket \/ ResolveFails
  BY <1>8 DEF ResolveIndex, ResolveSocket, ResolveFails
<1>9. CASE Kill \/ Restart
  BY <1>9 DEF Kill, Restart
<1>10. CASE UNCHANGED vars
  BY <1>10 DEF vars
<1> QED
  BY <1>1, <1>2, <1>3, <1>4, <1>5, <1>6, <1>7, <1>8, <1>9, <1>10, <1>11 DEF Next, Main, Resolve

\* The registry is the contract of the first name tried that has an address, unless a call
\* for an earlier one failed; this also holds where no candidate is registered.
THEOREM NoSubstitute == Spec => []FirstNameWins
<1>1. Init => LookupInv
  BY DEF Init, LookupInv
<1>2. LookupInv => FirstNameWins
  BY DEF LookupInv, Winner, Excused, FirstNameWins
<1> QED
  BY <1>1, <1>2, NextLookup, TypeCorrect, PTL DEF Spec

=============================================================================
