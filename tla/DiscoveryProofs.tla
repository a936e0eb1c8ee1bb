-------------------------- MODULE DiscoveryProofs --------------------------
(***************************************************************************)
(* What holds of operator discovery for every registry, every number of    *)
(* quorums and slots, and every change of the registry during a walk.      *)
(***************************************************************************)
EXTENDS Discovery, FiniteSetTheorems, SequenceTheorems, TLAPS

-----------------------------------------------------------------------------
(* Sequences and their order by fail count.                                *)

LEMMA BoundedSeqIsSeq ==
  ASSUME NEW S, NEW n \in Nat, NEW s \in BoundedSeq(S, n)
  PROVE  s \in Seq(S)
  BY DEF BoundedSeq, SeqOf

\* Without fail counts the stable sort leaves every element where it is.
LEMMA RankIsPosition ==
  ASSUME NEW s \in Seq(Operators), NEW i \in DOMAIN s
  PROVE  Rank(s, i) = i
<1>1. DOMAIN s = 1..Len(s) /\ Len(s) \in Nat
  BY LenProperties
<1>2. {j \in DOMAIN s : \/ FailCount(s[j]) < FailCount(s[i])
                        \/ FailCount(s[j]) = FailCount(s[i]) /\ j <= i} = 1..i
  BY <1>1 DEF FailCount
<1>3. Cardinality(1..i) = i
  BY <1>1, FS_Interval
<1> QED
  BY <1>2, <1>3 DEF Rank

LEMMA ByFailCountKeepsOrder ==
  ASSUME NEW s \in Seq(Operators)
  PROVE  ByFailCount(s) = s
<1>1. ASSUME NEW k \in DOMAIN s
      PROVE  AtRank(s, k) = k
  BY RankIsPosition DEF AtRank
<1>2. ByFailCount(s) = [k \in DOMAIN s |-> s[k]]
  BY <1>1 DEF ByFailCount
<1>3. s = [k \in DOMAIN s |-> s[k]]
  BY LenProperties
<1> QED
  BY <1>2, <1>3

LEMMA AppendInSet ==
  ASSUME NEW S, NEW s \in Seq(S), NEW e \in S
  PROVE  /\ ToSet(Append(s, e)) = ToSet(s) \cup {e}
         /\ Append(s, e) \in Seq(S)
<1>1. /\ Append(s, e) \in Seq(S)
      /\ Len(Append(s, e)) = Len(s) + 1
      /\ Append(s, e)[Len(s) + 1] = e
      /\ \A i \in 1..Len(s) : Append(s, e)[i] = s[i]
  OBVIOUS
<1>2. DOMAIN s = 1..Len(s) /\ DOMAIN Append(s, e) = 1..(Len(s) + 1) /\ Len(s) \in Nat
  BY <1>1, LenProperties
<1> QED
  BY <1>1, <1>2 DEF ToSet

LEMMA AppendStaysInjective ==
  ASSUME NEW S, NEW s \in Seq(S), IsInjective(s), NEW e \in S \ ToSet(s)
  PROVE  IsInjective(Append(s, e))
<1>1. /\ Len(Append(s, e)) = Len(s) + 1
      /\ Append(s, e)[Len(s) + 1] = e
      /\ \A i \in 1..Len(s) : Append(s, e)[i] = s[i]
  OBVIOUS
<1>2. DOMAIN s = 1..Len(s) /\ DOMAIN Append(s, e) = 1..(Len(s) + 1) /\ Len(s) \in Nat
  BY <1>1, LenProperties
<1>3. \A i \in 1..Len(s) : s[i] # e
  BY <1>2 DEF ToSet
<1> QED
  BY <1>1, <1>2, <1>3 DEF IsInjective

-----------------------------------------------------------------------------
(* Types.                                                                  *)

LEMMA InitTyped == Init => TypeOK
<1> SUFFICES ASSUME Init PROVE TypeOK
  OBVIOUS
<1>1. PICK n \in 0..MaxQuorums :
        registry \in [0..(n - 1) -> {s \in BoundedSeq(Slots, MaxSlots) : HasOneSlotEach(s)}]
  BY DEF Init
<1>2. \A q \in Quorums : registry[q] \in Seq(Slots)
  BY <1>1, BoundedSeqIsSeq, DiscoveryAssumption DEF Quorums
<1>3. RegistryOK
  BY <1>1, <1>2 DEF RegistryOK, Quorums
<1>4. cache \in Seq(Operators) /\ found \in Seq(Operators) /\ answer \in Seq(Operators)
  BY EmptySeq DEF Init
<1>5. ~ fresh /\ fresh \in BOOLEAN /\ spoiled \in BOOLEAN
  BY DEF Init
<1>7. pc = "idle" /\ quorum = 0 /\ index = 1 /\ total = 0 /\ changes = 0
  BY DEF Init
<1> QED
  BY <1>3, <1>4, <1>5, <1>7, DiscoveryAssumption DEF TypeOK

LEMMA ChangeTyped ==
  ASSUME TypeOK, NEW q \in Quorums, NEW i \in 1..MaxSlots, NEW o \in Slots, Change(q, i, o)
  PROVE  TypeOK'
<1>1. PICK s : /\ s = IF i \in DOMAIN registry[q]
                      THEN [registry[q] EXCEPT ![i] = o] ELSE Append(registry[q], o)
               /\ registry' = [registry EXCEPT ![q] = s]
  BY DEF Change
<1>2. registry[q] \in Seq(Slots)
  BY DEF TypeOK, RegistryOK
<1>3. s \in Seq(Slots)
  BY <1>1, <1>2, ExceptSeq, LenProperties, AppendInSet
<1>4. DOMAIN registry' = DOMAIN registry
  BY <1>1
<1>5. \A p \in DOMAIN registry' : registry'[p] \in Seq(Slots)
  BY <1>1, <1>3 DEF TypeOK, RegistryOK, Quorums
<1>6. changes' \in 0..MaxChanges
  BY DiscoveryAssumption DEF Change, TypeOK
<1>7. RegistryOK'
  BY <1>4, <1>5 DEF TypeOK, RegistryOK, Quorums
<1> QED
  BY <1>4, <1>6, <1>7 DEF Change, TypeOK, walk, Quorums

LEMMA NextTyped == TypeOK /\ [Next]_vars => TypeOK'
<1> SUFFICES ASSUME TypeOK, [Next]_vars PROVE TypeOK'
  OBVIOUS
<1> USE DiscoveryAssumption DEF TypeOK
<1>0. UNCHANGED chain => RegistryOK' /\ Quorums' = Quorums
  BY DEF chain, RegistryOK, Quorums
<1>1. CASE AnswerCached
  BY <1>0, <1>1, ByFailCountKeepsOrder DEF AnswerCached, chain, walk
<1>2. CASE StartFetch
  <2>1. fresh' = FALSE
    BY <1>2 DEF StartFetch
  <2>2. found' \in Seq(Operators) /\ answer' \in Seq(Operators)
    BY <1>2, EmptySeq DEF StartFetch
  <2>3. /\ pc' = "total" /\ quorum' = 0 /\ spoiled' = FALSE
        /\ UNCHANGED <<chain, cache, index, total>>
    BY <1>2 DEF StartFetch
  <2>4. RegistryOK'
    BY <1>0, <2>3
  <2>5. changes' \in 0..MaxChanges /\ quorum' \in 0..MaxQuorums
    BY <2>3 DEF chain
  <2> QED
    BY <2>1, <2>2, <2>3, <2>4, <2>5
<1>3. CASE TotalRead
  <2>1. Len(registry[quorum]) \in Nat
    BY <1>3, LenProperties DEF TotalRead, RegistryOK
  <2> QED
    BY <1>0, <1>3, <2>1 DEF TotalRead, chain
<1>4. CASE TotalFails
  BY <1>0, <1>4 DEF TotalFails, chain
<1>5. CASE IndexRead
  <2>0. registry[quorum] \in Seq(Slots)
    BY <1>5 DEF IndexRead, RegistryOK
  <2>1. SlotAt(quorum, index) \in Slots
    BY <2>0, ElementOfSeq, LenProperties DEF SlotAt, Slots
  <2>2. found' \in Seq(Operators)
    BY <1>5, <2>1, AppendInSet DEF IndexRead, Slots
  <2>3. index' \in Nat \ {0}
    BY <1>5 DEF IndexRead
  <2> QED
    BY <1>0, <1>5, <2>2, <2>3 DEF IndexRead, chain
<1>6. CASE IndexFails
  BY <1>0, <1>6 DEF IndexFails, chain
<1>7. CASE QuorumDone
  <2>1. quorum' \in 0..MaxQuorums
    BY <1>7 DEF QuorumDone, RegistryOK
  <2> QED
    BY <1>0, <1>7, <2>1 DEF QuorumDone, chain
<1>8. CASE Finish
  BY <1>0, <1>8, ByFailCountKeepsOrder DEF Finish, chain
<1>9. CASE FinishEmpty
  BY <1>0, <1>9 DEF FinishEmpty, WalkOver, chain
<1>10. CASE Expire
  BY <1>0, <1>10 DEF Expire, chain, walk
<1>11. ASSUME NEW q \in Quorums, NEW i \in 1..MaxSlots, NEW o \in Slots, Change(q, i, o)
       PROVE  TypeOK'
  BY <1>0, <1>11, ChangeTyped
<1>13. CASE UNCHANGED vars
  BY <1>0, <1>13 DEF vars, chain, walk
<1> QED
  BY <1>1, <1>2, <1>3, <1>4, <1>5, <1>6, <1>7, <1>8, <1>9, <1>10, <1>11, <1>13
  DEF Next, GetOperators

\* Types: every variable keeps to its set in every reachable state.
THEOREM TypeCorrect == Spec => []TypeOK
  BY InitTyped, NextTyped, PTL DEF Spec

-----------------------------------------------------------------------------
(* No operator twice.                                                      *)

LEMMA NextKeepsNoDuplicates == TypeOK /\ NoDuplicates /\ [Next]_vars => NoDuplicates'
<1> SUFFICES ASSUME TypeOK, NoDuplicates, [Next]_vars PROVE NoDuplicates'
  OBVIOUS
<1> USE DEF NoDuplicates
<1>1. IsInjective(<<>>)
  BY DEF IsInjective
<1>2. cache \in Seq(Operators) /\ found \in Seq(Operators)
  BY DEF TypeOK
<1>3. CASE AnswerCached
  BY <1>2, <1>3, ByFailCountKeepsOrder DEF AnswerCached, walk
<1>4. CASE StartFetch
  BY <1>1, <1>4 DEF StartFetch
<1>5. CASE IndexRead
  <2>1. registry[quorum] \in Seq(Slots)
    BY <1>5 DEF IndexRead, TypeOK, RegistryOK
  <2>2. SlotAt(quorum, index) \in Slots
    BY <2>1, ElementOfSeq, LenProperties DEF SlotAt, Slots
  <2>3. IsInjective(found')
    BY <1>2, <1>5, <2>2, AppendStaysInjective DEF IndexRead, Slots
  <2> QED
    BY <1>5, <2>3 DEF IndexRead
<1>6. CASE Finish
  BY <1>2, <1>6, ByFailCountKeepsOrder DEF Finish
<1>7. CASE FinishEmpty
  BY <1>1, <1>7 DEF FinishEmpty
<1>8. CASE TotalRead \/ TotalFails \/ IndexFails \/ QuorumDone
  BY <1>8 DEF TotalRead, TotalFails, IndexFails, QuorumDone
<1>9. CASE Expire
  BY <1>9 DEF Expire, walk
<1>10. ASSUME NEW q \in Quorums, NEW i \in 1..MaxSlots, NEW o \in Slots, Change(q, i, o)
       PROVE  NoDuplicates'
  BY <1>10 DEF Change, walk
<1>12. CASE UNCHANGED vars
  BY <1>12 DEF vars, walk
<1> QED
  BY <1>3, <1>4, <1>5, <1>6, <1>7, <1>8, <1>9, <1>10, <1>12 DEF Next, GetOperators

\* However an operator is registered, and however the registrations move while the walk
\* is on its way, no list has it twice.
THEOREM NobodyTwice == Spec => []NoDuplicates
<1>1. Init => NoDuplicates
  BY DEF Init, NoDuplicates, IsInjective
<1> QED
  BY <1>1, TypeCorrect, NextKeepsNoDuplicates, PTL DEF Spec

-----------------------------------------------------------------------------
(* A walk that nothing spoils finds everyone.                              *)

\* The operators in the slots the walk has passed.
Covered ==
  {o \in Operators : \E q \in Quorums : \E i \in DOMAIN registry[q] :
     registry[q][i] = o /\ (q < quorum \/ (q = quorum /\ pc = "index" /\ i < index))}

WalkInv ==
  pc # "idle" /\ ~ spoiled =>
    /\ ToSet(found) = Covered
    /\ pc = "index" => total = Len(registry[quorum])
    /\ pc = "done" => quorum \notin Quorums

LEMMA QuorumsAreNumbered ==
  ASSUME TypeOK
  PROVE  /\ Quorums \subseteq Nat
         /\ \A q \in Quorums : /\ q < MaxQuorums
                               /\ registry[q] \in Seq(Slots)
                               /\ DOMAIN registry[q] = 1..Len(registry[q])
                               /\ Len(registry[q]) \in Nat
         /\ \A k \in Nat \ Quorums, q \in Quorums : q < k
  BY DiscoveryAssumption, LenProperties DEF TypeOK, RegistryOK

\* Past the last quorum the walk has passed every slot.
LEMMA CoveredInTheEnd ==
  ASSUME TypeOK, \A q \in Quorums : q < quorum
  PROVE  Covered = Registered
  BY DEF Covered, Registered, ToSet

LEMMA IndexReadKeepsWalkInv ==
  ASSUME TypeOK, WalkInv, IndexRead
  PROVE  WalkInv'
<1> SUFFICES ASSUME ~ spoiled PROVE ToSet(found') = Covered' /\ total' = Len(registry[quorum])'
  BY DEF WalkInv, IndexRead, chain
<1> DEFINE o == SlotAt(quorum, index)
<1>1. ToSet(found) = Covered /\ total = Len(registry[quorum]) /\ found \in Seq(Operators)
  BY DEF WalkInv, IndexRead, TypeOK
<1>2. quorum \in Quorums /\ index \in Nat \ {0} /\ index <= total
  BY DEF IndexRead, TypeOK
<1>3. index \in DOMAIN registry[quorum] /\ o = registry[quorum][index]
  BY <1>1, <1>2, QuorumsAreNumbered DEF SlotAt
<1>4. o \in Slots
  BY <1>2, <1>3, QuorumsAreNumbered, ElementOfSeq
<1>5. Covered' = Covered \cup ({o} \ {NoOperator})
  <2>1. /\ pc = "index" /\ pc' = "index" /\ quorum' = quorum /\ registry' = registry
        /\ Quorums' = Quorums /\ index' = index + 1
    BY DEF IndexRead, chain, Quorums
  <2>2. \A q \in Quorums : \A i \in DOMAIN registry[q] :
          (q = quorum /\ i < index + 1) <=> (q = quorum /\ (i < index \/ i = index))
    BY <1>2, QuorumsAreNumbered
  <2> QED
    BY <1>2, <1>3, <1>4, <2>1, <2>2, DiscoveryAssumption DEF Covered, Slots
<1>6. ToSet(found') = ToSet(found) \cup ({o} \ {NoOperator})
  BY <1>1, <1>4, AppendInSet DEF IndexRead, Slots
<1> QED
  BY <1>1, <1>5, <1>6 DEF IndexRead, chain

LEMMA NextKeepsWalkInv == TypeOK /\ WalkInv /\ [Next]_vars => WalkInv'
<1> SUFFICES ASSUME TypeOK, WalkInv, [Next]_vars PROVE WalkInv'
  OBVIOUS
<1>1. CASE StartFetch
  <2>1. quorum' = 0 /\ pc' = "total" /\ ToSet(found') = {} /\ UNCHANGED registry
    BY <1>1 DEF StartFetch, ToSet, chain
  <2>2. Covered' = {}
    BY <2>1, QuorumsAreNumbered DEF Covered, Quorums
  <2> QED
    BY <2>1, <2>2 DEF WalkInv
<1>2. CASE TotalRead
  <2>1. /\ pc = "total" /\ pc' = "index" /\ index' = 1 /\ total' = Len(registry[quorum])
        /\ UNCHANGED <<registry, quorum, found, spoiled>>
    BY <1>2 DEF TotalRead, chain
  <2>2. Covered' = Covered
    BY <2>1, QuorumsAreNumbered DEF Covered, Quorums
  <2> QED
    BY <2>1, <2>2 DEF WalkInv
<1>3. CASE TotalFails
  <2>1. /\ pc = "total" /\ pc' = "done" /\ spoiled' = (spoiled \/ quorum \in Quorums)
        /\ UNCHANGED <<registry, quorum, found, index>>
    BY <1>3 DEF TotalFails, chain
  <2>2. Covered' = Covered /\ Quorums' = Quorums
    BY <2>1 DEF Covered, Quorums
  <2> QED
    BY <2>1, <2>2 DEF WalkInv
<1>4. CASE IndexRead
  BY <1>4, IndexReadKeepsWalkInv
<1>5. CASE IndexFails
  BY <1>5 DEF IndexFails, WalkInv
<1>6. CASE QuorumDone
  <2>1. /\ pc = "index" /\ pc' = "total" /\ quorum' = quorum + 1 /\ index > total
        /\ UNCHANGED <<registry, found, spoiled>>
    BY <1>6 DEF QuorumDone, chain
  <2>2. SUFFICES ASSUME ~ spoiled PROVE Covered' = Covered
    BY <2>1 DEF WalkInv
  <2>3. total = Len(registry[quorum]) /\ quorum \in Quorums /\ index \in Nat
    BY <2>1, <2>2 DEF WalkInv, TypeOK
  <2>4. \A q \in Quorums : \A i \in DOMAIN registry[q] :
          q < quorum + 1 <=> (q < quorum \/ (q = quorum /\ i < index))
    BY <2>1, <2>3, QuorumsAreNumbered
  <2> QED
    BY <2>1, <2>4 DEF Covered, Quorums
<1>7. CASE AnswerCached \/ Finish \/ FinishEmpty
  BY <1>7 DEF AnswerCached, Finish, FinishEmpty, WalkInv, walk
<1>8. CASE Expire
  BY <1>8 DEF Expire, WalkInv, Covered, Quorums, walk, chain
<1>9. ASSUME NEW q \in Quorums, NEW i \in 1..MaxSlots, NEW o \in Slots, Change(q, i, o)
      PROVE  WalkInv'
  BY <1>9 DEF Change, WalkInv
<1>11. CASE UNCHANGED vars
  BY <1>11 DEF vars, walk, chain, WalkInv, Covered, Quorums
<1> QED
  BY <1>1, <1>2, <1>3, <1>4, <1>5, <1>6, <1>7, <1>8, <1>9, <1>11 DEF Next, GetOperators

LEMMA EndIsComplete ==
  TypeOK /\ WalkInv /\ [Next]_vars
    => [pc # "idle" /\ pc' = "idle" /\ ~ spoiled => ToSet(answer') = Registered]_vars
<1> SUFFICES ASSUME TypeOK, WalkInv, Next, pc # "idle", pc' = "idle", ~ spoiled
             PROVE  ToSet(answer') = Registered
  OBVIOUS
<1>1. Finish \/ FinishEmpty
  BY DEF Next, GetOperators, AnswerCached, StartFetch, TotalRead, TotalFails, IndexRead,
         IndexFails, QuorumDone, Expire, Change, walk
<1>2. answer' = found
  BY <1>1, ByFailCountKeepsOrder DEF Finish, FinishEmpty, TypeOK
<1>3. \A q \in Quorums : q < quorum
  <2>1. quorum \notin Quorums \/ quorum = MaxQuorums
    BY <1>1 DEF Finish, FinishEmpty, WalkOver, WalkInv
  <2>2. quorum \in Nat
    BY DiscoveryAssumption DEF TypeOK
  <2> QED
    BY <2>1, <2>2, QuorumsAreNumbered
<1> QED
  BY <1>2, <1>3, CoveredInTheEnd DEF WalkInv

\* A walk in which no call fails and nothing changes returns the registered operators of
\* all quorums, no more and no less, for every registry GetOperators can reach.
THEOREM QuietWalksAreComplete == Spec => CompleteUnlessSpoiled
<1>1. Init => WalkInv
  BY DEF Init, WalkInv
<1>2. Spec => []WalkInv
  BY <1>1, TypeCorrect, NextKeepsWalkInv, PTL DEF Spec
<1> QED
  BY <1>2, TypeCorrect, EndIsComplete, PTL DEF Spec, CompleteUnlessSpoiled

-----------------------------------------------------------------------------
(* Discovery implements OperatorList.                                      *)

LEMMA NotEmptySet ==
  ASSUME NEW s \in Seq(Operators), s # <<>>
  PROVE  ToSet(s) \in (SUBSET Operators) \ {{}}
<1>1. Len(s) \in Nat \ {0} /\ DOMAIN s = 1..Len(s)
  BY EmptySeq, LenProperties
<1>2. s[1] \in ToSet(s)
  BY <1>1 DEF ToSet
<1>3. ToSet(s) \subseteq Operators
  BY <1>1, ElementOfSeq DEF ToSet
<1> QED
  BY <1>2, <1>3

LEMMA EmptySet == ToSet(<<>>) = {}
  BY DEF ToSet

LEMMA InitImplements == Init => List!Init
<1> SUFFICES ASSUME Init PROVE List!Init
  OBVIOUS
<1>1. fresh = FALSE /\ answer = <<>>
  BY DEF Init
<1> QED
  BY <1>1, EmptySet DEF List!Init

LEMMA NextImplements ==
  TypeOK /\ [Next]_vars
    => [List!Next]_<<IF fresh THEN ToSet(cache) ELSE {}, ToSet(answer)>>
<1> SUFFICES ASSUME TypeOK, [Next]_vars
             PROVE  \/ List!Next
                    \/ UNCHANGED <<IF fresh THEN ToSet(cache) ELSE {}, ToSet(answer)>>
  OBVIOUS
<1>1. CASE AnswerCached
  <2>1. answer' = cache /\ cache' = cache /\ fresh = TRUE /\ fresh' = TRUE
    BY <1>1, ByFailCountKeepsOrder DEF AnswerCached, TypeOK
  <2>2. ToSet(cache) \in (SUBSET Operators) \ {{}}
    BY <1>1, NotEmptySet DEF AnswerCached, TypeOK
  <2>3. List!Answer
    BY <2>1, <2>2 DEF List!Answer
  <2> QED
    BY <2>3 DEF List!Next
<1>2. CASE Finish
  <2>1. cache' = found /\ answer' = found /\ fresh' = TRUE
    BY <1>2, ByFailCountKeepsOrder DEF Finish, TypeOK
  <2>2. fresh = FALSE
    BY <1>2 DEF Finish, WalkOver, TypeOK
  <2>3. ToSet(found) \in (SUBSET Operators) \ {{}}
    BY <1>2, NotEmptySet DEF Finish, TypeOK
  <2>4. List!Refresh
    BY <2>1, <2>2, <2>3 DEF List!Refresh
  <2> QED
    BY <2>4 DEF List!Next
<1>3. CASE FinishEmpty
  <2>1. fresh = FALSE /\ fresh' = FALSE
    BY <1>3 DEF FinishEmpty, WalkOver, TypeOK
  <2>2. ToSet(answer') = {}
    BY <1>3 DEF FinishEmpty, ToSet
  <2>3. List!NoAnswer
    BY <2>1, <2>2 DEF List!NoAnswer
  <2> QED
    BY <2>3 DEF List!Next
<1>4. CASE Expire
  <2>1. List!Expire
    BY <1>4 DEF Expire, List!Expire
  <2> QED
    BY <2>1 DEF List!Next
<1>5. CASE TotalRead \/ TotalFails \/ IndexRead \/ IndexFails \/ QuorumDone
  BY <1>5 DEF TotalRead, TotalFails, IndexRead, IndexFails, QuorumDone
<1>6. ASSUME NEW q \in Quorums, NEW i \in 1..MaxSlots, NEW o \in Slots, Change(q, i, o)
      PROVE  UNCHANGED <<IF fresh THEN ToSet(cache) ELSE {}, ToSet(answer)>>
  BY <1>6 DEF Change
<1>8. CASE UNCHANGED vars
  BY <1>8 DEF vars
<1>9. CASE StartFetch
  <2>1. fresh = FALSE /\ fresh' = FALSE
    BY <1>9 DEF StartFetch, TypeOK
  <2>2. ToSet(answer') = {}
    BY <1>9, EmptySet DEF StartFetch
  <2>3. List!NoAnswer
    BY <2>1, <2>2 DEF List!NoAnswer
  <2> QED
    BY <2>3 DEF List!Next
<1> QED
  BY <1>1, <1>2, <1>3, <1>4, <1>5, <1>6, <1>8, <1>9 DEF Next, GetOperators

\* Refinement: as long as the ttl runs every answer of GetOperators is the same set of
\* operators, a list that comes into force is never empty, and an error leaves none.
THEOREM ImplementsOperatorList == Spec => ListSpec
  BY InitImplements, NextImplements, TypeCorrect, PTL DEF Spec, ListSpec, List!Spec

=============================================================================
