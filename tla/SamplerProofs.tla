--------------------------- MODULE SamplerProofs ----------------------------
(***************************************************************************)
(* Theorems of Sampler, for any number of stacks and temperatures, any     *)
(* swap interval and any width of the counters.                            *)
(***************************************************************************)
EXTENDS Sampler, FiniteSetTheorems, TLAPS

-----------------------------------------------------------------------------
(* The place of a chain in its stack *)

\* The remainder of a division is the only one.
LEMMA RemainderIs ==
    ASSUME NEW q \in Int, NEW n \in Nat \ {0}, NEW r \in 0..(n - 1)
    PROVE  (q * n + r) % n = r
BY Z3

\* The chain above the hottest of a stack is the coldest of the next.
LEMMA NextAfterHottest ==
    ASSUME NEW c \in Nat, NEW n \in Nat \ {0}
    PROVE  c % n = n - 1 <=> (c + 1) % n = 0
<1> DEFINE q == c \div n
           r == c % n
<1>1. q \in Int /\ r \in 0..(n - 1) /\ c = q * n + r
  BY Z3
<1> HIDE DEF q, r
<1>2. CASE r = n - 1
  <2>1. c + 1 = (q + 1) * n + 0
    BY <1>1, <1>2, Z3
  <2>2. (c + 1) % n = 0
    BY <1>1, <2>1, RemainderIs
  <2> QED
    BY <1>2, <2>2 DEF r
<1>3. CASE r # n - 1
  <2>1. r + 1 \in 0..(n - 1) /\ c + 1 = q * n + (r + 1)
    BY <1>1, <1>3, Z3
  <2>2. (c + 1) % n = r + 1
    BY <1>1, <2>1, RemainderIs
  <2> QED
    BY <1>1, <1>3, <2>1, <2>2 DEF r
<1> QED
  BY <1>2, <1>3

\* Whole stacks fill the range of chains.
LEMMA WholeStacks ==
    ASSUME NEW k \in Nat, NEW n \in Nat \ {0}
    PROVE  (k * n) % n = 0 /\ k * n \in Nat
BY Z3

LEMMA StackNeighbours ==
    ASSUME NEW c \in Chain
    PROVE  /\ isHottestInStack(c) <=> isColdestInStack(c + 1)
           /\ ~isHottestInStack(c) => c + 1 \in Chain /\ ~isColdestInStack(c + 1)
           /\ ~isColdestInStack(c) => c - 1 \in Chain /\ ~isHottestInStack(c - 1)
           /\ isHottestInStack(c) /\ NTemps > 1 => ~isColdestInStack(c)
<1> DEFINE n == NTemps
           m == NStacks * NTemps
<1>1. n \in Nat \ {0} /\ m \in Nat /\ m % n = 0
  BY SamplerAssumption, WholeStacks
<1>2. c \in Nat /\ c < m
  BY <1>1 DEF Chain
<1>3. isHottestInStack(c) <=> isColdestInStack(c + 1)
  BY <1>1, <1>2, NextAfterHottest DEF isHottestInStack, isColdestInStack
<1>4. ASSUME ~isHottestInStack(c) PROVE c + 1 \in Chain /\ ~isColdestInStack(c + 1)
  <2>1. c + 1 # m
    BY <1>1, <1>3, <1>4 DEF isColdestInStack
  <2> QED
    BY <1>1, <1>2, <1>3, <1>4, <2>1 DEF Chain
<1>5. ASSUME ~isColdestInStack(c) PROVE c - 1 \in Chain /\ ~isHottestInStack(c - 1)
  <2>1. c # 0
    BY <1>1, <1>5, Z3 DEF isColdestInStack
  <2>2. c - 1 \in Chain /\ (c - 1) + 1 = c
    BY <1>1, <1>2, <2>1 DEF Chain
  <2>3. c - 1 \in Nat
    BY <2>2, <1>1 DEF Chain
  <2> QED
    BY <1>1, <1>5, <2>2, <2>3, NextAfterHottest DEF isHottestInStack, isColdestInStack
<1>6. isHottestInStack(c) /\ NTemps > 1 => ~isColdestInStack(c)
  BY <1>1 DEF isHottestInStack, isColdestInStack
<1> QED
  BY <1>3, <1>4, <1>5, <1>6

-----------------------------------------------------------------------------
(* The requests in flight *)

Out == {c \in Chain : outstanding[c] > 0}

\* Together these properties are inductive; none of the last five is by itself.
Inv ==
    /\ TypeOK
    /\ OneOutstandingPerChain
    /\ WaitsIffColderLocked
    /\ HottestNeverLocked
    /\ NoStaleProposal
    /\ CountsOutstanding

\* There are fewer requests than the counter has values.
LEMMA OutFits ==
    /\ IsFiniteSet(Chain)
    /\ Cardinality(Chain) = NStacks * NTemps /\ Cardinality(Chain) < Wrap
    /\ \A S \in SUBSET Chain :
          IsFiniteSet(S) /\ Cardinality(S) \in Nat /\ Cardinality(S) < Wrap
<1>1. NStacks * NTemps \in Nat \ {0} /\ Wrap \in Nat /\ Wrap > NStacks * NTemps
  BY SamplerAssumption, Z3
<1>2. IsFiniteSet(Chain) /\ Cardinality(Chain) = NStacks * NTemps
  <2> DEFINE m == NStacks * NTemps
  <2>1. m \in Nat \ {0} /\ Chain = 0..(m - 1)
    BY <1>1 DEF Chain
  <2> HIDE DEF m
  <2>2. 0 \in Int /\ m - 1 \in Int /\ ~(0 > m - 1) /\ (m - 1) - 0 + 1 = m
    BY <2>1
  <2>3. IsFiniteSet(0..(m - 1)) /\ Cardinality(0..(m - 1)) = m
    BY <2>2, FS_Interval
  <2> QED
    BY <2>1, <2>3 DEF m
<1>3. ASSUME NEW S \in SUBSET Chain
      PROVE  IsFiniteSet(S) /\ Cardinality(S) \in Nat /\ Cardinality(S) < Wrap
  <2>1. IsFiniteSet(S) /\ Cardinality(S) <= Cardinality(Chain)
    BY <1>2, FS_Subset
  <2>2. Cardinality(S) \in Nat
    BY <2>1, FS_CardinalityType
  <2> QED
    BY <1>1, <1>2, <2>1, <2>2
<1> QED
  BY <1>1, <1>2, <1>3

\* What Resubmit does when, but for the chain whose result is there, nothing is in
\* flight for the chains it touches.
LEMMA ResubmitEffect ==
    ASSUME TypeOK, OneOutstandingPerChain, NoStaleProposal, CountsOutstanding,
           mode # "flushed",
           NEW c \in Chain, outstanding[c] > 0,
           NEW changed, NEW proposed \in SUBSET Chain,
           \A d \in Chain : d \in proposed \cup changed => d = c \/ outstanding[d] = 0,
           Resubmit(c, changed, proposed),
           mode' \in {"stepping", "flushing", "flushed"}
    PROVE  /\ outstanding' \in [Chain -> Nat] /\ stale' \in [Chain -> BOOLEAN]
           /\ numOutstandingJobs' \in 0..(Wrap - 1)
           /\ \A d \in Chain :
                 outstanding'[d] = IF d \in proposed THEN 1
                                   ELSE IF d = c THEN 0 ELSE outstanding[d]
           /\ OneOutstandingPerChain' /\ NoStaleProposal' /\ CountsOutstanding'
<1> DEFINE left == [outstanding EXCEPT ![c] = @ - 1]
<1>1. /\ outstanding \in [Chain -> Nat] /\ stale \in [Chain -> BOOLEAN]
      /\ \A d \in Chain : outstanding[d] \in {0, 1}
  BY DEF TypeOK, OneOutstandingPerChain
<1>2. outstanding[c] = 1
  BY <1>1
<1>3. /\ left \in [Chain -> Nat] /\ left[c] = 0
      /\ \A d \in Chain : d # c => left[d] = outstanding[d]
  BY <1>1, <1>2
<1> HIDE DEF left
<1>4. /\ outstanding' = [d \in Chain |-> IF d \in proposed THEN left[d] + 1 ELSE left[d]]
      /\ numOutstandingJobs' = (numOutstandingJobs - 1 + Cardinality(proposed)) % Wrap
      /\ stale' = [d \in Chain |->
                      IF d \in proposed \cup changed THEN left[d] > 0 ELSE stale[d]]
  BY DEF Resubmit, left
<1>5. \A d \in proposed : left[d] = 0
  BY <1>1, <1>3
<1>6. /\ outstanding' \in [Chain -> Nat]
      /\ \A d \in Chain :
            outstanding'[d] = IF d \in proposed THEN 1
                              ELSE IF d = c THEN 0 ELSE outstanding[d]
  BY <1>1, <1>3, <1>4, <1>5
<1>7. ASSUME NEW d \in Chain, d \in proposed \cup changed
      PROVE  ~stale'[d]
  <2>1. stale'[d] = (left[d] > 0)
    BY <1>4, <1>7
  <2>2. ~(left[d] > 0)
    BY <1>3, <1>7
  <2> QED
    BY <2>1, <2>2
<1>8. stale' \in [Chain -> BOOLEAN]
  <2>1. ASSUME NEW d \in Chain
        PROVE  (IF d \in proposed \cup changed THEN left[d] > 0 ELSE stale[d]) \in BOOLEAN
    <3>1. stale[d] \in BOOLEAN
      BY <1>1
    <3>2. (left[d] > 0) \in BOOLEAN
      OBVIOUS
    <3> QED
      BY <3>1, <3>2, Zenon
  <2> QED
    BY <1>4, <2>1
<1>9. NoStaleProposal'
  <2> SUFFICES ASSUME NEW d \in Chain, outstanding'[d] > 0 PROVE ~stale'[d]
    BY DEF NoStaleProposal
  <2>1. CASE d \in proposed \cup changed
    BY <1>7, <2>1
  <2>2. CASE d \notin proposed \cup changed
    <3>1. d # c /\ outstanding[d] > 0
      BY <1>6, <2>2
    <3>2. ~stale[d]
      BY <3>1 DEF NoStaleProposal
    <3> QED
      BY <1>4, <2>2, <3>2
  <2> QED
    BY <2>1, <2>2
<1>10. /\ numOutstandingJobs' = Cardinality(Out')
       /\ numOutstandingJobs' \in 0..(Wrap - 1)
  <2>1. Out' = (Out \ {c}) \cup proposed /\ (Out \ {c}) \cap proposed = {} /\ c \in Out
    BY <1>1, <1>2, <1>6 DEF Out
  <2>2. /\ IsFiniteSet(Out) /\ IsFiniteSet(Out \ {c}) /\ IsFiniteSet(proposed)
        /\ Cardinality(Out) \in Nat /\ Cardinality(proposed) \in Nat
        /\ Cardinality(Out') \in Nat /\ Cardinality(Out') < Wrap
    <3>1. Out \in SUBSET Chain /\ Out \ {c} \in SUBSET Chain /\ Out' \in SUBSET Chain
      BY <2>1 DEF Out
    <3> QED
      BY <3>1, OutFits
  <2>3. Cardinality(Out \ {c}) = Cardinality(Out) - 1
    BY <2>1, <2>2, FS_RemoveElement
  <2>4. Cardinality(Out') = Cardinality(Out) - 1 + Cardinality(proposed)
    <3>1. Cardinality((Out \ {c}) \cup proposed)
            = Cardinality(Out \ {c}) + Cardinality(proposed) - Cardinality({})
      BY <2>1, <2>2, FS_Union
    <3> QED
      BY <2>1, <2>2, <2>3, <3>1, FS_EmptySet
  <2>5. numOutstandingJobs = Cardinality(Out)
    BY DEF CountsOutstanding, Out
  <2>6. numOutstandingJobs' = Cardinality(Out') % Wrap
    BY <1>4, <2>4, <2>5
  <2>7. Wrap \in Nat \ {0}
    BY <2>2, SamplerAssumption
  <2> HIDE DEF Out
  <2> QED
    BY <2>2, <2>6, <2>7
<1>11. CountsOutstanding'
  BY <1>10 DEF CountsOutstanding, Out
<1>12. OneOutstandingPerChain'
  BY <1>1, <1>6 DEF OneOutstandingPerChain
<1> QED
  BY <1>6, <1>8, <1>9, <1>10, <1>11, <1>12
-----------------------------------------------------------------------------
(* Each action keeps the invariant *)

LEMMA AppendKeepsType ==
    ASSUME TypeOK, NEW c \in Chain, Append(c)
    PROVE  length' \in [Chain -> 0..(LengthWrap - 1)]
<1>1. length \in [Chain -> 0..(LengthWrap - 1)] /\ LengthWrap \in Nat \ {0}
  BY SamplerAssumption DEF TypeOK
<1>2. (length[c] + 1) % LengthWrap \in 0..(LengthWrap - 1)
  BY <1>1
<1> QED
  BY <1>1, <1>2 DEF Append

\* The cascade comes down from c + 1 to c, and from c to the chain below.
LEMMA SwapAndUnlockKeeps ==
    ASSUME Inv, NEW c \in Chain, SwapAndUnlock(c)
    PROVE  Inv'
<1> USE DEF Inv
<1>1. /\ mode = "stepping" /\ mode' = "stepping" /\ outstanding[c] > 0
      /\ locked[c] /\ locked' = Unlocked(c) /\ Append(c)
  BY DEF SwapAndUnlock, Returns
<1>2. c + 1 \in Chain /\ ~isColdestInStack(c + 1)
  BY <1>1, StackNeighbours DEF HottestNeverLocked
<1>3. outstanding[c + 1] = 0
  <2>1. c \in Int /\ (c + 1) - 1 = c
    BY SamplerAssumption DEF Chain
  <2> QED
    BY <1>1, <1>2, <2>1 DEF WaitsIffColderLocked
<1>4. /\ outstanding' \in [Chain -> Nat] /\ stale' \in [Chain -> BOOLEAN]
      /\ numOutstandingJobs' \in 0..(Wrap - 1)
      /\ \A d \in Chain :
            outstanding'[d] = IF d \in ProposedByUnlock(c) THEN 1
                              ELSE IF d = c THEN 0 ELSE outstanding[d]
      /\ OneOutstandingPerChain' /\ NoStaleProposal' /\ CountsOutstanding'
  <2>1. PICK swapped \in BOOLEAN :
           Resubmit(c, IF swapped THEN {c, c + 1} ELSE {c}, ProposedByUnlock(c))
    BY DEF SwapAndUnlock
  <2> DEFINE changed == IF swapped THEN {c, c + 1} ELSE {c}
  <2>2. ProposedByUnlock(c) \in SUBSET Chain
    BY <1>2 DEF ProposedByUnlock
  <2>3. \A d \in Chain : d \in ProposedByUnlock(c) \cup changed => d = c \/ outstanding[d] = 0
    BY <1>3 DEF ProposedByUnlock
  <2> HIDE DEF changed
  <2>4. Resubmit(c, changed, ProposedByUnlock(c))
    BY <2>1 DEF changed
  <2> QED
    BY <1>1, <2>2, <2>3, <2>4, ResubmitEffect
<1>5. /\ locked' \in [Chain -> BOOLEAN] /\ ~locked'[c]
      /\ ~isColdestInStack(c) => locked'[c - 1]
      /\ \A d \in Chain : d # c /\ (isColdestInStack(c) \/ d # c - 1)
                             => locked'[d] = locked[d]
  <2>1. c - 1 # c
    BY SamplerAssumption DEF Chain
  <2>2. ~isColdestInStack(c) => c - 1 \in Chain
    BY StackNeighbours
  <2>3. locked' = [d \in Chain |-> CASE d = c -> FALSE
                                     [] d = c - 1 /\ ~isColdestInStack(c) -> TRUE
                                     [] OTHER -> locked[d]]
    BY <1>1 DEF Unlocked
  <2>4. locked \in [Chain -> BOOLEAN]
    BY DEF TypeOK
  <2>5. ~locked'[c] /\ (~isColdestInStack(c) => locked'[c - 1])
    BY <2>1, <2>2, <2>3
  <2>6. ASSUME NEW d \in Chain, d # c, isColdestInStack(c) \/ d # c - 1
        PROVE  locked'[d] = locked[d]
    BY <2>3, <2>6
  <2>7. \A d \in Chain : locked'[d] \in BOOLEAN
    <3> SUFFICES ASSUME NEW d \in Chain PROVE locked'[d] \in BOOLEAN
      OBVIOUS
    <3>1. CASE d = c
      BY <2>5, <2>3, <3>1
    <3>2. CASE d # c /\ d = c - 1 /\ ~isColdestInStack(c)
      BY <2>3, <3>2
    <3>3. CASE d # c /\ (isColdestInStack(c) \/ d # c - 1)
      BY <2>4, <2>6, <3>3
    <3> QED
      BY <3>1, <3>2, <3>3
  <2> QED
    BY <2>3, <2>5, <2>6, <2>7
<1>6. WaitsIffColderLocked'
  <2> SUFFICES ASSUME NEW d \in Chain
               PROVE  outstanding'[d] = 0 <=> ~isColdestInStack(d) /\ locked'[d - 1]
    BY DEF WaitsIffColderLocked, isColdestInStack
  <2>0. c \in Int /\ d \in Int /\ (c + 1) - 1 = c /\ c + 1 # c
    BY SamplerAssumption DEF Chain
  <2>1. CASE d = c + 1
    BY <1>4, <1>5, <2>0, <2>1 DEF ProposedByUnlock
  <2>2. CASE d = c
    BY <1>4, <1>5, <2>0, <2>2 DEF ProposedByUnlock
  <2>3. CASE d # c /\ d # c + 1
    <3>1. outstanding'[d] = outstanding[d]
      BY <1>4, <2>3 DEF ProposedByUnlock
    <3>2. ~isColdestInStack(d) => locked'[d - 1] = locked[d - 1]
      <4> SUFFICES ASSUME ~isColdestInStack(d) PROVE locked'[d - 1] = locked[d - 1]
        OBVIOUS
      <4>1. d - 1 \in Chain /\ d - 1 # c /\ d - 1 # c - 1
        BY <2>0, <2>3, StackNeighbours
      <4> QED
        BY <1>5, <4>1
    <3> QED
      BY <1>1, <3>1, <3>2 DEF WaitsIffColderLocked
  <2> QED
    BY <2>1, <2>2, <2>3
<1>7. HottestNeverLocked'
  <2> SUFFICES ASSUME NEW d \in Chain, locked'[d] PROVE ~isHottestInStack(d)
    BY DEF HottestNeverLocked, isHottestInStack
  <2>1. CASE d = c - 1 /\ ~isColdestInStack(c)
    BY <2>1, StackNeighbours
  <2>2. CASE isColdestInStack(c) \/ d # c - 1
    BY <1>5, <2>2 DEF HottestNeverLocked
  <2> QED
    BY <2>1, <2>2
<1>8. TypeOK'
  BY <1>1, <1>4, <1>5, AppendKeepsType DEF TypeOK
<1> QED
  BY <1>4, <1>6, <1>7, <1>8

\* The hottest chain of a stack comes to rest and locks the one below.
LEMMA StartCascadeKeeps ==
    ASSUME Inv, NEW c \in Chain, StartCascade(c)
    PROVE  Inv'
<1> USE DEF Inv
<1>1. /\ mode = "stepping" /\ mode' = "stepping" /\ outstanding[c] > 0 /\ Append(c)
      /\ Resubmit(c, {c}, {}) /\ locked' = [locked EXCEPT ![c - 1] = TRUE]
  BY DEF StartCascade, Returns
<1>2. ~isColdestInStack(c) /\ c - 1 \in Chain /\ ~isHottestInStack(c - 1)
  BY StackNeighbours DEF StartCascade, CascadeDue
<1>3. /\ outstanding' \in [Chain -> Nat] /\ stale' \in [Chain -> BOOLEAN]
      /\ numOutstandingJobs' \in 0..(Wrap - 1)
      /\ \A d \in Chain : outstanding'[d] = IF d = c THEN 0 ELSE outstanding[d]
      /\ OneOutstandingPerChain' /\ NoStaleProposal' /\ CountsOutstanding'
  <2>1. {} \in SUBSET Chain /\ \A d \in Chain : d \in {} \cup {c} => d = c
    OBVIOUS
  <2> QED
    BY <1>1, <2>1, ResubmitEffect
<1>4. /\ locked' \in [Chain -> BOOLEAN] /\ locked'[c - 1]
      /\ \A d \in Chain : d # c - 1 => locked'[d] = locked[d]
  BY <1>1, <1>2 DEF TypeOK
<1>5. WaitsIffColderLocked'
  <2> SUFFICES ASSUME NEW d \in Chain
               PROVE  outstanding'[d] = 0 <=> ~isColdestInStack(d) /\ locked'[d - 1]
    BY DEF WaitsIffColderLocked, isColdestInStack
  <2>1. CASE d = c
    BY <1>2, <1>3, <1>4, <2>1
  <2>2. CASE d # c
    <3>1. ~isColdestInStack(d) => d - 1 \in Chain /\ d - 1 # c - 1
      <4>1. c \in Int /\ d \in Int
        BY SamplerAssumption DEF Chain
      <4> QED
        BY <2>2, <4>1, StackNeighbours
    <3>2. ~isColdestInStack(d) => locked'[d - 1] = locked[d - 1]
      BY <1>4, <3>1
    <3> QED
      BY <1>1, <1>3, <2>2, <3>2 DEF WaitsIffColderLocked
  <2> QED
    BY <2>1, <2>2
<1>6. HottestNeverLocked'
  <2> SUFFICES ASSUME NEW d \in Chain, locked'[d] PROVE ~isHottestInStack(d)
    BY DEF HottestNeverLocked, isHottestInStack
  <2> QED
    BY <1>2, <1>4 DEF HottestNeverLocked
<1>7. TypeOK'
  BY <1>1, <1>3, <1>4, AppendKeepsType DEF TypeOK
<1> QED
  BY <1>3, <1>5, <1>6, <1>7

\* A chain that need not wait is proposed for again.
LEMMA ContinueKeeps ==
    ASSUME Inv, NEW c \in Chain, Continue(c)
    PROVE  Inv'
<1> USE DEF Inv
<1>1. /\ mode = "stepping" /\ mode' = "stepping" /\ outstanding[c] > 0 /\ Append(c)
      /\ Resubmit(c, {c}, {c}) /\ locked' = locked
  BY DEF Continue, Returns
<1>2. /\ outstanding' \in [Chain -> Nat] /\ stale' \in [Chain -> BOOLEAN]
      /\ numOutstandingJobs' \in 0..(Wrap - 1)
      /\ \A d \in Chain : outstanding'[d] = IF d = c THEN 1 ELSE outstanding[d]
      /\ OneOutstandingPerChain' /\ NoStaleProposal' /\ CountsOutstanding'
  <2>1. {c} \in SUBSET Chain /\ \A d \in Chain : d \in {c} \cup {c} => d = c
    OBVIOUS
  <2> QED
    BY <1>1, <2>1, ResubmitEffect
<1>3. \A d \in Chain : outstanding'[d] = 0 <=> outstanding[d] = 0
  BY <1>1, <1>2
<1>4. WaitsIffColderLocked'
  BY <1>1, <1>3 DEF WaitsIffColderLocked, isColdestInStack
<1>5. HottestNeverLocked'
  BY <1>1 DEF HottestNeverLocked, isHottestInStack
<1>6. TypeOK'
  BY <1>1, <1>2, AppendKeepsType DEF TypeOK
<1> QED
  BY <1>2, <1>4, <1>5, <1>6

\* One turn of the flush loop retrieves one result.
LEMMA FlushOneKeeps ==
    ASSUME Inv, NEW c \in Chain, FlushOne(c)
    PROVE  Inv'
<1> USE DEF Inv
<1>1. /\ mode = "flushing" /\ mode' = "flushing" /\ outstanding[c] > 0 /\ Append(c)
      /\ Resubmit(c, {c}, {}) /\ locked' = locked
  BY DEF FlushOne
<1>2. /\ outstanding' \in [Chain -> Nat] /\ stale' \in [Chain -> BOOLEAN]
      /\ numOutstandingJobs' \in 0..(Wrap - 1)
      /\ OneOutstandingPerChain' /\ NoStaleProposal' /\ CountsOutstanding'
  <2>1. {} \in SUBSET Chain /\ \A d \in Chain : d \in {} \cup {c} => d = c
    OBVIOUS
  <2> QED
    BY <1>1, <2>1, ResubmitEffect
<1>3. WaitsIffColderLocked'
  BY <1>1 DEF WaitsIffColderLocked
<1>4. HottestNeverLocked'
  BY <1>1 DEF HottestNeverLocked, isHottestInStack
<1>5. TypeOK'
  BY <1>1, <1>2, AppendKeepsType DEF TypeOK
<1> QED
  BY <1>2, <1>3, <1>4, <1>5

\* Where the flush begins and where it ends, nothing moves but the mode, and the
\* counter that wraps round as it is no longer needed.
LEMMA FlushEdgesKeep ==
    ASSUME Inv, StartFlush \/ EndFlush
    PROVE  Inv'
<1>1. CASE StartFlush
  BY <1>1 DEF StartFlush, Inv, TypeOK, OneOutstandingPerChain, WaitsIffColderLocked,
              HottestNeverLocked, NoStaleProposal, CountsOutstanding, isHottestInStack
<1>2. CASE EndFlush
  <2>1. Wrap \in Nat \ {0}
    BY OutFits, SamplerAssumption, FS_CardinalityType
  <2>2. numOutstandingJobs' \in 0..(Wrap - 1)
    BY <1>2, <2>1 DEF EndFlush, Inv, TypeOK
  <2> QED
    BY <1>2, <2>2 DEF EndFlush, Inv, TypeOK, OneOutstandingPerChain,
              WaitsIffColderLocked, HottestNeverLocked, NoStaleProposal,
              CountsOutstanding, isHottestInStack
<1> QED
  BY <1>1, <1>2

-----------------------------------------------------------------------------
(* The theorems *)

LEMMA InitEstablishes == Init => Inv
<1> SUFFICES ASSUME Init PROVE Inv
  OBVIOUS
<1>1. outstanding = [c \in Chain |-> 1] /\ Out = Chain
  BY DEF Init, Out
<1>2. NStacks * NTemps \in Nat /\ NStacks * NTemps < Wrap /\ Wrap \in Nat
  BY SamplerAssumption, Z3
<1>3. TypeOK
  BY <1>2, SamplerAssumption DEF Init, TypeOK
<1>4. CountsOutstanding
  BY <1>1, OutFits DEF Init, CountsOutstanding, Out
<1>5. \A c \in Chain : outstanding[c] = 1 /\ ~locked[c] /\ ~stale[c]
  BY DEF Init
<1>6. WaitsIffColderLocked
  BY <1>5, StackNeighbours DEF WaitsIffColderLocked
<1> QED
  BY <1>3, <1>4, <1>5, <1>6 DEF Inv, OneOutstandingPerChain, HottestNeverLocked,
                                NoStaleProposal

LEMMA NextKeeps == Inv /\ [Next]_vars => Inv'
<1> SUFFICES ASSUME Inv, [Next]_vars PROVE Inv'
  OBVIOUS
<1>1. ASSUME NEW c \in Chain, SwapAndUnlock(c) PROVE Inv'
  BY <1>1, SwapAndUnlockKeeps
<1>2. ASSUME NEW c \in Chain, StartCascade(c) PROVE Inv'
  BY <1>2, StartCascadeKeeps
<1>3. ASSUME NEW c \in Chain, Continue(c) PROVE Inv'
  BY <1>3, ContinueKeeps
<1>4. ASSUME NEW c \in Chain, FlushOne(c) PROVE Inv'
  BY <1>4, FlushOneKeeps
<1>5. CASE StartFlush \/ EndFlush
  BY <1>5, FlushEdgesKeep
<1>6. CASE UNCHANGED vars
  BY <1>6 DEF vars, Inv, TypeOK, OneOutstandingPerChain, WaitsIffColderLocked,
              HottestNeverLocked, NoStaleProposal, CountsOutstanding, isHottestInStack
<1> QED
  BY <1>1, <1>2, <1>3, <1>4, <1>5, <1>6 DEF Next, Step, Finished

LEMMA Invariance == Spec => []Inv
<1>1. Init => Inv
  BY InitEstablishes
<1>2. Inv /\ [Next]_vars => Inv'
  BY NextKeeps
<1> QED
  BY <1>1, <1>2, PTL DEF Spec

\* Every variable of the Sampler keeps the type of the member it stands for; the
\* counter of requests in flight, a uint, does not wrap before the flush has ended
\* (sampler.hpp).
THEOREM TypeIsKept == Spec => []TypeOK
<1>1. Inv => TypeOK
  BY DEF Inv
<1> QED
  BY <1>1, Invariance, PTL

\* No chain is ever proposed for while its request is out, so the Delegator never
\* sees a key twice (sampler.cpp: step, unlock, propose).
THEOREM OneRequestPerChain == Spec => []OneOutstandingPerChain
<1>1. Inv => OneOutstandingPerChain
  BY DEF Inv
<1> QED
  BY <1>1, Invariance, PTL

\* A chain rests exactly while the chain below is locked for it, and a lock always has
\* a hotter chain that waits for it, so no cascade loses a chain (sampler.cpp: unlock).
THEOREM RestsOnlyForCascade == Spec => [](WaitsIffColderLocked /\ HottestNeverLocked)
<1>1. Inv => WaitsIffColderLocked /\ HottestNeverLocked
  BY DEF Inv
<1> QED
  BY <1>1, Invariance, PTL

\* No swap replaces the last state of a chain whose proposal is out (sampler.cpp: step).
THEOREM ProposalsAreFresh == Spec => []NoStaleProposal
<1>1. Inv => NoStaleProposal
  BY DEF Inv
<1> QED
  BY <1>1, Invariance, PTL

\* The flush loop counts down exactly the requests in flight (sampler.cpp: flush).
THEOREM FlushCountsRequests == Spec => []CountsOutstanding
<1>1. Inv => CountsOutstanding
  BY DEF Inv
<1> QED
  BY <1>1, Invariance, PTL
=============================================================================
