-------------------------- MODULE ChainArrayProofs --------------------------
(***************************************************************************)
(* Theorems of ChainArray, for any number of stacks and temperatures and   *)
(* any samples, however often and whenever the store flushes.              *)
(***************************************************************************)
EXTENDS Algorithms, SequenceTheorems, TLAPS

-----------------------------------------------------------------------------
(* Sequences by their last element *)

\* A sequence is what stands before its last element, and that element.
LEMMA FrontAndLast ==
    ASSUME NEW S, NEW q \in Seq(S), q # <<>>
    PROVE  /\ Len(q) \in Nat \ {0}
           /\ Front(q) \in Seq(S) /\ Len(Front(q)) = Len(q) - 1
           /\ Last(q) \in S
           /\ <<Last(q)>> \in Seq(S) /\ Len(<<Last(q)>>) = 1
           /\ q = Front(q) \o <<Last(q)>>
<1>1. Len(q) \in Nat \ {0} /\ Last(q) \in S
  BY EmptySeq, ElementOfSeq DEF Last
<1>2. q = SubSeq(q, 1, Len(q) - 1) \o <<q[Len(q)]>>
  BY <1>1, SubSeqFull, SubSeqRecursiveSecond
<1>3. Front(q) \in Seq(S) /\ Len(Front(q)) = Len(q) - 1
  <2> DEFINE n == Len(q) - 1
  <2>1. n \in Nat /\ 1 \in Int /\ n \in Int
    BY <1>1
  <2>2. \A i \in 1..n : q[i] \in S
    BY <1>1, ElementOfSeq
  <2> HIDE DEF n
  <2>3. SubSeq(q, 1, n) \in Seq(S) /\ Len(SubSeq(q, 1, n)) = IF 1 <= n THEN n - 1 + 1 ELSE 0
    BY <2>1, <2>2, SubSeqProperties
  <2>4. SubSeq(q, 1, n) \in Seq(S) /\ Len(SubSeq(q, 1, n)) = n
    BY <2>1, <2>3
  <2> QED
    BY <2>4 DEF Front, n
<1>4. <<Last(q)>> \in Seq(S) /\ Len(<<Last(q)>>) = 1
  BY <1>1
<1>5. q = Front(q) \o <<Last(q)>>
  BY <1>2 DEF Front, Last
<1> QED
  BY <1>1, <1>3, <1>4, <1>5

\* The last element of a sequence is the only one WithLast changes.
LEMMA WithLastProperties ==
    ASSUME NEW S, NEW q \in Seq(S), q # <<>>, NEW x \in S
    PROVE  /\ WithLast(q, x) \in Seq(S) /\ WithLast(q, x) # <<>>
           /\ Len(WithLast(q, x)) = Len(q)
           /\ WithLast(q, x)[Len(q)] = x
           /\ \A i \in 1..Len(q) : i # Len(q) => WithLast(q, x)[i] = q[i]
<1>1. Len(q) \in 1..Len(q)
  BY EmptySeq
<1>2. /\ WithLast(q, x) \in Seq(S)
      /\ Len(WithLast(q, x)) = Len(q)
      /\ \A i \in 1..Len(q) : WithLast(q, x)[i] = IF i = Len(q) THEN x ELSE q[i]
  BY <1>1, ExceptSeq DEF WithLast, ReplaceAt
<1>3. WithLast(q, x) # <<>>
  BY <1>1, <1>2, EmptySeq
<1> QED
  BY <1>1, <1>2, <1>3

\* To change the last element of a sequence is to change the last element of what
\* the sequence ends.
LEMMA WithLastOfEnd ==
    ASSUME NEW S, NEW f \in Seq(S), NEW q \in Seq(S), q # <<>>, NEW x \in S
    PROVE  f \o WithLast(q, x) = WithLast(f \o q, x)
<1>1. Len(q) \in Nat \ {0} /\ Len(f) \in Nat
  BY EmptySeq, LenProperties
<1>2. /\ f \o q \in Seq(S) /\ Len(f \o q) = Len(f) + Len(q)
      /\ \A i \in 1..(Len(f) + Len(q)) :
            (f \o q)[i] = IF i <= Len(f) THEN f[i] ELSE q[i - Len(f)]
  BY ConcatProperties
<1>3. /\ WithLast(q, x) \in Seq(S) /\ Len(WithLast(q, x)) = Len(q)
      /\ WithLast(q, x)[Len(q)] = x
      /\ \A i \in 1..Len(q) : i # Len(q) => WithLast(q, x)[i] = q[i]
  BY WithLastProperties
<1>4. /\ f \o q # <<>>
      /\ WithLast(f \o q, x) \in Seq(S)
      /\ Len(WithLast(f \o q, x)) = Len(f) + Len(q)
      /\ WithLast(f \o q, x)[Len(f) + Len(q)] = x
      /\ \A i \in 1..(Len(f) + Len(q)) :
            i # Len(f) + Len(q) => WithLast(f \o q, x)[i] = (f \o q)[i]
  <2> DEFINE h == f \o q
  <2>1. h \in Seq(S) /\ h # <<>> /\ Len(h) = Len(f) + Len(q)
    BY <1>1, <1>2, EmptySeq
  <2> HIDE DEF h
  <2>2. /\ WithLast(h, x) \in Seq(S) /\ Len(WithLast(h, x)) = Len(h)
        /\ WithLast(h, x)[Len(h)] = x
        /\ \A i \in 1..Len(h) : i # Len(h) => WithLast(h, x)[i] = h[i]
    BY <2>1, WithLastProperties, ZenonT(100)
  <2> QED
    BY <2>1, <2>2 DEF h
<1>5. /\ f \o WithLast(q, x) \in Seq(S)
      /\ Len(f \o WithLast(q, x)) = Len(f) + Len(q)
      /\ \A i \in 1..(Len(f) + Len(q)) :
            (f \o WithLast(q, x))[i]
              = IF i <= Len(f) THEN f[i] ELSE WithLast(q, x)[i - Len(f)]
  <2> DEFINE w == WithLast(q, x)
  <2>1. w \in Seq(S) /\ Len(w) = Len(q)
    BY <1>3
  <2> HIDE DEF w
  <2>2. /\ f \o w \in Seq(S) /\ Len(f \o w) = Len(f) + Len(w)
        /\ \A i \in 1..(Len(f) + Len(w)) :
              (f \o w)[i] = IF i <= Len(f) THEN f[i] ELSE w[i - Len(f)]
    BY <2>1, ConcatProperties
  <2> QED
    BY <2>1, <2>2 DEF w
<1>6. ASSUME NEW i \in 1..(Len(f) + Len(q))
      PROVE  (f \o WithLast(q, x))[i] = WithLast(f \o q, x)[i]
  <2> DEFINE w == WithLast(q, x)
             l == Len(f)
             m == Len(q)
  <2>1. /\ (f \o w)[i] = IF i <= l THEN f[i] ELSE w[i - l]
        /\ WithLast(f \o q, x)[l + m] = x
        /\ i # l + m => WithLast(f \o q, x)[i] = (f \o q)[i]
        /\ (f \o q)[i] = IF i <= l THEN f[i] ELSE q[i - l]
        /\ l \in Nat /\ m \in Nat \ {0} /\ i \in 1..(l + m)
        /\ w[m] = x /\ \A j \in 1..m : j # m => w[j] = q[j]
    BY <1>1, <1>2, <1>3, <1>4, <1>5
  <2> HIDE DEF w, l, m
  <2>2. i \in Nat /\ i <= l + m /\ (i <= l => i # l + m)
    BY <2>1
  <2>3. ~(i <= l) => i - l \in 1..m /\ (i - l = m <=> i = l + m)
    BY <2>1, <2>2
  <2>4. (f \o w)[i] = WithLast(f \o q, x)[i]
    BY <2>1, <2>2, <2>3
  <2> QED
    BY <2>4 DEF w
<1> QED
  BY <1>4, <1>5, <1>6, SeqEqual

\* To append to a sequence is to append to what the sequence ends.
LEMMA AppendToEnd ==
    ASSUME NEW S, NEW f \in Seq(S), NEW q \in Seq(S), NEW x \in S
    PROVE  f \o Append(q, x) = Append(f \o q, x)
<1>1. <<x>> \in Seq(S) /\ f \o q \in Seq(S)
  BY ConcatProperties
<1>2. Append(q, x) = q \o <<x>> /\ Append(f \o q, x) = (f \o q) \o <<x>>
  BY <1>1, AppendIsConcat
<1> QED
  BY <1>1, <1>2, ConcatAssociative

-----------------------------------------------------------------------------
(* Chains and stacks *)

\* The coldest chain of a stack is a chain, and the chain above a chain is not it.
LEMMA ColdestIsChain ==
    ASSUME NEW s \in StackId
    PROVE  coldest(s) \in ChainId /\ isColdestInStack(coldest(s))
<1> DEFINE n == ntemps
<1>1. nstacks \in Nat \ {0} /\ n \in Nat \ {0} /\ s \in Nat /\ s < nstacks
  BY ChainArrayAssumption DEF StackId
<1>2. s * n \in Nat /\ (s * n) % n = 0
  BY <1>1, Z3
<1>3. s * n < nstacks * n /\ nstacks * n \in Nat
  BY <1>1, Z3
<1> QED
  BY <1>2, <1>3 DEF coldest, ChainId, isColdestInStack

-----------------------------------------------------------------------------
(* The invariant *)

\* FileThenCacheIsHistory is not inductive by itself: that what a flush writes are
\* states of the chain needs the types, and that a swap finds last states to edit
\* needs the lengths.
StoreInv == StoreTypeOK /\ LengthCountsAllStates /\ FileThenCacheIsHistory

\* Caches kept and histories h that agree with each other and with the disk.
Fits(kept, h) ==
    /\ kept \in [ChainId -> Seq(StoredState)] /\ h \in [ChainId -> Seq(StoredState)]
    /\ \A c \in ChainId : kept[c] = <<>> => h[c] = <<>>
    /\ \A c \in ChainId : lengthOnDisk[c] + Len(kept[c]) = Len(h[c])
    /\ \A s \in StackId : file[s] \o kept[coldest(s)] = h[coldest(s)]

\* A flush of any caches moves states, but keeps what file and cache are together.
LEMMA FlushAllKeeps ==
    ASSUME StoreTypeOK, NEW kept, NEW h, Fits(kept, h), FlushAll(kept), allStates' = h
    PROVE  /\ lengthOnDisk' \in [ChainId -> Nat] /\ file' \in [StackId -> Seq(StoredState)]
           /\ Fits(cache, allStates)'
<1>0. /\ kept \in [ChainId -> Seq(StoredState)] /\ h \in [ChainId -> Seq(StoredState)]
      /\ \A c \in ChainId : kept[c] = <<>> => h[c] = <<>>
      /\ \A c \in ChainId : lengthOnDisk[c] + Len(kept[c]) = Len(h[c])
      /\ \A s \in StackId : file[s] \o kept[coldest(s)] = h[coldest(s)]
  BY DEF Fits
<1>1. /\ cache' = [c \in ChainId |-> IF kept[c] = <<>> THEN <<>> ELSE <<Last(kept[c])>>]
      /\ lengthOnDisk' = [c \in ChainId |->
             IF kept[c] = <<>> THEN lengthOnDisk[c] ELSE lengthOnDisk[c] + Len(kept[c]) - 1]
      /\ file' = [s \in StackId |->
             IF kept[coldest(s)] = <<>> THEN file[s]
                                        ELSE file[s] \o Front(kept[coldest(s)])]
  BY DEF FlushAll
<1>2. /\ lengthOnDisk \in [ChainId -> Nat] /\ file \in [StackId -> Seq(StoredState)]
  BY DEF StoreTypeOK
<1>3. ASSUME NEW c \in ChainId
      PROVE  /\ cache'[c] \in Seq(StoredState) /\ lengthOnDisk'[c] \in Nat
             /\ cache'[c] = <<>> => kept[c] = <<>>
             /\ lengthOnDisk'[c] + Len(cache'[c]) = Len(h[c])
  <2>1. CASE kept[c] = <<>>
    <3>1. cache'[c] = <<>> /\ lengthOnDisk'[c] = lengthOnDisk[c]
      BY <1>1, <2>1
    <3> QED
      BY <1>0, <1>2, <2>1, <3>1, EmptySeq
  <2>2. CASE kept[c] # <<>>
    <3>1. /\ cache'[c] = <<Last(kept[c])>>
          /\ lengthOnDisk'[c] = lengthOnDisk[c] + Len(kept[c]) - 1
      BY <1>1, <2>2
    <3>2. /\ Len(kept[c]) \in Nat \ {0}
          /\ <<Last(kept[c])>> \in Seq(StoredState) /\ Len(<<Last(kept[c])>>) = 1
      <4>1. kept[c] \in Seq(StoredState)
        BY <1>0
      <4> QED
        BY <2>2, <4>1, FrontAndLast
    <3> QED
      BY <1>0, <1>2, <2>2, <3>1, <3>2, EmptySeq
  <2> QED
    BY <2>1, <2>2
<1>4. ASSUME NEW s \in StackId
      PROVE  /\ file'[s] \in Seq(StoredState)
             /\ file'[s] \o cache'[coldest(s)] = h[coldest(s)]
  <2> DEFINE c == coldest(s)
  <2>1. c \in ChainId
    BY ColdestIsChain
  <2>2. /\ file[s] \in Seq(StoredState) /\ kept[c] \in Seq(StoredState)
        /\ file[s] \o kept[c] = h[c]
    BY <1>0, <1>2, <2>1
  <2>3. /\ cache'[c] = IF kept[c] = <<>> THEN <<>> ELSE <<Last(kept[c])>>
        /\ file'[s] = IF kept[c] = <<>> THEN file[s] ELSE file[s] \o Front(kept[c])
    BY <1>1, <2>1
  <2> HIDE DEF c
  <2>4. CASE kept[c] = <<>>
    BY <2>2, <2>3, <2>4 DEF c
  <2>5. CASE kept[c] # <<>>
    <3>1. /\ Front(kept[c]) \in Seq(StoredState) /\ <<Last(kept[c])>> \in Seq(StoredState)
          /\ kept[c] = Front(kept[c]) \o <<Last(kept[c])>>
      BY <2>2, <2>5, FrontAndLast
    <3>2. file'[s] \o cache'[c] = file[s] \o kept[c]
      <4> DEFINE front == Front(kept[c])
                 last  == <<Last(kept[c])>>
                 old   == file[s]
      <4>1. /\ old \in Seq(StoredState) /\ front \in Seq(StoredState)
            /\ last \in Seq(StoredState)
            /\ kept[c] = front \o last /\ file'[s] = old \o front /\ cache'[c] = last
        BY <2>2, <2>3, <2>5, <3>1
      <4> HIDE DEF front, last, old
      <4>2. (old \o front) \o last = old \o (front \o last)
        BY <4>1, ConcatAssociative
      <4>3. file'[s] \o cache'[c] = old \o kept[c]
        BY <4>1, <4>2
      <4> QED
        BY <4>3 DEF old
    <3>3. file'[s] \in Seq(StoredState)
      BY <2>2, <2>3, <2>5, <3>1, ConcatProperties
    <3> QED
      BY <2>2, <3>2, <3>3 DEF c
  <2> QED
    BY <2>4, <2>5
<1>5. /\ cache' \in [ChainId -> Seq(StoredState)] /\ lengthOnDisk' \in [ChainId -> Nat]
      /\ file' \in [StackId -> Seq(StoredState)]
  <2>1. /\ cache' = [c \in ChainId |-> cache'[c]]
        /\ lengthOnDisk' = [c \in ChainId |-> lengthOnDisk'[c]]
        /\ file' = [s \in StackId |-> file'[s]]
    BY <1>1
  <2> QED
    BY <1>3, <1>4, <2>1
<1>6. Fits(cache, allStates)'
  BY <1>0, <1>3, <1>4, <1>5 DEF Fits
<1> QED
  BY <1>5, <1>6

-----------------------------------------------------------------------------
(* Each action keeps the invariant *)

\* An action that leaves what is stored alone.
LEMMA StoredUnchangedKeeps ==
    ASSUME StoreInv, UNCHANGED <<cache, lengthOnDisk, file, open, allStates>>,
           scale' \in [ChainId -> Scale]
    PROVE  StoreInv'
  BY DEF StoreInv, StoreTypeOK, LengthCountsAllStates, FileThenCacheIsHistory

\* f with x at the end of the sequence of c.
Grown(f, c, x) == [f EXCEPT ![c] = Append(@, x)]

\* One more state at the end of one chain, in memory and in its history: before a
\* flush, if one follows.
LEMMA OneMoreState ==
    ASSUME StoreInv, NEW c \in ChainId, NEW x \in StoredState
    PROVE  Fits(Grown(cache, c, x), Grown(allStates, c, x))
<1> DEFINE kept == Grown(cache, c, x)
           h    == Grown(allStates, c, x)
<1> SUFFICES Fits(kept, h)
  OBVIOUS
<1>0. /\ kept = [cache EXCEPT ![c] = Append(@, x)]
      /\ h = [allStates EXCEPT ![c] = Append(@, x)]
  BY DEF Grown
<1> HIDE DEF kept, h
<1>1. /\ cache \in [ChainId -> Seq(StoredState)] /\ allStates \in [ChainId -> Seq(StoredState)]
      /\ lengthOnDisk \in [ChainId -> Nat] /\ file \in [StackId -> Seq(StoredState)]
  BY DEF StoreInv, StoreTypeOK
<1>2. /\ cache[c] \in Seq(StoredState) /\ allStates[c] \in Seq(StoredState)
      /\ Len(cache[c]) \in Nat /\ Len(allStates[c]) \in Nat
  BY <1>1, LenProperties
<1>3. /\ Append(cache[c], x) \in Seq(StoredState) /\ Append(cache[c], x) # <<>>
      /\ Len(Append(cache[c], x)) = Len(cache[c]) + 1
      /\ Append(allStates[c], x) \in Seq(StoredState) /\ Append(allStates[c], x) # <<>>
      /\ Len(Append(allStates[c], x)) = Len(allStates[c]) + 1
  <2> DEFINE q == cache[c]
             g == allStates[c]
  <2>1. q \in Seq(StoredState) /\ g \in Seq(StoredState)
    BY <1>2
  <2> HIDE DEF q, g
  <2>2. /\ Append(q, x) \in Seq(StoredState) /\ Append(q, x) # <<>>
        /\ Len(Append(q, x)) = Len(q) + 1
        /\ Append(g, x) \in Seq(StoredState) /\ Append(g, x) # <<>>
        /\ Len(Append(g, x)) = Len(g) + 1
    BY <2>1, AppendProperties
  <2> QED
    BY <2>2 DEF q, g
<1>4. /\ kept \in [ChainId -> Seq(StoredState)] /\ h \in [ChainId -> Seq(StoredState)]
      /\ kept[c] = Append(cache[c], x) /\ h[c] = Append(allStates[c], x)
      /\ \A d \in ChainId : d # c => kept[d] = cache[d] /\ h[d] = allStates[d]
  BY <1>0, <1>1, <1>3
<1>5. \A d \in ChainId : kept[d] = <<>> => h[d] = <<>>
  BY <1>3, <1>4 DEF StoreInv, StoreTypeOK
<1>6. \A d \in ChainId : lengthOnDisk[d] + Len(kept[d]) = Len(h[d])
  <2> SUFFICES ASSUME NEW d \in ChainId PROVE lengthOnDisk[d] + Len(kept[d]) = Len(h[d])
    OBVIOUS
  <2>1. lengthOnDisk[d] + Len(cache[d]) = Len(allStates[d]) /\ lengthOnDisk[d] \in Nat
    BY <1>1 DEF StoreInv, LengthCountsAllStates
  <2>2. CASE d = c
    <3>1. Len(kept[d]) = Len(cache[d]) + 1 /\ Len(h[d]) = Len(allStates[d]) + 1
      BY <1>3, <1>4, <2>2
    <3>2. Len(cache[d]) \in Nat
      BY <1>2, <2>2
    <3> QED
      BY <2>1, <3>1, <3>2, SMTT(30)
  <2>3. CASE d # c
    BY <1>4, <2>1, <2>3
  <2> QED
    BY <2>2, <2>3
<1>7. ASSUME NEW s \in StackId
      PROVE  file[s] \o kept[coldest(s)] = h[coldest(s)]
  <2>1. coldest(s) \in ChainId /\ file[s] \o cache[coldest(s)] = allStates[coldest(s)]
    BY ColdestIsChain DEF StoreInv, FileThenCacheIsHistory
  <2>2. CASE coldest(s) = c
    <3> DEFINE f == file[s]
               q == cache[c]
    <3>1. f \in Seq(StoredState) /\ q \in Seq(StoredState)
      BY <1>1
    <3> HIDE DEF f, q
    <3>2. f \o Append(q, x) = Append(f \o q, x)
      BY <3>1, AppendToEnd
    <3> QED
      BY <1>4, <2>1, <2>2, <3>2 DEF f, q
  <2>3. CASE coldest(s) # c
    BY <1>4, <2>1, <2>3
  <2> QED
    BY <2>2, <2>3
<1> QED
  BY <1>4, <1>5, <1>6, <1>7 DEF Fits

LEMMA InitialiseKeeps ==
    ASSUME StoreInv, NEW c \in ChainId, NEW p \in Point, NEW x \in Scale, Initialise(c, p, x)
    PROVE  StoreInv'
<1> DEFINE first == [point |-> p, scale |-> x, accepted |-> TRUE, swapType |-> "NoAttempt"]
<1>1. first \in StoredState
  BY DEF StoredState
<1>2. /\ cache' = Grown(cache, c, first) /\ allStates' = Grown(allStates, c, first)
      /\ scale' = [scale EXCEPT ![c] = x]
      /\ open /\ UNCHANGED <<lengthOnDisk, file, open>>
  BY DEF Initialise, Grown
<1> HIDE DEF first
<1>3. Fits(Grown(cache, c, first), Grown(allStates, c, first))
  BY <1>1, OneMoreState
<1>4. Fits(cache, allStates)'
  BY <1>2, <1>3 DEF Fits
<1>5. scale' \in [ChainId -> Scale]
  BY <1>2 DEF StoreInv, StoreTypeOK
<1> QED
  BY <1>2, <1>4, <1>5
     DEF StoreInv, Fits, StoreTypeOK, LengthCountsAllStates, FileThenCacheIsHistory

\* What append adds is a state.
LEMMA NextStateIsState ==
    ASSUME StoreTypeOK, NEW c \in ChainId, cache[c] # <<>>,
           NEW p \in Point, NEW accepted \in BOOLEAN
    PROVE  NextState(c, p, accepted) \in StoredState
<1>1. Last(cache[c]) \in StoredState
  BY FrontAndLast DEF StoreTypeOK
<1>2. scale[c] \in Scale
  BY DEF StoreTypeOK
<1> QED
  BY <1>1, <1>2 DEF NextState, StoredState

LEMMA AppendStateKeeps ==
    ASSUME StoreInv, NEW c \in ChainId, NEW p \in Point, NEW accepted \in BOOLEAN,
           AppendState(c, p, accepted)
    PROVE  StoreInv'
<1>1. PICK x \in StoredState : x = NextState(c, p, accepted)
  BY NextStateIsState DEF AppendState, StoreInv
<1>2. PICK kept : kept = Grown(cache, c, x)
  OBVIOUS
<1>3. PICK h : h = Grown(allStates, c, x)
  OBVIOUS
<1>4. /\ FlushAll(kept) \/ (cache' = kept /\ UNCHANGED <<lengthOnDisk, file>>)
      /\ allStates' = h /\ open /\ UNCHANGED <<scale, open>>
  BY <1>1, <1>2, <1>3 DEF AppendState, Grown
<1>5. Fits(kept, h)
  BY <1>2, <1>3, OneMoreState
<1>6. /\ lengthOnDisk' \in [ChainId -> Nat] /\ file' \in [StackId -> Seq(StoredState)]
      /\ Fits(cache, allStates)'
  <2>1. CASE FlushAll(kept)
    BY <1>4, <1>5, <2>1, FlushAllKeeps DEF StoreInv
  <2>2. CASE cache' = kept /\ UNCHANGED <<lengthOnDisk, file>>
    <3>1. Fits(cache, allStates)'
      BY <1>4, <1>5, <2>2 DEF Fits
    <3> QED
      BY <2>2, <3>1 DEF StoreInv, StoreTypeOK
  <2> QED
    BY <1>4, <2>1, <2>2
<1> QED
  BY <1>4, <1>6 DEF StoreInv, Fits, StoreTypeOK, LengthCountsAllStates, FileThenCacheIsHistory

\* Two last states change, in memory and in the history alike; what has been written
\* is not among them.
LEMMA SwapKeeps ==
    ASSUME StoreInv, NEW c \in ChainId, c + 1 \in ChainId, NEW swapped \in BOOLEAN,
           swap(c, swapped)
    PROVE  StoreInv'
<1> DEFINE low   == Last(cache[c])
           high  == Last(cache[c + 1])
           after == IF swapped THEN Swapped(low, high)
                               ELSE <<[low EXCEPT !.swapType = "Reject"], high>>
<1>1. /\ cache \in [ChainId -> Seq(StoredState)] /\ allStates \in [ChainId -> Seq(StoredState)]
      /\ lengthOnDisk \in [ChainId -> Nat] /\ file \in [StackId -> Seq(StoredState)]
      /\ cache[c] # <<>> /\ cache[c + 1] # <<>> /\ c # c + 1
      /\ open /\ UNCHANGED <<lengthOnDisk, file, scale, open>>
  BY ChainArrayAssumption, SMTT(30) DEF StoreInv, StoreTypeOK, swap, ChainId
<1>2. low \in StoredState /\ high \in StoredState
  BY <1>1, FrontAndLast
<1>3. after[1] \in StoredState /\ after[2] \in StoredState
  <2> HIDE DEF low, high
  <2>1. /\ [low EXCEPT !.point = high.point, !.accepted = high.accepted,
                       !.swapType = "Accept"] \in StoredState
        /\ [high EXCEPT !.point = low.point, !.accepted = low.accepted] \in StoredState
        /\ [low EXCEPT !.swapType = "Reject"] \in StoredState
    BY <1>2 DEF StoredState
  <2> QED
    BY <1>2, <2>1 DEF Swapped
<1>4. PICK a \in StoredState, b \in StoredState : a = after[1] /\ b = after[2]
  BY <1>3
<1>5. /\ cache' = [cache EXCEPT ![c] = WithLast(@, a), ![c + 1] = WithLast(@, b)]
      /\ allStates' = [allStates EXCEPT ![c] = WithLast(@, a), ![c + 1] = WithLast(@, b)]
  BY <1>4 DEF swap
<1> HIDE DEF low, high, after
<1>6. ASSUME NEW d \in ChainId
      PROVE  /\ cache'[d] \in Seq(StoredState) /\ allStates'[d] \in Seq(StoredState)
             /\ Len(cache'[d]) = Len(cache[d]) /\ Len(allStates'[d]) = Len(allStates[d])
             /\ \A s \in StackId : coldest(s) = d => file[s] \o cache'[d] = allStates'[d]
             /\ cache'[d] = <<>> => allStates'[d] = <<>>
  <2>1. CASE d # c /\ d # c + 1
    BY <1>1, <1>5, <2>1 DEF StoreInv, StoreTypeOK, FileThenCacheIsHistory
  <2>2. CASE d = c \/ d = c + 1
    <3>1. PICK x \in StoredState : x = IF d = c THEN a ELSE b
      OBVIOUS
    <3>2. cache'[d] = WithLast(cache[d], x) /\ allStates'[d] = WithLast(allStates[d], x)
      BY <1>1, <1>5, <2>2, <3>1
    <3>3. /\ cache[d] \in Seq(StoredState) /\ cache[d] # <<>>
          /\ allStates[d] \in Seq(StoredState)
          /\ Len(cache[d]) \in Nat \ {0} /\ lengthOnDisk[d] \in Nat
      BY <1>1, <2>2, EmptySeq
    <3>4. allStates[d] # <<>>
      BY <3>3, EmptySeq DEF StoreInv, LengthCountsAllStates
    <3>5. /\ cache'[d] \in Seq(StoredState) /\ allStates'[d] \in Seq(StoredState)
          /\ cache'[d] # <<>>
          /\ Len(cache'[d]) = Len(cache[d]) /\ Len(allStates'[d]) = Len(allStates[d])
      <4> DEFINE q == cache[d]
                 h == allStates[d]
      <4>1. q \in Seq(StoredState) /\ q # <<>> /\ h \in Seq(StoredState) /\ h # <<>>
        BY <3>3, <3>4
      <4> HIDE DEF q, h
      <4>2. /\ WithLast(q, x) \in Seq(StoredState) /\ WithLast(q, x) # <<>>
            /\ Len(WithLast(q, x)) = Len(q)
            /\ WithLast(h, x) \in Seq(StoredState) /\ Len(WithLast(h, x)) = Len(h)
        BY <4>1, WithLastProperties
      <4> QED
        BY <3>2, <4>2 DEF q, h
    <3>6. ASSUME NEW s \in StackId, coldest(s) = d
          PROVE  file[s] \o cache'[d] = allStates'[d]
      <4>1. file[s] \in Seq(StoredState) /\ file[s] \o cache[d] = allStates[d]
        BY <1>1, <3>6 DEF StoreInv, FileThenCacheIsHistory
      <4> DEFINE f == file[s]
                 q == cache[d]
      <4>2. f \in Seq(StoredState) /\ q \in Seq(StoredState) /\ q # <<>>
        BY <3>3, <4>1
      <4> HIDE DEF f, q
      <4>3. f \o WithLast(q, x) = WithLast(f \o q, x)
        BY <4>2, WithLastOfEnd
      <4> QED
        BY <3>2, <4>1, <4>3 DEF f, q
    <3> QED
      BY <3>5, <3>6
  <2> QED
    BY <2>1, <2>2
<1>7. cache' \in [ChainId -> Seq(StoredState)] /\ allStates' \in [ChainId -> Seq(StoredState)]
  <2>1. /\ cache' = [d \in ChainId |-> cache'[d]]
        /\ allStates' = [d \in ChainId |-> allStates'[d]]
    BY <1>1, <1>5
  <2> QED
    BY <1>6, <2>1
<1>8. StoreTypeOK'
  BY <1>1, <1>6, <1>7 DEF StoreInv, StoreTypeOK
<1>9. LengthCountsAllStates'
  BY <1>1, <1>6 DEF StoreInv, LengthCountsAllStates
<1>10. FileThenCacheIsHistory'
  BY <1>1, <1>6, ColdestIsChain DEF StoreInv, FileThenCacheIsHistory
<1> QED
  BY <1>8, <1>9, <1>10 DEF StoreInv

\* Flush and Close write what is in memory.
LEMMA FlushAndCloseKeep ==
    ASSUME StoreInv, Flush \/ Close
    PROVE  StoreInv'
<1>1. /\ FlushAll(cache) /\ open /\ open' \in BOOLEAN /\ UNCHANGED <<scale, allStates>>
  BY DEF Flush, Close
<1>2. PICK kept : kept = cache
  OBVIOUS
<1>3. PICK h : h = allStates
  OBVIOUS
<1>4. Fits(kept, h)
  BY <1>2, <1>3 DEF Fits, StoreInv, StoreTypeOK, LengthCountsAllStates, FileThenCacheIsHistory
<1>5. /\ lengthOnDisk' \in [ChainId -> Nat] /\ file' \in [StackId -> Seq(StoredState)]
      /\ Fits(cache, allStates)'
  BY <1>1, <1>2, <1>3, <1>4, FlushAllKeeps DEF StoreInv
<1> QED
  BY <1>1, <1>5
     DEF StoreInv, Fits, StoreTypeOK, LengthCountsAllStates, FileThenCacheIsHistory

-----------------------------------------------------------------------------
(* The theorems *)

LEMMA StoreStarts == StoreIdle => StoreInv
<1> SUFFICES ASSUME StoreIdle PROVE StoreInv
  OBVIOUS
<1>1. /\ cache = [c \in ChainId |-> <<>>] /\ allStates = [c \in ChainId |-> <<>>]
      /\ lengthOnDisk = [c \in ChainId |-> 0] /\ file = [s \in StackId |-> <<>>]
      /\ scale \in [ChainId -> Scale] /\ open = TRUE
  BY DEF StoreIdle
<1>2. StoreTypeOK
  BY <1>1 DEF StoreTypeOK
<1>3. LengthCountsAllStates
  BY <1>1, EmptySeq DEF LengthCountsAllStates
<1>4. FileThenCacheIsHistory
  <2> SUFFICES ASSUME NEW s \in StackId
               PROVE  file[s] \o cache[coldest(s)] = allStates[coldest(s)]
    BY <1>1 DEF FileThenCacheIsHistory
  <2>1. file[s] = <<>> /\ cache[coldest(s)] = <<>> /\ allStates[coldest(s)] = <<>>
    BY <1>1, ColdestIsChain
  <2>2. <<>> \o <<>> = <<>>
    BY EmptySeq, ConcatEmptySeq
  <2> QED
    BY <2>1, <2>2
<1> QED
  BY <1>2, <1>3, <1>4 DEF StoreInv

LEMMA StoreNextKeeps == StoreInv /\ [StoreNext]_storeVars => StoreInv'
<1> SUFFICES ASSUME StoreInv, [StoreNext]_storeVars PROVE StoreInv'
  OBVIOUS
<1>1. ASSUME NEW c \in ChainId, NEW x \in Scale, SetScale(c, x) PROVE StoreInv'
  <2>1. scale' \in [ChainId -> Scale]
    BY <1>1 DEF SetScale, StoreInv, StoreTypeOK
  <2> QED
    BY <1>1, <2>1, StoredUnchangedKeeps DEF SetScale
<1>2. ASSUME NEW c \in ChainId, NEW x \in Scale, NEW p \in Point, Initialise(c, p, x)
      PROVE  StoreInv'
  BY <1>2, InitialiseKeeps
<1>3. ASSUME NEW c \in ChainId, NEW p \in Point, NEW accepted \in BOOLEAN,
             AppendState(c, p, accepted)
      PROVE  StoreInv'
  BY <1>3, AppendStateKeeps
<1>4. ASSUME NEW c \in ChainId, NEW swapped \in BOOLEAN, c + 1 \in ChainId, swap(c, swapped)
      PROVE  StoreInv'
  BY <1>4, SwapKeeps
<1>5. CASE Flush \/ Close
  BY <1>5, FlushAndCloseKeep
<1>6. CASE UNCHANGED storeVars
  <2>1. scale' \in [ChainId -> Scale]
    BY <1>6 DEF storeVars, StoreInv, StoreTypeOK
  <2> QED
    BY <1>6, <2>1, StoredUnchangedKeeps DEF storeVars
<1> QED
  BY <1>1, <1>2, <1>3, <1>4, <1>5, <1>6 DEF StoreNext

\* The other parts of the system leave the store alone.
LEMMA StoreInvariance == Spec => []StoreInv
<1> DEFINE allVars == <<running, routingVars, schedulingVars, proposalVars, adaptationVars,
                        statisticsVars, storeVars>>
<1>1. Init => StoreInv
  BY StoreStarts DEF Init
<1>2. StoreInv /\ [Next]_allVars => StoreInv'
  BY StoreNextKeeps
     DEF Next, RoutingRuns, SchedulingRuns, ProposalsRun, AdaptationRuns, StatisticsRun,
         ChainArrayRuns
<1> QED
  BY <1>1, <1>2, PTL DEF Spec

\* Every member of the store keeps its type, and a chain that has a state has its last
\* one in memory, where lastState and swap look for it (chainarray.cpp:157-189).
THEOREM TypeIsKept == Spec => []StoreTypeOK
<1>1. StoreInv => StoreTypeOK
  BY DEF StoreInv
<1> QED
  BY <1>1, StoreInvariance, PTL

\* length(id) is the number of states the chain has had, whatever flushes have moved to
\* disk (chainarray.cpp:88-92, 131-155).
THEOREM LengthIsExact == Spec => []LengthCountsAllStates
<1>1. StoreInv => LengthCountsAllStates
  BY DEF StoreInv
<1> QED
  BY <1>1, StoreInvariance, PTL

\* A stack's file, continued by what is in memory, is the history of its coldest chain:
\* no state is lost, repeated or written before it is final (chainarray.cpp:131-189).
THEOREM NoStateLost == Spec => []FileThenCacheIsHistory
<1>1. StoreInv => FileThenCacheIsHistory
  BY DEF StoreInv
<1> QED
  BY <1>1, StoreInvariance, PTL
=============================================================================
