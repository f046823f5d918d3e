----------------------------- MODULE ChainArray -----------------------------
(***************************************************************************)
(* The chain store (src/infer/chainarray.cpp) and the CSV files it writes  *)
(* (src/db/db.cpp).  The newest states of every chain are in memory; a     *)
(* flush moves all but the last of them out, to the stack's file if the    *)
(* chain is the coldest of its stack.  A swap edits last states in place.  *)
(*                                                                         *)
(* A sample and its energy travel together and are one point; sigma and    *)
(* beta change together as far as the store can tell and are one scale.    *)
(* What is accepted depends on energies and chance, and may be either.     *)
(***************************************************************************)
EXTENDS Integers, SequencesExt

CONSTANTS nstacks,      \* nstacks_: number of stacks
          ntemps,       \* ntemps_: chains per stack
          Point,        \* the samples, with their energies
          Scale,        \* the values of (sigma, beta)
          MaxLength     \* bound: MaxLength[c] states of chain c

ASSUME ChainArrayAssumption ==
    /\ nstacks \in Nat \ {0} /\ ntemps \in Nat \ {0}
    /\ MaxLength \in [0..(nstacks * ntemps - 1) -> Nat]

ChainId == 0..(nstacks * ntemps - 1)
StackId == 0..(nstacks - 1)

VARIABLES
    cache,        \* cache_[c]: the states of chain c in memory
    lengthOnDisk, \* lengthOnDisk_[c]
    file,         \* file[s]: the lines of the CSV file of stack s
    scale,        \* sigma_[c] and beta_[c]
    open,         \* FALSE once the destructor has run
    allStates     \* allStates[c]: all states of chain c, for the properties only

storeVars == <<cache, lengthOnDisk, file, scale, open, allStates>>

StoredState == [point : Point, scale : Scale, accepted : BOOLEAN,
                swapType : {"NoAttempt", "Accept", "Reject"}]

isColdestInStack(c) == c % ntemps = 0
coldest(s) == s * ntemps

WithLast(q, x) == ReplaceAt(q, Len(q), x)

-----------------------------------------------------------------------------
\* The constructor, which truncates the files.
StoreIdle ==
    /\ cache = [c \in ChainId |-> <<>>]
    /\ lengthOnDisk = [c \in ChainId |-> 0]
    /\ file = [s \in StackId |-> <<>>]
    /\ scale \in [ChainId -> Scale]
    /\ open = TRUE
    /\ allStates = [c \in ChainId |-> <<>>]

\* Mutant of FlushAll: nothing stays in memory.
FlushEverything(kept) ==
    /\ cache' = [c \in ChainId |-> <<>>]
    /\ lengthOnDisk' = [c \in ChainId |-> lengthOnDisk[c] + Len(kept[c])]
    /\ file' = [s \in StackId |-> file[s] \o kept[coldest(s)]]

\* Mutant of FlushAll: the state that stays in memory is written and counted too.
FlushTwice(kept) ==
    /\ cache' = [c \in ChainId |->
                    IF kept[c] = <<>> THEN <<>> ELSE <<Last(kept[c])>>]
    /\ lengthOnDisk' = [c \in ChainId |-> lengthOnDisk[c] + Len(kept[c])]
    /\ file' = [s \in StackId |-> file[s] \o kept[coldest(s)]]

\* flushToDisk for every chain, with c's cache being kept[c] by then.  A chain
\* that has no states is left alone; the last state stays in memory.
FlushAll(kept) ==
    /\ cache' = [c \in ChainId |->
                    IF kept[c] = <<>> THEN <<>> ELSE <<Last(kept[c])>>]
    /\ lengthOnDisk' = [c \in ChainId |->
                    IF kept[c] = <<>> THEN lengthOnDisk[c]
                                      ELSE lengthOnDisk[c] + Len(kept[c]) - 1]
    /\ file' = [s \in StackId |->
                    LET written == kept[coldest(s)]
                    IN  IF written = <<>> THEN file[s]
                        ELSE file[s] \o Front(written)]

Initialise(c, p, x) ==
    LET first == [point |-> p, scale |-> x, accepted |-> TRUE, swapType |-> "NoAttempt"] IN
    /\ open
    /\ allStates[c] = <<>>
    /\ scale' = [scale EXCEPT ![c] = x]
    /\ cache' = [cache EXCEPT ![c] = Append(@, first)]
    /\ allStates' = [allStates EXCEPT ![c] = Append(@, first)]
    /\ UNCHANGED <<lengthOnDisk, file, open>>

\* setSigma, setBeta
SetScale(c, x) ==
    /\ open
    /\ scale' = [scale EXCEPT ![c] = x]
    /\ UNCHANGED <<cache, lengthOnDisk, file, open, allStates>>

\* The state append adds for the proposal p: p itself, or the last state again.
NextState(c, p, accepted) ==
    IF accepted
    THEN [point |-> p, scale |-> scale[c], accepted |-> TRUE, swapType |-> "NoAttempt"]
    ELSE [Last(cache[c]) EXCEPT !.accepted = FALSE, !.swapType = "NoAttempt"]

\* append; every flushTime seconds it flushes all the chains.
AppendState(c, p, accepted) ==
    LET grown == [cache EXCEPT ![c] = Append(@, NextState(c, p, accepted))] IN
    /\ open
    /\ cache[c] # <<>>
    /\ Len(allStates[c]) < MaxLength[c]
    /\ \/ FlushAll(grown)
       \/ cache' = grown /\ UNCHANGED <<lengthOnDisk, file>>
    /\ allStates' = [allStates EXCEPT ![c] = Append(@, NextState(c, p, accepted))]
    /\ UNCHANGED <<scale, open>>

\* What swap makes of the last states low and high: point and acceptance change
\* places, scales stay, and only the colder chain notes the swap.
Swapped(low, high) ==
    <<[low  EXCEPT !.point = high.point, !.accepted = high.accepted, !.swapType = "Accept"],
      [high EXCEPT !.point = low.point,  !.accepted = low.accepted]>>

\* swap(c, c + 1) within a stack.
swap(c, swapped) ==
    LET low   == Last(cache[c])
        high  == Last(cache[c + 1])
        after == IF swapped THEN Swapped(low, high)
                            ELSE <<[low EXCEPT !.swapType = "Reject"], high>>
        Edit(f) == [f EXCEPT ![c]     = WithLast(@, after[1]),
                             ![c + 1] = WithLast(@, after[2])]
    IN  /\ open
        /\ cache[c] # <<>> /\ cache[c + 1] # <<>>
        /\ cache' = Edit(cache)
        /\ allStates' = Edit(allStates)
        /\ UNCHANGED <<lengthOnDisk, file, scale, open>>

\* Sampler::flush ends with flushToDisk on every chain.
Flush ==
    /\ open
    /\ FlushAll(cache)
    /\ UNCHANGED <<scale, open, allStates>>

\* The destructor flushes as well.
Close ==
    /\ open
    /\ FlushAll(cache)
    /\ open' = FALSE
    /\ UNCHANGED <<scale, allStates>>

StoreNext ==
    \/ \E c \in ChainId, x \in Scale :
          \/ SetScale(c, x)
          \/ \E p \in Point : Initialise(c, p, x)
    \/ \E c \in ChainId, p \in Point, accepted \in BOOLEAN : AppendState(c, p, accepted)
    \/ \E c \in ChainId, swapped \in BOOLEAN :
          c + 1 \in ChainId /\ ~isColdestInStack(c + 1) /\ swap(c, swapped)
    \/ Flush
    \/ Close

-----------------------------------------------------------------------------
(* Properties *)

\* Every variable has the type of the member it stands for, and a chain that has
\* a state keeps its last one in memory, where lastState and swap look for it.
StoreTypeOK ==
    /\ cache \in [ChainId -> Seq(StoredState)]
    /\ lengthOnDisk \in [ChainId -> Nat]
    /\ file \in [StackId -> Seq(StoredState)]
    /\ scale \in [ChainId -> Scale]
    /\ open \in BOOLEAN
    /\ allStates \in [ChainId -> Seq(StoredState)]
    /\ \A c \in ChainId : cache[c] = <<>> => allStates[c] = <<>>

\* length(c) counts every state of the chain, wherever flushes have put it: the
\* swap interval (sampler.cpp:190) is measured by it.
LengthCountsAllStates ==
    \A c \in ChainId : lengthOnDisk[c] + Len(cache[c]) = Len(allStates[c])

\* A stack's file followed by the cache of its coldest chain is the history of
\* that chain: no flush, whenever it comes, drops a state, repeats one or writes
\* one that a swap still changes.
FileThenCacheIsHistory ==
    \A s \in StackId : file[s] \o cache[coldest(s)] = allStates[coldest(s)]

\* What README.md:529 promises, "Stateline will record all the samples": once the store
\* is closed, the file of a stack has every state of its coldest chain.
AllSamplesRecorded ==
    ~open => \A s \in StackId : file[s] = allStates[coldest(s)]
=============================================================================
