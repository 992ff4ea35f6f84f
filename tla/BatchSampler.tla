---------------------------- MODULE BatchSampler ----------------------------
(***************************************************************************)
(* strategies/batch_sampler.py: the epoch-shuffled minibatch sampler as     *)
(* operators on a record of its checkpointed state.  The permutation a      *)
(* refresh draws is an argument: the caller owns the random stream.  The    *)
(* training set does not change, so its recorded size differs from the real *)
(* one exactly while no permutation was drawn.                              *)
(***************************************************************************)
EXTENDS Integers, Sequences

CONSTANTS TrainIds,      \* the ids of the training set
          TrainSize,     \* how many there are
          MinibatchSize  \* minibatch_size

ASSUME SamplerAssumption ==
    /\ TrainSize \in Nat \ {0}
    /\ MinibatchSize \in Nat \ {0}

NoIteration == -1

NewSampler == [ids |-> <<>>, epoch |-> -1, iteration |-> NoIteration, calls |-> 0]

PadSize == (MinibatchSize - (TrainSize % MinibatchSize)) % MinibatchSize
EpochLength == TrainSize + PadSize

\* Padding repeats the least frequent id, the last in the permutation first.
Padded(perm) ==
    [k \in 1..EpochLength |->
        IF k <= TrainSize THEN perm[k]
        ELSE perm[TrainSize - ((k - TrainSize - 1) % TrainSize)]]

CurrentEpoch(s, i) ==
    IF s.epoch = -1 THEN 0
    ELSE (i * MinibatchSize) \div Len(s.ids)

NeedsRefreshMutant(s, i) == s.ids = <<>> \/ CurrentEpoch(s, i) >= s.epoch
NeedsRefresh(s, i) == s.ids = <<>> \/ CurrentEpoch(s, i) > s.epoch

Refreshed(s, i, perm) ==
    [s EXCEPT !.ids = Padded(perm), !.epoch = CurrentEpoch(s, i)]

\* A repeated call in one iteration takes the next chunk.
Called(s, i) ==
    [s EXCEPT !.calls = IF i = s.iteration THEN @ + 1 ELSE 0, !.iteration = i]

\* The state after n more calls in the same iteration; they never refresh.
Repeated(s, n) == [s EXCEPT !.calls = @ + n]

Minibatch(s, i) ==
    LET base == ((i + s.calls) * MinibatchSize) % Len(s.ids)
    IN  SubSeq(s.ids, base + 1, base + MinibatchSize)
=============================================================================
