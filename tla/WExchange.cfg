SPECIFICATION FairSpec
CONSTANT Sizes <- SmallSizes
INVARIANTS MatricesMatch EveryPairOnce
PROPERTY AllComputed
CHECK_DEADLOCK FALSE
