CONSTANT Stores = {s1, s2, s3}
SPECIFICATION CycleFairSpec
INVARIANT CycleInv
PROPERTY LoopGoesOn
