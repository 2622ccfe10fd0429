CONSTANTS
    Updaters = {u1, u2, u3}
    Tuples = {s1}
    MaxRedo = 1
SPECIFICATION RecSpec
INVARIANT ReplayFindsTuples
