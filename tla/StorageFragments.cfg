\* Five bulks: three fragments may be in the hands of workers at a time.
SPECIFICATION FairSpec
CONSTANT Last = 4
INVARIANTS NothingLost NoneLeftToMerge ResultWhole
PROPERTIES CommitEnds
