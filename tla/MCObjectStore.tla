---------------------------- MODULE MCObjectStore ----------------------------
(* Model-checking instance of ObjectStore: bucket names "a" and "ab" (an   *)
(* extension of "a"), object keys "a" and "b", prefixes "" and "a"; the    *)
(* *Nul sets add names holding a NUL byte, which validation rejects.       *)
EXTENDS ObjectStore, TLC

MCBuckets == {<<97>>, <<97, 98>>}
MCNoBuckets == {}
MCBucketsNul == {<<97>>, <<97, 98>>, <<97, 0>>}
MCKeys == {<<97>>, <<98>>}
MCKeysNul == {<<97>>, <<97, 0>>}
MCPrefixes == {<<>>, <<97>>}
MCPrefixesNul == {<<>>, <<97>>, <<0>>}
MCPrefixesB == {<<>>, <<98>>}
MCMaxKeys == {0, 1}
MCMaxKeysOne == {1}
MCPrefixesEmpty == {<<>>}
MCPrefixesEmptyNul == {<<>>, <<0>>}
MCOpsAll == AllOps
MCOpsListing == {"PutObject", "DeleteObject", "ListObjects"}
MCOpsBucketLifecycle == AllOps \ {"ListObjects"}
MCOpsNoObjectDelete == {"DeleteBucket", "PutObject", "ListObjects"}
MCOpsGet == {"PutObject", "GetObject"}
MCOpsBucketRace == {"DeleteBucket", "PutObject"}
MCBucketA == {<<97>>}

\* The default options, and --disable_wal with --sync.
MCWriteOptionsDefault == {[disableWAL |-> FALSE, sync |-> FALSE]}
MCWriteOptionsSyncNoWal == {[disableWAL |-> FALSE, sync |-> FALSE],
                            [disableWAL |-> TRUE, sync |-> TRUE]}

MCSymmetry == Permutations(Threads) \cup Permutations(Data)
=============================================================================
