---------------------------- MODULE MCFsrsCards ----------------------------
(* Overlapping requests on two words.                                      *)
EXTENDS FsrsCards, TLC

MCWords     == {1, 2}
MCWordOrder == <<1, 2>>

\* A lapse, and two batches that touch the words in opposite orders.
MCBatches ==
    {<<[word |-> 1, again |-> TRUE]>>,
     <<[word |-> 1, again |-> FALSE], [word |-> 2, again |-> FALSE]>>,
     <<[word |-> 2, again |-> FALSE], [word |-> 1, again |-> FALSE]>>}

MCInitLists == {<<[word |-> 1, again |-> FALSE], [word |-> 2, again |-> FALSE]>>}

\* No action and no safety property tells one request from another.
Symmetry == Permutations(Requests)
=============================================================================
