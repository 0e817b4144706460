------------------------- MODULE MCFeedBroadcaster -------------------------
(* Model values for the runs of FeedBroadcaster. *)
EXTENDS FeedBroadcaster

\* All three sets are used only through equality and membership.
Symmetry == Permutations(Flagged) \cup Permutations(Allows) \cup Permutations(Sessions)
=============================================================================
