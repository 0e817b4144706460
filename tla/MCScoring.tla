----------------------------- MODULE MCScoring -----------------------------
EXTENDS Scoring

CONSTANTS th1, th2

Payment(signals, sampled, sanctioned, amount) ==
  [signals |-> signals, sampled |-> sampled, sanctioned |-> sanctioned, amount |-> amount]

MCThreads == {th1, th2}

(* Clean, sampled, weakly flagged, corroborated, sanctioned and over the cap. *)
MCTransactions ==
  {Payment(<<>>, FALSE, FALSE, 1), Payment(<<>>, TRUE, FALSE, 1),
   Payment(<<1>>, FALSE, FALSE, 1), Payment(<<2, 2>>, FALSE, FALSE, 1),
   Payment(<<>>, FALSE, TRUE, 1), Payment(<<2>>, FALSE, FALSE, 2)}
=============================================================================
