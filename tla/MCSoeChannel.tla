----------------------------- MODULE MCSoeChannel -----------------------------
(* SoeChannel on small instances: the client is the remote end.              *)
EXTENDS SoeChannel

CONSTANTS m1, m2

\* What each side says: data independence makes one script of different
\* messages stand for all.
NoMessages == <<>>
TwoMessages == <<m1, m2>>
ThreeMessages == <<m1, m2, m1>>
=============================================================================
