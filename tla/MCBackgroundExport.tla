------------------------ MODULE MCBackgroundExport ------------------------
(* Instances of BackgroundExport for TLC.                                   *)
EXTENDS BackgroundExport, TLC

CONSTANTS t1, t2, w1, w2

TwoTabs == {t1, t2}
TwoRunners == {w1, w2}
Same == Permutations(TwoTabs) \cup Permutations(TwoRunners)
===========================================================================
