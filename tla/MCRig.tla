------------------------------- MODULE MCRig --------------------------------
(* Rig with a short script and the execution times of the LCD.              *)
EXTENDS Rig

ShortScript == <<<<0, 56>>, <<0, 1>>, <<1, 72>>>>
OfClear == {1520}
OfOther == {1, 37}
SketchClock == {2 * CLK_DELAY_US, 4 * CLK_DELAY_US}
=============================================================================
