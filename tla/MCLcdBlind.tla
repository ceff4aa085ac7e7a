----------------------------- MODULE MCLcdBlind -----------------------------
(* LcdBlind on lcd_w_ram.s, with the execution times of the LCD.            *)
EXTENDS LcdBlind

Characters(s) == [i \in 1 .. Len(s) |-> <<1, s[i]>>]

(* Lines 25-67: "Hello, world!" after four instructions.                    *)
HelloScript == <<<<0, 56>>, <<0, 14>>, <<0, 6>>, <<0, 1>>>> \o
    Characters(<<72, 101, 108, 108, 111, 44, 32, 119, 111, 114, 108, 100, 33>>)

(* Microseconds: clear takes up to 1520, the rest up to 37; a cycle *)
(* of 51 is just slow enough.                                              *)
UpToClear == {1, 1520}
UpToOther == {1, 37}
SlowClock == {51}
=============================================================================
