---------------------------- MODULE MCLcdDriver -----------------------------
(* LcdDriver on the string of prog.s, as two builds lay out the image.      *)
EXTENDS LcdDriver

(* "Hello, world!" and the terminator .asciiz appends (line 53). *)
Message == <<72, 101, 108, 108, 111, 44, 32, 119, 111, 114, 108, 100, 33, 0>>
MessageLen == Len(Message) - 1

(* The bytes of the image from message on.  The code that follows the       *)
(* string (message + 14 .. message + 67) starts with PHA ($48 = 72), which  *)
(* stands for all of it: no walk that begins at $ff passes the terminator.  *)
Image(fill) ==
    [i \in Byte |-> IF i <= MessageLen THEN Message[i + 1]
                    ELSE IF i < 68 THEN 72 ELSE fill]

(* What roms/Makefile builds: the gap up to $fffc is filled with zeros.     *)
BuiltPage == Image(0)

(* The same program in an image whose gap is filled with $ff, the value of  *)
(* an erased EEPROM cell.                                                   *)
ErasedPage == Image(255)

(* prog.s:45 says of the branch that ends the print loop "we are at the     *)
(* null end line char in our string": the loop ends at the terminator.      *)
EndsAtTerminator == pc = "loop" => x = MessageLen
=============================================================================
