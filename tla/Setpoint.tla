-------------------------------- MODULE Setpoint ---------------------------------
(*****************************************************************************)
(* The setpoint on its way to the cooler and back (commands.py, decoder.py): *)
(* a whole number of degrees in the unit of the display, in one signed byte. *)
(*****************************************************************************)
EXTENDS Integers, TLAPS

SETPOINT_CELSIUS == -20..20
Units == {"C", "F"}

\* round(n / d) for an odd d: there is no half to decide about.
Rounded(n, d) == (2 * n + d) \div (2 * d)

to_display(celsius, unit) == IF unit = "F" THEN Rounded(9 * celsius + 160, 5) ELSE celsius
from_display(value, unit) == IF unit = "F" THEN Rounded(5 * (value - 32), 9) ELSE value

\* to_bytes and from_bytes, both signed.
Byte(value) == IF value < 0 THEN value + 256 ELSE value
Signed(byte) == IF byte >= 128 THEN byte - 256 ELSE byte

Frame(celsius, unit) == Byte(to_display(celsius, unit))

\* What the next state report says of a setpoint, in the unit it is displayed in.
Reported(byte, unit) == from_display(Signed(byte), unit)

\* Command.applied
Applied(celsius, reported) == reported = celsius

-----------------------------------------------------------------------------

\* Every setpoint that may be asked for fits the byte it is written in.
THEOREM FitsItsByte ==
    \A c \in SETPOINT_CELSIUS, u \in Units :
        /\ to_display(c, u) \in -128..127
        /\ Frame(c, u) \in 0..255
<1> SUFFICES ASSUME NEW c \in SETPOINT_CELSIUS, NEW u \in Units
             PROVE  to_display(c, u) \in -128..127 /\ Frame(c, u) \in 0..255
    OBVIOUS
<1>1. to_display(c, u) \in -128..127
    BY DEF SETPOINT_CELSIUS, Units, to_display, Rounded
<1>2. Frame(c, u) \in 0..255
    BY <1>1 DEF Frame, Byte
<1> QED BY <1>1, <1>2

\* "a setpoint that was written must be recognised again in the next state report"
\* (from_display): in either unit, the value that comes back is the one that went out.
THEOREM WrittenIsRecognised ==
    \A c \in SETPOINT_CELSIUS, u \in Units : Applied(c, Reported(Frame(c, u), u))
<1> SUFFICES ASSUME NEW c \in SETPOINT_CELSIUS, NEW u \in Units
             PROVE  Reported(Frame(c, u), u) = c
    BY DEF Applied
<1>1. to_display(c, u) \in -128..127 /\ Signed(Frame(c, u)) = to_display(c, u)
    BY FitsItsByte DEF Frame, Byte, Signed
<1>2. CASE u = "C"
    BY <1>1, <1>2 DEF Reported, to_display, from_display
<1>3. CASE u = "F"
  <2>1. c \in Int /\ -20 <= c /\ c <= 20
      BY DEF SETPOINT_CELSIUS
  <2>2. to_display(c, u) = (18 * c + 325) \div 10
      BY <1>3, <2>1 DEF to_display, Rounded
  <2>3. Reported(Frame(c, u), u) = (10 * (to_display(c, u) - 32) + 9) \div 18
      BY <1>1, <1>3 DEF Reported, from_display, Rounded
  <2> QED BY <2>1, <2>2, <2>3
<1> QED BY <1>2, <1>3 DEF Units

\* The unit is the one of the last report, and a hand may have switched the display
\* since (Link._accept): what the cooler then takes for its setpoint is never reported
\* as the value that was asked for, so no such command is called applied.
THEOREM SwitchedIsNotApplied ==
    \A c \in SETPOINT_CELSIUS, u, v \in Units :
        u # v => ~Applied(c, Reported(Frame(c, u), v))
<1> SUFFICES ASSUME NEW c \in SETPOINT_CELSIUS, NEW u \in Units, NEW v \in Units, u # v
             PROVE  Reported(Frame(c, u), v) # c
    BY DEF Applied
<1>1. to_display(c, u) \in -128..127 /\ Signed(Frame(c, u)) = to_display(c, u)
    BY FitsItsByte DEF Frame, Byte, Signed
<1>2. c \in Int /\ -20 <= c /\ c <= 20
    BY DEF SETPOINT_CELSIUS
<1>3. CASE u = "F" /\ v = "C"
  <2>1. Reported(Frame(c, u), v) = (18 * c + 325) \div 10
      BY <1>1, <1>2, <1>3 DEF Reported, from_display, to_display, Rounded
  <2> QED BY <1>2, <2>1
<1>4. CASE u = "C" /\ v = "F"
  <2>1. Reported(Frame(c, u), v) = (10 * (c - 32) + 9) \div 18
      BY <1>1, <1>2, <1>4 DEF Reported, from_display, to_display, Rounded
  <2> QED BY <1>2, <2>1
<1> QED BY <1>3, <1>4 DEF Units
==================================================================================
