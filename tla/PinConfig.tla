------------------------------ MODULE PinConfig ------------------------------
(***************************************************************************)
(* The GPIO program of lesson_10/01_pin_config: it maps the registers of   *)
(* the AM335x, sets the multiplexer and the direction of GPIO1_28 and      *)
(* blinks it, while the kernel and other programs use the other pins of    *)
(* the bank (01_pin_config.c). A register is the set of its bits that are  *)
(* set: pins for OE and DATAOUT, bit numbers for the multiplexer. How long *)
(* the pin stays high or low is left out.                                  *)
(***************************************************************************)
EXTENDS Naturals

CONSTANTS pin,      \* P9_12_GPIO_PIN
          Others    \* the other pins of the bank

GPIO_MODE == {0, 1, 2}     \* mode 7, bits 0-2
RXACTIVE == 5              \* input buffer
PULLTYPE == 4              \* the bit of line 117
MuxBits == 0 .. 6

\* Cycles of the three blink patterns of main and of the S, O and S of
\* sos_pattern.
Cycles == 5 + 10 + 3 + 3 + 3 + 3

VARIABLES at,           \* where main is
          cycle,        \* blink cycles that are over
          mux, OE, DATAOUT,  \* the registers
          reg_value,    \* the value main loaded from a register
          wishOE, wishOUT,   \* history: what the others set their pins to
          raced         \* history: somebody wrote OE while main held a copy

vars == <<at, cycle, mux, OE, DATAOUT, reg_value, wishOE, wishOUT, raced>>

TypeOK == /\ at \in {"map", "mux", "muxStore", "dir", "dirStore", "on", "off", "last",
                     "unmap", "done", "failed"}
          /\ cycle \in 0 .. Cycles
          /\ mux \subseteq MuxBits
          /\ OE \subseteq Others \cup {pin} /\ DATAOUT \subseteq Others \cup {pin}
          /\ reg_value \subseteq MuxBits \cup Others \cup {pin}
          /\ wishOE \subseteq Others /\ wishOUT \subseteq Others
          /\ raced \in BOOLEAN

Init == /\ at = "map" /\ cycle = 0
        /\ mux \in {{0, 1, 2, 5}, {4}}
        /\ OE \in SUBSET (Others \cup {pin}) /\ DATAOUT = {}
        /\ reg_value = {} /\ raced = FALSE
        /\ wishOE = OE \ {pin} /\ wishOUT = {}

theirs == <<wishOE, wishOUT, raced>>
Go(from, to) == at = from /\ at' = to
-----------------------------------------------------------------------------
\* Not root, /dev/mem cannot be opened or a region cannot be mapped.
map_memory == /\ Go("map", "mux") \/ Go("map", "failed")
              /\ UNCHANGED <<cycle, mux, OE, DATAOUT, reg_value, theirs>>

\* configure_pin(map, P9_12_PINMUX_OFFSET, 7): a load and a store.
configure_pin == /\ \/ Go("mux", "muxStore") /\ reg_value' = mux /\ UNCHANGED mux
                    \/ /\ Go("muxStore", "dir")
                       /\ mux' = (reg_value \ {0, 1, 2}) \cup GPIO_MODE \cup {RXACTIVE, PULLTYPE}
                       /\ UNCHANGED reg_value
                 /\ UNCHANGED <<cycle, OE, DATAOUT, theirs>>

\* configure_gpio_direction(..., GPIO_OUTPUT): the whole register is stored.
configure_gpio_direction ==
    /\ \/ Go("dir", "dirStore") /\ reg_value' = OE /\ UNCHANGED OE
       \/ Go("dirStore", "on") /\ OE' = reg_value \ {pin} /\ UNCHANGED reg_value
    /\ UNCHANGED <<cycle, mux, DATAOUT, theirs>>

\* Mutant: the value is written to DATAOUT, not to the set and clear registers.
set_dataout(value) == DATAOUT' = IF value = 1 THEN {pin} ELSE {}

\* GPIO_SETDATAOUT and GPIO_CLEARDATAOUT change the bits that are written as 1.
set_gpio_value(value) == DATAOUT' = IF value = 1 THEN DATAOUT \cup {pin} ELSE DATAOUT \ {pin}

\* The cycles of blink_pattern and sos_pattern.
Blink == /\ \/ Go("on", "off") /\ set_gpio_value(1) /\ UNCHANGED cycle
            \/ /\ Go("off", IF cycle + 1 = Cycles THEN "last" ELSE "on")
               /\ set_gpio_value(0) /\ cycle' = cycle + 1
         /\ UNCHANGED <<mux, OE, reg_value, theirs>>

\* The pin is cleared once more before the program unmaps and ends.
LedOff == /\ Go("last", "unmap") /\ set_gpio_value(0)
          /\ UNCHANGED <<cycle, mux, OE, reg_value, theirs>>

unmap_memory == /\ Go("unmap", "done")
                /\ UNCHANGED <<cycle, mux, OE, DATAOUT, reg_value, theirs>>

\* Another user of the bank changes the direction or the output of its pin.
OtherDirection(q) == /\ OE' = IF q \in OE THEN OE \ {q} ELSE OE \cup {q}
                     /\ wishOE' = OE' \ {pin}
                     /\ raced' = (raced \/ at = "dirStore")
                     /\ UNCHANGED <<at, cycle, mux, DATAOUT, reg_value, wishOUT>>
OtherOutput(q) == /\ DATAOUT' = IF q \in DATAOUT THEN DATAOUT \ {q} ELSE DATAOUT \cup {q}
                  /\ wishOUT' = DATAOUT' \ {pin}
                  /\ UNCHANGED <<at, cycle, mux, OE, reg_value, wishOE, raced>>

MainStep == \/ map_memory \/ configure_pin \/ configure_gpio_direction \/ Blink \/ LedOff
            \/ unmap_memory
Next == MainStep \/ \E q \in Others : OtherDirection(q) \/ OtherOutput(q)

Spec == Init /\ [][Next]_vars
-----------------------------------------------------------------------------
\* The other pins of the bank keep the values that their users gave them,
\* whenever those write; and their directions too, except for a write between
\* the load and the store of configure_gpio_direction, which is lost.
OtherPinsKept == /\ DATAOUT \ {pin} = wishOUT
                 /\ raced \/ OE \ {pin} = wishOE
=============================================================================
