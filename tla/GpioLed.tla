------------------------------- MODULE GpioLed -------------------------------
(***************************************************************************)
(* The LED command of lesson_10/00_led: it exports a GPIO through sysfs,   *)
(* makes it an output and switches, toggles or blinks it (00_led.c).       *)
(* Several invocations may run at once; nothing locks the pin and nothing  *)
(* unexports it. Every open and write may fail.                            *)
(***************************************************************************)
EXTENDS Integers

CONSTANTS Runs,     \* the invocations
          Blinks    \* cycles of blink (5 in the code)

Commands == {"on", "off", "toggle", "blink", "unknown"}

VARIABLES exported, direction, value,  \* the pin, in sysfs
          run,            \* where each invocation is
          cmd,            \* its command
          current_value,  \* what its gpio_get_value returned
          cycle,          \* cycles of blink that are over
          lit,            \* history: who wrote a 1 since it set the direction
          was_lit         \* history: the LED before it set the direction

vars == <<exported, direction, value, run, cmd, current_value, cycle, lit, was_lit>>

TypeOK == /\ exported \in BOOLEAN /\ direction \in {"in", "out"} /\ value \in {0, 1}
          /\ run \in [Runs -> {"export", "direction", "command", "get", "set", "blinkOn",
                               "blinkOff", "return0", "return1"}]
          /\ cmd \in [Runs -> Commands]
          /\ current_value \in [Runs -> {-1, 0, 1}]
          /\ cycle \in [Runs -> 0 .. Blinks]
          /\ lit \in [Runs -> SUBSET Runs] /\ was_lit \in [Runs -> {0, 1}]

\* The pin is as an earlier program or the kernel left it.
Init == /\ exported \in BOOLEAN /\ direction \in {"in", "out"} /\ value \in {0, 1}
        /\ run = [r \in Runs |-> "export"]
        /\ cmd \in [Runs -> Commands]
        /\ current_value = [r \in Runs |-> -1]
        /\ cycle = [r \in Runs |-> 0] /\ lit = [r \in Runs |-> {}]
        /\ was_lit = [r \in Runs |-> 0]

pinVars == <<exported, direction, value>>
Go(r, from, to) == run[r] = from /\ run' = [run EXCEPT ![r] = to]
-----------------------------------------------------------------------------
\* sysfs: writing "out" to direction also drives the pin low; the value of an
\* input cannot be written.
WriteOut == direction' = "out" /\ value' = 0
CanWrite == direction = "out"
\* Only an output lights the LED.
Lit == IF direction = "out" THEN value ELSE 0

\* EBUSY, for a pin that is exported already, is not an error.
gpio_export(r) == /\ \/ Go(r, "export", "direction") /\ exported' = TRUE
                     \/ Go(r, "export", "return1") /\ UNCHANGED exported
                  /\ UNCHANGED <<direction, value, cmd, current_value, cycle, lit, was_lit>>

\* Mutant: main goes on when the direction could not be set.
gpio_set_direction_ignored(r) ==
    /\ Go(r, "direction", "command")
    /\ WriteOut \/ UNCHANGED <<direction, value>>
    /\ lit' = [lit EXCEPT ![r] = {}] /\ was_lit' = [was_lit EXCEPT ![r] = Lit]
    /\ UNCHANGED <<exported, cmd, current_value, cycle>>

gpio_set_direction(r) ==
    /\ \/ Go(r, "direction", "command") /\ WriteOut
       \/ Go(r, "direction", "return1") /\ UNCHANGED <<direction, value>>
    /\ lit' = [lit EXCEPT ![r] = {}] /\ was_lit' = [was_lit EXCEPT ![r] = Lit]
    /\ UNCHANGED <<exported, cmd, current_value, cycle>>

Dispatch(r) == /\ Go(r, "command", CASE cmd[r] \in {"on", "off"} -> "set"
                                     [] cmd[r] = "toggle" -> "get"
                                     [] cmd[r] = "blink" -> "blinkOn"
                                     [] OTHER -> "return1")
               /\ UNCHANGED <<pinVars, cmd, current_value, cycle, lit, was_lit>>

gpio_get_value(r) ==
    /\ \/ /\ Go(r, "get", "set")
          /\ current_value' = [current_value EXCEPT ![r] = value]
       \/ Go(r, "get", "return1") /\ UNCHANGED current_value
    /\ UNCHANGED <<pinVars, cmd, cycle, lit, was_lit>>

gpio_set_value(r, v) == /\ CanWrite /\ value' = v
                        /\ lit' = IF v = 1 THEN [q \in Runs |-> lit[q] \cup {r}] ELSE lit

\* What on, off and toggle write.
NewValue(r) == IF cmd[r] = "on" \/ (cmd[r] = "toggle" /\ current_value[r] = 0) THEN 1 ELSE 0

\* They return 0 also when the write failed.
Switch(r) == /\ Go(r, "set", "return0")
             /\ gpio_set_value(r, NewValue(r)) \/ UNCHANGED <<value, lit>>
             /\ UNCHANGED <<exported, direction, cmd, current_value, cycle, was_lit>>

Blink(r) ==
    /\ \/ /\ Go(r, "blinkOn", "blinkOff") /\ gpio_set_value(r, 1) /\ UNCHANGED cycle
       \/ /\ Go(r, "blinkOff", IF cycle[r] + 1 < Blinks THEN "blinkOn" ELSE "return0")
          /\ gpio_set_value(r, 0) /\ cycle' = [cycle EXCEPT ![r] = @ + 1]
       \/ /\ Go(r, "blinkOn", "return1") \/ Go(r, "blinkOff", "return1")
          /\ UNCHANGED <<value, cycle, lit>>
    /\ UNCHANGED <<exported, direction, cmd, current_value, was_lit>>

RunStep(r) == \/ gpio_export(r) \/ gpio_set_direction(r) \/ Dispatch(r)
              \/ gpio_get_value(r) \/ Switch(r) \/ Blink(r)
Next == \E r \in Runs : RunStep(r)

Spec == Init /\ [][Next]_vars
-----------------------------------------------------------------------------
\* An invocation that has driven the pin low finds and leaves it low, at its
\* read, between the cycles of blink and at its end, even if its write failed,
\* unless it is on or toggle and has lit the LED itself or another invocation
\* has lit it since.
DarkUnlessLit ==
    \A r \in Runs :
      value = 1 /\ run[r] \in {"command", "get", "set", "blinkOn", "return0"} =>
        \/ lit[r] \ {r} # {}
        \/ run[r] = "return0" /\ cmd[r] \in {"on", "toggle"}

\* "toggle - Toggle the LED state", says the usage text: what toggle reads, and
\* inverts, is the state that the LED had before the command.
ToggleFindsState ==
    \A r \in Runs : cmd[r] = "toggle" /\ run[r] = "set" => current_value[r] = was_lit[r]
=============================================================================
