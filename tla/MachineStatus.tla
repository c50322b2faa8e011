---------------------------- MODULE MachineStatus ----------------------------
(***************************************************************************)
(* The status bytes of the two families that have a status characteristic  *)
(* and their decoding (ble/parsing.py).  The same bytes reach the code by  *)
(* a poll, a notification and, on a Vertuo Next, an advertisement.         *)
(***************************************************************************)
EXTENDS Naturals, Sequences

CONSTANT None       \* nothing read, nothing decoded

Unknown == 255                                          \* a code without a name
BaristaStates == 0..7                                   \* BARISTA_STATE_NAMES
VertuoStates == 0..14 \cup 17..23 \cup {26} \cup 33..36 \* VERTUO_STATE_NAMES
Frothing == 2                                           \* of MILK_UNIT_STATE_NAMES

Named(code, names) == IF code \in names THEN code ELSE Unknown

Bit(b, i) == (b \div 2^i) % 2 = 1
Low(b) == b % 16
High(b) == b - Low(b)

(* Bits 5 and 6 of the first byte, in both families. *)
PairingKeyState(b0) == (b0 \div 32) % 4

(* The state is the upper six bits of the second byte.  Bits 5 and 6 of the *)
(* first are read as flags as well.                                         *)
ParseBaristaStatus(b) ==
    [machine_state |-> Named(b[2] \div 4, BaristaStates),
     pairing_key_state |-> PairingKeyState(b[1]),
     bootloader_active |-> Bit(b[1], 0),
     error_present |-> Bit(b[1], 3),
     motor_running |-> Bit(b[1], 4),
     induction_heating |-> Bit(b[1], 5),
     last_cmid_valid |-> Bit(b[1], 6),
     setup_complete |-> Bit(b[1], 7)]

(* The state of a Vertuo Next is split over two bytes. *)
VertuoState(b) == Low(b[2]) + High(b[3])

(* The milk unit has the nibble that the state leaves, and a frother runs by *)
(* its bit or by that nibble.                                                *)
ParseVertuonextStatus(b) ==
    [machine_state |-> Named(VertuoState(b), VertuoStates),
     milk_unit_state |-> Low(b[3]),
     pairing_key_state |-> PairingKeyState(b[1]),
     water_tank_empty |-> Bit(b[1], 0), cleaning_needed |-> Bit(b[1], 1),
     descaling_needed |-> Bit(b[1], 2), led_signaling |-> Bit(b[1], 3),
     error_present |-> Bit(b[1], 4), bootloader_active |-> Bit(b[1], 7),
     milk_frother_running |-> Bit(b[2], 4) \/ Low(b[3]) = Frothing,
     cup_length_prog |-> Bit(b[2], 5), capsule_container_full |-> Bit(b[2], 6),
     brewing_unit_closed |-> Bit(b[2], 7)]

(* _parse_status: the parser of the family, or None when it has none or the *)
(* payload is too short for it.                                             *)
ParseStatus(family, b) ==
    IF family = "barista" /\ Len(b) >= 2 THEN ParseBaristaStatus(b)
    ELSE IF family = "vertuo_next" /\ Len(b) >= 3 THEN ParseVertuonextStatus(b)
    ELSE None
=============================================================================
