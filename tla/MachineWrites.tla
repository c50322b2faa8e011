---------------------------- MODULE MachineWrites ----------------------------
(***************************************************************************)
(* What is written to a machine beside its two numbers and its network:    *)
(* the brew command made of two choices (select.py, button.py), the recipe *)
(* of a Barista, and the auth key, typed by somebody or made up            *)
(* (config_flow.py, ble/protocol.py).  Coordinator has the way of a        *)
(* command to the machine; here is what it says when it gets there.        *)
(***************************************************************************)
EXTENDS Naturals, Sequences

CONSTANTS
    Temperatures,   \* VERTUO_TEMPERATURES offered
    BrewTypes,      \* VERTUO_BREW_TYPES offered
    Recipes,        \* BARISTA_RECIPES offered, in order
    Typed,          \* what somebody may type as an auth token
    Random,         \* 15 random hex digits
    Blank           \* a colon or a space, or no value at all

FrameLen == 19                  \* COMMAND_FRAME_LEN
DataLen == 16                   \* COMMAND_DATA_LEN
KeyDigits == 16                 \* hex digits of a CMID
PairingKeyDigits == 32          \* and of the pairing key of an account
Marker == 8                     \* CMID_MARKER_NIBBLE

(* VERTUO_TEMPERATURE_VALUES and VERTUO_BREW_TYPE_VALUES. *)
TemperatureValues == [low |-> 1, medium |-> 0, high |-> 2]
BrewTypeValues == [ristretto |-> 0, espresso |-> 1, lungo |-> 2, hot_water |-> 4, americano |-> 5]

ASSUME WritesAssumption ==
    /\ Temperatures \subseteq DOMAIN TemperatureValues /\ "medium" \in Temperatures
    /\ BrewTypes \subseteq DOMAIN BrewTypeValues /\ "espresso" \in BrewTypes
    /\ Len(Recipes) \in 0..255
    /\ \A digits \in Random : digits \in Seq(0..15) /\ Len(digits) = 15

VARIABLES
    choice,     \* brew_type and brew_temperature of the coordinator
    display,    \* what the selects show, Blank where they show nothing
    sending,    \* the frame of a press on its way, with what the selects showed when
                \* it was built (history), or Blank
    ordered,    \* the last command the machine took, as it reads it, or Blank
    asFor,      \* history: what the selects showed when its frame was built
    recipe,     \* the recipe index the Barista holds
    unsure,     \* history: a recipe was written and its answer lost
    authKey,    \* the auth key of the entry, a sequence of hex digits, or Blank
    account     \* history: the pairing key it was made from, or Blank

brewVars == <<choice, display, sending, ordered, asFor>>
recipeVars == <<recipe, unsure>>
keyVars == <<authKey, account>>
writeVars == <<brewVars, recipeVars, keyVars>>

DefaultChoice == [type |-> "espresso", temperature |-> "medium"]

WritesInit ==
    /\ choice = DefaultChoice
    /\ display = [type |-> "espresso", temperature |-> "medium", recipe |-> Blank]
    /\ sending = Blank /\ ordered = Blank /\ asFor = Blank
    /\ recipe = 0 /\ unsure = FALSE
    /\ authKey = Blank /\ account = Blank

-----------------------------------------------------------------------------
(* The brew command *)

(* build_command_frame: header and data, padded to the width of the frame. *)
CommandFrame(cmd, subCmd, data) ==
    [i \in 1..FrameLen |->
        CASE i = 1 -> cmd [] i = 2 -> subCmd [] i = 3 -> Len(data)
          [] i \in 4..3 + Len(data) -> data[i - 3]
          [] OTHER -> 0]

(* The data of the brew command of _do_brew. *)
BrewData(c) ==
    <<4, 0, 0, 0, 0, TemperatureValues[c.temperature], BrewTypeValues[c.type]>>

(* The machine takes a whole frame with command 3, 5 and reads the data that *)
(* the length byte announces.                                                *)
IsBrew(frame) == Len(frame) = FrameLen /\ frame[1] = 3 /\ frame[2] = 5 /\ frame[3] = 7
ReadFrame(frame) == [temperature |-> frame[9], type |-> frame[10]]

(* async_select_option of the two selects, which write nothing. *)
ChooseType ==
    /\ \E option \in BrewTypes :
          /\ choice' = [choice EXCEPT !.type = option]
          /\ display' = [display EXCEPT !.type = option]
    /\ UNCHANGED <<sending, ordered, asFor, recipeVars, keyVars>>

ChooseTemperature ==
    /\ \E option \in Temperatures :
          /\ choice' = [choice EXCEPT !.temperature = option]
          /\ display' = [display EXCEPT !.temperature = option]
    /\ UNCHANGED <<sending, ordered, asFor, recipeVars, keyVars>>

(* _do_brew builds the frame once the machine is ready.  One press at a time. *)
BuildCommand ==
    /\ sending = Blank
    /\ sending' = [frame |-> CommandFrame(3, 5, BrewData(choice)),
                   shown |-> [type |-> display.type, temperature |-> display.temperature]]
    /\ UNCHANGED <<choice, display, ordered, asFor, recipeVars, keyVars>>

(* async_send_command waits for the lock and the link and writes it: the      *)
(* machine takes it, or never sees it.  The selects may have moved since.     *)
SendCommand ==
    /\ sending # Blank /\ sending' = Blank
    /\ \/ /\ IsBrew(sending.frame)
          /\ ordered' = ReadFrame(sending.frame) /\ asFor' = sending.shown
       \/ UNCHANGED <<ordered, asFor>>
    /\ UNCHANGED <<choice, display, recipeVars, keyVars>>

(* The recipe select: the option is shown once the write is acknowledged.  A *)
(* write that fails may have reached the machine, and the select shows what  *)
(* it did.                                                                   *)
SelectRecipe ==
    /\ \E i \in 1..Len(Recipes) :
          \/ /\ recipe' = i - 1 /\ unsure' = FALSE
             /\ display' = [display EXCEPT !.recipe = Recipes[i]]
          \/ /\ recipe' \in {recipe, i - 1} /\ unsure' = TRUE
             /\ UNCHANGED display
    /\ UNCHANGED <<choice, sending, ordered, asFor, keyVars>>

(* A restart or a reload: the coordinator and the selects begin again.  A     *)
(* press under way ends with Home Assistant, and goes on through a reload.    *)
Restart ==
    /\ choice' = DefaultChoice
    /\ display' = [type |-> "espresso", temperature |-> "medium", recipe |-> Blank]
    /\ sending' \in {sending, Blank}
    /\ UNCHANGED <<ordered, asFor, recipeVars, keyVars>>

-----------------------------------------------------------------------------
(* The auth key *)

(* generate_auth_key *)
GenerateAuthKey(random) == <<Marker>> \o random

Stripped(text) == SelectSeq(text, LAMBDA c : c # Blank)

(* Mutant of NormalizeAuthKey: the first of the app's two steps alone, the cut. *)
NormalizeAuthKeyByCutting(text) ==
    LET key == Stripped(text) IN
    IF key \notin Seq(0..15) THEN Blank
    ELSE IF Len(key) \in {KeyDigits, PairingKeyDigits} THEN SubSeq(key, 1, KeyDigits)
    ELSE Blank

(* normalize_auth_key: separators go, a CMID is itself, a pairing key gives its *)
(* first fifteen digits behind the marker, anything else is refused.            *)
NormalizeAuthKey(text) ==
    LET key == Stripped(text) IN
    IF key \notin Seq(0..15) THEN Blank
    ELSE IF Len(key) = KeyDigits THEN key
    ELSE IF Len(key) = PairingKeyDigits THEN <<Marker>> \o SubSeq(key, 1, 15)
    ELSE Blank

(* unhexlify: two digits to a byte. *)
Unhexlify(key) == [i \in 1..(Len(key) \div 2) |-> 16 * key[2 * i - 1] + key[2 * i]]

(* What the app writes for a pairing key (PairingUtils, as normalize_auth_key *)
(* quotes it): the first eight bytes shifted right by one nibble, 0x8 in the  *)
(* space that frees.                                                          *)
AppShift(in) ==
    [i \in 1..8 |->
        IF i = 1 THEN in[1] \div 16 + 128 ELSE (in[i - 1] % 16) * 16 + in[i] \div 16]

(* async_step_bluetooth_confirm: a token nobody can use brings the form back. *)
TypeToken ==
    /\ authKey = Blank
    /\ \E text \in Typed :
          /\ NormalizeAuthKey(text) # Blank
          /\ authKey' = NormalizeAuthKey(text)
          /\ account' = IF Len(Stripped(text)) = PairingKeyDigits THEN Stripped(text) ELSE Blank
    /\ UNCHANGED <<brewVars, recipeVars>>

(* async_setup_entry makes one for an entry that has none. *)
MakeKey ==
    /\ authKey = Blank
    /\ \E random \in Random : authKey' = GenerateAuthKey(random)
    /\ account' = Blank
    /\ UNCHANGED <<brewVars, recipeVars>>

RemoveMachine ==
    /\ authKey # Blank
    /\ authKey' = Blank /\ account' = Blank
    /\ UNCHANGED <<brewVars, recipeVars>>

WritesNext ==
    \/ ChooseType \/ ChooseTemperature \/ BuildCommand \/ SendCommand
    \/ SelectRecipe \/ Restart
    \/ TypeToken \/ MakeKey \/ RemoveMachine

WritesSpec == WritesInit /\ [][WritesNext]_writeVars

-----------------------------------------------------------------------------
(* The machine brews what the selects showed together when the press built    *)
(* its frame: a change of mind, a reload or a second select moved while the   *)
(* command waits for the lock and the link neither reaches it nor mixes in.   *)
BrewIsTheOneShown ==
    ordered # Blank =>
        ordered = [temperature |-> TemperatureValues[asFor.temperature],
                   type |-> BrewTypeValues[asFor.type]]

(* The recipe shown is the one the machine holds, unless an answer was lost. *)
RecipeIsTheOneShown ==
    display.recipe # Blank /\ ~unsure => Recipes[recipe + 1] = display.recipe

(* Every key is eight bytes, and the key made from the pairing key of an     *)
(* account is the very value the app writes to the machine for that account. *)
KeyIsTheAccounts ==
    authKey # Blank =>
        /\ Len(authKey) = KeyDigits
        /\ account # Blank =>
              Unhexlify(authKey) = AppShift(SubSeq(Unhexlify(account), 1, 8))

(* No write says anything else than what somebody asked for. *)
WritesSayWhatWasAsked ==
    BrewIsTheOneShown /\ RecipeIsTheOneShown /\ KeyIsTheAccounts
=============================================================================
