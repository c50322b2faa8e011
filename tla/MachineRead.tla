---------------------------- MODULE MachineRead ----------------------------
(***************************************************************************)
(* Reading a Vertuo Next machine and setting its two numbers               *)
(* (VertuoNextProtocol.async_read_all in ble/protocol.py, ble/parsing.py,  *)
(* _parse_vertuo in coordinator.py, number.py).  The read is a series of   *)
(* GATT operations: some it cannot do without, some it skips when they     *)
(* fail, and one pair is indirect, an index written to a selection         *)
(* characteristic decides which error the next read returns.  Bytes are    *)
(* numbers; those the model leaves out are read and decoded alike.         *)
(***************************************************************************)
EXTENDS MachineStatus

CONSTANTS
    Statuses,   \* statuses the machine may be in, as StatusRecords
    Codes,      \* error codes, 0 for no error
    Counts,     \* capsule counts, what the number entity offers to set
    Levels,     \* water hardness levels, likewise
    WifiCodes   \* codes of the Wi-Fi status and its additional info, 0 for none

WordMax == 65535                \* of two bytes
CapsCounterMax == WordMax       \* CAPS_COUNTER_MAX
WaterHardnessMax == 4           \* WATER_HARDNESS_MAX

Flags == {"water_tank_empty", "cleaning_needed", "descaling_needed", "led_signaling",
          "error_present", "bootloader_active", "cup_length_prog", "capsule_container_full",
          "brewing_unit_closed", "frother"}
StatusRecords == [state : VertuoStates, milk : 0..15, key : 0..3, flags : SUBSET Flags]

ASSUME SamplesAssumption ==
    /\ \A s \in Statuses : s \in StatusRecords
    /\ Codes \subseteq 0..WordMax /\ 0 \in Codes
    /\ Counts \subseteq 0..CapsCounterMax /\ Levels \subseteq 0..WaterHardnessMax
    /\ WifiCodes \subseteq 0..255 /\ 0 \in WifiCodes
    /\ None \notin Seq(Nat)

VARIABLES
    machine,    \* what the machine holds
    pc,         \* the read async_read_all does next, "idle" between polls
    raw,        \* RawMachineData of this poll
    truth,      \* history: what the machine held when each of raw was read
    missed,     \* history: this poll's selection of the active error was lost
    meant,      \* history: what its two numbers may be, by what was asked of it
    data        \* what the last poll parsed, None while one runs or when it failed

readVars == <<machine, pc, raw, truth, missed, meant, data>>

Errors == [0..1 -> Codes]       \* 0: the active error, 1: the one in the list
Machines == [status : Statuses, errors : Errors, selected : 0..1, caps : Counts,
             settings : {<<255, 0, l, 30>> : l \in Levels}, wifi : WifiCodes \X WifiCodes]
Contents == [status : StatusRecords, errors : [0..1 -> 0..WordMax], selected : 0..1,
             caps : 0..WordMax, settings : [1..4 -> 0..255], wifi : (0..255) \X (0..255)]
Reads == {"status", "settings", "error", "list", "caps", "wifi"}
NothingRead == [r \in Reads |-> None]

(* "error" stands for the selection of index 0, "active" for its read. *)
ReadTypeOK ==
    /\ machine \in Contents
    /\ pc \in {"idle", "status", "settings", "error", "active", "list", "listed", "caps", "wifi"}
    /\ DOMAIN raw = Reads /\ DOMAIN truth = Reads
    /\ missed \in BOOLEAN
    /\ meant \in [caps : SUBSET Counts, hardness : SUBSET Levels]

ReadInit ==
    /\ machine \in {m \in Machines : m.selected = 0}
    /\ pc = "idle" /\ raw = NothingRead /\ truth = NothingRead
    /\ missed = FALSE /\ data = None
    /\ meant = [caps |-> {machine.caps}, hardness |-> {machine.settings[3]}]

-----------------------------------------------------------------------------
(* Bytes *)

(* What the machine puts into its status characteristic. *)
StatusBytes(s) ==
    LET On(flag, i) == IF flag \in s.flags THEN 2^i ELSE 0 IN
    <<On("water_tank_empty", 0) + On("cleaning_needed", 1) + On("descaling_needed", 2)
        + On("led_signaling", 3) + On("error_present", 4) + 32 * s.key + On("bootloader_active", 7),
      Low(s.state) + On("frother", 4) + On("cup_length_prog", 5)
        + On("capsule_container_full", 6) + On("brewing_unit_closed", 7),
      High(s.state) + s.milk>>

(* The machine answers with the index that is selected, then the code. *)
ErrorBytes(m) ==
    LET code == m.errors[m.selected] IN <<m.selected, code % 256, code \div 256>>

(* parse_error_information: the code is little endian, the index not looked at. *)
ParseError(b) == b[2] + 256 * b[3]

CapsBytes(count) == <<count \div 256, count % 256>>         \* as the machine reads back

(* parse_caps_counter: big endian, or the one byte a shorter answer has. *)
ParseCapsCounter(b) ==
    IF Len(b) < 2 THEN (IF b = <<>> THEN 0 ELSE b[1]) ELSE 256 * b[1] + b[2]

ParseSettings(b) == b[3]                  \* parse_general_user_settings: the hardness

(* parse_vertuo_wifi_status: additional info, when there is any, is the status. *)
ParseWifiStatus(b) == IF b[1] > 0 THEN b[1] ELSE b[2]

(* Mutant of BuildCapsCounter: the byte order of every other word. *)
BuildCapsCounterLsb(value) == <<value % 256, value \div 256>>

BuildCapsCounter(value) == <<value \div 256, value % 256>>

(* build_water_hardness: ones in the fields that are the machine's to keep. *)
BuildWaterHardness(level) == <<255, 255, level, 255>>

(* How the machine takes a write of its settings: all ones means keep. *)
Taken(settings, written) ==
    [i \in 1..4 |->
        IF \/ i \in {1, 2} /\ written[1] = 255 /\ written[2] = 255
           \/ i = 4 /\ written[4] = 255
        THEN settings[i] ELSE written[i]]

-----------------------------------------------------------------------------
(* A poll *)

Note(read, bytes, held) ==
    /\ raw' = [raw EXCEPT ![read] = bytes]
    /\ truth' = [truth EXCEPT ![read] = held]

(* A selection is applied and acknowledged, applied with its answer lost, or lost. *)
Select(index) ==
    \E applied \in BOOLEAN :
        machine' = [machine EXCEPT !.selected = IF applied THEN index ELSE @]

(* The machine may or may not remember a selection from one link to the next. *)
PollBegins ==
    /\ pc = "idle"
    /\ pc' = "status"
    /\ raw' = NothingRead /\ truth' = NothingRead
    /\ missed' = FALSE /\ data' = None
    /\ \E s \in {0, machine.selected} : machine' = [machine EXCEPT !.selected = s]
    /\ UNCHANGED meant

(* _read_char raises: nothing of the poll is kept. *)
ReadFails ==
    /\ pc \in {"status", "settings", "active"}
    /\ pc' = "idle"
    /\ raw' = NothingRead /\ truth' = NothingRead /\ missed' = FALSE
    /\ UNCHANGED <<machine, meant, data>>

ReadStatus ==
    /\ pc = "status" /\ pc' = "settings"
    /\ Note("status", StatusBytes(machine.status), machine.status)
    /\ UNCHANGED <<machine, missed, meant, data>>

ReadSettings ==
    /\ pc = "settings" /\ pc' = "error"
    /\ Note("settings", machine.settings, machine.settings)
    /\ UNCHANGED <<machine, missed, meant, data>>

(* Mutant of SelectActive: index 0 is taken to be what the machine begins with. *)
SelectActiveSkipped ==
    /\ pc = "error" /\ pc' = "active"
    /\ UNCHANGED <<machine, raw, truth, missed, meant, data>>

(* Index 0 is written; that it failed is logged and the read goes on. *)
SelectActive ==
    /\ pc = "error" /\ pc' = "active"
    /\ Select(0)
    /\ missed' = (machine'.selected # 0)
    /\ UNCHANGED <<raw, truth, meant, data>>

ReadActive ==
    /\ pc = "active" /\ pc' = "list"
    /\ Note("error", ErrorBytes(machine), machine.errors)
    /\ UNCHANGED <<machine, missed, meant, data>>

(* Index 1 is written and read in one try: a failure of either skips it. *)
SelectListed ==
    /\ pc = "list" /\ pc' \in {"listed", "caps"}
    /\ Select(1)
    /\ pc' = "listed" => machine'.selected = 1
    /\ UNCHANGED <<raw, truth, missed, meant, data>>

ReadListed ==
    /\ pc = "listed" /\ pc' = "caps"
    /\ \/ Note("list", ErrorBytes(machine), machine.errors[1])
       \/ UNCHANGED <<raw, truth>>
    /\ UNCHANGED <<machine, missed, meant, data>>

ReadCaps ==
    /\ pc = "caps" /\ pc' = "wifi"
    /\ \/ Note("caps", CapsBytes(machine.caps), machine.caps)
       \/ UNCHANGED <<raw, truth>>
    /\ UNCHANGED <<machine, missed, meant, data>>

Parsed(bytes, value) == IF bytes = None THEN None ELSE value

(* The last optional read, then _parse_vertuo: what was not read is None. *)
ReadWifiAndParse ==
    /\ pc = "wifi" /\ pc' = "idle"
    /\ \/ Note("wifi", machine.wifi, machine.wifi)
       \/ UNCHANGED <<raw, truth>>
    /\ data' = [status     |-> ParseStatus("vertuo_next", raw'["status"]),
                hardness   |-> ParseSettings(raw'["settings"]),
                error      |-> ParseError(raw'["error"]),
                error_list |-> Parsed(raw'["list"], ParseError(raw'["list"])),
                caps       |-> Parsed(raw'["caps"], ParseCapsCounter(raw'["caps"])),
                wifi       |-> Parsed(raw'["wifi"], ParseWifiStatus(raw'["wifi"]))]
    /\ UNCHANGED <<machine, missed, meant>>

-----------------------------------------------------------------------------
(* A number is written once: acknowledged, or with its acknowledgement lost, or *)
(* the write itself.                                                            *)
Write(number, value, after) ==
    \/ machine' = after /\ meant' = [meant EXCEPT ![number] = {value}]
    \/ machine' \in {machine, after} /\ meant' = [meant EXCEPT ![number] = @ \cup {value}]

(* The number entities, in a session. *)
SetCapsCounter ==
    /\ pc = "idle"
    /\ \E value \in Counts : LET b == BuildCapsCounter(value) IN
           Write("caps", value, [machine EXCEPT !.caps = 256 * b[1] + b[2]])
    /\ UNCHANGED <<pc, raw, truth, missed, data>>

SetWaterHardness ==
    /\ pc = "idle"
    /\ \E level \in Levels : LET b == BuildWaterHardness(level) IN
           Write("hardness", level, [machine EXCEPT !.settings = Taken(@, b)])
    /\ UNCHANGED <<pc, raw, truth, missed, data>>

(* The machine: an error comes or goes at any time; what else moves, moves *)
(* between polls here, where StatusFlow has the races of the status.       *)
ErrorMoves ==
    /\ \E e \in Errors : machine' = [machine EXCEPT !.errors = e]
    /\ UNCHANGED <<pc, raw, truth, missed, meant, data>>
MachineWorks ==
    /\ pc = "idle"
    /\ \/ \E s \in Statuses : machine' = [machine EXCEPT !.status = s] /\ UNCHANGED meant
       \/ \E w \in WifiCodes \X WifiCodes : machine' = [machine EXCEPT !.wifi = w] /\ UNCHANGED meant
       \/ \E c \in Counts : machine' = [machine EXCEPT !.caps = c] /\ meant' = [meant EXCEPT !.caps = {c}]
    /\ UNCHANGED <<pc, raw, truth, missed, data>>

PollStep ==
    \/ ReadFails \/ ReadStatus \/ ReadSettings \/ SelectActive \/ ReadActive
    \/ SelectListed \/ ReadListed \/ ReadCaps \/ ReadWifiAndParse

ReadNext ==
    \/ PollBegins \/ PollStep \/ SetCapsCounter \/ SetWaterHardness
    \/ ErrorMoves \/ MachineWorks

ReadSpec == ReadInit /\ [][ReadNext]_readVars

-----------------------------------------------------------------------------
(* A decoded status says what the machine's was. *)
SaysStatus(d, s) ==
    /\ d.machine_state = s.state /\ d.milk_unit_state = s.milk /\ d.pairing_key_state = s.key
    /\ d.milk_frother_running = ("frother" \in s.flags \/ s.milk = Frothing)
    /\ \A flag \in Flags \ {"frother"} : d[flag] = (flag \in s.flags)

(* What a poll shows is what the machine held when it was read, through every  *)
(* encoding, failed optional read and selection left over from the poll before *)
(* ("Select current active error (index 0) then read error info").  The active *)
(* error is the exception: when that selection is lost the code goes on, and   *)
(* what it then shows as the active error is the one in the list.              *)
PollTellsTheTruth ==
    data # None =>
        /\ SaysStatus(data.status, truth["status"])
        /\ data.hardness = truth["settings"][3]
        /\ data.error = truth["error"][IF missed THEN 1 ELSE 0]
        /\ data.error_list = truth["list"] /\ data.caps = truth["caps"]
        /\ truth["wifi"] # None /\ truth["wifi"][1] # 0 => data.wifi = truth["wifi"][1]

(* Setting the water hardness leaves the power-off and standby times, "fields  *)
(* it never reads or sets", as the machine had them; and the hardness and the  *)
(* capsule counter are the numbers last asked for, or what the machine counted *)
(* since: after a write whose answer was lost, that number or the one before.  *)
SettingsAreKept ==
    /\ SubSeq(machine.settings, 1, 2) = <<255, 0>> /\ machine.settings[4] = 30
    /\ machine.settings[3] \in meant.hardness
    /\ machine.caps \in meant.caps
=============================================================================
