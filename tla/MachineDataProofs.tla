-------------------------- MODULE MachineDataProofs --------------------------
(***************************************************************************)
(* What is read from a machine is shown as it was.                         *)
(*                                                                         *)
(* Reading: every encoding is undone, for every status, code, count and    *)
(* level, and what was read is shown beside nothing that was not, whatever *)
(* read or selection fails.                                                *)
(*                                                                         *)
(* Refining: a notification or an advertisement leaves the dataset a poll  *)
(* of the same status bytes would have built, for any set of payloads.     *)
(* That proof looks at no byte: it needs that the fields the list of a     *)
(* family names are the fields its poll fills from the status, that both   *)
(* go through the same parser, and that a payload of three bytes is long   *)
(* enough for it.                                                          *)
(*                                                                         *)
(* Side by side: the four modules of MCMachine do what they do alone.      *)
(***************************************************************************)
EXTENDS MCMachine, WifiSetupProofs

(* Reading *)

(* The bits of a byte, each a flag but for the pairing key in bits 5 and 6. *)
LEMMA FirstByte ==
  ASSUME NEW a \in 0..1, NEW b \in 0..1, NEW c \in 0..1, NEW d \in 0..1, NEW e \in 0..1,
         NEW k \in 0..3, NEW h \in 0..1
  PROVE  LET n == a + 2 * b + 4 * c + 8 * d + 16 * e + 32 * k + 128 * h IN
         /\ n % 2 = a /\ (n \div 2) % 2 = b /\ (n \div 4) % 2 = c /\ (n \div 8) % 2 = d
         /\ (n \div 16) % 2 = e /\ (n \div 32) % 4 = k /\ (n \div 128) % 2 = h
  OBVIOUS

(* A nibble of the state below four flags. *)
LEMMA SecondByte ==
  ASSUME NEW l \in 0..15, NEW e \in 0..1, NEW f \in 0..1, NEW g \in 0..1, NEW h \in 0..1
  PROVE  LET n == l + 16 * e + 32 * f + 64 * g + 128 * h IN
         /\ n % 16 = l
         /\ (n \div 16) % 2 = e /\ (n \div 32) % 2 = f
         /\ (n \div 64) % 2 = g /\ (n \div 128) % 2 = h
  OBVIOUS

(* The other nibble of the state above the milk unit. *)
LEMMA ThirdByte ==
  ASSUME NEW s \in Nat, s <= 255, NEW m \in 0..15
  PROVE  LET r == (s - (s % 16)) + m IN
         /\ (s % 16) + (r - (r % 16)) = s
         /\ r % 16 = m
         /\ s % 16 \in 0..15
<1> DEFINE low == s % 16
           high == s \div 16
<1>1. low \in 0..15 /\ high \in 0..15 /\ s = 16 * high + low
  OBVIOUS
<1>2. ASSUME NEW u \in 0..15 PROVE (16 * u + m) % 16 = m
  OBVIOUS
<1> HIDE DEF low, high
<1>3. s - low = 16 * high
  BY <1>1
<1>4. QED
  BY <1>1, <1>2, <1>3 DEF low

(* A number in two bytes, either way round. *)
LEMMA Words ==
  ASSUME NEW n \in Nat
  PROVE  /\ (n % 256) + 256 * (n \div 256) = n
         /\ 256 * (n \div 256) + (n % 256) = n
         /\ n % 256 \in Nat /\ n \div 256 \in Nat
  OBVIOUS

(* The weights of the bits. *)
Powers == 2^0 = 1 /\ 2^1 = 2 /\ 2^2 = 4 /\ 2^3 = 8
          /\ 2^4 = 16 /\ 2^5 = 32 /\ 2^6 = 64 /\ 2^7 = 128

(* They are what they are taken for. *)
LEMMA PowersOfTwo == Powers
  BY DEF Powers

(* Every code, count and level fits the bytes it is sent in. *)
LEMMA Samples ==
  /\ \A c \in Codes \cup Counts \cup Levels \cup WifiCodes : c \in Nat
  /\ \A s \in Statuses : s \in StatusRecords
  /\ 0 \in Codes
<1>1. WordMax \in Nat /\ CapsCounterMax \in Nat /\ WaterHardnessMax \in Nat
  BY DEF WordMax, CapsCounterMax, WaterHardnessMax
<1>2. QED
  BY <1>1, SamplesAssumption

(* parse_vertuonext_status undoes what the machine did, bit by bit. *)
LEMMA StatusIsTold ==
  ASSUME NEW s \in StatusRecords
  PROVE  SaysStatus(ParseStatus("vertuo_next", StatusBytes(s)), s)
<1> DEFINE F(flag) == IF flag \in s.flags THEN 1 ELSE 0
           b == StatusBytes(s)
           n == F("water_tank_empty") + 2 * F("cleaning_needed") + 4 * F("descaling_needed")
                  + 8 * F("led_signaling") + 16 * F("error_present") + 32 * s.key
                  + 128 * F("bootloader_active")
           m == (s.state % 16) + 16 * F("frother") + 32 * F("cup_length_prog")
                  + 64 * F("capsule_container_full") + 128 * F("brewing_unit_closed")
           r == (s.state - (s.state % 16)) + s.milk
<1>1. /\ s.state \in VertuoStates /\ s.milk \in 0..15 /\ s.key \in 0..3
      /\ s.state \in Nat /\ s.state <= 255
  BY DEF StatusRecords, VertuoStates
<1>2. \A flag \in Flags : F(flag) \in 0..1 /\ (F(flag) = 1 <=> flag \in s.flags)
  OBVIOUS
<1>3. Len(b) = 3 /\ b[1] = n /\ b[2] = m /\ b[3] = r
  <2>1. Len(b) = 3
    BY DEF StatusBytes
  <2>2. b[1] = n
    BY <1>1, PowersOfTwo DEF StatusBytes, Powers
  <2>3. b[2] = m
    BY <1>1, PowersOfTwo DEF StatusBytes, Powers, Low
  <2>4. b[3] = r
    BY <1>1 DEF StatusBytes, High, Low
  <2>5. QED
    BY <2>1, <2>2, <2>3, <2>4
<1> HIDE DEF F
<1>4. /\ n % 2 = F("water_tank_empty") /\ (n \div 2) % 2 = F("cleaning_needed")
      /\ (n \div 4) % 2 = F("descaling_needed") /\ (n \div 8) % 2 = F("led_signaling")
      /\ (n \div 16) % 2 = F("error_present") /\ (n \div 32) % 4 = s.key
      /\ (n \div 128) % 2 = F("bootloader_active")
  BY <1>1, <1>2, FirstByte DEF Flags
<1>5. /\ (s.state % 16) + (r - (r % 16)) = s.state /\ r % 16 = s.milk
      /\ s.state % 16 \in 0..15
  BY <1>1, ThirdByte
<1>6. /\ m % 16 = s.state % 16
      /\ (m \div 16) % 2 = F("frother") /\ (m \div 32) % 2 = F("cup_length_prog")
      /\ (m \div 64) % 2 = F("capsule_container_full")
      /\ (m \div 128) % 2 = F("brewing_unit_closed")
  <2>1. /\ F("frother") \in 0..1 /\ F("cup_length_prog") \in 0..1
        /\ F("capsule_container_full") \in 0..1 /\ F("brewing_unit_closed") \in 0..1
    BY <1>2 DEF Flags
  <2>2. QED
    BY <1>5, <2>1, SecondByte
<1>7. n \in Nat /\ n \div 1 = n
  BY <1>1, <1>2 DEF Flags
<1> HIDE DEF n, m, r, b
<1> DEFINE d == ParseVertuonextStatus(b)
<1>8. ParseStatus("vertuo_next", b) = d
  BY <1>3 DEF ParseStatus
<1>9. d.machine_state = s.state
  BY <1>1, <1>3, <1>5, <1>6 DEF ParseVertuonextStatus, VertuoState, Low, High, Named
<1>10. d.milk_unit_state = s.milk /\ d.pairing_key_state = s.key
  BY <1>3, <1>4, <1>5 DEF ParseVertuonextStatus, Low, PairingKeyState
<1>11. d.milk_frother_running = ("frother" \in s.flags \/ s.milk = Frothing)
  BY <1>2, <1>3, <1>5, <1>6, PowersOfTwo DEF ParseVertuonextStatus, Low, Bit, Powers, Flags
<1>12. ASSUME NEW flag \in Flags \ {"frother"} PROVE d[flag] = (flag \in s.flags)
  <2>1. CASE flag \in {"water_tank_empty", "cleaning_needed", "descaling_needed", "led_signaling",
                       "error_present", "bootloader_active"}
    BY <2>1, <1>2, <1>3, <1>4, <1>7, PowersOfTwo DEF ParseVertuonextStatus, Bit, Powers, Flags
  <2>2. CASE flag \in {"cup_length_prog", "capsule_container_full", "brewing_unit_closed"}
    BY <2>2, <1>2, <1>3, <1>6, PowersOfTwo DEF ParseVertuonextStatus, Bit, Powers, Flags
  <2>3. QED
    BY <2>1, <2>2 DEF Flags
<1>13. QED
  BY <1>8, <1>9, <1>10, <1>11, <1>12 DEF SaysStatus, b

-----------------------------------------------------------------------------
(* What the machine answers for one error. *)
LittleEndian(i, code) == <<i, code % 256, code \div 256>>

AfterStatus   == {"settings", "error", "active", "list", "listed", "caps", "wifi"}
AfterSettings == AfterStatus \ {"settings"}
AfterActive   == {"list", "listed", "caps", "wifi"}

(* The reads of an error find the index selected that they are read for. *)
SelectionHolds ==
    /\ pc = "active" => machine.selected = IF missed THEN 1 ELSE 0
    /\ pc = "listed" => machine.selected = 1

StatusNoted == truth["status"] \in Statuses /\ raw["status"] = StatusBytes(truth["status"])
SettingsNoted == raw["settings"] = truth["settings"]
ErrorNoted ==
    LET i == IF missed THEN 1 ELSE 0 IN
    truth["error"] \in Errors /\ raw["error"] = LittleEndian(i, truth["error"][i])
ListNoted ==
    \/ raw["list"] = None /\ truth["list"] = None
    \/ truth["list"] \in Codes /\ raw["list"] = LittleEndian(1, truth["list"])
CapsNoted ==
    \/ raw["caps"] = None /\ truth["caps"] = None
    \/ truth["caps"] \in Counts /\ raw["caps"] = CapsBytes(truth["caps"])

WifiNoted == raw["wifi"] = truth["wifi"] /\ truth["wifi"] \in {None} \cup (WifiCodes \X WifiCodes)

(* What has been read so far of a poll is what the machine held then, encoded. *)
Noted ==
    /\ pc \in AfterStatus => StatusNoted
    /\ pc \in AfterSettings => SettingsNoted
    /\ pc \in AfterActive => ErrorNoted
    /\ ListNoted /\ CapsNoted
    /\ WifiNoted

(* The machine holds one of the samples. *)
ReadShape ==
    /\ machine \in Machines
    /\ pc \in {"idle", "status", "settings", "error", "active", "list", "listed", "caps", "wifi"}
    /\ DOMAIN raw = Reads /\ DOMAIN truth = Reads
    /\ missed \in BOOLEAN

ReadInv ==
    /\ ReadShape
    /\ SelectionHolds
    /\ Noted
    /\ pc # "idle" => data = None
    /\ PollTellsTheTruth

(* Errors and capsule counts come out of the parsers as they went in. *)
LEMMA ErrorIsTold ==
  ASSUME NEW code \in Codes, NEW i \in 0..1
  PROVE  ParseError(LittleEndian(i, code)) = code /\ LittleEndian(i, code) # None
<1>1. code \in Nat
  BY Samples
<1>2. ParseError(LittleEndian(i, code)) = code
  BY <1>1, Words DEF ParseError, LittleEndian
<1>3. LittleEndian(i, code) \in Seq(Nat)
  BY <1>1, Words DEF LittleEndian
<1>4. QED
  BY <1>2, <1>3, SamplesAssumption

(* Likewise the capsule counter. *)
LEMMA CapsAreTold ==
  ASSUME NEW count \in Counts
  PROVE  ParseCapsCounter(CapsBytes(count)) = count /\ CapsBytes(count) # None
<1>1. count \in Nat
  BY Samples
<1>2. ParseCapsCounter(CapsBytes(count)) = count
  BY <1>1, Words DEF ParseCapsCounter, CapsBytes
<1>3. CapsBytes(count) \in Seq(Nat)
  BY <1>1, Words DEF CapsBytes
<1>4. QED
  BY <1>2, <1>3, SamplesAssumption

(* What is written for a number is the number, and keeps what is beside it. *)
LEMMA CapsAreSet ==
  ASSUME NEW count \in Counts
  PROVE  256 * BuildCapsCounter(count)[1] + BuildCapsCounter(count)[2] = count
BY Samples, Words DEF BuildCapsCounter

(* A level of water hardness, and the settings that are the machine's. *)
LEMMA HardnessIsSet ==
  ASSUME NEW old \in Levels, NEW level \in Levels
  PROVE  Taken(<<255, 0, old, 30>>, BuildWaterHardness(level)) = <<255, 0, level, 30>>
<1> DEFINE t == Taken(<<255, 0, old, 30>>, BuildWaterHardness(level))
<1>1. t[1] = 255 /\ t[2] = 0 /\ t[3] = level /\ t[4] = 30
  BY DEF Taken, BuildWaterHardness
<1>2. t = [i \in 1..4 |-> t[i]]
  BY DEF Taken
<1>3. \A i \in 1..4 : i = 1 \/ i = 2 \/ i = 3 \/ i = 4
  OBVIOUS
<1> HIDE DEF t
<1>4. QED
  BY <1>1, <1>2, <1>3 DEF t

(* A machine keeps its fields, whichever of them a step changes. *)
LEMMA MachineTypes ==
  ASSUME machine \in Machines
  PROVE  /\ machine.status \in Statuses /\ machine.errors \in [0..1 -> Codes]
         /\ machine.selected \in 0..1 /\ machine.caps \in Counts
         /\ \E l \in Levels : machine.settings = <<255, 0, l, 30>>
         /\ \A x \in 0..1 : [machine EXCEPT !.selected = x] \in Machines
         /\ \A x \in Errors : [machine EXCEPT !.errors = x] \in Machines
         /\ \A x \in Counts : [machine EXCEPT !.caps = x] \in Machines
         /\ \A x \in Statuses : [machine EXCEPT !.status = x] \in Machines
         /\ \A x \in WifiCodes \X WifiCodes : [machine EXCEPT !.wifi = x] \in Machines
         /\ \A l \in Levels : [machine EXCEPT !.settings = <<255, 0, l, 30>>] \in Machines
<1>1. /\ machine.status \in Statuses /\ machine.errors \in [0..1 -> Codes]
      /\ machine.selected \in 0..1 /\ machine.caps \in Counts
      /\ \E l \in Levels : machine.settings = <<255, 0, l, 30>>
  BY DEF Machines, Errors
<1>2. ASSUME NEW x \in 0..1 PROVE [machine EXCEPT !.selected = x] \in Machines
  BY DEF Machines
<1>3. ASSUME NEW x \in Errors PROVE [machine EXCEPT !.errors = x] \in Machines
  BY DEF Machines
<1>4. ASSUME NEW x \in Counts PROVE [machine EXCEPT !.caps = x] \in Machines
  BY DEF Machines
<1>5. ASSUME NEW x \in Statuses PROVE [machine EXCEPT !.status = x] \in Machines
  BY DEF Machines
<1>6. ASSUME NEW x \in WifiCodes \X WifiCodes PROVE [machine EXCEPT !.wifi = x] \in Machines
  BY DEF Machines
<1>7. ASSUME NEW l \in Levels
      PROVE  [machine EXCEPT !.settings = <<255, 0, l, 30>>] \in Machines
  BY DEF Machines
<1>8. QED
  BY <1>1, <1>2, <1>3, <1>4, <1>5, <1>6, <1>7

(* Nothing has been read yet. *)
LEMMA ReadInitInv == ReadInit => ReadInv
BY DEF ReadInit, ReadInv, ReadShape, SelectionHolds, Noted, ListNoted, CapsNoted, WifiNoted, NothingRead,
       Reads, AfterStatus, AfterSettings, AfterActive, PollTellsTheTruth

(* Nothing of a poll is kept, or a new one begins. *)
LEMMA ReadRestarts ==
  ASSUME ReadInv, machine' \in Machines, pc' \in {"idle", "status"},
         raw' = NothingRead, truth' = NothingRead, missed' = FALSE, data' = None
  PROVE  ReadInv'
BY DEF ReadInv, ReadShape, SelectionHolds, Noted, ListNoted, CapsNoted, WifiNoted, NothingRead,
       Reads, AfterStatus, AfterSettings, AfterActive, PollTellsTheTruth

(* A poll starts from nothing. *)
LEMMA PollBeginsInv == ReadInv /\ PollBegins => ReadInv'
<1> SUFFICES ASSUME ReadInv, PollBegins PROVE ReadInv'
  OBVIOUS
<1>1. machine' \in Machines
  BY MachineTypes DEF ReadInv, ReadShape, PollBegins
<1>2. QED
  BY <1>1, ReadRestarts DEF PollBegins

(* A poll that fails leaves nothing. *)
LEMMA ReadFailsInv == ReadInv /\ ReadFails => ReadInv'
<1> SUFFICES ASSUME ReadInv, ReadFails PROVE ReadInv'
  OBVIOUS
<1>1. machine' \in Machines /\ data' = None
  BY DEF ReadInv, ReadShape, ReadFails
<1>2. QED
  BY <1>1, ReadRestarts DEF ReadFails

(* The reads a poll cannot do without. *)
LEMMA NeededReadsInv == ReadInv /\ (ReadStatus \/ ReadSettings \/ ReadActive) => ReadInv'
<1> SUFFICES ASSUME ReadInv, ReadStatus \/ ReadSettings \/ ReadActive PROVE ReadInv'
  OBVIOUS
<1> USE DEF ReadInv, ReadShape, SelectionHolds, Noted, ListNoted, CapsNoted, WifiNoted, Reads,
            AfterStatus, AfterSettings, AfterActive, PollTellsTheTruth, Note
<1>1. CASE ReadStatus
  BY <1>1, MachineTypes DEF ReadStatus, StatusNoted
<1>2. CASE ReadSettings
  BY <1>2, MachineTypes DEF ReadSettings, StatusNoted, SettingsNoted
<1>3. CASE ReadActive
  <2>1. /\ machine.selected \in 0..1 /\ machine.errors[machine.selected] \in Codes
        /\ raw'["error"] = LittleEndian(machine.selected, machine.errors[machine.selected])
        /\ truth'["error"] = machine.errors /\ machine.errors \in Errors
        /\ machine.selected = IF missed THEN 1 ELSE 0
    BY <1>3, MachineTypes DEF ReadActive, ErrorBytes, LittleEndian, Errors
  <2>2. ErrorNoted'
    BY <2>1, <1>3 DEF ReadActive, ErrorNoted
  <2>3. QED
    BY <1>3, <2>2 DEF ReadActive, StatusNoted, SettingsNoted
<1>4. QED
  BY <1>1, <1>2, <1>3

(* A selection changes nothing else, applied or lost. *)
LEMMA SelectInv == ReadInv /\ (SelectActive \/ SelectListed) => ReadInv'
<1> SUFFICES ASSUME ReadInv, SelectActive \/ SelectListed PROVE ReadInv'
  OBVIOUS
<1>1. machine \in Machines
  BY DEF ReadInv, ReadShape
<1>2. PICK i \in 0..1, took \in BOOLEAN :
        machine' = [machine EXCEPT !.selected = IF took THEN i ELSE machine.selected]
  BY DEF SelectActive, SelectListed, Select
<1>3. machine' \in Machines
  BY <1>1, <1>2, MachineTypes
<1>4. machine'.selected \in 0..1
  BY <1>3 DEF Machines
<1> USE DEF ReadInv, ReadShape, SelectionHolds, Noted, ListNoted, CapsNoted, WifiNoted,
            AfterStatus, AfterSettings, AfterActive, PollTellsTheTruth
<1>5. CASE SelectActive
  <2>1. machine'.selected = IF missed' THEN 1 ELSE 0
    <3>1. missed' <=> machine'.selected # 0
      BY <1>5, Zenon DEF SelectActive
    <3> QED
      BY <1>4, <3>1
  <2>2. missed' \in BOOLEAN
    BY <1>5 DEF SelectActive
  <2> QED
    <3>1. ReadShape' /\ SelectionHolds'
      BY <1>3, <1>5, <2>1, <2>2 DEF SelectActive
    <3>2. Noted' /\ data' = None
      BY <1>5 DEF SelectActive, StatusNoted, SettingsNoted
    <3> QED
      BY <3>1, <3>2
<1>6. CASE SelectListed
  BY <1>3, <1>4, <1>6 DEF SelectListed, StatusNoted, SettingsNoted, ErrorNoted
<1>7. QED
  BY <1>5, <1>6

(* The reads a poll can do without. *)
LEMMA OptionalReadsInv == ReadInv /\ (ReadListed \/ ReadCaps) => ReadInv'
<1> SUFFICES ASSUME ReadInv, ReadListed \/ ReadCaps PROVE ReadInv'
  OBVIOUS
<1> USE DEF ReadInv, ReadShape, SelectionHolds, Noted, Reads,
            AfterStatus, AfterSettings, AfterActive, PollTellsTheTruth, Note
<1>1. CASE ReadListed
  <2>1. ListNoted'
    <3>1. CASE Note("list", ErrorBytes(machine), machine.errors[1])
      <4>1. machine.selected = 1 /\ machine.errors[1] \in Codes
        BY <1>1, MachineTypes DEF ReadListed
      <4>2. truth'["list"] = machine.errors[1] /\ raw'["list"] = LittleEndian(1, machine.errors[1])
        BY <3>1, <4>1 DEF ErrorBytes, LittleEndian
      <4>3. QED
        BY <4>1, <4>2 DEF ListNoted
    <3>2. CASE UNCHANGED <<raw, truth>>
      BY <3>2 DEF ListNoted
    <3>3. QED
      BY <1>1, <3>1, <3>2 DEF ReadListed
  <2>2. QED
    BY <1>1, <2>1 DEF ReadListed, CapsNoted, WifiNoted, StatusNoted, SettingsNoted, ErrorNoted
<1>2. CASE ReadCaps
  <2>1. CapsNoted'
    BY <1>2, MachineTypes DEF ReadCaps, CapsNoted
  <2>2. QED
    BY <1>2, <2>1 DEF ReadCaps, ListNoted, WifiNoted, StatusNoted, SettingsNoted, ErrorNoted
<1>3. QED
  BY <1>1, <1>2

(* What the machine and the number entities do leaves the poll alone. *)
LEMMA MachineMovesInv ==
  ReadInv /\ (SetCapsCounter \/ SetWaterHardness \/ ErrorMoves \/ MachineWorks) => ReadInv'
<1> SUFFICES ASSUME ReadInv, SetCapsCounter \/ SetWaterHardness \/ ErrorMoves \/ MachineWorks
             PROVE  ReadInv'
  OBVIOUS
<1>1. machine \in Machines
  BY DEF ReadInv, ReadShape
<1>2. machine' \in Machines /\ machine'.selected = machine.selected
  <2>1. CASE SetCapsCounter
    <3>1. PICK value \in Counts :
            machine' \in {machine, [machine EXCEPT !.caps = 256 * BuildCapsCounter(value)[1]
                                                             + BuildCapsCounter(value)[2]]}
      BY <2>1 DEF SetCapsCounter, Write
    <3>2. machine' \in {machine, [machine EXCEPT !.caps = value]}
      BY <3>1, CapsAreSet
    <3>3. QED
      BY <1>1, <3>2, MachineTypes DEF Machines
  <2>2. CASE SetWaterHardness
    <3>1. PICK level \in Levels :
            machine' \in {machine, [machine EXCEPT !.settings =
                                        Taken(machine.settings, BuildWaterHardness(level))]}
      BY <2>2 DEF SetWaterHardness, Write
    <3>2. PICK old \in Levels : machine.settings = <<255, 0, old, 30>>
      BY <1>1, MachineTypes
    <3>3. machine' \in {machine, [machine EXCEPT !.settings = <<255, 0, level, 30>>]}
      BY <3>1, <3>2, HardnessIsSet
    <3>4. QED
      BY <1>1, <3>3, MachineTypes DEF Machines
  <2>3. CASE ErrorMoves
    BY <1>1, <2>3, MachineTypes DEF ErrorMoves, Machines
  <2>4. CASE MachineWorks
    BY <1>1, <2>4, MachineTypes DEF MachineWorks, Machines
  <2>5. QED
    BY <2>1, <2>2, <2>3, <2>4
<1>3. UNCHANGED <<pc, raw, truth, missed, data>>
  BY DEF SetCapsCounter, SetWaterHardness, ErrorMoves, MachineWorks
<1>4. QED
  BY <1>2, <1>3 DEF ReadInv, ReadShape, SelectionHolds, Noted, ListNoted, CapsNoted, WifiNoted,
        StatusNoted, SettingsNoted, ErrorNoted, PollTellsTheTruth

(* The last read, and the dataset: every field says what was read. *)
LEMMA ParseInv == ReadInv /\ ReadWifiAndParse => ReadInv'
<1> SUFFICES ASSUME ReadInv, ReadWifiAndParse PROVE ReadInv'
  OBVIOUS
<1>1. /\ pc = "wifi" /\ pc' = "idle" /\ machine' = machine /\ missed' = missed
      /\ StatusNoted /\ SettingsNoted /\ ErrorNoted /\ ListNoted /\ CapsNoted
      /\ WifiNoted /\ ReadShape
  BY DEF ReadInv, Noted, AfterStatus, AfterSettings, AfterActive, ReadWifiAndParse
<1>2. /\ DOMAIN raw' = Reads /\ DOMAIN truth' = Reads /\ WifiNoted'
      /\ \A r \in Reads \ {"wifi"} : raw'[r] = raw[r] /\ truth'[r] = truth[r]
  <2>1. machine.wifi \in WifiCodes \X WifiCodes
    BY <1>1 DEF ReadShape, Machines
  <2>2. QED
    BY <1>1, <2>1 DEF ReadWifiAndParse, Note, ReadShape, Reads, WifiNoted
<1>3. StatusNoted' /\ SettingsNoted' /\ ErrorNoted' /\ ListNoted' /\ CapsNoted'
  BY <1>1, <1>2 DEF StatusNoted, SettingsNoted, ErrorNoted, ListNoted, CapsNoted, Reads
<1>4. /\ data'.status = ParseStatus("vertuo_next", raw'["status"])
      /\ data'.hardness = ParseSettings(raw'["settings"])
      /\ data'.error = ParseError(raw'["error"])
      /\ data'.error_list = Parsed(raw'["list"], ParseError(raw'["list"]))
      /\ data'.caps = Parsed(raw'["caps"], ParseCapsCounter(raw'["caps"]))
      /\ data'.wifi = Parsed(raw'["wifi"], ParseWifiStatus(raw'["wifi"]))
  BY DEF ReadWifiAndParse
<1>5. SaysStatus(data'.status, truth'["status"])
  BY <1>3, <1>4, Samples, StatusIsTold DEF StatusNoted
<1>6. data'.hardness = truth'["settings"][3]
  BY <1>3, <1>4 DEF SettingsNoted, ParseSettings
<1>7. data'.error = truth'["error"][IF missed' THEN 1 ELSE 0]
  <2> DEFINE i == IF missed' THEN 1 ELSE 0
  <2>1. i \in 0..1 /\ truth'["error"] \in Errors /\ raw'["error"] = LittleEndian(i, truth'["error"][i])
    BY <1>3 DEF ErrorNoted
  <2> HIDE DEF i
  <2>2. truth'["error"][i] \in Codes
    BY <2>1 DEF Errors
  <2>3. data'.error = truth'["error"][i]
    BY <1>4, <2>1, <2>2, ErrorIsTold
  <2> QED
    BY <2>3 DEF i
<1>8. data'.error_list = truth'["list"]
  BY <1>3, <1>4, ErrorIsTold DEF ListNoted, Parsed
<1>9. data'.caps = truth'["caps"]
  BY <1>3, <1>4, CapsAreTold DEF CapsNoted, Parsed
<1>10. (truth'["wifi"] # None /\ truth'["wifi"][1] # 0) => data'.wifi = truth'["wifi"][1]
  <2>1. SUFFICES ASSUME truth'["wifi"] # None, truth'["wifi"][1] # 0
                 PROVE  data'.wifi = truth'["wifi"][1]
    OBVIOUS
  <2>2. truth'["wifi"][1] \in Nat
    BY <1>2, <2>1, Samples DEF WifiNoted
  <2>3. QED
    BY <1>2, <1>4, <2>1, <2>2 DEF Parsed, ParseWifiStatus, WifiNoted
<1>11. PollTellsTheTruth'
  BY <1>5, <1>6, <1>7, <1>8, <1>9, <1>10 DEF PollTellsTheTruth
<1>12. QED
  BY <1>1, <1>2, <1>3, <1>11 DEF ReadInv, ReadShape, SelectionHolds, Noted

(* One step of reading. *)
LEMMA ReadStep == ReadInv /\ [ReadNext]_readVars => ReadInv'
<1> SUFFICES ASSUME ReadInv, [ReadNext]_readVars PROVE ReadInv'
  OBVIOUS
<1>1. CASE PollBegins
  BY <1>1, PollBeginsInv
<1>2. CASE ReadFails
  BY <1>2, ReadFailsInv
<1>3. CASE ReadStatus \/ ReadSettings \/ ReadActive
  BY <1>3, NeededReadsInv
<1>4. CASE SelectActive \/ SelectListed
  BY <1>4, SelectInv
<1>5. CASE ReadListed \/ ReadCaps
  BY <1>5, OptionalReadsInv
<1>6. CASE ReadWifiAndParse
  BY <1>6, ParseInv
<1>7. CASE SetCapsCounter \/ SetWaterHardness \/ ErrorMoves \/ MachineWorks
  BY <1>7, MachineMovesInv
<1>8. CASE UNCHANGED readVars
  BY <1>8 DEF readVars, ReadInv, ReadShape, SelectionHolds, Noted, ListNoted, CapsNoted,
        WifiNoted, StatusNoted, SettingsNoted, ErrorNoted, PollTellsTheTruth
<1>9. QED
  BY <1>1, <1>2, <1>3, <1>4, <1>5, <1>6, <1>7, <1>8 DEF ReadNext, PollStep

(* Every state of every behaviour satisfies the inductive invariant. *)
THEOREM ReadInvariant == ReadSpec => []ReadInv
BY ReadInitInv, ReadStep, PTL DEF ReadSpec

(* What a poll shows is what the machine held when it was read, for every      *)
(* status, code, count and level and whatever fails on the way: with the one   *)
(* exception that a poll whose selection of the active error is lost shows the *)
(* list's in its place (VertuoNextProtocol.async_read_all, parsing.py).        *)
THEOREM PollsTellTheTruth == ReadSpec => []PollTellsTheTruth
<1>1. ReadInv => PollTellsTheTruth
  BY DEF ReadInv
<1>2. QED
  BY <1>1, ReadInvariant, PTL

(* What the two numbers of the machine are is what they were meant to be. *)
NumbersMeant ==
    /\ meant \in [caps : SUBSET Counts, hardness : SUBSET Levels]
    /\ machine.caps \in meant.caps /\ machine.settings[3] \in meant.hardness

(* A write puts down the number asked for, beside what the machine keeps.      *)
LEMMA SetIsMeant ==
  ASSUME ReadInv, NumbersMeant, SetCapsCounter \/ SetWaterHardness
  PROVE  NumbersMeant'
<1>1. machine \in Machines
  BY DEF ReadInv, ReadShape
<1>2. CASE SetCapsCounter
  <2>1. PICK value \in Counts :
          Write("caps", value, [machine EXCEPT !.caps = 256 * BuildCapsCounter(value)[1]
                                                          + BuildCapsCounter(value)[2]])
    BY <1>2 DEF SetCapsCounter
  <2>2. Write("caps", value, [machine EXCEPT !.caps = value])
    BY <2>1, CapsAreSet
  <2> QED
    BY <1>1, <2>2 DEF Write, NumbersMeant, Machines
<1>3. CASE SetWaterHardness
  <2>1. PICK level \in Levels :
          Write("hardness", level,
                [machine EXCEPT !.settings = Taken(machine.settings, BuildWaterHardness(level))])
    BY <1>3 DEF SetWaterHardness
  <2>2. PICK old \in Levels : machine.settings = <<255, 0, old, 30>>
    BY <1>1, MachineTypes
  <2> DEFINE written == Taken(machine.settings, BuildWaterHardness(level))
             after == [machine EXCEPT !.settings = written]
  <2>3. written = <<255, 0, level, 30>>
    BY <2>2, HardnessIsSet
  <2>4. written[3] = level
    BY <2>3
  <2> HIDE DEF written
  <2>5. after.settings[3] = level /\ after.caps = machine.caps
    BY <1>1, <2>4 DEF Machines
  <2> HIDE DEF after
  <2>6. Write("hardness", level, after)
    BY <2>1 DEF written, after
  <2>7. \/ machine' = after /\ meant' = [meant EXCEPT !["hardness"] = {level}]
        \/ /\ machine' \in {machine, after}
           /\ meant' = [meant EXCEPT !["hardness"] = meant["hardness"] \cup {level}]
    BY <2>6 DEF Write
  <2>8. meant' \in [caps : SUBSET Counts, hardness : SUBSET Levels]
    BY <2>7 DEF NumbersMeant
  <2>9. meant'.caps = meant.caps /\ level \in meant'.hardness
    BY <2>7 DEF NumbersMeant
  <2>10. machine' = machine => machine.settings[3] \in meant'.hardness
    <3>1. CASE machine' = after /\ machine' = machine
      BY <2>5, <2>9, <3>1
    <3>2. CASE meant' = [meant EXCEPT !["hardness"] = meant["hardness"] \cup {level}]
      BY <3>2 DEF NumbersMeant
    <3> QED
      BY <2>7, <3>1, <3>2
  <2>11. CASE machine' = machine
    BY <2>8, <2>9, <2>10, <2>11 DEF NumbersMeant
  <2>12. CASE machine' = after
    BY <2>5, <2>8, <2>9, <2>12 DEF NumbersMeant
  <2> QED
    BY <2>7, <2>11, <2>12
<1> QED
  BY <1>2, <1>3

(* Nothing else moves them, but the machine that counts a capsule. *)
LEMMA MeantStep == ReadInv /\ NumbersMeant /\ [ReadNext]_readVars => NumbersMeant'
<1> SUFFICES ASSUME ReadInv, NumbersMeant, [ReadNext]_readVars PROVE NumbersMeant'
  OBVIOUS
<1>1. machine \in Machines
  BY DEF ReadInv, ReadShape
<1>2. CASE SetCapsCounter \/ SetWaterHardness
  BY <1>2, SetIsMeant
<1>3. CASE MachineWorks
  BY <1>1, <1>3 DEF MachineWorks, NumbersMeant, Machines
<1>4. CASE PollBegins \/ SelectActive \/ SelectListed \/ ErrorMoves
  <2>1. machine'.caps = machine.caps /\ machine'.settings = machine.settings /\ meant' = meant
    BY <1>1, <1>4 DEF PollBegins, SelectActive, SelectListed, ErrorMoves, Select, Machines
  <2> QED
    BY <2>1 DEF NumbersMeant
<1>5. CASE UNCHANGED <<machine, meant>>
  BY <1>5 DEF NumbersMeant
<1> QED
  BY <1>2, <1>3, <1>4, <1>5
     DEF ReadNext, PollStep, ReadFails, ReadStatus, ReadSettings, ReadActive, ReadListed,
         ReadCaps, ReadWifiAndParse, readVars

(* A sample is something a machine can hold. *)
LEMMA SamplesAreContents ==
  ASSUME NEW m \in Machines
  PROVE  m \in Contents
<1>1. /\ m.status \in StatusRecords /\ m.errors \in [0..1 -> 0..WordMax] /\ m.selected \in 0..1
      /\ m.caps \in 0..WordMax /\ m.wifi \in (0..255) \X (0..255)
  <2>1. /\ m.status \in Statuses /\ m.errors \in [0..1 -> Codes] /\ m.selected \in 0..1
        /\ m.caps \in Counts /\ m.wifi \in WifiCodes \X WifiCodes
    BY DEF Machines, Errors
  <2>2. m.status \in StatusRecords
    BY <2>1, SamplesAssumption
  <2>3. m.errors \in [0..1 -> 0..WordMax]
    BY <2>1, SamplesAssumption
  <2>4. m.caps \in 0..WordMax
    BY <2>1, SamplesAssumption DEF CapsCounterMax
  <2>5. m.wifi \in (0..255) \X (0..255)
    BY <2>1, SamplesAssumption
  <2> QED
    BY <2>1, <2>2, <2>3, <2>4, <2>5
<1>2. PICK l \in Levels : m.settings = <<255, 0, l, 30>>
  BY DEF Machines
<1>3. l \in 0..255
  BY SamplesAssumption DEF WaterHardnessMax
<1>4. m.settings \in [1..4 -> 0..255]
  BY <1>2, <1>3
<1>5. m = [status |-> m.status, errors |-> m.errors, selected |-> m.selected,
           caps |-> m.caps, settings |-> m.settings, wifi |-> m.wifi]
  BY DEF Machines
<1> QED
  BY <1>1, <1>4, <1>5 DEF Contents

(* Whatever writes and answers are lost, the capsule counter and the hardness  *)
(* are the numbers last asked for or counted, and what no entity sets stays as *)
(* the machine had it (number.py, build_caps_counter, build_water_hardness).   *)
THEOREM NumbersAreKept == ReadSpec => [](ReadTypeOK /\ SettingsAreKept)
<1>1. ReadInit => NumbersMeant
  <2> SUFFICES ASSUME ReadInit PROVE NumbersMeant
    OBVIOUS
  <2>1. machine \in Machines /\ meant = [caps |-> {machine.caps}, hardness |-> {machine.settings[3]}]
    BY DEF ReadInit
  <2>2. machine.caps \in Counts /\ machine.settings[3] \in Levels
    BY <2>1 DEF Machines
  <2> QED
    BY <2>1, <2>2 DEF NumbersMeant
<1>2. ReadInv /\ NumbersMeant => ReadTypeOK /\ SettingsAreKept
  <2> SUFFICES ASSUME ReadInv, NumbersMeant PROVE ReadTypeOK /\ SettingsAreKept
    OBVIOUS
  <2>1. machine \in Machines
    BY DEF ReadInv, ReadShape
  <2>2. PICK l \in Levels : machine.settings = <<255, 0, l, 30>>
    BY <2>1, MachineTypes
  <2>3. ReadTypeOK
    BY <2>1, SamplesAreContents DEF ReadInv, ReadShape, NumbersMeant, ReadTypeOK
  <2>4. SubSeq(machine.settings, 1, 2) = <<255, 0>> /\ machine.settings[4] = 30
    <3> DEFINE all == machine.settings
               kept == SubSeq(all, 1, 2)
    <3>1. all \in Seq(Nat) /\ Len(all) = 4 /\ all[1] = 255 /\ all[2] = 0 /\ all[4] = 30
      BY <2>2, Samples
    <3> HIDE DEF all
    <3>2. \A i \in 1..2 : all[i] \in Nat
      BY <3>1
    <3>3. kept \in Seq(Nat) /\ Len(kept) = 2 /\ kept[1] = 255 /\ kept[2] = 0
      BY <3>1, <3>2, SubSeqProperties, 1 \in Int, 2 \in Int
    <3> HIDE DEF kept
    <3>4. <<255, 0>> \in Seq(Nat) /\ Len(<<255, 0>>) = 2
      OBVIOUS
    <3>5. \A i \in 1..2 : kept[i] = <<255, 0>>[i]
      BY <3>3
    <3>6. kept = <<255, 0>>
      BY <3>3, <3>4, <3>5, SeqEqual
    <3>7. QED
      BY <3>1, <3>6 DEF all, kept
  <2>5. QED
    BY <2>3, <2>4 DEF SettingsAreKept, NumbersMeant
<1>3. QED
  BY <1>1, <1>2, ReadInitInv, ReadStep, MeantStep, PTL DEF ReadSpec

-----------------------------------------------------------------------------
(* Refining *)

(* The lists are in step with the poll, for every family with a status. *)
LEMMA ListsAreInStep ==
    ASSUME NEW f \in Families
    PROVE  /\ StatusFields(f) = PolledFields(f)
           /\ "rest" \notin StatusFields(f)
           /\ StatusFields(f) \subseteq DataFields
BY DEF Families, StatusFields, PolledFields, DataFields, CommonFields, VertuoFields, BaristaFields

(* Refining the dataset of a poll gives the dataset of a poll. *)
LEMMA RefinedIsPolled ==
    ASSUME family \in Families, family # "vmini", NEW b, NEW c, NEW r
    PROVE  Refine(Parse(family, c, r), ParseStatus(family, b)) = Parse(family, b, r)
<1>1. ASSUME NEW field \in DataFields
      PROVE  Refine(Parse(family, c, r), ParseStatus(family, b))[field] = Parse(family, b, r)[field]
  <2>1. CASE field \in StatusFields(family)
    BY <2>1, ListsAreInStep DEF Refine, Parse, PolledStatus
  <2>2. CASE field \notin StatusFields(family)
    BY <2>2, ListsAreInStep DEF Refine, Parse, PolledStatus
  <2> QED
    BY <2>1, <2>2
<1> QED
  BY <1>1 DEF Refine, Parse

(* The kinds of value the argument needs: a dataset comes of a payload of the *)
(* machine, and only a Vertuo Next advertises.                                *)
FastTypeOK ==
    /\ family \in Families /\ status \in Payloads
    /\ aired # None => aired \in Payloads /\ family = "vertuo_next"

(* The fast paths replace fields by fields of the same kind. *)
LEMMA FastTypeStep == FastTypeOK /\ [FastNext]_fastVars => FastTypeOK'
BY DEF FastTypeOK, FastNext, Poll, Notified, Advertised, Restarted, MachineChanges, fastVars, fastHistory

(* A whole payload is read by the parser of its family. *)
LEMMA WholePayloadParses ==
    ASSUME FastTypeOK, family = "vertuo_next"
    PROVE  ParseStatus(family, status).pairing_key_state = PairingKeyState(status[1])
<1>1. Len(status) = 3
  BY PayloadsAssumption DEF FastTypeOK
<1>2. ParseStatus(family, status) = ParseVertuonextStatus(status)
  BY <1>1 DEF ParseStatus
<1> QED
  BY <1>2 DEF ParseVertuonextStatus

(* Leaving a dataset alone that says the same is refining it. *)
LEMMA SameIsRefined ==
    ASSUME family \in Families, NEW c, NEW r, NEW parsed,
           \A field \in StatusFields(family) : Parse(family, c, r)[field] = parsed[field]
    PROVE  Refine(Parse(family, c, r), parsed) = Parse(family, c, r)
<1>1. ASSUME NEW field \in DataFields
      PROVE  Refine(Parse(family, c, r), parsed)[field] = Parse(family, c, r)[field]
  BY DEF Refine
<1> QED
  BY <1>1 DEF Refine, Parse

FastInv == FastTypeOK /\ FastPathsMissNothing

(* Nothing is shown before the first poll. *)
LEMMA FastInitHolds == FastInit => FastInv
BY DEF FastInit, FastInv, FastTypeOK, FastPathsMissNothing

(* No fast path misses what has changed. *)
LEMMA FastStep == FastInv /\ [FastNext]_fastVars => FastInv'
<1> SUFFICES ASSUME FastInv, [FastNext]_fastVars PROVE FastInv'
  OBVIOUS
<1> USE DEF FastInv
<1>1. FastTypeOK'
  BY FastTypeStep
<1>2. CASE Poll
  BY <1>1, <1>2 DEF Poll, FastPathsMissNothing
<1>3. CASE Notified
  <2>1. /\ family \in Families /\ family # "vmini" /\ dataset # None
        /\ dataset = Parse(family, applied, others)
    BY <1>3 DEF Notified, FastTypeOK, FastPathsMissNothing
  <2>2. PICK b \in {status, SubSeq(status, 1, 1)} :
          /\ dataset' = IF ParseStatus(family, b) = None THEN dataset
                        ELSE Refine(dataset, ParseStatus(family, b))
          /\ applied' = IF ParseStatus(family, b) = None THEN applied ELSE status
    BY <1>3 DEF Notified
  <2>3. /\ family' = family /\ others' = others /\ aired' = aired /\ pairing' = pairing
    BY <1>3 DEF Notified
  <2>4. CASE ParseStatus(family, b) = None
    BY <1>1, <2>2, <2>3, <2>4 DEF FastPathsMissNothing
  <2>5. CASE b = status /\ ParseStatus(family, b) # None
    <3>1. dataset' = Parse(family, status, others)
      BY <2>1, <2>2, <2>5, RefinedIsPolled
    <3> QED
      BY <1>1, <2>2, <2>3, <2>5, <3>1 DEF FastPathsMissNothing
  <2>6. CASE b = SubSeq(status, 1, 1)
    <3>1. Len(b) = 1
      BY <2>6, PayloadsAssumption DEF FastTypeOK
    <3>2. ParseStatus(family, b) = None
      BY <3>1 DEF ParseStatus
    <3> QED
      BY <2>4, <3>2
  <2> QED
    BY <2>2, <2>4, <2>5, <2>6
<1>4. CASE Advertised
  <2>1. /\ family = "vertuo_next" /\ family' = family /\ others' = others
        /\ aired' = status /\ family \in Families
        /\ pairing' = PairingKeyState(status[1])
    BY <1>4, WholePayloadParses DEF Advertised, FastTypeOK
  <2>2. CASE dataset = None
    BY <1>1, <1>4, <2>1, <2>2 DEF Advertised, FastPathsMissNothing
  <2>3. CASE dataset # None
    <3>1. dataset = Parse(family, applied, others)
      BY <2>3 DEF FastPathsMissNothing
    <3>2. Refine(dataset, ParseStatus(family, status)) = Parse(family, status, others)
      BY <2>1, <3>1, RefinedIsPolled
    <3>3. dataset' = Refine(dataset, ParseStatus(family, status)) /\ applied' = status
      <4>1. (\A field \in StatusFields(family) :
                 dataset[field] = ParseStatus(family, status)[field])
            => dataset = Refine(dataset, ParseStatus(family, status))
        BY <2>1, <3>1, SameIsRefined
      <4> QED
        BY <1>4, <2>3, <4>1 DEF Advertised
    <3> QED
      BY <1>1, <2>1, <3>2, <3>3 DEF FastPathsMissNothing
  <2> QED
    BY <2>2, <2>3
<1>5. CASE Restarted
  BY <1>1, <1>5 DEF Restarted, FastPathsMissNothing
<1>6. CASE MachineChanges
  BY <1>1, <1>6 DEF MachineChanges, FastPathsMissNothing, fastHistory
<1>7. CASE UNCHANGED fastVars
  BY <1>1, <1>7 DEF fastVars, fastHistory, FastPathsMissNothing
<1> QED
  BY <1>2, <1>3, <1>4, <1>5, <1>6, <1>7 DEF FastNext

(* Whatever mixture of polls, notifications, advertisements and reloads came *)
(* by, the dataset is that of a poll of the bytes that came last: no field   *)
(* of _STATUS_FIELDS is missing (coordinator.py), for any set of payloads.   *)
THEOREM NothingIsMissed == FastSpec => []FastPathsMissNothing
<1>1. FastInv => FastPathsMissNothing
  BY DEF FastInv
<1> QED
  BY <1>1, FastInitHolds, FastStep, PTL DEF FastSpec

-----------------------------------------------------------------------------
(* Side by side, each of the four does what it does alone. *)
THEOREM MachineRunsAll == MachineSpec => ReadSpec /\ WifiSpec /\ FastSpec /\ WritesSpec
<1>1. MachineInit => ReadInit /\ WifiInit /\ FastInit /\ WritesInit
  BY DEF MachineInit
<1>2. [MachineNext]_<<readVars, wifiVars, fastVars, writeVars, part>>
        => /\ [ReadNext]_readVars /\ [WifiNext]_wifiVars
           /\ [FastNext]_fastVars /\ [WritesNext]_writeVars
  BY DEF MachineNext, OnReads, OnWifi, OnStatus, OnWrites
<1>3. QED
  BY <1>1, <1>2, PTL DEF MachineSpec, ReadSpec, WifiSpec, FastSpec, WritesSpec

(* Nothing that was written or read garbles anything: the types of reading and *)
(* of the Wi-Fi scan hold, the two numbers are those asked for, and what no    *)
(* entity sets stays as the machine had it (number.py, build_caps_counter,     *)
(* build_water_hardness).                                                      *)
THEOREM MachineIsNotGarbled == MachineSpec => []NothingGarbled
<1>1. ReadTypeOK /\ SettingsAreKept /\ WifiTypeOK => NothingGarbled
  BY DEF NothingGarbled
<1>2. QED
  BY <1>1, MachineRunsAll, NumbersAreKept, WifiTypes, PTL
=============================================================================
