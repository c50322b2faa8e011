------------------------- MODULE MachineWritesProofs -------------------------
(***************************************************************************)
(* What reaches the machine is what was asked for, for any options, any    *)
(* recipes and whatever somebody types: the brew command in the frame is   *)
(* that of the selects, and cutting a pairing key after fifteen digits is  *)
(* the shift by one nibble that the app does.                              *)
(***************************************************************************)
EXTENDS MachineWrites, Integers, SequenceTheorems, TLAPS

(* The first fifteen digits behind the marker, one by one. *)
LEMMA CutDigits ==
    ASSUME NEW key, \A i \in 1..32 : key[i] \in 0..15,
           NEW cut, cut = <<Marker>> \o SubSeq(key, 1, 15)
    PROVE  /\ cut \in Seq(0..15) /\ Len(cut) = 16 /\ cut[1] = 8
           /\ \A i \in 2..16 : cut[i] = key[i - 1]
<1> DEFINE head == SubSeq(key, 1, 15)
<1>1. \A i \in 1..15 : key[i] \in 0..15
  OBVIOUS
<1>2. /\ head \in Seq(0..15)
      /\ Len(head) = IF 1 <= 15 THEN 15 - 1 + 1 ELSE 0
      /\ \A i \in 1..15 - 1 + 1 : head[i] = key[1 + i - 1]
  BY <1>1, SubSeqProperties, 1 \in Int, 15 \in Int
<1>3. <<Marker>> \in Seq(0..15) /\ Len(<<Marker>>) = 1 /\ <<Marker>>[1] = 8
  BY DEF Marker
<1>4. /\ cut \in Seq(0..15) /\ Len(cut) = 16
      /\ \A i \in 1..16 : cut[i] = IF i <= 1 THEN <<Marker>>[i] ELSE head[i - 1]
  BY <1>2, <1>3, ConcatProperties
<1>5. cut[1] = 8
  BY <1>3, <1>4
<1>6. ASSUME NEW i \in 2..16 PROVE cut[i] = key[i - 1]
  <2>1. i \in 1..16 /\ ~(i <= 1) /\ i - 1 \in 1..15
    OBVIOUS
  <2> HIDE DEF head
  <2>2. cut[i] = head[i - 1]
    BY <1>4, <2>1
  <2>3. head[i - 1] = key[i - 1]
    <3>1. \A j \in 1..15 : 1 + j - 1 = j /\ j \in 1..15 - 1 + 1
      OBVIOUS
    <3>2. \A j \in 1..15 : head[j] = key[j]
      BY <1>2, <3>1
    <3> QED
      BY <2>1, <3>2
  <2> QED
    BY <2>2, <2>3
<1> QED
  BY <1>4, <1>5, <1>6

(* The eight bytes of the first half of a pairing key. *)
LEMMA HalfBytes ==
    ASSUME NEW key, Len(key) = 32, \A i \in 1..32 : key[i] \in 0..15
    PROVE  \A i \in 1..8 :
               SubSeq(Unhexlify(key), 1, 8)[i] = 16 * key[2 * i - 1] + key[2 * i]
<1>1. \A i \in 1..16 : Unhexlify(key)[i] = 16 * key[2 * i - 1] + key[2 * i]
  BY 32 \div 2 = 16 DEF Unhexlify
<1>2. \A i \in 1..8 : Unhexlify(key)[i] = 16 * key[2 * i - 1] + key[2 * i]
  BY <1>1
<1>3. ASSUME NEW i \in 1..8 PROVE Unhexlify(key)[i] \in Int
  <2>1. 2 * i - 1 \in 1..32 /\ 2 * i \in 1..32
    OBVIOUS
  <2>2. key[2 * i - 1] \in 0..15 /\ key[2 * i] \in 0..15
    BY <2>1
  <2> QED
    BY <1>2, <2>2
<1>4. \A i \in 1..8 - 1 + 1 : SubSeq(Unhexlify(key), 1, 8)[i] = Unhexlify(key)[1 + i - 1]
  BY <1>3, SubSeqProperties, 1 \in Int, 8 \in Int
<1>5. ASSUME NEW i \in 1..8 PROVE SubSeq(Unhexlify(key), 1, 8)[i] = Unhexlify(key)[i]
  <2>1. i \in 1..8 - 1 + 1 /\ 1 + i - 1 = i
    OBVIOUS
  <2> QED
    BY <1>4, <2>1
<1> QED
  BY <1>2, <1>5

(* "Shifting a hex string right by one nibble is dropping its last character." *)
THEOREM CuttingIsShifting ==
    ASSUME NEW key, Len(key) = 32, \A i \in 1..32 : key[i] \in 0..15
    PROVE  /\ Len(<<Marker>> \o SubSeq(key, 1, 15)) = 16
           /\ Unhexlify(<<Marker>> \o SubSeq(key, 1, 15))
                 = AppShift(SubSeq(Unhexlify(key), 1, 8))
<1> DEFINE cut == <<Marker>> \o SubSeq(key, 1, 15)
           bytes == SubSeq(Unhexlify(key), 1, 8)
<1>1. /\ Len(cut) = 16 /\ cut[1] = 8
      /\ \A i \in 2..16 : cut[i] = key[i - 1]
  BY CutDigits
<1>2. \A i \in 1..8 : bytes[i] = 16 * key[2 * i - 1] + key[2 * i]
  BY HalfBytes
<1> HIDE DEF cut, bytes
<1>3. ASSUME NEW i \in 1..8
      PROVE  16 * cut[2 * i - 1] + cut[2 * i] = AppShift(bytes)[i]
  <2>1. CASE i = 1
    <3>1. bytes[1] = 16 * key[1] + key[2] /\ key[1] \in 0..15 /\ key[2] \in 0..15
      BY <1>2
    <3>2. bytes[1] \div 16 = key[1]
      BY <3>1
    <3>3. AppShift(bytes)[1] = key[1] + 128
      BY <3>2 DEF AppShift
    <3>4. cut[1] = 8 /\ cut[2] = key[1]
      BY <1>1
    <3> QED
      BY <2>1, <3>1, <3>3, <3>4
  <2>2. CASE i \in 2..8
    <3>1. /\ bytes[i] = 16 * key[2 * i - 1] + key[2 * i]
          /\ bytes[i - 1] = 16 * key[2 * i - 3] + key[2 * i - 2]
      <4>1. i - 1 \in 1..8 /\ 2 * (i - 1) - 1 = 2 * i - 3 /\ 2 * (i - 1) = 2 * i - 2
        BY <2>2
      <4> QED
        BY <1>2, <4>1
    <3>2. /\ key[2 * i - 3] \in 0..15 /\ key[2 * i - 2] \in 0..15
          /\ key[2 * i - 1] \in 0..15 /\ key[2 * i] \in 0..15
      BY <2>2
    <3>3. bytes[i - 1] % 16 = key[2 * i - 2]
      BY <3>1, <3>2
    <3>4. bytes[i] \div 16 = key[2 * i - 1]
      BY <3>1, <3>2
    <3>5. AppShift(bytes)[i] = key[2 * i - 2] * 16 + key[2 * i - 1]
      BY <2>2, <3>3, <3>4 DEF AppShift
    <3>6. cut[2 * i - 1] = key[2 * i - 2] /\ cut[2 * i] = key[2 * i - 1]
      BY <1>1, <2>2
    <3> QED
      BY <3>2, <3>5, <3>6
  <2> QED
    BY <2>1, <2>2
<1>4. Unhexlify(cut) = [i \in 1..8 |-> 16 * cut[2 * i - 1] + cut[2 * i]]
  BY <1>1, 16 \div 2 = 8 DEF Unhexlify
<1>5. AppShift(bytes) = [i \in 1..8 |-> AppShift(bytes)[i]]
  BY DEF AppShift
<1>6. Unhexlify(cut) = AppShift(bytes)
  BY <1>3, <1>4, <1>5
<1> QED
  BY <1>1, <1>6 DEF cut, bytes

-----------------------------------------------------------------------------
(* The frame puts the two choices where the machine looks for them. *)
LEMMA FrameSaysTheChoice ==
    ASSUME NEW c
    PROVE  ReadFrame(CommandFrame(3, 5, BrewData(c)))
             = [temperature |-> TemperatureValues[c.temperature],
                type |-> BrewTypeValues[c.type]]
<1>1. Len(BrewData(c)) = 7
  BY DEF BrewData
<1>2. /\ BrewData(c)[6] = TemperatureValues[c.temperature]
      /\ BrewData(c)[7] = BrewTypeValues[c.type]
  BY DEF BrewData
<1>3. /\ CommandFrame(3, 5, BrewData(c))[9] = BrewData(c)[6]
      /\ CommandFrame(3, 5, BrewData(c))[10] = BrewData(c)[7]
  BY <1>1 DEF CommandFrame, FrameLen
<1> QED
  BY <1>2, <1>3 DEF ReadFrame

Shown == {Blank} \cup {Recipes[i] : i \in 1..Len(Recipes)}

(* The selects show the choice the coordinator holds, and nothing else. *)
ChoiceIsShown ==
    /\ choice \in [type : BrewTypes, temperature : Temperatures]
    /\ display \in [type : BrewTypes, temperature : Temperatures, recipe : Shown]
    /\ display.type = choice.type /\ display.temperature = choice.temperature
    /\ recipe \in Int

(* A frame on its way says what the selects showed when it was built. *)
FrameIsShown ==
    sending # Blank => sending.frame = CommandFrame(3, 5, BrewData(sending.shown))

WritesInv == ChoiceIsShown /\ FrameIsShown /\ WritesSayWhatWasAsked

(* Nothing is ordered and no key is stored at the start. *)
LEMMA WritesInitHolds == WritesInit => WritesInv
BY WritesAssumption
   DEF WritesInit, WritesInv, ChoiceIsShown, FrameIsShown, DefaultChoice, Shown, WritesSayWhatWasAsked,
       BrewIsTheOneShown, RecipeIsTheOneShown, KeyIsTheAccounts

(* The brew the machine takes is the one the selects showed. *)
LEMMA BrewStep ==
    WritesInv /\ [WritesNext]_writeVars => ChoiceIsShown' /\ FrameIsShown' /\ BrewIsTheOneShown'
<1> SUFFICES ASSUME WritesInv, [WritesNext]_writeVars
             PROVE  ChoiceIsShown' /\ FrameIsShown' /\ BrewIsTheOneShown'
  OBVIOUS
<1> USE DEF WritesInv, WritesSayWhatWasAsked
<1>0. UNCHANGED <<sending, ordered, asFor>> => FrameIsShown' /\ BrewIsTheOneShown'
  BY DEF FrameIsShown, BrewIsTheOneShown
<1>1. CASE ChooseType
  BY <1>0, <1>1 DEF ChooseType, ChoiceIsShown, recipeVars
<1>2. CASE ChooseTemperature
  BY <1>0, <1>2 DEF ChooseTemperature, ChoiceIsShown, recipeVars
<1>3. CASE BuildCommand
  <2>1. ChoiceIsShown' /\ BrewIsTheOneShown'
    BY <1>3 DEF BuildCommand, ChoiceIsShown, BrewIsTheOneShown, recipeVars
  <2>2. BrewData(choice) = BrewData(sending'.shown)
    BY <1>3 DEF BuildCommand, ChoiceIsShown, BrewData
  <2>3. sending'.frame = CommandFrame(3, 5, BrewData(choice))
    BY <1>3 DEF BuildCommand
  <2> QED
    BY <2>1, <2>2, <2>3 DEF FrameIsShown
<1>4. CASE SendCommand
  <2>1. ChoiceIsShown' /\ FrameIsShown'
    BY <1>4 DEF SendCommand, ChoiceIsShown, FrameIsShown, recipeVars
  <2>2. CASE UNCHANGED <<ordered, asFor>>
    BY <2>1, <2>2 DEF BrewIsTheOneShown
  <2>3. CASE ordered' = ReadFrame(sending.frame) /\ asFor' = sending.shown
    <3>1. sending.frame = CommandFrame(3, 5, BrewData(sending.shown))
      BY <1>4 DEF SendCommand, FrameIsShown
    <3>2. ReadFrame(sending.frame)
            = [temperature |-> TemperatureValues[sending.shown.temperature],
               type |-> BrewTypeValues[sending.shown.type]]
      BY <3>1, FrameSaysTheChoice
    <3> QED
      BY <2>1, <2>3, <3>2 DEF BrewIsTheOneShown
  <2> QED
    BY <1>4, <2>1, <2>2, <2>3 DEF SendCommand
<1>5. CASE SelectRecipe
  BY <1>0, <1>5 DEF SelectRecipe, ChoiceIsShown, Shown
<1>6. CASE Restart
  BY <1>6, WritesAssumption
     DEF Restart, DefaultChoice, ChoiceIsShown, FrameIsShown, BrewIsTheOneShown, Shown, recipeVars
<1>7. CASE TypeToken \/ MakeKey \/ RemoveMachine
  BY <1>0, <1>7 DEF TypeToken, MakeKey, RemoveMachine, ChoiceIsShown, brewVars, recipeVars
<1>8. CASE UNCHANGED writeVars
  BY <1>0, <1>8 DEF ChoiceIsShown, writeVars, brewVars, recipeVars
<1> QED
  BY <1>1, <1>2, <1>3, <1>4, <1>5, <1>6, <1>7, <1>8 DEF WritesNext

(* The recipe shown stays the one the machine holds, lost answers apart. *)
LEMMA RecipeStep == WritesInv /\ [WritesNext]_writeVars => RecipeIsTheOneShown'
<1> SUFFICES ASSUME WritesInv, [WritesNext]_writeVars
             PROVE  RecipeIsTheOneShown'
  OBVIOUS
<1> USE DEF WritesInv, WritesSayWhatWasAsked
<1>1. CASE ChooseType
  BY <1>1 DEF ChooseType, ChoiceIsShown, RecipeIsTheOneShown, recipeVars
<1>2. CASE ChooseTemperature
  BY <1>2 DEF ChooseTemperature, ChoiceIsShown, RecipeIsTheOneShown, recipeVars
<1>3. CASE SelectRecipe
  <2>1. PICK i \in 1..Len(Recipes) :
          \/ /\ recipe' = i - 1 /\ unsure' = FALSE
             /\ display' = [display EXCEPT !.recipe = Recipes[i]]
          \/ recipe' \in {recipe, i - 1} /\ unsure' = TRUE /\ UNCHANGED display
    BY <1>3 DEF SelectRecipe
  <2>2. i \in Int /\ (i - 1) + 1 = i
    BY WritesAssumption
  <2> QED
    BY <2>1, <2>2 DEF ChoiceIsShown, RecipeIsTheOneShown
<1>4. CASE Restart
  BY <1>4 DEF Restart, RecipeIsTheOneShown
<1>5. CASE UNCHANGED <<display, recipe, unsure>>
  BY <1>5 DEF RecipeIsTheOneShown
<1> QED
  BY <1>1, <1>2, <1>3, <1>4, <1>5
     DEF WritesNext, BuildCommand, SendCommand, TypeToken, MakeKey, RemoveMachine, writeVars, brewVars, recipeVars

(* A key that is typed, made or kept is the one of its account. *)
LEMMA KeyStep == WritesInv /\ [WritesNext]_writeVars => KeyIsTheAccounts'
<1> SUFFICES ASSUME WritesInv, [WritesNext]_writeVars
             PROVE  KeyIsTheAccounts'
  OBVIOUS
<1> USE DEF WritesInv, WritesSayWhatWasAsked
<1>1. CASE TypeToken
  <2>1. PICK text \in Typed :
          /\ NormalizeAuthKey(text) # Blank
          /\ authKey' = NormalizeAuthKey(text)
          /\ account' = IF Len(Stripped(text)) = PairingKeyDigits THEN Stripped(text) ELSE Blank
    BY <1>1 DEF TypeToken
  <2> DEFINE key == Stripped(text)
  <2> HIDE DEF key
  <2>2. key \in Seq(0..15)
    BY <2>1 DEF NormalizeAuthKey, key
  <2>3. CASE Len(key) = KeyDigits
    <3>1. authKey' = key /\ account' = Blank
      BY <2>1, <2>2, <2>3 DEF NormalizeAuthKey, key, KeyDigits, PairingKeyDigits
    <3> QED
      BY <2>3, <3>1 DEF KeyIsTheAccounts
  <2>4. CASE Len(key) = PairingKeyDigits
    <3>1. authKey' = <<Marker>> \o SubSeq(key, 1, 15) /\ account' = key
      BY <2>1, <2>2, <2>4 DEF NormalizeAuthKey, key, KeyDigits, PairingKeyDigits
    <3>2. \A i \in 1..Len(key) : key[i] \in 0..15
      BY <2>2, ElementOfSeq
    <3>3. Len(key) = 32 /\ \A i \in 1..32 : key[i] \in 0..15
      BY <2>4, <3>2 DEF PairingKeyDigits
    <3>4. Len(authKey') = 16 /\ Unhexlify(authKey') = AppShift(SubSeq(Unhexlify(account'), 1, 8))
      BY <3>1, <3>3, CuttingIsShifting
    <3> QED
      BY <3>4 DEF KeyIsTheAccounts, KeyDigits
  <2> QED
    BY <2>1, <2>2, <2>3, <2>4 DEF NormalizeAuthKey, key
<1>2. CASE MakeKey
  <2>1. PICK random \in Random : authKey' = <<Marker>> \o random /\ account' = Blank
    BY <1>2 DEF MakeKey, GenerateAuthKey
  <2>2. random \in Seq(0..15) /\ Len(random) = 15
    BY WritesAssumption
  <2>3. <<Marker>> \in Seq(0..15) /\ Len(<<Marker>>) = 1
    BY DEF Marker
  <2>4. Len(<<Marker>> \o random) = Len(<<Marker>>) + Len(random)
    BY <2>2, <2>3, ConcatProperties
  <2>5. Len(<<Marker>> \o random) = 16
    BY <2>2, <2>3, <2>4
  <2> QED
    BY <2>1, <2>5 DEF KeyIsTheAccounts, KeyDigits
<1>3. CASE RemoveMachine
  BY <1>3 DEF RemoveMachine, KeyIsTheAccounts
<1>4. CASE UNCHANGED keyVars
  BY <1>4 DEF keyVars, KeyIsTheAccounts
<1> QED
  BY <1>1, <1>2, <1>3, <1>4
     DEF WritesNext, ChooseType, ChooseTemperature, BuildCommand, SendCommand, SelectRecipe, Restart, writeVars

(* Whatever is chosen, restarted, typed or lost, the machine brews what the   *)
(* selects showed, the recipe shown is the one it holds, and a key is the one *)
(* the app would write (select.py, button.py, normalize_auth_key).            *)
THEOREM SaysWhatWasAsked == WritesSpec => []WritesSayWhatWasAsked
<1>1. WritesInv /\ [WritesNext]_writeVars => WritesInv'
  BY BrewStep, RecipeStep, KeyStep DEF WritesInv, WritesSayWhatWasAsked
<1>2. WritesInv => WritesSayWhatWasAsked
  BY DEF WritesInv
<1> QED
  BY <1>1, <1>2, WritesInitHolds, PTL DEF WritesSpec
=============================================================================
