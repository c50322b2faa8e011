--------------------------- MODULE WifiSetupProofs ---------------------------
(***************************************************************************)
(* A scan returns the list the machine has, for every list and every       *)
(* machine that settles in time, and the machine joins the network it was  *)
(* asked to join, for every name, passphrase and market that the code lets *)
(* through.                                                                *)
(***************************************************************************)
EXTENDS WifiSetup, Integers, SequenceTheorems, FiniteSetTheorems, TLAPS

Offsets == SsidLen = 32 /\ KeyLen = 64 /\ SsidOffset = 1 /\ SecurityOffset = 33
           /\ KeyOffset = 34 /\ AddressOffset = 98 /\ IndexOffset = 118

(* The offsets of the Wi-Fi frame, computed once. *)
LEMMA OffsetValues == Offsets
BY DEF Offsets, SsidLen, KeyLen, SsidOffset, SecurityOffset, KeyOffset, AddressOffset, IndexOffset

-----------------------------------------------------------------------------
(* The frame *)

(* A run of n offsets has n of them. *)
LEMMA RunLength ==
    ASSUME NEW from \in Nat, NEW n \in Nat
    PROVE  Cardinality(from..(from + n - 1)) = n
<1>1. from \in Int /\ from + n - 1 \in Int
  OBVIOUS
<1>2. Cardinality(from..(from + n - 1))
        = IF from > from + n - 1 THEN 0 ELSE (from + n - 1) - from + 1
  BY <1>1, FS_Interval
<1> QED
  BY <1>2

(* Where each byte of the frame comes from, no two fields meeting. *)
LEMMA FrameBytes ==
    ASSUME NEW c \in Arguments, Fits(c), NEW o \in 0..118
    PROVE  Frame(c)[o] = IF o \in 1..c.ssid THEN SsidByte
                         ELSE IF o = 33 THEN c.security
                         ELSE IF o \in 34..(33 + c.key) THEN KeyByte
                         ELSE IF o = 118 THEN c.index ELSE 0
BY OffsetValues DEF Offsets, Frame, Fits, Arguments

(* What the machine reads from a frame is what was put into it. *)
LEMMA FrameIsUnderstood ==
    ASSUME NEW c \in Arguments, Fits(c)
    PROVE  Understood(Frame(c)) = [ssid |-> c.ssid, security |-> c.security, key |-> c.key,
                                   dhcp |-> TRUE, index |-> c.index]
<1>1. c.ssid \in 1..32 /\ c.key \in 0..64 /\ c.security \in 0..254 /\ c.index \in 0..255
  BY OffsetValues DEF Offsets, Fits, Arguments
<1>2. \A o \in 0..118 :
          Frame(c)[o] = IF o \in 1..c.ssid THEN SsidByte
                        ELSE IF o = 33 THEN c.security
                        ELSE IF o \in 34..(33 + c.key) THEN KeyByte
                        ELSE IF o = 118 THEN c.index ELSE 0
  BY FrameBytes
<1>3. Field(Frame(c), 1, 32, SsidByte) = c.ssid
  <2>1. {o \in 1..(1 + 32 - 1) : Frame(c)[o] = SsidByte} = 1..(1 + c.ssid - 1)
    <3>1. ASSUME NEW o \in 1..32
          PROVE  (Frame(c)[o] = SsidByte) <=> (o \in 1..c.ssid)
      <4>1. o \in 0..118 /\ o # 33 /\ o \notin 34..(33 + c.key) /\ o # 118
        BY <1>1
      <4> QED
        BY <1>2, <4>1 DEF SsidByte
    <3>2. 1 + 32 - 1 = 32 /\ 1 + c.ssid - 1 = c.ssid /\ 1..c.ssid \subseteq 1..32
      BY <1>1
    <3> QED
      BY <3>1, <3>2
  <2>2. Cardinality(1..(1 + c.ssid - 1)) = c.ssid
    <3>1. 1 \in Nat /\ c.ssid \in Nat
      BY <1>1
    <3> QED
      BY <3>1, RunLength, Zenon
  <2>3. Field(Frame(c), 1, 32, SsidByte)
          = Cardinality({o \in 1..(1 + 32 - 1) : Frame(c)[o] = SsidByte})
    BY DEF Field
  <2> QED
    BY <2>1, <2>2, <2>3
<1>4. Field(Frame(c), 34, 64, KeyByte) = c.key
  <2>1. {o \in 34..(34 + 64 - 1) : Frame(c)[o] = KeyByte} = 34..(34 + c.key - 1)
    <3>1. ASSUME NEW o \in 34..97
          PROVE  (Frame(c)[o] = KeyByte) <=> (o \in 34..(33 + c.key))
      <4>1. o \in 0..118 /\ o \notin 1..c.ssid /\ o # 33 /\ o # 118
        BY <1>1
      <4> QED
        BY <1>2, <4>1 DEF KeyByte
    <3>2. 34 + 64 - 1 = 97 /\ 34 + c.key - 1 = 33 + c.key /\ 34..(33 + c.key) \subseteq 34..97
      BY <1>1
    <3> QED
      BY <3>1, <3>2
  <2>2. Cardinality(34..(34 + c.key - 1)) = c.key
    <3>1. 34 \in Nat /\ c.key \in Nat
      BY <1>1
    <3> QED
      BY <3>1, RunLength, Zenon
  <2>3. Field(Frame(c), 34, 64, KeyByte)
          = Cardinality({o \in 34..(34 + 64 - 1) : Frame(c)[o] = KeyByte})
    BY DEF Field
  <2> QED
    BY <2>1, <2>2, <2>3
<1>5. Frame(c)[33] = c.security /\ Frame(c)[118] = c.index
  BY <1>1, <1>2
<1>6. (\A o \in 98..(118 - 1) : Frame(c)[o] = 0) = TRUE
  BY <1>1, <1>2
<1>7. Understood(Frame(c)) =
        [ssid |-> Field(Frame(c), 1, 32, SsidByte), security |-> Frame(c)[33],
         key |-> Field(Frame(c), 34, 64, KeyByte),
         dhcp |-> \A o \in 98..(118 - 1) : Frame(c)[o] = 0, index |-> Frame(c)[118]]
  BY OffsetValues, Zenon DEF Offsets, Understood
<1> QED
  BY <1>3, <1>4, <1>5, <1>6, <1>7

-----------------------------------------------------------------------------
(* The set-up *)

(* A call under way is one the code let through, and its credentials are sent *)
(* to a machine with a market.                                                *)
SetUpInv ==
    /\ step \in {"idle", "select", "result", "market", "credentials"}
    /\ step \in {"market", "credentials"} => call \in Arguments /\ Fits(call)
    /\ step = "credentials" => market = TRUE
    /\ JoinsAsAsked

(* Every write of a set-up keeps to the arguments of its call. *)
LEMMA SetUpStep == SetUpInv /\ [WifiNext]_wifiVars => SetUpInv'
<1> SUFFICES ASSUME SetUpInv, [WifiNext]_wifiVars PROVE SetUpInv'
  OBVIOUS
<1> USE DEF SetUpInv, JoinsAsAsked
<1>1. CASE ScanBegins \/ ScanSelect \/ ScanRead
  BY <1>1 DEF ScanBegins, ScanSelect, ScanRead, setupVars
<1>2. CASE Configure
  BY <1>2, WifiAssumption DEF Configure
<1>3. CASE WriteMarket
  BY <1>3 DEF WriteMarket
<1>4. CASE WriteCredentials
  BY <1>4, FrameIsUnderstood DEF WriteCredentials
<1>5. CASE FactoryReset
  BY <1>5 DEF FactoryReset
<1>6. CASE UNCHANGED wifiVars
  BY <1>6 DEF wifiVars, setupVars
<1> QED
  BY <1>1, <1>2, <1>3, <1>4, <1>5, <1>6 DEF WifiNext

(* "The market code goes first", and no field of the frame runs into another *)
(* (async_configure_wifi and build_wifi_setup_frame): the network joined is  *)
(* the one asked for.                                                        *)
THEOREM TheOneAsked == WifiSpec => []JoinsAsAsked
<1>1. WifiInit => SetUpInv
  BY DEF WifiInit, SetUpInv, JoinsAsAsked
<1>2. SetUpInv => JoinsAsAsked
  BY DEF SetUpInv
<1> QED
  BY <1>1, <1>2, SetUpStep, PTL DEF WifiSpec

-----------------------------------------------------------------------------
(* The scan *)

(* The networks collected so far are the first ones of the list, and the entry *)
(* shown by the time it is read is the selected one.                           *)
ScanInv ==
    /\ air \in Airs /\ ready \in 0..Settle
    /\ step \in {"select", "result"} =>
          /\ index \in 0..(MaxEntries - 1) /\ index <= Len(air)
          /\ networks = SubSeq(air, 1, index)
    /\ ScanIsTheList

(* The bounds are numbers. *)
LEMMA Bounds == MaxEntries \in Nat \ {0} /\ Settle \in Nat /\ MaxLag \in 0..Settle
BY WifiAssumption, Zenon

(* A prefix and the next entry make the next prefix. *)
LEMMA OneMore ==
    ASSUME NEW s \in Seq(Networks), NEW n \in Nat, n < Len(s)
    PROVE  Append(SubSeq(s, 1, n), s[n + 1]) = SubSeq(s, 1, n + 1)
<1>1. \A i \in 1..n : s[i] \in Networks
  BY ElementOfSeq
<1>2. SubSeq(s, 1, n) \in Seq(Networks)
  BY <1>1, SubSeqProperties, 1 \in Int, n \in Int
<1>3. 1 \in 1..Len(s) /\ n + 1 \in 1..Len(s) /\ (n + 1) - 1 = n
  BY LenProperties
<1>4. s[n + 1] \in Networks
  BY <1>3, ElementOfSeq
<1>5. Append(SubSeq(s, 1, n), s[n + 1]) = SubSeq(s, 1, n) \o <<s[n + 1]>>
  BY <1>2, <1>4, AppendIsConcat
<1>6. SubSeq(s, 1, n + 1) = SubSeq(s, 1, (n + 1) - 1) \o <<s[n + 1]>>
  BY <1>3, SubSeqRecursiveSecond
<1> QED
  BY <1>3, <1>5, <1>6

(* The entry at an index of the list is a network, and past it the end. *)
LEMMA EntryTells ==
    ASSUME air \in Airs, NEW i \in Nat, i <= Len(air)
    PROVE  /\ i < Len(air) => ParseScanEntry(Entry(i)) = air[i + 1] /\ air[i + 1] # Nil
           /\ i = Len(air) => ParseScanEntry(Entry(i)) = Nil
<1>1. air \in Seq(Networks)
  BY WifiAssumption
<1>2. ASSUME i < Len(air)
      PROVE  ParseScanEntry(Entry(i)) = air[i + 1] /\ air[i + 1] # Nil
  <2>1. i + 1 \in 1..Len(air)
    BY <1>1, <1>2, LenProperties
  <2>2. air[i + 1] \in Networks
    BY <1>1, <2>1, ElementOfSeq
  <2>3. air[i + 1] # Nil
    BY <2>2, WifiAssumption
  <2>4. air[i + 1].ssid = "" => air[i + 1].security # ScanEnd
    BY <2>1, WifiAssumption
  <2>5. Entry(i) = air[i + 1]
    BY <1>2 DEF Entry
  <2> QED
    BY <2>3, <2>4, <2>5 DEF ParseScanEntry
<1>3. ASSUME i = Len(air) PROVE ParseScanEntry(Entry(i)) = Nil
  <2>1. ~(i < Len(air))
    BY <1>3
  <2>2. Entry(i).ssid = "" /\ Entry(i).security = ScanEnd
    BY <2>1, Zenon DEF Entry
  <2>3. ParseScanEntry(Entry(i)) = IF Entry(i).security = ScanEnd /\ Entry(i).ssid = ""
                                   THEN Nil ELSE Entry(i)
    BY DEF ParseScanEntry
  <2> QED
    BY <2>2, <2>3
<1> QED
  BY <1>2, <1>3

(* A reading adds the next entry of the machine's list. *)
LEMMA ScanReadStep == ScanInv /\ ScanRead => ScanInv'
<1> SUFFICES ASSUME ScanInv, ScanRead PROVE ScanInv'
  OBVIOUS
<1>1. /\ step = "result" /\ air' = air /\ ready' = ready /\ air \in Airs
      /\ index \in 0..(MaxEntries - 1) /\ index <= Len(air)
      /\ networks = SubSeq(air, 1, index) /\ ScanIsTheList /\ ready \in 0..Settle
      /\ index \in Nat /\ MaxEntries \in Nat
  BY Bounds DEF ScanInv, ScanRead
<1>2. Settled(Settle) = index
  BY <1>1 DEF Settled
<1>3. Len(air) \in Nat /\ air \in Seq(Networks)
  BY <1>1, WifiAssumption, LenProperties
<1> DEFINE entry == ParseScanEntry(Entry(index))
<1>4. CASE entry = Nil /\ step' = "idle" /\ found' = networks
  <2>1. index = Len(air)
    BY <1>1, <1>3, <1>4, EntryTells
  <2>2. found' = SubSeq(air, 1, Len(air)) /\ Len(air) < MaxEntries
    BY <1>1, <1>4, <2>1
  <2> QED
    BY <1>1, <1>4, <2>2 DEF ScanInv, ScanIsTheList
<1>5. CASE /\ entry # Nil /\ networks' = Append(networks, entry)
           /\ IF index + 1 < MaxEntries
              THEN index' = index + 1 /\ step' = "select" /\ UNCHANGED found
              ELSE step' = "idle" /\ found' = networks' /\ UNCHANGED index
  <2>1. index < Len(air) /\ entry = air[index + 1]
    BY <1>1, <1>3, <1>5, EntryTells
  <2>2. networks' = SubSeq(air, 1, index + 1)
    BY <1>1, <1>3, <1>5, <2>1, OneMore
  <2>3. CASE index + 1 < MaxEntries
    <3>1. index' = index + 1 /\ step' = "select" /\ found' = found
      BY <1>5, <2>3
    <3>2. index' \in 0..(MaxEntries - 1) /\ index' <= Len(air)
      BY <1>1, <1>3, <2>1, <2>3, <3>1
    <3>3. ScanIsTheList'
      BY <1>1, <3>1 DEF ScanIsTheList
    <3> QED
      BY <1>1, <2>2, <3>1, <3>2, <3>3 DEF ScanInv
  <2>4. CASE ~(index + 1 < MaxEntries)
    <3>1. step' = "idle" /\ found' = SubSeq(air, 1, index + 1)
      BY <1>5, <2>2, <2>4
    <3>2. index + 1 = MaxEntries /\ MaxEntries <= Len(air)
      BY <1>1, <1>3, <2>1, <2>4
    <3>3. SubSeq(air, 1, index + 1)
            = SubSeq(air, 1, IF Len(air) < MaxEntries THEN Len(air) ELSE MaxEntries)
      <4>1. (IF Len(air) < MaxEntries THEN Len(air) ELSE MaxEntries) = MaxEntries
        BY <1>1, <1>3, <3>2
      <4> QED
        BY <3>2, <4>1
    <3> QED
      BY <1>1, <3>1, <3>3 DEF ScanInv, ScanIsTheList
  <2> QED
    BY <2>3, <2>4
<1>6. CASE step' = "idle" /\ UNCHANGED <<index, networks, found>>
  BY <1>1, <1>6 DEF ScanInv, ScanIsTheList
<1> QED
  BY <1>2, <1>4, <1>5, <1>6 DEF ScanRead

(* Nothing else touches the entries found. *)
LEMMA ScanStep == ScanInv /\ [WifiNext]_wifiVars => ScanInv'
<1> SUFFICES ASSUME ScanInv, [WifiNext]_wifiVars PROVE ScanInv'
  OBVIOUS
<1>1. CASE ScanBegins
  <2>1. air \in Seq(Networks)
    BY WifiAssumption DEF ScanInv
  <2>2. SubSeq(air, 1, 0) = <<>> /\ Len(air) \in Nat
    BY <2>1, SubSeqEmpty, LenProperties, 1 \in Int, 0 \in Int, 0 < 1
  <2> QED
    BY <1>1, <2>2, Bounds DEF ScanBegins, ScanInv, ScanIsTheList
<1>2. CASE ScanSelect
  BY <1>2, Bounds DEF ScanSelect, ScanInv, ScanIsTheList
<1>3. CASE ScanRead
  BY <1>3, ScanReadStep
<1>4. CASE Configure \/ WriteMarket \/ WriteCredentials \/ FactoryReset
  BY <1>4 DEF Configure, WriteMarket, WriteCredentials, FactoryReset, scanVars, ScanInv,
              ScanIsTheList
<1>5. CASE UNCHANGED wifiVars
  BY <1>5 DEF wifiVars, scanVars, ScanInv, ScanIsTheList
<1> QED
  BY <1>1, <1>2, <1>3, <1>4, <1>5 DEF WifiNext

(* A scan that completes returns the machine's list, hidden networks and all, *)
(* up to the most it walks (async_scan_wifi, parse_wifi_scan_entry), for any  *)
(* machine that shows an entry within the pause of the code.                  *)
THEOREM TheWholeList == WifiSpec => []ScanIsTheList
<1>1. WifiInit => ScanInv
  BY Bounds DEF WifiInit, ScanInv, ScanIsTheList
<1>2. ScanInv => ScanIsTheList
  BY DEF ScanInv
<1> QED
  BY <1>1, <1>2, ScanStep, PTL DEF WifiSpec

-----------------------------------------------------------------------------
(* The types *)

(* Whatever index is read, the answer is an entry or the end of the list. *)
LEMMA EntryIsANetwork ==
    ASSUME air \in Airs, NEW i \in Nat
    PROVE  ParseScanEntry(Entry(i)) \in Networks \cup {Nil}
<1>1. CASE i < Len(air)
  <2>1. air \in Seq(Networks)
    BY WifiAssumption
  <2>2. i + 1 \in 1..Len(air)
    BY <1>1, <2>1, LenProperties
  <2>3. air[i + 1] \in Networks
    BY <2>1, <2>2, ElementOfSeq
  <2> QED
    BY <1>1, <2>3 DEF Entry, ParseScanEntry
<1>2. CASE ~(i < Len(air))
  BY <1>2 DEF Entry, ParseScanEntry, Networks, ScanEnd
<1> QED
  BY <1>1, <1>2

(* While a scan runs it has collected as many networks as it has walked. *)
TypesInv ==
    /\ WifiTypeOK
    /\ networks \in Seq(Networks)
    /\ step \in {"select", "result"} => index < MaxEntries /\ Len(networks) = index

(* What a reading adds is a network. *)
LEMMA ScanReadTypes == TypesInv /\ ScanRead => TypesInv'
<1> SUFFICES ASSUME TypesInv, ScanRead PROVE TypesInv'
  OBVIOUS
<1> DEFINE entry == ParseScanEntry(Entry(Settled(Settle)))
<1>1. /\ air \in Airs /\ index \in Nat /\ index < MaxEntries /\ Len(networks) = index
      /\ networks \in Seq(Networks) /\ shown \in Nat /\ MaxEntries \in Nat
      /\ shown' = index /\ index \in 0..MaxEntries
      /\ UNCHANGED <<air, ready, call, market, network, asked>>
  BY Bounds DEF TypesInv, WifiTypeOK, ScanRead, setupVars
<1>2. entry \in Networks \cup {Nil}
  BY <1>1, EntryIsANetwork DEF Settled
<1>3. CASE step' = "idle" /\ UNCHANGED <<index, networks>>
  BY <1>1, <1>3 DEF TypesInv, WifiTypeOK
<1>4. CASE /\ entry # Nil /\ networks' = Append(networks, entry)
           /\ IF index + 1 < MaxEntries
              THEN index' = index + 1 /\ step' = "select" /\ UNCHANGED found
              ELSE step' = "idle" /\ found' = networks' /\ UNCHANGED index
  <2>1. networks' \in Seq(Networks) /\ Len(networks') = index + 1
    BY <1>1, <1>2, <1>4
  <2>2. CASE index + 1 < MaxEntries
    BY <1>1, <1>4, <2>1, <2>2 DEF TypesInv, WifiTypeOK
  <2>3. CASE ~(index + 1 < MaxEntries)
    BY <1>1, <1>4, <2>1, <2>3 DEF TypesInv, WifiTypeOK
  <2> QED
    BY <2>2, <2>3
<1> QED
  BY <1>3, <1>4 DEF ScanRead

(* Every step leaves the variables in their sets. *)
LEMMA TypesStep == TypesInv /\ [WifiNext]_wifiVars => TypesInv'
<1> SUFFICES ASSUME TypesInv, [WifiNext]_wifiVars PROVE TypesInv'
  OBVIOUS
<1> USE DEF TypesInv, WifiTypeOK
<1>1. CASE ScanBegins
  BY <1>1, Bounds DEF ScanBegins, setupVars
<1>2. CASE ScanSelect
  BY <1>2, Bounds DEF ScanSelect, setupVars
<1>3. CASE ScanRead
  BY <1>3, ScanReadTypes
<1>4. CASE Configure
  BY <1>4 DEF Configure, scanVars
<1>5. CASE WriteMarket
  BY <1>5 DEF WriteMarket, scanVars
<1>6. CASE WriteCredentials
  BY <1>6 DEF WriteCredentials, scanVars
<1>7. CASE FactoryReset
  BY <1>7 DEF FactoryReset, scanVars
<1>8. CASE UNCHANGED wifiVars
  BY <1>8 DEF wifiVars, scanVars, setupVars
<1> QED
  BY <1>1, <1>2, <1>3, <1>4, <1>5, <1>6, <1>7, <1>8 DEF WifiNext

(* The variables keep their types, and no scan collects more entries than it  *)
(* may walk, whatever the machine answers and however late.                   *)
THEOREM WifiTypes == WifiSpec => []WifiTypeOK
<1>1. WifiInit => TypesInv
  <2> SUFFICES ASSUME WifiInit PROVE TypesInv
    OBVIOUS
  <2>1. networks \in Seq(Networks) /\ Len(networks) = 0
    BY EmptySeq DEF WifiInit
  <2>2. Len(networks) <= MaxEntries
    BY <2>1, Bounds
  <2>3. ready \in 0..MaxLag /\ shown \in 0..MaxEntries /\ index \in 0..MaxEntries
    BY Bounds DEF WifiInit
  <2>4. WifiTypeOK
    BY <2>2, <2>3 DEF WifiInit, WifiTypeOK
  <2> QED
    BY <2>1, <2>4 DEF WifiInit, TypesInv
<1>2. TypesInv => WifiTypeOK
  BY DEF TypesInv
<1> QED
  BY <1>1, <1>2, TypesStep, PTL DEF WifiSpec
=============================================================================
