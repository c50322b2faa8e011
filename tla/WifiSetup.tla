----------------------------- MODULE WifiSetup -----------------------------
(***************************************************************************)
(* Scanning for networks and putting the machine on one (async_scan_wifi,  *)
(* async_configure_wifi and build_wifi_setup_frame in ble/protocol.py,     *)
(* parse_wifi_scan_entry in ble/parsing.py).  A scan writes an index, waits *)
(* for the machine to settle and reads whatever entry it then shows; the   *)
(* set-up writes a market and one fixed frame whose fields have no room to *)
(* spare.  Every write may be applied and its acknowledgement lost.        *)
(***************************************************************************)
EXTENDS Naturals, Sequences, FiniteSets

CONSTANTS
    Airs,           \* lists of networks the machine may see
    Calls,          \* arguments of configure_wifi
    MaxEntries,     \* WIFI_SCAN_MAX_ENTRIES
    Settle,         \* WIFI_SCAN_SETTLE, in tenths of a second
    MaxLag,         \* how long the machine takes to show the selected entry
    Nil

SsidLen == 32                   \* WIFI_SSID_LEN
KeyLen == 64                    \* WIFI_KEY_LEN
SsidOffset == 1                 \* WIFI_SSID_OFFSET
SecurityOffset == 33            \* WIFI_SECURITY_OFFSET
KeyOffset == 34                 \* WIFI_KEY_OFFSET
AddressOffset == 98             \* the five addresses, zero for DHCP
IndexOffset == 118              \* WIFI_CONNECTION_INDEX_OFFSET, the last byte
ScanEnd == 255                  \* WIFI_SCAN_END

(* A network as the machine lists it; an empty ssid is a hidden one. *)
Networks == [ssid : {"", "home", "guest"}, security : 0..255]

(* A call: is the market two ASCII letters, the bytes of ssid and passphrase. *)
Arguments == [market : BOOLEAN, ssid : Nat, key : Nat, security : 0..254, index : 0..255]

ASSUME WifiAssumption ==
    /\ Airs \subseteq Seq(Networks)
    /\ \A seen \in Airs : \A i \in 1..Len(seen) :
          seen[i].ssid = "" => seen[i].security # ScanEnd
    /\ Nil \notin Networks /\ Nil \notin Calls
    /\ Calls \subseteq Arguments
    /\ MaxEntries \in Nat \ {0}
    /\ Settle \in Nat /\ MaxLag \in 0..Settle

VARIABLES
    air,        \* the networks the machine sees
    shown,      \* the index its result characteristic holds
    ready,      \* how long after the selection it will hold the selected one
    step,       \* what async_scan_wifi or async_configure_wifi does next
    index,      \* the loop variable of the scan
    networks,   \* the networks it has collected
    found,      \* what the last complete scan returned, or Nil
    call,       \* the arguments of the set-up under way, or Nil
    market,     \* the machine has a market code
    network,    \* the network it was put on, as it understood the frame, or Nil
    asked       \* history: the arguments of the call that put it there

scanVars == <<air, shown, ready, index, networks, found>>
setupVars == <<call, market, network, asked>>
wifiVars == <<scanVars, setupVars, step>>

WifiTypeOK ==
    /\ air \in Airs /\ shown \in 0..MaxEntries /\ ready \in 0..MaxLag
    /\ step \in {"idle", "select", "result", "market", "credentials"}
    /\ index \in 0..MaxEntries
    /\ Len(networks) <= MaxEntries
    /\ call \in Calls \cup {Nil} /\ asked \in Calls \cup {Nil}
    /\ market \in BOOLEAN

WifiInit ==
    /\ air \in Airs /\ shown = 0 /\ ready = 0
    /\ step = "idle" /\ index = 0 /\ networks = <<>> /\ found = Nil
    /\ call = Nil /\ market = FALSE /\ network = Nil /\ asked = Nil

-----------------------------------------------------------------------------
(* The scan *)

(* The entry the machine has at an index: past the last network, the sentinel. *)
Entry(i) == IF i < Len(air) THEN air[i + 1] ELSE [ssid |-> "", security |-> ScanEnd]

(* Mutant of ParseScanEntry: a hidden network ends the list. *)
ParseScanEntryBySsid(entry) == IF entry.ssid = "" THEN Nil ELSE entry

(* parse_wifi_scan_entry *)
ParseScanEntry(entry) ==
    IF entry.security = ScanEnd /\ entry.ssid = "" THEN Nil ELSE entry

ScanBegins ==
    /\ step = "idle" /\ step' = "select"
    /\ index' = 0 /\ networks' = <<>> /\ found' = Nil
    /\ UNCHANGED <<air, shown, ready, setupVars>>

(* The write of the index; when it raises so does the scan. *)
ScanSelect ==
    /\ step = "select"
    /\ \/ /\ step' = "result"
          /\ ready' \in 0..MaxLag
          /\ UNCHANGED <<air, shown, index, networks, found, setupVars>>
       \/ /\ step' = "idle"
          /\ shown' \in {shown, index}
          /\ UNCHANGED <<air, ready, index, networks, found, setupVars>>

(* What the result characteristic holds once the scan has slept. *)
Settled(slept) == IF ready <= slept THEN index ELSE shown

(* The read after the pause: an entry to keep, the end, or one too many. *)
ScanRead ==
    /\ step = "result"
    /\ shown' = index
    /\ LET entry == ParseScanEntry(Entry(Settled(Settle))) IN
       \/ /\ entry = Nil
          /\ step' = "idle" /\ found' = networks
          /\ UNCHANGED <<index, networks>>
       \/ /\ entry # Nil
          /\ networks' = Append(networks, entry)
          /\ IF index + 1 < MaxEntries
             THEN index' = index + 1 /\ step' = "select" /\ UNCHANGED found
             ELSE step' = "idle" /\ found' = networks' /\ UNCHANGED index
       \/ step' = "idle" /\ UNCHANGED <<index, networks, found>>    \* the read raises
    /\ UNCHANGED <<air, ready, setupVars>>

-----------------------------------------------------------------------------
(* The set-up *)

(* The bytes of the ssid and of the passphrase, told apart from the rest. *)
SsidByte == 1000
KeyByte == 2000

(* build_wifi_setup_frame, which copies each field over what is there: where *)
(* two meet, the later one stays.                                            *)
Frame(c) ==
    [o \in 0..IndexOffset |->
        IF o = IndexOffset THEN c.index
        ELSE IF o \in KeyOffset..(KeyOffset + c.key - 1) THEN KeyByte
        ELSE IF o = SecurityOffset THEN c.security
        ELSE IF o \in SsidOffset..(SsidOffset + c.ssid - 1) THEN SsidByte
        ELSE 0]

(* The lengths build_wifi_setup_frame refuses to exceed. *)
Fits(c) == c.ssid \in 1..SsidLen /\ c.key <= KeyLen

(* The machine takes the fields where it expects them. *)
Field(f, from, n, byte) == Cardinality({o \in from..(from + n - 1) : f[o] = byte})
Understood(f) == [ssid     |-> Field(f, SsidOffset, SsidLen, SsidByte),
                  security |-> f[SecurityOffset],
                  key      |-> Field(f, KeyOffset, KeyLen, KeyByte),
                  dhcp     |-> \A o \in AddressOffset..(IndexOffset - 1) : f[o] = 0,
                  index    |-> f[IndexOffset]]

(* The arguments are checked and the frame is built before anything is written. *)
Configure ==
    /\ step = "idle"
    /\ \E c \in Calls :
           /\ c.market /\ Fits(c)
           /\ call' = c /\ step' = "market"
    /\ UNCHANGED <<scanVars, market, network, asked>>

(* Mutant of WriteMarket: like the optional reads, a failure is passed over. *)
WriteMarketOrNot ==
    /\ step = "market"
    /\ market' \in {market, TRUE}
    /\ step' = "credentials" /\ UNCHANGED call
    /\ UNCHANGED <<scanVars, network, asked>>

(* The market goes first; when its write raises nothing else is written. *)
WriteMarket ==
    /\ step = "market"
    /\ \/ market' = TRUE /\ step' = "credentials" /\ UNCHANGED call
       \/ market' \in {market, TRUE} /\ step' = "idle" /\ call' = Nil
    /\ UNCHANGED <<scanVars, network, asked>>

WriteCredentials ==
    /\ step = "credentials" /\ step' = "idle" /\ call' = Nil
    /\ \/ network' = Understood(Frame(call)) /\ asked' = call
       \/ UNCHANGED <<network, asked>>
    /\ UNCHANGED <<scanVars, market>>

(* Somebody resets the machine, at any time.  That drops the link, and what    *)
(* was running over it raises.                                                 *)
FactoryReset ==
    /\ market' = FALSE /\ network' = Nil /\ asked' = Nil
    /\ step' = "idle" /\ call' = Nil
    /\ UNCHANGED scanVars

WifiNext ==
    \/ ScanBegins \/ ScanSelect \/ ScanRead
    \/ Configure \/ WriteMarket \/ WriteCredentials \/ FactoryReset

WifiSpec == WifiInit /\ [][WifiNext]_wifiVars

-----------------------------------------------------------------------------
(* A scan that completes returns the networks the machine sees, in order, none *)
(* twice and none left out, up to the most it will walk: hidden ones and ones  *)
(* of unknown security included ("must not be confused" with the end).         *)
ScanIsTheList ==
    found # Nil =>
        found = SubSeq(air, 1, IF Len(air) < MaxEntries THEN Len(air) ELSE MaxEntries)

(* No ssid or passphrase runs into the field beside it: the machine joins the  *)
(* network it was asked to join, by DHCP, or stays where it was; and "the      *)
(* market code goes first": whatever fails, it is never put on a network       *)
(* without the market that makes it reach Nespresso.                           *)
JoinsAsAsked ==
    network # Nil =>
        /\ market
        /\ network = [ssid |-> asked.ssid, security |-> asked.security, key |-> asked.key,
                      dhcp |-> TRUE, index |-> asked.index]
=============================================================================
