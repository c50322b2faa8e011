----------------------------- MODULE MCMachine -----------------------------
(***************************************************************************)
(* What goes to and comes from the machine, for TLC.  MachineRead and      *)
(* WifiSetup hold the BLE lock from their first operation to their last    *)
(* (OneHolder in Coordinator), the steps of FastPaths and MachineWrites    *)
(* are single operations, and the four have no variable in common: one run *)
(* explores them side by side, the others at rest, instead of multiplying  *)
(* them.                                                                   *)
(***************************************************************************)
EXTENDS MachineRead, WifiSetup, FastPaths, MachineWrites

VARIABLE part

AMachine == CHOOSE m \in Machines : m.selected = 0

MachineInit ==
    /\ ReadInit /\ WifiInit /\ FastInit /\ WritesInit
    /\ part \in {"reads", "wifi", "status", "writes"}
    /\ part # "reads" => machine = AMachine
    /\ part # "wifi" => air = <<>>
    /\ part # "status" => family = "vmini" /\ status = <<0, 0, 0>> /\ rest = 0

(* A bound: after a poll that succeeded the next one begins at once.  The      *)
(* machine moves and is written to before the first poll and after every one   *)
(* that failed, which may be any, so what a poll showed is not carried through *)
(* all that the machine does afterwards.                                       *)
NextPollAtOnce == data # None => pc' = "status"

OnReads ==
    part = "reads" /\ ReadNext /\ NextPollAtOnce /\ UNCHANGED <<wifiVars, fastVars, writeVars, part>>
OnWifi == part = "wifi" /\ WifiNext /\ UNCHANGED <<readVars, fastVars, writeVars, part>>
OnStatus == part = "status" /\ FastNext /\ UNCHANGED <<readVars, wifiVars, writeVars, part>>
OnWrites == part = "writes" /\ WritesNext /\ UNCHANGED <<readVars, wifiVars, fastVars, part>>

MachineNext == OnReads \/ OnWifi \/ OnStatus \/ OnWrites

MachineSpec ==
    MachineInit /\ [][MachineNext]_<<readVars, wifiVars, fastVars, writeVars, part>>

(* two statuses that share no bit of a flag, a key or a state's nibbles: frother *)
(* on beside a milk unit at rest, and off beside one that froths                 *)
MCStatuses ==
    {[state |-> 17, milk |-> 13, key |-> 2,
      flags |-> {"water_tank_empty", "descaling_needed", "error_present", "cup_length_prog", "frother"}],
     [state |-> 14, milk |-> 2, key |-> 1,
      flags |-> Flags \ {"water_tank_empty", "descaling_needed", "error_present", "cup_length_prog", "frother"}]}
MCCodes == {0, 260}
MCCounts == {255, 256}
MCLevels == {0, 4}
MCWifiCodes == {0, 3}

Home == [ssid |-> "home", security |-> 4]
Hidden == [ssid |-> "", security |-> 240]
Guest == [ssid |-> "guest", security |-> 255]
MCAirs == {<<>>, <<Home>>, <<Hidden, Home>>, <<Home, Guest, Hidden>>, <<Home, Home, Hidden, Home>>}

(* every bit of the status bytes by itself, none of them and all of them *)
MCPayloads ==
    {[<<0, 0, 0>> EXCEPT ![i] = 2^n] : i \in 1..3, n \in 0..7}
        \cup {<<0, 0, 0>>, <<255, 255, 255>>}

MCRecipes == <<"espresso", "lungo", "custom">>

Digits(n, from) == [i \in 1..n |-> (from + i) % 16]
MCRandom == {Digits(15, 0), Digits(15, 7)}
(* a CMID, a pairing key, the same one with separators, one too long, no hex *)
MCTyped ==
    {Digits(16, 7), Digits(32, 3), <<Blank>> \o Digits(32, 9) \o <<Blank>>,
     Digits(33, 0), <<>>, [Digits(16, 7) EXCEPT ![2] = 16]}

MCCall == [market |-> TRUE, ssid |-> 4, key |-> 8, security |-> 4, index |-> 255]
MCCalls ==
    {MCCall, [MCCall EXCEPT !.ssid = 32, !.key = 64, !.index = 1],
     [MCCall EXCEPT !.ssid = 33], [MCCall EXCEPT !.ssid = 0], [MCCall EXCEPT !.key = 65],
     [MCCall EXCEPT !.market = FALSE], [MCCall EXCEPT !.key = 0, !.security = 0]}

(* A number the machine holds is the one asked for or counted, what nobody    *)
(* asked for stays as it was, and both are in the range the code knows        *)
(* (number.py, build_caps_counter, build_water_hardness).                     *)
NothingGarbled == ReadTypeOK /\ WifiTypeOK /\ SettingsAreKept
=============================================================================
