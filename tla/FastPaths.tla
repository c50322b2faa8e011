------------------------------ MODULE FastPaths ------------------------------
(***************************************************************************)
(* What a status update changes (coordinator.py).  A poll builds a whole   *)
(* dataset from the status bytes and from everything else it reads; a      *)
(* notification and an advertisement carry the status bytes alone, and     *)
(* refine the dataset by a list of fields, one list for each family, that  *)
(* somebody has to keep in step with what the poll takes from those bytes. *)
(* StatusFlow has the order in which updates arrive.                       *)
(***************************************************************************)
EXTENDS MachineStatus

CONSTANTS
    Payloads,   \* status bytes the machine may send
    Rests       \* what else a poll reads, the machine's other characteristics

Families == {"barista", "vertuo_next", "vmini"}         \* MachineFamily

ASSUME PayloadsAssumption ==
    /\ \A p \in Payloads : Len(p) = 3 /\ \A i \in 1..3 : p[i] \in 0..255
    /\ None \notin Payloads /\ None \notin Rests

VARIABLES
    family,     \* of the config entry
    status,     \* the status bytes of the machine
    rest,       \* the rest of the machine
    dataset,    \* self.data, or None
    pairing,    \* pairing_key_state of the coordinator, or None
    applied,    \* history: the status bytes that reached the dataset last
    others,     \* history: the rest of the machine as the last poll read it
    aired       \* history: the status bytes last advertised

fastHistory == <<applied, others, aired>>
fastVars == <<family, status, rest, dataset, pairing, fastHistory>>

CommonFields == {"machine_state", "error_present"}      \* _COMMON_STATUS_FIELDS
VertuoFields ==                                         \* _VERTUO_STATUS_FIELDS
    {"water_tank_empty", "cleaning_needed", "descaling_needed", "capsule_container_full",
     "brewing_unit_closed", "milk_frother_running", "milk_unit_state", "led_signaling",
     "cup_length_prog"}
BaristaFields == {"motor_running", "induction_heating", "setup_complete"}

(* Mutant of StatusFields: the flag of the heater is left out, "for a long time". *)
StatusFieldsNoHeater(f) ==
    CommonFields \cup
        (IF f = "barista" THEN BaristaFields \ {"induction_heating"}
         ELSE IF f = "vertuo_next" THEN VertuoFields ELSE {})

(* _STATUS_FIELDS, the fields a status parse can refresh. *)
StatusFields(f) ==
    CommonFields \cup
        (IF f = "barista" THEN BaristaFields
         ELSE IF f = "vertuo_next" THEN VertuoFields ELSE {})

(* The fields that _parse_barista, _parse_vertuo and _parse_vmini fill from the *)
(* status, each with a line of its own.                                         *)
PolledFields(f) ==
    IF f = "barista" THEN
        {"machine_state", "error_present", "motor_running", "induction_heating", "setup_complete"}
    ELSE IF f = "vertuo_next" THEN
        {"machine_state", "error_present", "water_tank_empty", "descaling_needed",
         "cleaning_needed", "capsule_container_full", "brewing_unit_closed",
         "milk_frother_running", "milk_unit_state", "led_signaling", "cup_length_prog"}
    ELSE {"machine_state", "error_present"}

(* The fields of NespressoMachineData; "rest" stands for those that are not of *)
(* the status: versions, serial number, settings, counter, errors and Wi-Fi.   *)
DataFields == CommonFields \cup VertuoFields \cup BaristaFields \cup {"rest"}

(* A machine without a status characteristic. *)
NoStatus == [machine_state |-> Unknown, error_present |-> FALSE]
PolledStatus(f, b) == IF f = "vmini" THEN NoStatus ELSE ParseStatus(f, b)

(* _parse: a field the family does not have stays None. *)
Parse(f, b, r) ==
    [field \in DataFields |->
        IF field = "rest" THEN r
        ELSE IF field \in PolledFields(f) THEN PolledStatus(f, b)[field] ELSE None]

(* replace(current, **_status_fields(parsed)). *)
Refine(current, parsed) ==
    [field \in DataFields |->
        IF field \in StatusFields(family) THEN parsed[field] ELSE current[field]]

FastInit ==
    /\ family \in Families /\ status \in Payloads /\ rest \in Rests
    /\ dataset = None /\ pairing = None
    /\ applied = None /\ others = None /\ aired = None

-----------------------------------------------------------------------------
Poll ==
    /\ dataset' = Parse(family, status, rest)
    /\ applied' = status /\ others' = rest
    /\ UNCHANGED <<family, status, rest, pairing, aired>>

(* _handle_status_update: a family without a status characteristic has not *)
(* subscribed to one, and a payload that is too short changes nothing.     *)
Notified ==
    /\ family # "vmini" /\ dataset # None
    /\ \E b \in {status, SubSeq(status, 1, 1)} :
          LET parsed == ParseStatus(family, b) IN
          /\ dataset' = IF parsed = None THEN dataset ELSE Refine(dataset, parsed)
          /\ applied' = IF parsed = None THEN applied ELSE status
    /\ UNCHANGED <<family, status, rest, pairing, others, aired>>

(* async_apply_advertisement, once the payload is a usable one: the pairing state *)
(* is noted whether or not there is a dataset, and a dataset that already says    *)
(* the same is left alone.  The advertised bytes are read by the Vertuo parser.   *)
Advertised ==
    /\ family = "vertuo_next"
    /\ aired' = status
    /\ LET parsed == ParseStatus(family, status) IN
       /\ pairing' = parsed.pairing_key_state
       /\ IF dataset = None THEN UNCHANGED <<dataset, applied>>
          ELSE /\ applied' = status
               /\ dataset' = IF \A field \in StatusFields(family) : dataset[field] = parsed[field]
                          THEN dataset ELSE Refine(dataset, parsed)
    /\ UNCHANGED <<family, status, rest, others>>

(* A reload: a coordinator of its own. *)
Restarted ==
    /\ dataset' = None /\ pairing' = None
    /\ applied' = None /\ others' = None /\ aired' = None
    /\ UNCHANGED <<family, status, rest>>

MachineChanges ==
    /\ status' \in Payloads /\ rest' \in Rests
    /\ UNCHANGED <<family, dataset, pairing, fastHistory>>

FastNext == Poll \/ Notified \/ Advertised \/ Restarted \/ MachineChanges

FastSpec == FastInit /\ [][FastNext]_fastVars

-----------------------------------------------------------------------------
(* "Every field the poll takes from those bytes belongs here: one left out     *)
(* would hold its polled value until the next poll while the state beside it   *)
(* moved": whatever mixture of paths an update came by, the dataset is the one *)
(* a poll of the same status bytes would have built, with everything else as   *)
(* the last poll read it; and the pairing state is that of the last            *)
(* advertisement, dataset or none.                                             *)
FastPathsMissNothing ==
    /\ dataset # None => dataset = Parse(family, applied, others)
    /\ aired # None => pairing = PairingKeyState(aired[1])
=============================================================================
