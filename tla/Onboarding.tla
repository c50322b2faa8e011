----------------------------- MODULE Onboarding -----------------------------
(***************************************************************************)
(* Authentication of a connection and onboarding of a machine that holds   *)
(* no token (ble/protocol.py, _authenticate, _onboard, _onboard_once), for *)
(* the Barista and Vertuo Next families, against a machine that decides on *)
(* a token some time after it acknowledged it, keeps the first one it      *)
(* stored whatever is written later, and answers protected reads only to   *)
(* the holder of that token.  LinkEncryption has what happens when the     *)
(* link must be encrypted first.                                           *)
(***************************************************************************)
EXTENDS Naturals

CONSTANTS
    OnboardAttempts,        \* ONBOARD_ATTEMPTS
    OnboardPollAttempts,    \* ONBOARD_POLL_ATTEMPTS, ONBOARD_POLL_INTERVAL apart
    OnboardRetryDelay,      \* ONBOARD_RETRY_DELAY, in poll intervals
    ScanInterval,           \* DEFAULT_SCAN_INTERVAL, in poll intervals
    MaxFaults               \* bound on failed operations, lost links and changes of owner

ASSUME OnboardingAssumption ==
    /\ OnboardAttempts \in Nat \ {0} /\ OnboardPollAttempts \in Nat
    /\ OnboardRetryDelay \in Nat /\ ScanInterval \in Nat /\ MaxFaults \in Nat

Tokens == {"none", "ours", "other", "garbled"}
CmidTypes == {"none", "temporary", "final", "undefined"}
Unpaired == {"none", "undefined"}               \* CMID_TYPE_UNPAIRED
Unreadable == "unreadable"                      \* _read_cmid_type returned None

VARIABLES
    setting,    \* what never changes: the option, the machine's make, the key's shape
    token,      \* the token the machine stores
    report,     \* what its CMID_TYPE says
    deciding,   \* it has acknowledged our token and not decided yet
    quiet,      \* it has acknowledged the TX level request on this link
    up,         \* client.is_connected
    pc,         \* the operation _authenticate is waiting for
    known,      \* the variable state of _authenticate
    attempt,    \* attempts of _onboard, 0 when it was not called
    polls,      \* readings of CMID_TYPE after the one that follows the write
    waited,     \* poll intervals slept in this authentication
    faults

machine == <<token, report, deciding, quiet>>
caller  == <<pc, known, attempt, polls, waited>>
onboardVars == <<setting, machine, up, caller, faults>>

Settings == [sendTx : BOOLEAN,  \* CONF_SEND_TX_LEVEL
             needsTx : BOOLEAN, \* ignores a token without the TX level request
             strict : BOOLEAN,  \* makes no sense of a key without the marker nibble
             marked : BOOLEAN]  \* the key has it: every generated one, not every typed one

OnboardTypeOK ==
    /\ setting \in Settings
    /\ token \in Tokens /\ report \in CmidTypes
    /\ deciding \in BOOLEAN /\ quiet \in BOOLEAN /\ up \in BOOLEAN
    /\ pc \in {"off", "state", "tx", "cmid", "poll", "pause", "write", "verify", "accepted"}
    /\ known \in CmidTypes \cup {Unreadable}
    /\ attempt \in 0..OnboardAttempts /\ polls \in 0..OnboardPollAttempts
    /\ waited \in Nat /\ faults \in 0..MaxFaults

OnboardInit ==
    /\ setting \in Settings
    /\ \/ token = "none" /\ report \in Unpaired
       \/ token = "other" /\ report \in CmidTypes \ Unpaired
    /\ deciding = FALSE /\ quiet = FALSE /\ up = FALSE
    /\ pc = "off" /\ known = Unreadable
    /\ attempt = 0 /\ polls = 0 /\ waited = 0 /\ faults = 0

-----------------------------------------------------------------------------
Goto(p) == pc' = p

(* The operation raises: always without a link, by a fault with one.  With *)
(* the fault the link may go too.                                          *)
Raises ==
    \/ ~up /\ UNCHANGED <<up, faults>>
    \/ up /\ faults < MaxFaults /\ faults' = faults + 1 /\ up' \in BOOLEAN
Answers == up /\ UNCHANGED <<up, faults>>

(* An attempt begins with the TX level request, unless the option says not to. *)
Begin(state) == Goto(IF setting.sendTx /\ state # "final" THEN "tx" ELSE "cmid")

(* The machine acknowledges a token.  One it has is one it keeps. *)
Acknowledge ==
    /\ deciding' = (deciding \/ (token = "none" /\ (quiet \/ ~setting.needsTx)))
    /\ UNCHANGED <<token, report, quiet>>

(* Mutant of AttemptOver: one attempt too many. *)
AttemptOverLate(state, connected) ==
    /\ known' = state
    /\ \/ ~connected /\ Goto("off") /\ UNCHANGED waited
       \/ /\ connected /\ (state \notin Unpaired \/ attempt > OnboardAttempts)
          /\ Goto("write") /\ UNCHANGED waited
       \/ /\ connected /\ state \in Unpaired /\ attempt <= OnboardAttempts
          /\ Goto("pause") /\ waited' = waited + OnboardRetryDelay

(* _onboard_once returned state: give up on a lost link, go on to the write    *)
(* of _authenticate with an answer, with none, or after the last attempt, and  *)
(* otherwise try again after ONBOARD_RETRY_DELAY.                              *)
AttemptOver(state, connected) ==
    /\ known' = state
    /\ \/ ~connected /\ Goto("off") /\ UNCHANGED waited
       \/ /\ connected /\ (state \notin Unpaired \/ attempt = OnboardAttempts)
          /\ Goto("write") /\ UNCHANGED waited
       \/ /\ connected /\ state \in Unpaired /\ attempt < OnboardAttempts
          /\ Goto("pause") /\ waited' = waited + OnboardRetryDelay

-----------------------------------------------------------------------------
(* A poll or an operation connects and authenticates. *)
Connect ==
    /\ pc = "off"
    /\ Goto("state") /\ known' = Unreadable
    /\ attempt' = 0 /\ polls' = 0 /\ waited' = 0
    /\ up' = TRUE /\ quiet' = FALSE
    /\ UNCHANGED <<setting, token, report, deciding, faults>>

(* Read the pairing key state, and onboard a machine whose state is in S. *)
ReadStateAndOnboard(S) ==
    /\ pc = "state" /\ polls' = 0
    /\ \/ Answers /\ known' = report
       \/ Raises /\ known' = Unreadable
    /\ \/ known' \in S /\ attempt' = 1 /\ Begin(known')
       \/ known' \notin S /\ Goto("write") /\ UNCHANGED attempt
    /\ UNCHANGED <<setting, machine, waited>>

(* Mutants of ReadState: every state but FINAL is onboarded, a machine that will *)
(* not say is as well, or UNDEFINED counts as onboarded.                         *)
ReadStateUnlessFinal == ReadStateAndOnboard(CmidTypes \ {"final"})
ReadStateOrGuess     == ReadStateAndOnboard(Unpaired \cup {Unreadable})
ReadStateOnlyNone    == ReadStateAndOnboard({"none"})

ReadState == ReadStateAndOnboard(Unpaired)

(* The TX level request.  A machine that has a token may refuse it and hang up. *)
WriteTxLevel ==
    /\ pc = "tx"
    /\ \/ /\ Answers
          /\ quiet' = TRUE /\ Goto("cmid")
          /\ UNCHANGED <<known, waited>>
       \/ Raises /\ AttemptOver(known, up') /\ UNCHANGED quiet
       \/ /\ up /\ token \in {"ours", "other"}
          /\ up' = FALSE /\ UNCHANGED <<faults, quiet>>
          /\ AttemptOver(known, FALSE)
    /\ UNCHANGED <<setting, token, report, deciding, attempt, polls>>

OnboardWrite ==
    /\ pc = "cmid"
    /\ \/ /\ Answers /\ Acknowledge
          /\ Goto("poll") /\ polls' = 0
          /\ UNCHANGED <<known, waited>>
       \/ /\ Raises /\ AttemptOver(known, up')
          /\ UNCHANGED <<machine, polls>>
    /\ UNCHANGED <<setting, attempt>>

(* Read the state back until it settles or the budget runs out. *)
PollState ==
    /\ pc = "poll"
    /\ \/ /\ Answers /\ report \in Unpaired /\ polls < OnboardPollAttempts
          /\ known' = report
          /\ polls' = polls + 1 /\ waited' = waited + 1
          /\ UNCHANGED pc
       \/ /\ Answers /\ (report \notin Unpaired \/ polls = OnboardPollAttempts)
          /\ AttemptOver(report, TRUE)
          /\ UNCHANGED polls
       \/ Raises /\ AttemptOver(Unreadable, up') /\ UNCHANGED polls
    /\ UNCHANGED <<setting, machine, attempt>>

NextAttempt ==
    /\ pc = "pause"
    /\ attempt' = attempt + 1
    /\ Begin(known)
    /\ UNCHANGED <<setting, machine, up, known, polls, waited, faults>>

(* The write every authentication ends in, onboarded or not. *)
WriteToken ==
    /\ pc = "write"
    /\ \/ Answers /\ Acknowledge /\ Goto("verify")
       \/ Raises /\ Goto("off") /\ UNCHANGED machine
    /\ UNCHANGED <<setting, known, attempt, polls, waited>>

(* Read a protected characteristic: the machine answers the holder of its token. *)
Verify ==
    /\ pc = "verify"
    /\ \/ Answers /\ Goto(IF token = "ours" THEN "accepted" ELSE "off")
       \/ Raises /\ Goto("off")
    /\ UNCHANGED <<setting, machine, known, attempt, polls, waited>>

(* Authenticated, the connection is used and closed. *)
Disconnect ==
    /\ pc = "accepted"
    /\ Goto("off") /\ up' = FALSE
    /\ UNCHANGED <<setting, machine, known, attempt, polls, waited, faults>>

Step ==
    \/ Connect \/ ReadState \/ WriteTxLevel \/ OnboardWrite \/ PollState
    \/ NextAttempt \/ WriteToken \/ Verify \/ Disconnect

-----------------------------------------------------------------------------
(* The machine decides: it stores the token, or cannot make sense of it. *)
Settle ==
    /\ deciding /\ deciding' = FALSE
    /\ \/ /\ setting.strict => setting.marked
          /\ token' = "ours" /\ report' \in CmidTypes \ Unpaired
       \/ /\ setting.strict /\ ~setting.marked
          /\ token' = "garbled" /\ report' = "undefined"
    /\ UNCHANGED <<setting, quiet, up, caller, faults>>

(* Until it does, it goes from NONE to UNDEFINED. *)
Waver ==
    /\ deciding /\ report = "none" /\ report' = "undefined"
    /\ UNCHANGED <<setting, token, deciding, quiet, up, caller, faults>>

LinkLost ==
    /\ up /\ up' = FALSE
    /\ faults < MaxFaults /\ faults' = faults + 1
    /\ UNCHANGED <<setting, machine, caller>>

(* Someone resets the machine, which drops the link. *)
FactoryReset ==
    /\ faults < MaxFaults /\ faults' = faults + 1
    /\ token' = "none" /\ report' \in Unpaired
    /\ deciding' = FALSE /\ quiet' = FALSE /\ up' = FALSE
    /\ UNCHANGED <<setting, caller>>

(* The Nespresso app onboards a free machine, which takes one client at a time. *)
AppClaims ==
    /\ ~up /\ token = "none" /\ ~deciding
    /\ faults < MaxFaults /\ faults' = faults + 1
    /\ token' = "other" /\ report' \in CmidTypes \ Unpaired
    /\ UNCHANGED <<setting, deciding, quiet, up, caller>>

OnboardNext == Step \/ Settle \/ Waver \/ LinkLost \/ FactoryReset \/ AppClaims

OnboardSpec == OnboardInit /\ [][OnboardNext]_onboardVars

-----------------------------------------------------------------------------
(* "A machine that already holds a token keeps it whatever we write, so         *)
(* onboarding one of those achieves nothing": no step of onboarding reaches a   *)
(* machine that belongs to somebody else.                                       *)
ForeignMachineLeftAlone == pc \in {"tx", "cmid", "poll"} /\ up => token # "other"

(* "That guarantee is what lets a paired state coming back out of here be read  *)
(* as proof that our write took": after _onboard a paired state on a link that  *)
(* is up means the machine holds our token.                                     *)
PairedIsProof ==
    up /\ pc \in {"write", "verify"} /\ attempt > 0 /\ known \in CmidTypes \ Unpaired
      => token = "ours"

(* "Four would put the worst case past the default scan interval, and the       *)
(* coordinator tries authentication twice per cycle": with the attempts there   *)
(* are, the waits of two authentications fit in one.                            *)
FitsTheScanInterval == 2 * waited < ScanInterval

(* A machine that takes our kind of key, and that nobody else claims, is        *)
(* authenticated again and again: no state it reports on the way, UNDEFINED     *)
(* included, latches it out (the comment in _authenticate on a Creatista).      *)
Compatible == (setting.needsTx => setting.sendTx) /\ (setting.strict => setting.marked)
NeverLatchedOut ==
    Compatible /\ <>[](token \in {"none", "ours"}) => []<>(pc = "accepted")
=============================================================================
