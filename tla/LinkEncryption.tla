--------------------------- MODULE LinkEncryption ---------------------------
(***************************************************************************)
(* Encrypting the link to a machine (ble/protocol.py): the two per-client  *)
(* sets and the two per-address records of the module, the request made up *)
(* front and the one made when an operation is refused, the backoff over   *)
(* failing requests, and how a poll uses them (coordinator.py): it         *)
(* authenticates, reconnects once after a refusal, and reads.              *)
(*                                                                         *)
(* A client lives as long as its connection, and one address has one       *)
(* connection at a time (the BLE lock), so a per-client set is the set of  *)
(* addresses whose current client is in it.                                *)
(***************************************************************************)
EXTENDS Naturals

CONSTANTS
    Addresses,
    PairQuietAfter,     \* PAIR_QUIET_AFTER
    PairRetryEvery,     \* PAIR_RETRY_EVERY
    MaxFailures         \* bound: beyond it a pairing request succeeds

ASSUME BackoffAssumption ==
    /\ PairRetryEvery \in Nat \ {0} /\ PairQuietAfter \in 1..PairRetryEvery
    /\ MaxFailures \in Nat

VARIABLES
    at,         \* where the poll of each address is
    opened,    \* connections the poll has opened
    elevated,   \* _ELEVATED
    encrypted,  \* _ENCRYPTED
    needs,      \* _NEEDS_ENCRYPTION
    failures,   \* _PAIR_FAILURES, 0 where there is no entry
    resume,     \* what the pending pairing request was asked for
    requests,   \* pair() calls this poll made, one counter per connection
    skips       \* connections in a row that wanted encryption and did not ask

linkVars == <<at, opened, elevated, encrypted, needs, failures, resume, requests, skips>>

Phases == {"prepare", "auth", "read"}

LinkTypeOK ==
    /\ at \in [Addresses -> Phases \cup {"off", "pairing", "retry", "refused"}]
    /\ opened \in [Addresses -> 1..2]
    /\ elevated \subseteq Addresses /\ encrypted \subseteq Addresses
    /\ needs \subseteq Addresses
    /\ failures \in [Addresses -> Nat]
    /\ resume \in [Addresses -> Phases]
    /\ requests \in [Addresses -> [1..2 -> Nat]]
    /\ skips \in [Addresses -> Nat]

LinkInit ==
    /\ at = [a \in Addresses |-> "off"]
    /\ opened = [a \in Addresses |-> 1]
    /\ elevated = {} /\ encrypted = {} /\ needs = {}
    /\ failures = [a \in Addresses |-> 0]
    /\ resume = [a \in Addresses |-> "prepare"]
    /\ requests = [a \in Addresses |-> [n \in 1..2 |-> 0]]
    /\ skips = [a \in Addresses |-> 0]

-----------------------------------------------------------------------------
Move(a, p) == at' = [at EXCEPT ![a] = p]

(* Mutant of Quiet: one request too many at the start. *)
QuietTooLate(n) == n > PairQuietAfter /\ n % PairRetryEvery # 0

LinkIsPlain(a) == a \in needs /\ a \notin encrypted         \* link_is_plain
Quiet(n) == n >= PairQuietAfter /\ n % PairRetryEvery # 0   \* _pair backs off

(* establish_connection builds a fresh client, a member of neither set. *)
FreshClient(a) ==
    /\ elevated' = elevated \ {a}
    /\ encrypted' = encrypted \ {a}
    /\ Move(a, "prepare")

(* What a False from _pair means to whoever asked: _prepare_link refuses the *)
(* whole authentication, _elevate lets the operation raise.                  *)
AfterFailure(from) == IF from = "prepare" THEN "refused" ELSE from
AfterSuccess(from) == IF from = "prepare" THEN "auth" ELSE "retry"

(* Mutant of Pair: a skipped request leaves the client unmarked. *)
PairMarksLate(a, from) ==
    IF Quiet(failures[a])
    THEN /\ failures' = [failures EXCEPT ![a] = @ + 1]
         /\ skips' = [skips EXCEPT ![a] = @ + 1]
         /\ Move(a, AfterFailure(from))
         /\ UNCHANGED <<elevated, requests, resume>>
    ELSE /\ elevated' = elevated \cup {a}
         /\ requests' = [requests EXCEPT ![a][opened[a]] = @ + 1]
         /\ resume' = [resume EXCEPT ![a] = from]
         /\ skips' = [skips EXCEPT ![a] = 0]
         /\ Move(a, "pairing")
         /\ UNCHANGED failures

(* Mutant of Pair: after four failures no request is made any more. *)
PairGivesUp(a, from) ==
    /\ elevated' = elevated \cup {a}
    /\ IF failures[a] >= PairQuietAfter
       THEN /\ Move(a, AfterFailure(from))
            /\ UNCHANGED <<failures, requests, resume, skips>>
       ELSE /\ requests' = [requests EXCEPT ![a][opened[a]] = @ + 1]
            /\ resume' = [resume EXCEPT ![a] = from]
            /\ skips' = [skips EXCEPT ![a] = 0]
            /\ Move(a, "pairing")
            /\ UNCHANGED failures

(* _pair up to its await: mark the client, then skip or ask. *)
Pair(a, from) ==
    /\ elevated' = elevated \cup {a}
    /\ IF Quiet(failures[a])
       THEN /\ failures' = [failures EXCEPT ![a] = @ + 1]
            /\ skips' = [skips EXCEPT ![a] = @ + 1]
            /\ Move(a, AfterFailure(from))
            /\ UNCHANGED <<requests, resume>>
       ELSE /\ requests' = [requests EXCEPT ![a][opened[a]] = @ + 1]
            /\ resume' = [resume EXCEPT ![a] = from]
            /\ skips' = [skips EXCEPT ![a] = 0]
            /\ Move(a, "pairing")
            /\ UNCHANGED failures

-----------------------------------------------------------------------------
(* A poll opens its first connection. *)
OpenLink(a) ==
    /\ at[a] = "off"
    /\ FreshClient(a)
    /\ opened' = [opened EXCEPT ![a] = 1]
    /\ requests' = [requests EXCEPT ![a] = [n \in 1..2 |-> 0]]
    /\ UNCHANGED <<needs, failures, resume, skips>>

(* _prepare_link: nothing to do, or ask up front. *)
PrepareLink(a) ==
    /\ at[a] = "prepare"
    /\ IF a \notin needs \/ a \in elevated
       THEN Move(a, "auth") /\ UNCHANGED <<elevated, failures, resume, requests, skips>>
       ELSE Pair(a, "prepare")
    /\ UNCHANGED <<opened, encrypted, needs>>

(* client.pair() succeeds, or raises or times out. *)
PairSucceeds(a) ==
    /\ at[a] = "pairing"
    /\ failures' = [failures EXCEPT ![a] = 0]
    /\ encrypted' = encrypted \cup {a}
    /\ Move(a, AfterSuccess(resume[a]))
    /\ UNCHANGED <<opened, elevated, needs, resume, requests, skips>>

PairFails(a) ==
    /\ at[a] = "pairing" /\ failures[a] < MaxFailures
    /\ failures' = [failures EXCEPT ![a] = @ + 1]
    /\ Move(a, AfterFailure(resume[a]))
    /\ UNCHANGED <<opened, elevated, encrypted, needs, resume, requests, skips>>

(* Mutant of OpRefused: every refused operation asks. *)
OpRefusedAsks(a) ==
    /\ at[a] \in {"auth", "read"}
    /\ needs' = needs \cup {a}
    /\ Pair(a, at[a])
    /\ UNCHANGED <<opened, encrypted>>

(* _gatt_op and _elevate: an operation of the authentication or of the read is *)
(* refused with ATT 5 or 15.  One that succeeds, times out or fails in another *)
(* way changes nothing here.                                                   *)
OpRefused(a) ==
    /\ at[a] \in {"auth", "read"}
    /\ needs' = needs \cup {a}
    /\ IF a \in elevated
       THEN UNCHANGED <<at, elevated, failures, resume, requests, skips>>
       ELSE Pair(a, at[a])
    /\ UNCHANGED <<opened, encrypted>>

(* The operation is repeated once on the encrypted link, whatever comes of it. *)
OpRetried(a) ==
    /\ at[a] = "retry"
    /\ Move(a, resume[a])
    /\ UNCHANGED <<opened, elevated, encrypted, needs, failures, resume, requests, skips>>

(* _authenticate returned True. *)
AuthAccepted(a) ==
    /\ at[a] = "auth"
    /\ Move(a, "read")
    /\ UNCHANGED <<opened, elevated, encrypted, needs, failures, resume, requests, skips>>

(* Mutant of AuthRefused: reconnects as long as the machine refuses. *)
AuthRefusedAgain(a) ==
    /\ at[a] \in {"auth", "refused"}
    /\ opened' = [opened EXCEPT ![a] = @ + 1]
    /\ FreshClient(a)
    /\ UNCHANGED <<needs, failures, resume, requests, skips>>

(* It returned False: reconnect once; then read anyway, unless the link is plain. *)
AuthRefused(a) ==
    /\ at[a] \in {"auth", "refused"}
    /\ \/ /\ opened[a] = 1
          /\ opened' = [opened EXCEPT ![a] = 2]
          /\ FreshClient(a)
       \/ /\ opened[a] = 2
          /\ Move(a, IF LinkIsPlain(a) THEN "off" ELSE "read")
          /\ UNCHANGED <<opened, elevated, encrypted>>
    /\ UNCHANGED <<needs, failures, resume, requests, skips>>

(* The poll is over or the link drops: the client is gone. *)
CloseLink(a) ==
    /\ at[a] \in {"auth", "read", "refused"}
    /\ Move(a, "off")
    /\ UNCHANGED <<opened, elevated, encrypted, needs, failures, resume, requests, skips>>

Poll(a) ==
    \/ OpenLink(a) \/ PrepareLink(a) \/ PairSucceeds(a) \/ PairFails(a)
    \/ OpRefused(a) \/ OpRetried(a) \/ AuthAccepted(a) \/ AuthRefused(a)
    \/ CloseLink(a)

LinkNext == \E a \in Addresses : Poll(a)

LinkSpec == LinkInit /\ [][LinkNext]_linkVars

-----------------------------------------------------------------------------
(* "A machine that keeps refusing afterwards must not trigger a pairing        *)
(* request per characteristic": however many operations of a connection are    *)
(* refused, up front or not, it carries one request.                           *)
OneRequestPerConnection ==
    \A a \in Addresses : \A n \in 1..2 : requests[a][n] <= 1

(* "Nothing here can ask for a third": a poll that still holds a plain link    *)
(* to a machine that wants encryption has asked, or skipped, on that link, so  *)
(* nothing it does afterwards can encrypt it.                                  *)
PlainLinkIsFinal ==
    \A a \in Addresses :
        at[a] \in {"auth", "read", "refused"} /\ LinkIsPlain(a) => a \in elevated

(* A machine may be reset at any time and must be noticed: at most            *)
(* PAIR_RETRY_EVERY - 1 connections in a row go by without a request.  And     *)
(* once PAIR_QUIET_AFTER requests in a row have failed, the next ones are      *)
(* sparse: a request that follows a skip at all follows a whole gap of them.   *)
BackoffKeepsTime ==
    [][\A a \in Addresses :
         /\ skips'[a] < PairRetryEvery
         /\ at[a] # "pairing" /\ at'[a] = "pairing" /\ failures[a] > PairQuietAfter
              => skips[a] >= PairRetryEvery - PairQuietAfter]_linkVars

(* "Giving up entirely is wrong": a machine known to want encryption is       *)
(* encrypted again and again, however many requests failed before.            *)
NeverGivesUp ==
    \A a \in Addresses : a \in needs ~> a \in encrypted
=============================================================================
