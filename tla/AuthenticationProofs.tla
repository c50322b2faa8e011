------------------------ MODULE AuthenticationProofs ------------------------
(***************************************************************************)
(* What happens between connecting and reading, for any addresses, any     *)
(* constants and any number of attempts and faults.  Encrypting a link: one*)
(* pairing request per connection, a plain link that stays plain, requests *)
(* as sparse and as frequent as the backoff says.  Onboarding: a machine   *)
(* of somebody else is left alone, only our own token is taken for proof,  *)
(* and it sleeps no longer than its constants say.                         *)
(***************************************************************************)
EXTENDS MCAuthentication, Integers, TLAPS

-----------------------------------------------------------------------------
(* Encrypting a link *)

(* An address whose client is not marked has made no request on its        *)
(* connection, and a connection not yet opened has none either.            *)
MarkInv ==
    \A a \in Addresses :
        /\ requests[a][1] <= 1 /\ requests[a][2] <= 1
        /\ a \notin elevated => requests[a][opened[a]] = 0
        /\ opened[a] = 1 => requests[a][2] = 0

(* Past _prepare_link, a machine known to want encryption has a marked     *)
(* client: it was asked, or the request was skipped.                       *)
AskedInv ==
    \A a \in Addresses :
        /\ at[a] \in {"pairing", "retry", "refused"} => a \in elevated
        /\ at[a] \in {"auth", "read"} /\ a \in needs => a \in elevated

LinkIInv == LinkTypeOK /\ MarkInv /\ AskedInv

-----------------------------------------------------------------------------
(* With no connection open there is nothing to have asked for. *)
LEMMA InitLinkIInv == LinkInit => LinkIInv
<1> SUFFICES ASSUME LinkInit PROVE LinkIInv
  OBVIOUS
<1>1. LinkTypeOK
  BY DEF LinkInit, LinkTypeOK, Phases
<1>2. MarkInv
  <2>1. ASSUME NEW a \in Addresses
        PROVE  requests[a][1] = 0 /\ requests[a][2] = 0 /\ opened[a] = 1
    <3>1. requests[a] = [n \in 1..2 |-> 0] /\ opened[a] = 1
      BY DEF LinkInit
    <3> QED
      BY <3>1
  <2>2. ASSUME NEW a \in Addresses PROVE requests[a][opened[a]] = 0
    BY <2>1
  <2>3. ASSUME NEW a \in Addresses
        PROVE  /\ requests[a][1] <= 1 /\ requests[a][2] <= 1
               /\ a \notin elevated => requests[a][opened[a]] = 0
               /\ opened[a] = 1 => requests[a][2] = 0
    <3>1. requests[a][1] = 0 /\ requests[a][2] = 0 /\ requests[a][opened[a]] = 0
      BY <2>1, <2>2
    <3> QED
      BY <3>1
  <2> QED
    BY <2>3 DEF MarkInv
<1>3. AskedInv
  BY DEF LinkInit, AskedInv
<1> QED
  BY <1>1, <1>2, <1>3 DEF LinkIInv

(* What _pair does up to its await, whoever asked. *)
LEMMA PairKeeps ==
    ASSUME LinkIInv, NEW a \in Addresses, NEW from \in Phases,
           a \notin elevated, Pair(a, from),
           opened' = opened, encrypted' = encrypted,
           needs' \in {needs, needs \cup {a}},
           from = "prepare" \/ from \in {"auth", "read"}
    PROVE  LinkIInv'
<1> USE BackoffAssumption DEF LinkIInv, LinkTypeOK, Pair, Move, AfterFailure, Phases
<1>1. LinkTypeOK'
  <2>1. CASE Quiet(failures[a])
    BY <2>1
  <2>2. CASE ~Quiet(failures[a])
    <3>1. requests[a] \in [1..2 -> Nat] /\ opened[a] \in 1..2
      OBVIOUS
    <3>2. [requests[a] EXCEPT ![opened[a]] = @ + 1] \in [1..2 -> Nat]
      BY <3>1
    <3>3. requests' \in [Addresses -> [1..2 -> Nat]]
      BY <2>2, <3>2
    <3>4. at' \in [Addresses -> Phases \cup {"off", "pairing", "retry", "refused"}]
      BY <2>2
    <3>5. resume' \in [Addresses -> Phases]
      BY <2>2
    <3>6. skips' \in [Addresses -> Nat]
      BY <2>2
    <3>7. elevated' \subseteq Addresses /\ needs' \subseteq Addresses
      OBVIOUS
    <3>8. UNCHANGED <<opened, encrypted, failures>>
      BY <2>2
    <3> QED
      BY ONLY <3>3, <3>4, <3>5, <3>6, <3>7, <3>8, LinkTypeOK DEF LinkTypeOK
  <2> QED
    BY <2>1, <2>2
<1>2. MarkInv'
  <2>1. CASE Quiet(failures[a])
    BY <2>1 DEF MarkInv
  <2>2. CASE ~Quiet(failures[a])
    <3>1. opened[a] \in 1..2 /\ requests[a][opened[a]] = 0
      BY DEF MarkInv
    <3>2. requests' = [requests EXCEPT ![a][opened[a]] = 1]
      BY <2>2, <3>1
    <3> QED
      BY <3>1, <3>2 DEF MarkInv
  <2> QED
    BY <2>1, <2>2
<1>3. AskedInv'
  BY DEF AskedInv
<1> QED
  BY <1>1, <1>2, <1>3

(* A request is made only by a client that is not marked, and marks it. *)
LEMMA StepLinkIInv == LinkIInv /\ [LinkNext]_linkVars => LinkIInv'
<1> SUFFICES ASSUME LinkIInv, [LinkNext]_linkVars PROVE LinkIInv'
  OBVIOUS
<1> USE BackoffAssumption DEF LinkIInv, LinkTypeOK, Move, Phases
<1>1. ASSUME NEW a \in Addresses, OpenLink(a) PROVE LinkIInv'
  <2> USE <1>1 DEF OpenLink, FreshClient
  <2>1. LinkTypeOK'
    OBVIOUS
  <2>2. MarkInv'
    BY DEF MarkInv
  <2>3. AskedInv'
    BY DEF AskedInv
  <2> QED
    BY <2>1, <2>2, <2>3
<1>2. ASSUME NEW a \in Addresses, PrepareLink(a) PROVE LinkIInv'
  <2>1. CASE a \notin needs \/ a \in elevated
    BY <1>2, <2>1 DEF PrepareLink, MarkInv, AskedInv
  <2>2. CASE ~(a \notin needs \/ a \in elevated)
    BY <1>2, <2>2, PairKeeps DEF PrepareLink
  <2> QED
    BY <2>1, <2>2
<1>3. ASSUME NEW a \in Addresses, PairSucceeds(a) \/ PairFails(a) \/ OpRetried(a)
      PROVE  LinkIInv'
  <2> USE <1>3 DEF PairSucceeds, PairFails, OpRetried, AfterSuccess, AfterFailure
  <2>1. LinkTypeOK'
    <3>1. resume[a] \in Phases /\ failures[a] \in Nat
      OBVIOUS
    <3>2. failures' \in [Addresses -> Nat]
      <4>1. failures' \in {failures, [failures EXCEPT ![a] = 0],
                           [failures EXCEPT ![a] = failures[a] + 1]}
        OBVIOUS
      <4> QED
        BY ONLY <3>1, <4>1, failures \in [Addresses -> Nat]
    <3>3. at' \in [Addresses -> Phases \cup {"off", "pairing", "retry", "refused"}]
      BY <3>1
    <3>4. encrypted' \subseteq Addresses
      OBVIOUS
    <3>5. UNCHANGED <<opened, elevated, needs, resume, requests, skips>>
      OBVIOUS
    <3> QED
      BY ONLY <3>2, <3>3, <3>4, <3>5, LinkTypeOK DEF LinkTypeOK
  <2>2. MarkInv'
    BY DEF MarkInv
  <2>3. AskedInv'
    BY DEF AskedInv
  <2> QED
    BY <2>1, <2>2, <2>3
<1>4. ASSUME NEW a \in Addresses, OpRefused(a) PROVE LinkIInv'
  <2>1. CASE a \in elevated
    BY <1>4, <2>1 DEF OpRefused, MarkInv, AskedInv
  <2>2. CASE a \notin elevated
    BY <1>4, <2>2, PairKeeps DEF OpRefused
  <2> QED
    BY <2>1, <2>2
<1>5. ASSUME NEW a \in Addresses, AuthAccepted(a) \/ CloseLink(a) PROVE LinkIInv'
  BY <1>5 DEF AuthAccepted, CloseLink, MarkInv, AskedInv
<1>6. ASSUME NEW a \in Addresses, AuthRefused(a) PROVE LinkIInv'
  <2>1. CASE opened[a] = 1 /\ opened' = [opened EXCEPT ![a] = 2] /\ FreshClient(a)
    <3> USE <1>6, <2>1 DEF AuthRefused, FreshClient
    <3>1. LinkTypeOK'
      OBVIOUS
    <3>2. MarkInv'
      BY DEF MarkInv
    <3>3. AskedInv'
      BY DEF AskedInv
    <3> QED
      BY <3>1, <3>2, <3>3
  <2>2. CASE /\ opened[a] = 2
             /\ Move(a, IF LinkIsPlain(a) THEN "off" ELSE "read")
             /\ UNCHANGED <<opened, elevated, encrypted>>
    <3>1. LinkTypeOK' /\ MarkInv'
      BY <1>6, <2>2 DEF AuthRefused, MarkInv
    <3>2. AskedInv'
      BY <1>6, <2>2 DEF AuthRefused, AskedInv
    <3> QED
      BY <3>1, <3>2
  <2> QED
    BY <1>6, <2>1, <2>2 DEF AuthRefused
<1>7. CASE UNCHANGED linkVars
  BY <1>7 DEF linkVars, MarkInv, AskedInv
<1> QED
  BY <1>1, <1>2, <1>3, <1>4, <1>5, <1>6, <1>7 DEF LinkNext, Poll

(* So the marks say who has asked, for ever. *)
LEMMA LinkInductive == LinkSpec => []LinkIInv
  BY InitLinkIInv, StepLinkIInv, PTL DEF LinkSpec

-----------------------------------------------------------------------------
(* However many operations of a connection are refused, it carries one        *)
(* pairing request (_ELEVATED).                                               *)
THEOREM OneRequest == LinkSpec => []OneRequestPerConnection
<1>1. LinkIInv => OneRequestPerConnection
  BY DEF LinkIInv, MarkInv, OneRequestPerConnection
<1> QED
  BY <1>1, LinkInductive, PTL

(* A poll that still holds a plain link has asked, or skipped, on that link.  *)
THEOREM PlainStaysPlain == LinkSpec => []PlainLinkIsFinal
<1>1. LinkIInv => PlainLinkIsFinal
  BY DEF LinkIInv, AskedInv, PlainLinkIsFinal, LinkIsPlain
<1> QED
  BY <1>1, LinkInductive, PTL
-----------------------------------------------------------------------------
(* The remainder of the failures by PAIR_RETRY_EVERY *)

(* What an integer division gives, once for the solver. *)
LEMMA Division ==
    ASSUME NEW n \in Nat, NEW d \in Nat \ {0}
    PROVE  /\ n \div d \in Nat /\ n % d \in Nat /\ n % d < d
           /\ n = d * (n \div d) + (n % d)
OBVIOUS

(* A larger multiple of d is larger by d at least. *)
LEMMA Multiples ==
    ASSUME NEW d \in Nat, NEW p \in Nat, NEW q \in Nat, p > q
    PROVE  d * p >= d * q + d
<1>1. PICK k \in Nat : p = q + 1 + k
  <2>1. p - q - 1 \in Nat /\ p = q + 1 + (p - q - 1)
    OBVIOUS
  <2> QED
    BY <2>1
<1>2. d * (q + 1 + k) = d * q + d + d * k
  OBVIOUS
<1>3. d * q \in Nat /\ d * k \in Nat
  OBVIOUS
<1> QED
  BY <1>1, <1>2, <1>3

(* One more is the next remainder, or none. *)
LEMMA NextRemainder ==
    ASSUME NEW n \in Nat, NEW d \in Nat \ {0}
    PROVE  (n + 1) % d = IF (n % d) + 1 = d THEN 0 ELSE (n % d) + 1
<1> DEFINE p == n \div d
           q == (n + 1) \div d
           r == n % d
           s == (n + 1) % d
<1>1. p \in Nat /\ r \in Nat /\ r < d /\ n = d * p + r
  BY Division
<1>2. q \in Nat /\ s \in Nat /\ s < d /\ n + 1 = d * q + s
  BY Division, n + 1 \in Nat
<1> HIDE DEF p, q, r, s
<1>3. d * p \in Nat /\ d * q \in Nat /\ d * p + r + 1 = d * q + s
  BY <1>1, <1>2
<1>4. CASE p = q
  BY <1>1, <1>2, <1>3, <1>4 DEF r, s
<1>5. CASE p > q
  BY <1>1, <1>2, <1>3, <1>5, Multiples
<1>6. CASE q > p
  <2>1. d * q >= d * p + d
    BY <1>1, <1>2, <1>6, Multiples
  <2>2. s = 0 /\ r + 1 = d
    BY <1>1, <1>2, <1>3, <2>1
  <2> QED
    BY <2>2 DEF r, s
<1> QED
  BY <1>1, <1>2, <1>4, <1>5, <1>6

(* A number below the divisor is its own remainder, and the divisor has none. *)
LEMMA SmallRemainder ==
    ASSUME NEW n \in Nat, NEW d \in Nat \ {0}, n <= d
    PROVE  n % d = IF n = d THEN 0 ELSE n
<1> DEFINE p == n \div d
           r == n % d
<1>1. p \in Nat /\ r \in Nat /\ r < d /\ n = d * p + r
  BY Division
<1> HIDE DEF p, r
<1>2. CASE p = 0
  BY <1>1, <1>2 DEF r
<1>3. CASE p = 1
  BY <1>1, <1>3 DEF r
<1>4. CASE p > 1
  <2>1. d * p >= d * 1 + d
    BY <1>1, <1>4, Multiples
  <2>2. d * p \in Nat
    BY <1>1
  <2> QED
    BY <1>1, <2>1, <2>2
<1> QED
  BY <1>1, <1>2, <1>3, <1>4

-----------------------------------------------------------------------------
(* How many requests were skipped since the last one, after n failures: none   *)
(* while every connection asks, then all since the first quiet one, and after  *)
(* that all since the last multiple of PAIR_RETRY_EVERY.                       *)
Rhythm(n, s) ==
    /\ n <= PairQuietAfter => s = 0
    /\ n > PairQuietAfter /\ n <= PairRetryEvery => s = n - PairQuietAfter
    /\ n > PairRetryEvery /\ n > PairQuietAfter =>
          s = IF n % PairRetryEvery = 0 THEN PairRetryEvery - 1 ELSE (n % PairRetryEvery) - 1

(* In rhythm, fewer connections than PAIR_RETRY_EVERY go by without a request. *)
LEMMA RhythmBound ==
    ASSUME NEW n \in Nat, NEW s, Rhythm(n, s)
    PROVE  s \in Nat /\ s < PairRetryEvery
  BY BackoffAssumption, Division DEF Rhythm

(* A skipped request keeps the rhythm. *)
LEMMA SkipKeepsRhythm ==
    ASSUME NEW n \in Nat, NEW s \in Nat, Rhythm(n, s), Quiet(n)
    PROVE  Rhythm(n + 1, s + 1)
<1> USE BackoffAssumption
<1>1. n >= PairQuietAfter /\ n % PairRetryEvery # 0
  BY DEF Quiet
<1>2. CASE n <= PairRetryEvery
  <2>1. n # PairRetryEvery
    <3>1. n % PairRetryEvery = IF n = PairRetryEvery THEN 0 ELSE n
      BY <1>2, SmallRemainder
    <3> QED
      BY <1>1, <3>1
  <2> QED
    BY <1>1, <1>2, <2>1 DEF Rhythm
<1>3. CASE n > PairRetryEvery
  <2> DEFINE r == n % PairRetryEvery
  <2>1. s = r - 1 /\ r \in Nat /\ r < PairRetryEvery
    BY <1>1, <1>3, Division DEF Rhythm
  <2>2. (n + 1) % PairRetryEvery = IF r + 1 = PairRetryEvery THEN 0 ELSE r + 1
    BY NextRemainder
  <2> HIDE DEF r
  <2> QED
    BY <1>3, <2>1, <2>2 DEF Rhythm
<1> QED
  BY <1>2, <1>3

(* A request is made early on, or when the failures are a multiple; if it     *)
(* fails a new rhythm begins.                                                 *)
LEMMA AskedWhen ==
    ASSUME NEW n \in Nat, ~Quiet(n)
    PROVE  \/ n < PairQuietAfter
           \/ n >= PairRetryEvery /\ n % PairRetryEvery = 0
  BY BackoffAssumption, SmallRemainder DEF Quiet

(* A request that fails moves the count on by one, and the rhythm with it. *)
LEMMA FailureKeepsRhythm ==
    ASSUME NEW n \in Nat, ~Quiet(n)
    PROVE  Rhythm(n + 1, 0)
<1> USE BackoffAssumption
<1>1. CASE n < PairQuietAfter
  BY <1>1 DEF Rhythm
<1>2. CASE n >= PairRetryEvery /\ n % PairRetryEvery = 0
  <2>1. (n + 1) % PairRetryEvery = IF 0 + 1 = PairRetryEvery THEN 0 ELSE 0 + 1
    BY <1>2, NextRemainder
  <2> QED
    BY <1>2, <2>1 DEF Rhythm
<1> QED
  BY <1>1, <1>2, AskedWhen

(* A request after the quiet began has a whole gap behind it. *)
LEMMA RequestIsSparse ==
    ASSUME NEW n \in Nat, NEW s, Rhythm(n, s), ~Quiet(n), n > PairQuietAfter
    PROVE  s >= PairRetryEvery - PairQuietAfter
<1>1. n >= PairRetryEvery /\ n % PairRetryEvery = 0
  BY BackoffAssumption, AskedWhen
<1> QED
  BY <1>1, BackoffAssumption DEF Rhythm

BackoffInv ==
    \A a \in Addresses :
        IF at[a] = "pairing" THEN skips[a] = 0 /\ ~Quiet(failures[a])
        ELSE Rhythm(failures[a], skips[a])

(* What an address's step may do to its failures and its skips. *)
LEMMA StepOfBackoff ==
    ASSUME LinkTypeOK, NEW a \in Addresses, Poll(a)
    PROVE  /\ failures' \in [Addresses -> Nat] /\ skips' \in [Addresses -> Nat]
           /\ \A b \in Addresses \ {a} :
                 at'[b] = at[b] /\ failures'[b] = failures[b] /\ skips'[b] = skips[b]
           /\ \/ /\ at[a] # "pairing" /\ at'[a] # "pairing"
                 /\ failures'[a] = failures[a] /\ skips'[a] = skips[a]
              \/ /\ at[a] # "pairing" /\ at'[a] # "pairing" /\ Quiet(failures[a])
                 /\ failures'[a] = failures[a] + 1 /\ skips'[a] = skips[a] + 1
              \/ /\ at[a] # "pairing" /\ at'[a] = "pairing" /\ ~Quiet(failures[a])
                 /\ failures'[a] = failures[a] /\ skips'[a] = 0
              \/ /\ at[a] = "pairing" /\ at'[a] # "pairing"
                 /\ failures'[a] \in {0, failures[a] + 1} /\ skips'[a] = skips[a]
<1> USE DEF LinkTypeOK, Phases, Move, FreshClient
<1>1. ASSUME NEW from \in Phases, at[a] # "pairing", Pair(a, from)
      PROVE  /\ failures' \in [Addresses -> Nat] /\ skips' \in [Addresses -> Nat]
             /\ \A b \in Addresses \ {a} :
                   at'[b] = at[b] /\ failures'[b] = failures[b] /\ skips'[b] = skips[b]
             /\ \/ /\ at'[a] # "pairing" /\ Quiet(failures[a])
                   /\ failures'[a] = failures[a] + 1 /\ skips'[a] = skips[a] + 1
                \/ /\ at'[a] = "pairing" /\ ~Quiet(failures[a])
                   /\ failures'[a] = failures[a] /\ skips'[a] = 0
  <2>1. CASE Quiet(failures[a])
    BY <1>1, <2>1 DEF Pair, AfterFailure
  <2>2. CASE ~Quiet(failures[a])
    BY <1>1, <2>2 DEF Pair
  <2> QED
    BY <2>1, <2>2
<1>2. CASE OpenLink(a) \/ AuthAccepted(a) \/ AuthRefused(a) \/ CloseLink(a) \/ OpRetried(a)
  BY <1>2 DEF OpenLink, AuthAccepted, AuthRefused, CloseLink, OpRetried
<1>3. CASE PrepareLink(a)
  BY <1>1, <1>3 DEF PrepareLink
<1>4. CASE OpRefused(a)
  BY <1>1, <1>4 DEF OpRefused
<1>5. CASE PairSucceeds(a) \/ PairFails(a)
  <2>1. resume[a] \in Phases /\ failures[a] \in Nat
    OBVIOUS
  <2>2. AfterSuccess(resume[a]) # "pairing" /\ AfterFailure(resume[a]) # "pairing"
    BY <2>1 DEF AfterSuccess, AfterFailure
  <2>3. CASE PairSucceeds(a)
    BY <2>1, <2>2, <2>3 DEF PairSucceeds
  <2>4. CASE PairFails(a)
    BY <2>1, <2>2, <2>4 DEF PairFails
  <2> QED
    BY <1>5, <2>3, <2>4
<1> QED
  BY <1>2, <1>3, <1>4, <1>5 DEF Poll

(* Nothing has failed and nothing was skipped. *)
LEMMA BackoffInitHolds == LinkInit => BackoffInv
<1> SUFFICES ASSUME LinkInit, NEW a \in Addresses
             PROVE  at[a] # "pairing" /\ Rhythm(failures[a], skips[a])
  BY DEF BackoffInv
<1>1. at[a] = "off" /\ failures[a] = 0 /\ skips[a] = 0
  BY DEF LinkInit
<1>2. Rhythm(0, 0)
  BY BackoffAssumption DEF Rhythm
<1> QED
  BY <1>1, <1>2

(* Failures, skips and requests stay in rhythm whatever a poll does. *)
LEMMA BackoffStep == LinkTypeOK /\ BackoffInv /\ [LinkNext]_linkVars => BackoffInv'
<1> SUFFICES ASSUME LinkTypeOK, BackoffInv, [LinkNext]_linkVars PROVE BackoffInv'
  OBVIOUS
<1>1. CASE UNCHANGED linkVars
  BY <1>1 DEF linkVars, BackoffInv, Rhythm, Quiet
<1>2. ASSUME NEW a \in Addresses, Poll(a) PROVE BackoffInv'
  <2>1. failures[a] \in Nat /\ skips[a] \in Nat
    BY DEF LinkTypeOK
  <2>2. IF at'[a] = "pairing" THEN skips'[a] = 0 /\ ~Quiet(failures'[a])
        ELSE Rhythm(failures'[a], skips'[a])
    <3>1. Rhythm(0, 0)
      BY BackoffAssumption DEF Rhythm
    <3> QED
      BY <1>2, <2>1, <3>1, StepOfBackoff, SkipKeepsRhythm, FailureKeepsRhythm
         DEF BackoffInv
  <2>3. ASSUME NEW b \in Addresses \ {a}
        PROVE  IF at'[b] = "pairing" THEN skips'[b] = 0 /\ ~Quiet(failures'[b])
               ELSE Rhythm(failures'[b], skips'[b])
    BY <1>2, <2>3, StepOfBackoff DEF BackoffInv
  <2> QED
    BY <2>2, <2>3 DEF BackoffInv, Rhythm, Quiet
<1> QED
  BY <1>1, <1>2 DEF LinkNext

(* Whatever fails, connections that want encryption go PAIR_RETRY_EVERY - 1   *)
(* at most without a request, and once it is quiet the requests are sparse    *)
(* (_pair and _PAIR_FAILURES).                                                *)
THEOREM RequestsKeepTime == LinkSpec => BackoffKeepsTime
<1> DEFINE Timely ==
      \A a \in Addresses :
         /\ skips'[a] < PairRetryEvery
         /\ at[a] # "pairing" /\ at'[a] = "pairing" /\ failures[a] > PairQuietAfter
              => skips[a] >= PairRetryEvery - PairQuietAfter
<1>1. LinkTypeOK /\ BackoffInv /\ BackoffInv' /\ LinkTypeOK' /\ [LinkNext]_linkVars
        => [Timely]_linkVars
  <2> SUFFICES ASSUME LinkTypeOK, BackoffInv, BackoffInv', LinkTypeOK', LinkNext,
                      NEW a \in Addresses
               PROVE  /\ skips'[a] < PairRetryEvery
                      /\ at[a] # "pairing" /\ at'[a] = "pairing" /\ failures[a] > PairQuietAfter
                           => skips[a] >= PairRetryEvery - PairQuietAfter
    OBVIOUS
  <2>1. skips'[a] < PairRetryEvery
    <3>1. failures'[a] \in Nat
      BY DEF LinkTypeOK
    <3>2. CASE at'[a] = "pairing"
      BY <3>2, BackoffAssumption DEF BackoffInv
    <3>3. CASE at'[a] # "pairing"
      <4>1. Rhythm(failures'[a], skips'[a])
        BY <3>3 DEF BackoffInv, Rhythm
      <4> QED
        BY <3>1, <4>1, RhythmBound
    <3> QED
      BY <3>2, <3>3
  <2>2. ASSUME at[a] # "pairing", at'[a] = "pairing", failures[a] > PairQuietAfter
        PROVE  skips[a] >= PairRetryEvery - PairQuietAfter
    <3>1. PICK b \in Addresses : Poll(b)
      BY DEF LinkNext
    <3>2. b = a
      BY <2>2, <3>1, StepOfBackoff
    <3>3. ~Quiet(failures[a])
      BY <2>2, <3>1, <3>2, StepOfBackoff
    <3>4. failures[a] \in Nat /\ Rhythm(failures[a], skips[a])
      BY <2>2 DEF LinkTypeOK, BackoffInv
    <3> QED
      BY <2>2, <3>3, <3>4, RequestIsSparse
  <2> QED
    BY <2>1, <2>2
<1>2. LinkIInv => LinkTypeOK
  BY DEF LinkIInv
<1>3. LinkSpec => []LinkTypeOK
  BY <1>2, LinkInductive, PTL
<1>4. LinkSpec => []BackoffInv
  BY <1>3, BackoffInitHolds, BackoffStep, PTL DEF LinkSpec
<1> QED
  BY <1>1, <1>3, <1>4, PTL DEF LinkSpec, BackoffKeepsTime

-----------------------------------------------------------------------------
(* Onboarding a machine *)

(* The machine reports a pairing state that fits its token, and decides only *)
(* while it has none.                                                        *)
MachineInv ==
    /\ report \in Unpaired <=> token \in {"none", "garbled"}
    /\ deciding => token = "none"

(* Inside _onboard, on a link that is up: the machine was free when it began,  *)
(* and nobody else can take it over this link; the state known until the last  *)
(* reading is an unpaired one.                                                 *)
Onboards == {"tx", "cmid", "poll", "pause"}

OnboardInv ==
    /\ pc \in Onboards => known \in Unpaired /\ attempt > 0
    /\ pc = "pause" => attempt < OnboardAttempts
    /\ pc = "state" => attempt = 0
    /\ pc \in Onboards /\ up => token # "other"
    /\ PairedIsProof

OnboardIInv == OnboardTypeOK /\ MachineInv /\ OnboardInv

-----------------------------------------------------------------------------
(* Where an attempt leads: nowhere without a link, else to the write or to the *)
(* next attempt, with the state it read.                                       *)
LEMMA AttemptOverGoes ==
    ASSUME OnboardTypeOK, NEW state, NEW connected \in BOOLEAN, AttemptOver(state, connected)
    PROVE  /\ known' = state /\ waited' \in Nat
           /\ pc' \in {"off", "write", "pause"}
           /\ pc' # "off" => connected
           /\ pc' = "pause" => state \in Unpaired /\ attempt < OnboardAttempts
  BY OnboardingAssumption DEF AttemptOver, Goto, OnboardTypeOK

(* A failed operation counts as one fault at most, and connects nothing. *)
LEMMA RaisesTypes ==
    ASSUME OnboardTypeOK, Raises
    PROVE  up' \in BOOLEAN /\ faults' \in 0..MaxFaults /\ (up' => up)
  BY OnboardingAssumption DEF Raises, OnboardTypeOK

(* At the start nothing is under way, and the report fits the token. *)
LEMMA InitOnboardIInv == OnboardInit => OnboardIInv
<1> SUFFICES ASSUME OnboardInit PROVE OnboardIInv
  OBVIOUS
<1> USE OnboardingAssumption DEF OnboardInit, Unpaired, CmidTypes, Tokens
<1>1. OnboardTypeOK
  <2>1. deciding \in BOOLEAN /\ quiet \in BOOLEAN /\ up \in BOOLEAN
    OBVIOUS
  <2>3. known = Unreadable /\ attempt \in 0..OnboardAttempts /\ polls \in 0..OnboardPollAttempts
    OBVIOUS
  <2>4. waited \in Nat /\ faults \in 0..MaxFaults /\ pc = "off"
    OBVIOUS
  <2>2. setting \in Settings /\ token \in Tokens /\ report \in CmidTypes
    OBVIOUS
  <2> QED
    BY <2>1, <2>2, <2>3, <2>4 DEF OnboardTypeOK
<1>2. MachineInv
  BY DEF MachineInv
<1>3. OnboardInv
  BY DEF OnboardInv, Onboards, PairedIsProof
<1> QED
  BY <1>1, <1>2, <1>3 DEF OnboardIInv

(* The machine, and whoever resets or claims it, keep report and token in step. *)
LEMMA StepMachineInv == OnboardIInv /\ [OnboardNext]_onboardVars => MachineInv'
<1> SUFFICES ASSUME OnboardIInv, [OnboardNext]_onboardVars PROVE MachineInv'
  OBVIOUS
<1> USE DEF OnboardIInv, MachineInv, Unpaired, CmidTypes, machine
<1>0. ASSUME token' = token, report' = report, deciding' => deciding \/ token = "none"
      PROVE  MachineInv'
  BY <1>0
<1>a. Acknowledge => token' = token /\ report' = report /\ (deciding' => deciding \/ token = "none")
  BY DEF Acknowledge
<1>1. CASE OnboardWrite \/ WriteToken
  <2>1. Acknowledge \/ UNCHANGED machine
    BY ONLY <1>1 DEF OnboardWrite, WriteToken
  <2> QED
    BY <2>1, <1>a, <1>0
<1>2. CASE Connect \/ ReadState \/ WriteTxLevel \/ PollState \/ NextAttempt \/ Verify \/ Disconnect
  <2>1. UNCHANGED <<token, report, deciding>>
    BY ONLY <1>2 DEF Connect, ReadState, ReadStateAndOnboard, WriteTxLevel, PollState, NextAttempt,
       Verify, Disconnect, machine
  <2> QED
    BY <2>1, <1>0
<1>3. CASE Settle
  BY <1>3 DEF Settle
<1>4. CASE Waver
  BY <1>4 DEF Waver
<1>5. CASE LinkLost
  BY <1>5 DEF LinkLost
<1>6. CASE FactoryReset
  BY <1>6 DEF FactoryReset
<1>7. CASE AppClaims
  BY <1>7 DEF AppClaims
<1>8. CASE UNCHANGED onboardVars
  BY <1>8 DEF onboardVars
<1> QED
  BY <1>1, <1>2, <1>3, <1>4, <1>5, <1>6, <1>7, <1>8 DEF OnboardNext, Step

(* Every operation, answered or not, leaves the variables in their sets. *)
LEMMA StepType == OnboardIInv /\ [OnboardNext]_onboardVars => OnboardTypeOK'
<1> SUFFICES ASSUME OnboardTypeOK, OnboardInv, [OnboardNext]_onboardVars PROVE OnboardTypeOK'
  BY DEF OnboardIInv
<1> USE OnboardingAssumption DEF machine, caller, Goto
<1> DEFINE Machine == token' \in Tokens /\ report' \in CmidTypes
           Flags   == deciding' \in BOOLEAN /\ quiet' \in BOOLEAN
           Link    == up' \in BOOLEAN /\ faults' \in 0..MaxFaults
           Pc      == pc' \in {"off", "state", "tx", "cmid", "poll", "pause", "write",
                               "verify", "accepted"}
           Known   == known' \in CmidTypes \cup {Unreadable}
           Counts  == /\ attempt' \in 0..OnboardAttempts
                      /\ polls' \in 0..OnboardPollAttempts /\ waited' \in Nat
<1>q. ASSUME setting' = setting, Machine, Flags, Link, Pc, Known, Counts PROVE OnboardTypeOK'
  BY <1>q DEF OnboardTypeOK
<1>a. Answers \/ Raises => Link
  BY RaisesTypes DEF Answers, OnboardTypeOK
<1>b. Acknowledge => Machine /\ Flags
  <2>1. Acknowledge => deciding' \in BOOLEAN
    BY DEF Acknowledge
  <2> QED
    BY <2>1 DEF Acknowledge, OnboardTypeOK
<1>c. UNCHANGED machine => Machine /\ Flags
  BY DEF OnboardTypeOK
<1>d. UNCHANGED <<up, faults>> => Link
  BY DEF OnboardTypeOK
<1> HIDE DEF Machine, Flags, Link, Pc, Known, Counts
<1>1. CASE Connect
  <2>1. Machine /\ Known
    BY <1>1 DEF Connect, Machine, Known, OnboardTypeOK
  <2>2. Flags /\ Link
    <3>1. up' \in BOOLEAN /\ quiet' \in BOOLEAN
      BY <1>1 DEF Connect
    <3> QED
      BY <1>1, <3>1 DEF Connect, Flags, Link, OnboardTypeOK
  <2>3. Pc /\ Counts
    BY <1>1 DEF Connect, Pc, Counts, OnboardTypeOK
  <2> QED
    BY <1>1, <2>1, <2>2, <2>3, <1>q DEF Connect
<1>2. CASE ReadState
  <2>1. Link /\ Known
    BY <1>2, <1>a DEF ReadState, ReadStateAndOnboard, Known, OnboardTypeOK
  <2>2. Pc /\ Counts
    BY <1>2 DEF ReadState, ReadStateAndOnboard, Begin, Pc, Counts, OnboardTypeOK
  <2> QED
    BY <1>2, <2>1, <2>2, <1>c, <1>q DEF ReadState, ReadStateAndOnboard
<1>3. CASE WriteTxLevel
  <2>1. Link
    BY <1>3, <1>a DEF WriteTxLevel, Link, OnboardTypeOK
  <2>2. Pc /\ Known /\ waited' \in Nat
    <3>1. ASSUME NEW c \in BOOLEAN, AttemptOver(known, c) PROVE Pc /\ Known /\ waited' \in Nat
      BY <3>1, AttemptOverGoes DEF Pc, Known, OnboardTypeOK
    <3>2. CASE Answers /\ quiet' = TRUE /\ Goto("cmid") /\ UNCHANGED <<known, waited>>
      BY <3>2 DEF Pc, Known, OnboardTypeOK
    <3> QED
      BY <1>3, <3>1, <3>2, RaisesTypes DEF WriteTxLevel
  <2>3. Machine /\ Flags
    <3>1. quiet' \in BOOLEAN
      BY <1>3 DEF WriteTxLevel, OnboardTypeOK
    <3> QED
      BY <1>3, <3>1 DEF WriteTxLevel, Machine, Flags, OnboardTypeOK
  <2> QED
    BY <1>3, <2>1, <2>2, <2>3, <1>q DEF WriteTxLevel, Counts, OnboardTypeOK
<1>4. CASE OnboardWrite
  <2>1. Link /\ Machine /\ Flags
    BY <1>4, <1>a, <1>b, <1>c DEF OnboardWrite
  <2>2. Pc /\ Known /\ waited' \in Nat
    BY <1>4, AttemptOverGoes, RaisesTypes DEF OnboardWrite, Pc, Known, OnboardTypeOK
  <2>3. polls' \in 0..OnboardPollAttempts
    BY <1>4 DEF OnboardWrite, OnboardTypeOK
  <2> QED
    BY <1>4, <2>1, <2>2, <2>3, <1>q DEF OnboardWrite, Counts, OnboardTypeOK
<1>5. CASE PollState
  <2>1. Link /\ Machine /\ Flags
    BY <1>5, <1>a, <1>c DEF PollState
  <2>2. Pc /\ Known /\ Counts
    <3>1. CASE /\ Answers /\ report \in Unpaired /\ polls < OnboardPollAttempts
               /\ known' = report
               /\ polls' = polls + 1 /\ waited' = waited + 1
               /\ UNCHANGED pc
      BY <1>5, <3>1 DEF PollState, Pc, Known, Counts, OnboardTypeOK
    <3>2. CASE /\ Answers /\ (report \notin Unpaired \/ polls = OnboardPollAttempts)
               /\ AttemptOver(report, TRUE)
               /\ UNCHANGED polls
      <4>1. known' = report /\ waited' \in Nat /\ pc' \in {"off", "write", "pause"}
        BY <3>2, AttemptOverGoes
      <4> QED
        BY <1>5, <3>2, <4>1 DEF PollState, Pc, Known, Counts, OnboardTypeOK
    <3>3. CASE Raises /\ AttemptOver(Unreadable, up') /\ UNCHANGED polls
      BY <1>5, <3>3, AttemptOverGoes, RaisesTypes DEF PollState, Pc, Known, Counts, OnboardTypeOK
    <3> QED
      BY <1>5, <3>1, <3>2, <3>3 DEF PollState
  <2> QED
    BY <1>5, <2>1, <2>2, <1>q DEF PollState
<1>6. CASE WriteToken \/ Verify
  <2>1. Link /\ Machine /\ Flags
    BY <1>6, <1>a, <1>b, <1>c DEF WriteToken, Verify
  <2>2. Pc /\ Known /\ Counts
    BY <1>6 DEF WriteToken, Verify, Pc, Known, Counts, OnboardTypeOK
  <2> QED
    BY <1>6, <2>1, <2>2, <1>q DEF WriteToken, Verify
<1>7. CASE NextAttempt
  <2>1. Pc /\ Counts
    BY <1>7 DEF NextAttempt, OnboardInv, Begin, Pc, Counts, OnboardTypeOK
  <2> QED
    BY <1>7, <2>1, <1>c, <1>d, <1>q DEF NextAttempt, Known, OnboardTypeOK
<1>8. CASE Disconnect
  BY <1>8, <1>c, <1>q DEF Disconnect, Link, Pc, Known, Counts, OnboardTypeOK
<1>9. CASE LinkLost
  <2>1. Link
    <3>1. up' \in BOOLEAN
      BY <1>9 DEF LinkLost
    <3> QED
      BY <1>9, <3>1 DEF LinkLost, Link, OnboardTypeOK
  <2> QED
    BY <1>9, <2>1, <1>c, <1>q DEF LinkLost, Pc, Known, Counts, OnboardTypeOK
<1>10. CASE Settle \/ Waver \/ FactoryReset \/ AppClaims
  <2>1. Machine
    BY <1>10 DEF Settle, Waver, FactoryReset, AppClaims, Machine, Unpaired, Tokens, CmidTypes, OnboardTypeOK
  <2>2. deciding' \in BOOLEAN
    BY <1>10 DEF Settle, Waver, FactoryReset, AppClaims, OnboardTypeOK
  <2>3. quiet' \in BOOLEAN
    BY <1>10 DEF Settle, Waver, FactoryReset, AppClaims, OnboardTypeOK
  <2>4. up' \in BOOLEAN
    BY <1>10 DEF Settle, Waver, FactoryReset, AppClaims, OnboardTypeOK
  <2>5. faults' \in 0..MaxFaults
    BY <1>10 DEF Settle, Waver, FactoryReset, AppClaims, OnboardTypeOK
  <2> QED
    BY <1>10, <2>1, <2>2, <2>3, <2>4, <2>5, <1>q
       DEF Settle, Waver, FactoryReset, AppClaims, Flags, Link, Pc, Known, Counts, OnboardTypeOK
<1>11. CASE UNCHANGED onboardVars
  BY <1>11, <1>c, <1>d, <1>q DEF onboardVars, Pc, Known, Counts, OnboardTypeOK
<1> QED
  BY <1>1, <1>2, <1>3, <1>4, <1>5, <1>6, <1>7, <1>8, <1>9, <1>10, <1>11 DEF OnboardNext, Step

(* Nobody can take the machine while its one link is in the hands of _onboard. *)
LEMMA StepOnboardInv == OnboardIInv /\ [OnboardNext]_onboardVars => OnboardInv'
<1> SUFFICES ASSUME OnboardIInv, [OnboardNext]_onboardVars PROVE OnboardInv'
  OBVIOUS
<1> USE DEF OnboardIInv, machine, caller, Goto
<1> DEFINE Paired == known' \in CmidTypes \ Unpaired
(* A step that leaves onboarding and proves nothing new. *)
<1>q. ASSUME pc' \notin Onboards, pc' = "state" => attempt' = 0,
             up' /\ pc' \in {"write", "verify"} /\ attempt' > 0 /\ Paired => token' = "ours"
      PROVE  OnboardInv'
  BY <1>q DEF OnboardInv, Onboards, PairedIsProof
<1>1. CASE Connect \/ Disconnect
  BY <1>1, <1>q DEF Connect, Disconnect, Onboards
<1>2. CASE ReadState
  <2> USE <1>2 DEF ReadState, ReadStateAndOnboard
  <2>1. CASE known' \in Unpaired
    <3>1. Answers /\ report \in Unpaired
      BY <2>1 DEF Unpaired, Unreadable
    <3>2. token # "other"
      BY <3>1 DEF MachineInv
    <3> QED
      BY <2>1, <3>2 DEF OnboardInv, Onboards, PairedIsProof, Begin, Unpaired
  <2>2. CASE known' \notin Unpaired
    <3>1. attempt = 0
      BY DEF OnboardInv
    <3> QED
      BY <2>2, <3>1, <1>q DEF Onboards
  <2> QED
    BY <2>1, <2>2
(* An attempt that ends with a state that is unpaired, unknown, or proof. *)
<1>r. ASSUME NEW state, NEW c \in BOOLEAN, AttemptOver(state, c), pc \in Onboards,
             up' => up, UNCHANGED <<attempt, token>>,
             state \in Unpaired \cup {Unreadable} \/ token = "ours"
      PROVE  OnboardInv'
  <2>1. known' = state /\ pc' \in {"off", "write", "pause"}
        /\ (pc' = "pause" => state \in Unpaired /\ attempt < OnboardAttempts)
    BY <1>r, AttemptOverGoes
  <2>2. attempt > 0 /\ (up => token # "other")
    BY <1>r DEF OnboardInv
  <2>3. state \in Unpaired \cup {Unreadable} => ~Paired
    BY <2>1 DEF Unreadable, CmidTypes
  <2> QED
    BY <1>r, <2>1, <2>2, <2>3 DEF OnboardInv, Onboards, PairedIsProof
<1>3. CASE WriteTxLevel
  <2> USE <1>3 DEF WriteTxLevel
  <2>1. known \in Unpaired /\ attempt > 0 /\ pc \in Onboards
    BY DEF OnboardInv, Onboards
  <2>2. CASE Answers /\ quiet' = TRUE /\ Goto("cmid") /\ UNCHANGED <<known, waited>>
    BY <2>1, <2>2 DEF Answers, OnboardInv, Onboards, PairedIsProof
  <2>3. CASE Raises /\ AttemptOver(known, up')
    BY <2>1, <2>3, <1>r, RaisesTypes
  <2>4. CASE up' = FALSE /\ AttemptOver(known, FALSE)
    BY <2>1, <2>4, <1>r
  <2> QED
    BY <2>2, <2>3, <2>4
<1>4. CASE OnboardWrite
  <2> USE <1>4 DEF OnboardWrite
  <2>1. known \in Unpaired /\ attempt > 0 /\ pc \in Onboards
    BY DEF OnboardInv, Onboards
  <2>2. CASE Answers /\ Acknowledge /\ Goto("poll") /\ UNCHANGED <<known, waited>>
    BY <2>1, <2>2 DEF Answers, Acknowledge, OnboardInv, Onboards, PairedIsProof
  <2>3. CASE Raises /\ AttemptOver(known, up') /\ UNCHANGED machine
    BY <2>1, <2>3, <1>r, RaisesTypes
  <2> QED
    BY <2>2, <2>3
<1>5. CASE PollState
  <2> USE <1>5 DEF PollState
  <2>1. attempt > 0 /\ pc \in Onboards
    BY DEF OnboardInv, Onboards
  <2>2. CASE Answers /\ report \in Unpaired /\ known' = report /\ UNCHANGED pc
    BY <2>1, <2>2 DEF Answers, OnboardInv, Onboards, PairedIsProof
  <2>3. CASE Answers /\ AttemptOver(report, TRUE)
    <3>1. report \in Unpaired \/ token = "ours"
      BY <2>1, <2>3 DEF Answers, OnboardInv, MachineInv, Tokens, OnboardTypeOK
    <3> QED
      BY <2>1, <2>3, <3>1, <1>r DEF Answers
  <2>4. CASE Raises /\ AttemptOver(Unreadable, up')
    BY <2>1, <2>4, <1>r, RaisesTypes
  <2> QED
    BY <2>2, <2>3, <2>4
<1>6. CASE NextAttempt
  <2>1. known \in Unpaired /\ attempt \in Nat /\ (up => token # "other")
    BY <1>6 DEF NextAttempt, OnboardInv, Onboards, OnboardTypeOK
  <2>2. pc' \in {"tx", "cmid"} /\ attempt' > 0 /\ UNCHANGED <<known, up, token>>
    BY <1>6, <2>1 DEF NextAttempt, Begin
  <2> QED
    BY <2>1, <2>2 DEF OnboardInv, Onboards, PairedIsProof
<1>7. CASE WriteToken
  <2> USE <1>7 DEF WriteToken
  <2>1. CASE Answers /\ Acknowledge /\ Goto("verify")
    <3>1. UNCHANGED <<token, up, known, attempt>> /\ pc' = "verify" /\ pc = "write"
      BY <2>1 DEF Acknowledge, Answers
    <3> QED
      BY <3>1, <1>q DEF OnboardInv, Onboards, PairedIsProof
  <2>2. CASE Raises /\ Goto("off")
    BY <2>2, <1>q DEF Onboards
  <2> QED
    BY <2>1, <2>2
<1>8. CASE Verify
  BY <1>8, <1>q DEF Verify, Onboards
<1>9. CASE LinkLost
  BY <1>9 DEF LinkLost, OnboardInv, PairedIsProof
<1>10. CASE Settle
  <2>1. token = "none" /\ token' # "other" /\ UNCHANGED <<up, pc, known, attempt>>
    BY <1>10 DEF Settle, MachineInv
  <2> QED
    BY <2>1 DEF OnboardInv, PairedIsProof
<1>11. CASE Waver
  BY <1>11 DEF Waver, OnboardInv, PairedIsProof
<1>12. CASE FactoryReset \/ AppClaims
  <2>1. ~up' /\ UNCHANGED <<pc, known, attempt>>
    BY <1>12 DEF FactoryReset, AppClaims
  <2> QED
    BY <2>1 DEF OnboardInv, PairedIsProof
<1>13. CASE UNCHANGED onboardVars
  BY <1>13 DEF onboardVars, OnboardInv, PairedIsProof
<1> QED
  BY <1>1, <1>2, <1>3, <1>4, <1>5, <1>6, <1>7, <1>8, <1>9, <1>10, <1>11, <1>12, <1>13
     DEF OnboardNext, Step

(* The three parts together are inductive. *)
LEMMA OnboardInductive == OnboardSpec => []OnboardIInv
<1>1. OnboardIInv /\ [OnboardNext]_onboardVars => OnboardIInv'
  BY StepType, StepMachineInv, StepOnboardInv DEF OnboardIInv
<1> QED
  BY <1>1, InitOnboardIInv, PTL DEF OnboardSpec

-----------------------------------------------------------------------------
(* No step of onboarding reaches a machine that belongs to somebody else.     *)
THEOREM ForeignMachinesAreSafe == OnboardSpec => []ForeignMachineLeftAlone
<1>1. OnboardIInv => ForeignMachineLeftAlone
  BY DEF OnboardIInv, OnboardInv, Onboards, ForeignMachineLeftAlone
<1> QED
  BY <1>1, OnboardInductive, PTL

(* A paired state that comes out of _onboard on a live link is proof that the *)
(* machine holds our token.                                                   *)
THEOREM PairedMeansOurs == OnboardSpec => []PairedIsProof
<1>1. OnboardIInv => PairedIsProof
  BY DEF OnboardIInv, OnboardInv
<1> QED
  BY <1>1, OnboardInductive, PTL

-----------------------------------------------------------------------------
(* The time an authentication takes *)

(* What attempts before this one slept, at the most: every reading and the     *)
(* delay after it, each time.  The last attempt is followed by no delay.       *)
Slept(n) == n * (OnboardPollAttempts + OnboardRetryDelay)
LongestWait == Slept(OnboardAttempts - 1) + OnboardPollAttempts

(* It grows with the attempts, by one attempt's share each. *)
LEMMA SleptGrows ==
    /\ \A n \in Nat : Slept(n) \in Nat /\ Slept(n + 1) = Slept(n) + OnboardPollAttempts + OnboardRetryDelay
    /\ \A n, m \in Nat : n <= m => Slept(n) <= Slept(m)
<1>1. DEFINE C == OnboardPollAttempts + OnboardRetryDelay
<1>2. C \in Nat
  BY OnboardingAssumption
<1>3. \A n \in Nat : Slept(n) = n * C
  BY DEF Slept
<1> HIDE DEF C
<1>4. \A n \in Nat : n * C \in Nat /\ (n + 1) * C = n * C + C
  BY <1>2
<1>5. \A n, k \in Nat : (n + k) * C = n * C + k * C /\ k * C \in Nat
  BY <1>2
<1>6. ASSUME NEW n \in Nat, NEW m \in Nat, n <= m PROVE Slept(n) <= Slept(m)
  <2>1. PICK k \in Nat : m = n + k
    <3>1. m - n \in Nat /\ m = n + (m - n)
      BY <1>6
    <3> QED
      BY <3>1
  <2>2. n * C \in Nat /\ k * C \in Nat /\ m * C = n * C + k * C
    BY <2>1, <1>5, <1>4
  <2> QED
    BY <2>2, <1>3
<1>7. \A n \in Nat : Slept(n) \in Nat /\ Slept(n + 1) = Slept(n) + C
  BY <1>3, <1>4
<1> QED
  BY <1>6, <1>7, OnboardingAssumption DEF C

(* How long it has slept, by where it is. *)
WaitInv ==
    /\ pc \in {"tx", "cmid"} => waited <= Slept(attempt - 1)
    /\ pc = "poll" => waited <= Slept(attempt - 1) + polls
    /\ pc = "pause" => waited <= Slept(attempt)
    /\ pc = "state" => waited = 0
    /\ waited <= LongestWait

(* Before the last attempt there is room for one more, readings and delay. *)
LEMMA WaitsByAttempt ==
    ASSUME OnboardTypeOK
    PROVE  /\ LongestWait \in Nat
           /\ attempt > 0 =>
                /\ Slept(attempt - 1) \in Nat /\ Slept(attempt - 1) + OnboardPollAttempts <= LongestWait
                /\ Slept(attempt) = Slept(attempt - 1) + OnboardPollAttempts + OnboardRetryDelay
           /\ attempt < OnboardAttempts => Slept(attempt) <= LongestWait
<1>1. OnboardAttempts - 1 \in Nat /\ OnboardPollAttempts \in Nat /\ attempt \in Nat /\ attempt <= OnboardAttempts
  BY OnboardingAssumption DEF OnboardTypeOK
<1>2. Slept(OnboardAttempts - 1) \in Nat
  BY <1>1, SleptGrows
<1>3. CASE attempt > 0
  <2>1. attempt - 1 \in Nat /\ attempt - 1 <= OnboardAttempts - 1 /\ attempt = (attempt - 1) + 1
    BY <1>1, <1>3, OnboardingAssumption
  <2>2. /\ Slept(attempt - 1) \in Nat /\ Slept(attempt - 1) <= Slept(OnboardAttempts - 1)
        /\ Slept((attempt - 1) + 1) = Slept(attempt - 1) + OnboardPollAttempts + OnboardRetryDelay
    BY <1>1, <2>1, SleptGrows
  <2>3. attempt < OnboardAttempts => attempt <= OnboardAttempts - 1
    BY <1>1, OnboardingAssumption
  <2>4. attempt < OnboardAttempts => Slept(attempt) \in Nat /\ Slept(attempt) <= Slept(OnboardAttempts - 1)
    BY <1>1, <2>3, SleptGrows
  <2> QED
    BY <1>1, <1>2, <2>1, <2>2, <2>4 DEF LongestWait
<1>4. CASE attempt = 0
  <2>1. Slept(0) <= Slept(OnboardAttempts - 1) /\ Slept(0) \in Nat
    BY <1>1, SleptGrows
  <2> QED
    BY <1>1, <1>2, <1>4, <2>1 DEF LongestWait
<1> QED
  BY <1>1, <1>3, <1>4

(* No operation, answered, refused or cut off, sleeps past its attempt's share. *)
LEMMA WaitStep == OnboardIInv /\ WaitInv /\ [OnboardNext]_onboardVars => WaitInv'
<1> SUFFICES ASSUME OnboardIInv, WaitInv, [OnboardNext]_onboardVars PROVE WaitInv'
  OBVIOUS
<1> USE DEF caller, Goto
<1>t. /\ OnboardTypeOK /\ attempt \in Nat /\ waited \in Nat /\ polls \in Nat
      /\ polls <= OnboardPollAttempts /\ OnboardPollAttempts \in Nat /\ OnboardRetryDelay \in Nat
  BY OnboardingAssumption DEF OnboardIInv, OnboardTypeOK
<1>o. pc \in Onboards => attempt > 0
  BY DEF OnboardIInv, OnboardInv
<1>p. pc = "pause" => attempt < OnboardAttempts
  BY DEF OnboardIInv, OnboardInv
<1>l. /\ LongestWait \in Nat
      /\ attempt > 0 =>
           /\ Slept(attempt - 1) \in Nat /\ Slept(attempt - 1) + OnboardPollAttempts <= LongestWait
           /\ Slept(attempt) = Slept(attempt - 1) + OnboardPollAttempts + OnboardRetryDelay
      /\ attempt < OnboardAttempts => Slept(attempt) <= LongestWait
  BY <1>t, WaitsByAttempt
(* An attempt that is over has slept its readings, and the delay if another follows. *)
<1>a. ASSUME NEW state, NEW c, AttemptOver(state, c), pc \in {"tx", "cmid", "poll"},
             UNCHANGED <<attempt, polls>>
      PROVE  WaitInv'
  <2>1. attempt > 0 /\ waited <= Slept(attempt - 1) + OnboardPollAttempts
    BY <1>a, <1>t, <1>o, <1>l DEF WaitInv, Onboards
  <2>2. CASE pc' \in {"off", "write"} /\ UNCHANGED waited
    BY <2>2 DEF WaitInv, LongestWait
  <2>3. CASE pc' = "pause" /\ waited' = waited + OnboardRetryDelay /\ attempt < OnboardAttempts
    <3>1. waited' <= Slept(attempt) /\ Slept(attempt) <= LongestWait
      BY <2>1, <2>3, <1>l, <1>t
    <3>2. waited' <= LongestWait
      BY <3>1, <2>1, <2>3, <1>t, <1>l
    <3>3. LongestWait' = LongestWait
      BY DEF LongestWait, Slept
    <3> QED
      BY <2>3, <3>1, <3>2, <3>3, <1>a DEF WaitInv, Slept
  <2> QED
    BY <1>a, <2>2, <2>3 DEF AttemptOver
(* A step that sleeps nothing and goes where any wait will do. *)
<1>q. ASSUME UNCHANGED waited, pc' \in {"off", "write", "verify", "accepted"}
      PROVE  WaitInv'
  BY <1>q DEF WaitInv, LongestWait
<1>r. ASSUME UNCHANGED <<waited, pc, attempt, polls>>
      PROVE  WaitInv'
  BY <1>r DEF WaitInv, LongestWait, Slept
<1>1. CASE Connect
  <2>1. waited' = 0 /\ pc' = "state"
    BY <1>1 DEF Connect
  <2> QED
    BY <2>1, <1>l DEF WaitInv, LongestWait
<1>2. CASE ReadState
  <2>1. waited' = 0 /\ pc = "state"
    BY <1>2 DEF ReadState, ReadStateAndOnboard, WaitInv
  <2>2. CASE attempt' = 1 /\ pc' \in {"tx", "cmid"}
    <3>1. Slept(attempt' - 1) \in Nat
      BY <2>2, SleptGrows
    <3>2. waited' <= Slept(attempt' - 1)
      BY <2>1, <3>1
    <3> QED
      BY <2>1, <2>2, <3>2, <1>l DEF WaitInv, LongestWait
  <2>3. CASE pc' = "write"
    BY <2>3, <1>2, <1>q DEF ReadState, ReadStateAndOnboard
  <2> QED
    BY <1>2, <2>2, <2>3 DEF ReadState, ReadStateAndOnboard, Begin
<1>3. CASE WriteTxLevel
  <2> USE <1>3 DEF WriteTxLevel
  <2>1. CASE pc' = "cmid" /\ UNCHANGED waited
    BY <2>1 DEF WaitInv, LongestWait, Slept
  <2>2. CASE \E c \in BOOLEAN : AttemptOver(known, c)
    BY <2>2, <1>a
  <2> QED
    BY <2>1, <2>2, <1>t, RaisesTypes
<1>4. CASE OnboardWrite
  <2>1. CASE pc = "cmid" /\ pc' = "poll" /\ polls' = 0 /\ UNCHANGED <<waited, attempt>>
    <3>1. Slept(attempt - 1) \in Nat /\ waited <= Slept(attempt - 1)
      BY <2>1, <1>o, <1>l DEF WaitInv, Onboards
    <3>2. waited' <= Slept(attempt' - 1) + polls'
      BY <2>1, <3>1, <1>t
    <3> QED
      BY <2>1, <3>2 DEF WaitInv, LongestWait
  <2>2. CASE Raises /\ AttemptOver(known, up') /\ UNCHANGED polls
    BY <1>4, <2>2, <1>a DEF OnboardWrite
  <2> QED
    BY <1>4, <2>1, <2>2 DEF OnboardWrite
<1>5. CASE PollState
  <2>1. CASE /\ polls < OnboardPollAttempts
             /\ polls' = polls + 1 /\ waited' = waited + 1
             /\ UNCHANGED pc
    <3>1. attempt > 0 /\ waited <= Slept(attempt - 1) + polls /\ pc' = "poll" /\ attempt' = attempt
      BY <1>5, <2>1, <1>o DEF PollState, WaitInv, Onboards
    <3>2. waited' <= Slept(attempt' - 1) + polls' /\ waited' <= LongestWait
      BY <2>1, <3>1, <1>l, <1>t
    <3>3. LongestWait' = LongestWait
      BY DEF LongestWait, Slept
    <3> QED
      BY <3>1, <3>2, <3>3 DEF WaitInv, Slept
  <2>2. CASE UNCHANGED polls /\ \E state, c : AttemptOver(state, c)
    BY <1>5, <2>2, <1>a DEF PollState
  <2> QED
    BY <1>5, <2>1, <2>2 DEF PollState
<1>6. CASE NextAttempt
  <2>1. pc' \in {"tx", "cmid"} /\ attempt' = attempt + 1 /\ UNCHANGED waited /\ waited <= Slept(attempt)
    BY <1>6 DEF NextAttempt, Begin, WaitInv
  <2>2. attempt' - 1 = attempt
    BY <2>1, <1>t
  <2> QED
    BY <2>1, <2>2 DEF WaitInv, LongestWait
<1>7. CASE WriteToken \/ Verify \/ Disconnect
  BY <1>7, <1>q DEF WriteToken, Verify, Disconnect
<1>8. CASE Settle \/ Waver \/ LinkLost \/ FactoryReset \/ AppClaims \/ UNCHANGED onboardVars
  BY <1>8, <1>r DEF Settle, Waver, LinkLost, FactoryReset, AppClaims, onboardVars
<1> QED
  BY <1>1, <1>2, <1>3, <1>4, <1>5, <1>6, <1>7, <1>8 DEF OnboardNext, Step

(* Whatever the numbers are that ble/protocol.py chooses: if twice the longest *)
(* wait fits the scan interval (2 * (1 * 12 + 10) < 60, with the delays of two *)
(* attempts), so do the two authentications of every poll, however they fail.  *)
THEOREM OnboardingFitsThePoll ==
    ASSUME 2 * LongestWait < ScanInterval
    PROVE  OnboardSpec => []FitsTheScanInterval
<1>1. OnboardInit => WaitInv
  <2>1. LongestWait \in Nat
    <3>1. OnboardAttempts - 1 \in Nat
      BY OnboardingAssumption
    <3>2. Slept(OnboardAttempts - 1) \in Nat
      BY <3>1, SleptGrows
    <3> QED
      BY <3>2, OnboardingAssumption DEF LongestWait
  <2> QED
    BY <2>1 DEF OnboardInit, WaitInv
<1>2. OnboardIInv /\ WaitInv => FitsTheScanInterval
  <2> SUFFICES ASSUME OnboardTypeOK, WaitInv PROVE FitsTheScanInterval
    BY DEF OnboardIInv
  <2>1. LongestWait \in Nat /\ waited \in Nat /\ waited <= LongestWait
    BY WaitsByAttempt DEF OnboardTypeOK, WaitInv
  <2> QED
    BY <2>1, OnboardingAssumption DEF FitsTheScanInterval
<1> QED
  BY <1>1, <1>2, WaitStep, OnboardInductive, PTL DEF OnboardSpec

-----------------------------------------------------------------------------
(* Encrypting a link and onboarding a machine, each does side by side with the *)
(* other what it does alone.                                                   *)
THEOREM AuthRunsBoth == AuthSpec => LinkSpec /\ OnboardSpec
<1>1. AuthInit => LinkInit /\ OnboardInit
  BY DEF AuthInit
<1>2. [AuthNext]_authVars => [LinkNext]_linkVars /\ [OnboardNext]_onboardVars
  BY DEF AuthNext, OnLink, OnToken, authVars
<1> QED
  BY <1>1, <1>2, PTL DEF AuthSpec, LinkSpec, OnboardSpec

(* The variables of both keep their types. *)
THEOREM AuthTypes == AuthSpec => []AuthTypeOK
<1>1. LinkIInv /\ OnboardIInv => AuthTypeOK
  BY DEF LinkIInv, OnboardIInv, AuthTypeOK
<1> QED
  BY <1>1, AuthRunsBoth, LinkInductive, OnboardInductive, PTL
=============================================================================
