-------------------------- MODULE SingleFlight_proofs --------------------------
(***************************************************************************)
(* Handles stay the authority for their keys and a bounded pass collects      *)
(* whatever nobody holds, for any callers, keys, families of keys,            *)
(* registries, record bounds and number of attempts.                         *)
(***************************************************************************)
EXTENDS SingleFlight, FiniteFolds

(* What the record of k is built on                                          *)
Deps(k) == Given[k] \cup ({Nested[k]} \ {NoKey})

Waiting == {"joined", "listening", "waiting", "asleep"}
Owning  == {"creating", "concluding"}

(* The reservations a call owns: of its request and of the one around it      *)
Owned(call) ==
  (IF call.pc \in Owning THEN {call.key} ELSE {}) \cup ({call.outer} \ {NoKey})

(* The handles a request presents stay in the caller's hands                  *)
Presenting(c, k) == k \in Key /\ \A d \in Given[k] : handles[c][d] # None

(* The record a of k is built on the records of the lookup                    *)
BuiltOn(lookup, retained, a, k) ==
  /\ \A d \in Deps(k) : lookup[d] # None /\ lookup[d] \in retained[a]
  /\ \A r \in retained[a] : \E d \in Deps(k) : r = lookup[d]
BuiltOnReady(a, k) == BuiltOn(ready, base, a, k)

(* so is every record in it                                                  *)
Grounded(lookup, retained) ==
  \A k \in Key : lookup[k] # None => BuiltOn(lookup, retained, lookup[k], k)
HandlesKnown == \A c \in Caller, k \in Key : handles[c][k] \in {None, ready[k]}
Authoritative == HandlesKnown /\ Grounded(ready, base)

(* A request as far as it got: its handles, the reservation around it, and    *)
(* the outcome it waits for                                                  *)
Requesting(c, call) ==
  /\ call.pc # "idle" => Presenting(c, call.key)
  /\ call.pc \in {"checking", "requested"} => call.attempt = None
  /\ call.outer # NoKey =>
       /\ Presenting(c, call.outer) /\ Nested[call.outer] = call.key
       /\ call.outerAttempt # None
       /\ inFlight[call.outer] = call.outerAttempt
  /\ call.pc \in Waiting =>
       /\ call.attempt # None
       /\ outcome[call.attempt] = "Ready" => ready[call.key] = call.attempt

(* An attempt as far as it got: reserved, built, in the lookup               *)
Attempting(call) ==
  /\ call.pc \in Owning =>
       call.attempt # None /\ inFlight[call.key] = call.attempt
  /\ call.pc \in {"announcing", "notifying"} =>
       call.attempt # None /\ inFlight[call.key] # call.attempt
  /\ call.pc \in {"announcing", "notifying", "returning"} /\ call.result = "Ready" =>
       call.attempt # None /\ ready[call.key] = call.attempt
  /\ call.pc \in {"concluding", "announcing"} =>
       call.result \in {"Ready", "Failed", "Abandoned"}
  /\ call.pc # "creating" => call.groups = {}
  /\ call.pc = "creating" =>
       /\ call.groups = {ready[d] : d \in {Nested[call.key]} \ {NoKey}}
       /\ Nested[call.key] # NoKey => ready[Nested[call.key]] # None
  /\ call.pc = "concluding" /\ call.result = "Ready" =>
       BuiltOnReady(call.attempt, call.key)

Fits(c, call) == Requesting(c, call) /\ Attempting(call)

(* One key, one attempt, one record                                          *)
Names(k, a) ==
  \/ a \in {ready[k], inFlight[k]}
  \/ \E c \in Caller : caller[c].key = k /\ caller[c].attempt = a

Distinct ==
  /\ \A a \in Attempt, k, l \in Key : Names(k, a) /\ Names(l, a) => k = l
  /\ \A c, d \in Caller : c # d => Owned(caller[c]) \cap Owned(caller[d]) = {}
  /\ \A k \in Key : inFlight[k] # None =>
       ready[k] = None /\ outcome[inFlight[k]] = "Pending"

Inv ==
  /\ TypeOK /\ Authoritative /\ Distinct
  /\ \A c \in Caller : Fits(c, caller[c])

-----------------------------------------------------------------------------
(* Calls *)

Pc == {"idle", "checking", "requested", "joined", "listening", "waiting",
       "asleep", "creating", "concluding", "announcing", "notifying", "returning"}
Result == {"None", "Ready", "Failed", "Full", "Abandoned"}
Outcome == {"Pending", "Ready", "Failed", "Abandoned"}

(* The fields of a call                                                      *)
LEMMA CallFields ==
  /\ Idle \in CallState
  /\ \A x \in CallState :
       /\ x.pc \in Pc /\ x.key \in Key \cup {NoKey} /\ x.attempt \in Attempt \cup {None}
       /\ x.outer \in Key \cup {NoKey} /\ x.outerAttempt \in Attempt \cup {None}
       /\ x.groups \in SUBSET Attempt /\ x.result \in Result /\ x.heard \in BOOLEAN
BY DEF Idle, CallState, Pc, Result

(* Nothing is realized within itself                                         *)
LEMMA NestedApart ==
  ASSUME NEW k \in Key, Nested[k] # NoKey
  PROVE  /\ Nested[k] \in Key /\ Nested[k] # k /\ Nested[Nested[k]] = NoKey
         /\ Given[Nested[k]] = {}
BY KeyAssumption

(* Where a record is built from is known                                     *)
LEMMA DepsAreKeys ==
  ASSUME NEW k \in Key
  PROVE  Deps(k) \subseteq Key
BY KeyAssumption DEF Deps

(* Handles are the authority for their keys just then                        *)
LEMMA AuthorityIs == TypeOK => (HandlesStayAuthoritative <=> Authoritative)
<1> SUFFICES ASSUME TypeOK PROVE HandlesStayAuthoritative <=> Authoritative
  OBVIOUS
<1>1. ASSUME NEW k \in Key, ready[k] # None
      PROVE  (/\ base[ready[k]] = {ready[d] : d \in Deps(k)} \ {None}
              /\ \A d \in Deps(k) : ready[d] # None)
             <=> BuiltOn(ready, base, ready[k], k)
  <2>1. base[ready[k]] \subseteq Attempt /\ None \notin base[ready[k]]
    BY <1>1 DEF TypeOK, Attempt, None
  <2> QED BY <2>1 DEF BuiltOn
<1> QED BY <1>1, Zenon DEF HandlesStayAuthoritative, Authoritative, HandlesKnown, Grounded, Deps

(* What reaches no lookup, no reservation and no record leaves the calls       *)
LEMMA FitsStays ==
  ASSUME NEW d, NEW x, Fits(d, x), x.attempt \in Attempt \cup {None},
         UNCHANGED <<ready, inFlight, base>>,
         \A a \in Attempt : outcome'[a] \in {outcome[a], "Pending"},
         \A k \in Key : handles[d][k] # None => handles'[d][k] # None
  PROVE  Fits(d, x)'
<1>1. ASSUME NEW k \in Key, Presenting(d, k) PROVE Presenting(d, k)'
  BY <1>1, KeyAssumption DEF Presenting
<1>2. Requesting(d, x)'
  <2>1. x.pc # "idle" => Presenting(d, x.key)'
    BY <1>1 DEF Fits, Requesting, Presenting
  <2>2. x.outer # NoKey => Presenting(d, x.outer)'
    BY <1>1 DEF Fits, Requesting, Presenting
  <2> QED BY <2>1, <2>2 DEF Fits, Requesting
<1>3. Attempting(x)'
  BY DEF Fits, Attempting, BuiltOnReady
<1> QED BY <1>2, <1>3 DEF Fits

(* and those a step only tells something                                      *)
LEMMA CallsRest ==
  ASSUME Inv, NEW d \in Caller, NEW x,
         x.pc = caller[d].pc, x.key = caller[d].key, x.attempt = caller[d].attempt,
         x.outer = caller[d].outer, x.outerAttempt = caller[d].outerAttempt,
         x.groups = caller[d].groups, x.result = caller[d].result,
         UNCHANGED <<ready, inFlight, base>>,
         \A a \in Attempt : outcome'[a] \in {outcome[a], "Pending"},
         \A k \in Key : handles[d][k] # None => handles'[d][k] # None
  PROVE  Fits(d, x)' /\ Owned(x) = Owned(caller[d])
<1>1. Fits(d, caller[d]) /\ caller[d] \in CallState
  BY DEF Inv, TypeOK
<1>2. Fits(d, x) /\ x.attempt \in Attempt \cup {None}
  BY <1>1, CallFields DEF Fits, Requesting, Attempting
<1> QED BY <1>2, FitsStays DEF Owned

(* Steps that reach no lookup, no reservation and no record                   *)
LEMMA CallsMove ==
  ASSUME Inv, UNCHANGED <<ready, inFlight, base>>, fault' \in BOOLEAN,
         caller' \in [Caller -> CallState],
         outcome' \in [Attempt -> Outcome],
         \A a \in Attempt : outcome'[a] \in {outcome[a], "Pending"},
         handles' \in [Caller -> [Key -> Attempt \cup {None}]],
         \A d \in Caller, k \in Key : handles'[d][k] \in {None, ready[k]},
         \A d \in Caller :
           /\ caller'[d].pc = "idle" => caller'[d] = Idle
           /\ Fits(d, caller[d])' /\ Owned(caller'[d]) \subseteq Owned(caller[d])
           /\ caller'[d].attempt # None => Names(caller'[d].key, caller'[d].attempt)
  PROVE  Inv'
<1>1. TypeOK'
  BY DEF Inv, TypeOK, At, Outcome, Idle
<1>2. Authoritative'
  BY DEF Inv, Authoritative, HandlesKnown
<1>3. Distinct'
  <2>1. ASSUME NEW a \in Attempt, NEW k, Names(k, a)' PROVE Names(k, a)
    <3>1. a # None
      BY DEF Attempt, None
    <3> QED BY <2>1, <3>1 DEF Names
  <2>2. \A k \in Key : inFlight[k] # None =>
          ready[k] = None /\ outcome'[inFlight[k]] = "Pending"
    BY DEF Inv, Distinct, TypeOK
  <2> QED BY <2>1, <2>2 DEF Inv, Distinct
<1> QED BY <1>1, <1>2, <1>3 DEF Inv

(* when one call takes them                                                  *)
LEMMA OneMoves ==
  ASSUME Inv, NEW c \in Caller, NEW x \in CallState, x.pc = "idle" => x = Idle,
         caller' = [caller EXCEPT ![c] = x],
         UNCHANGED <<ready, inFlight, base>>, fault' \in BOOLEAN,
         outcome' \in [Attempt -> Outcome],
         \A a \in Attempt : outcome'[a] \in {outcome[a], "Pending"},
         handles' \in [Caller -> [Key -> Attempt \cup {None}]],
         \A d \in Caller, k \in Key :
           /\ handles'[d][k] \in {None, ready[k]}
           /\ d # c /\ handles[d][k] # None => handles'[d][k] # None,
         Fits(c, x)', Owned(x) \subseteq Owned(caller[c]),
         x.attempt # None => Names(x.key, x.attempt)
  PROVE  Inv'
<1>1. caller \in [Caller -> CallState]
  BY DEF Inv, TypeOK
<1>2. /\ caller' \in [Caller -> CallState] /\ caller'[c] = x
      /\ \A d \in Caller : d # c => caller'[d] = caller[d]
  BY <1>1
<1>3. ASSUME NEW d \in Caller, d # c
      PROVE  /\ caller'[d].pc = "idle" => caller'[d] = Idle
             /\ Fits(d, caller[d])' /\ Owned(caller'[d]) \subseteq Owned(caller[d])
             /\ caller'[d].attempt # None => Names(caller'[d].key, caller'[d].attempt)
  <2>1. PICK y : y = caller[d] /\ y = caller'[d]
    BY <1>2, <1>3
  <2>2. Fits(d, y)'
    BY <1>3, <2>1, CallsRest
  <2>3. Fits(d, caller[d])'
    BY <2>1, <2>2 DEF Fits, Requesting, Attempting
  <2>4. caller[d].pc = "idle" => caller[d] = Idle
    BY DEF Inv, TypeOK, At
  <2> QED BY <2>1, <2>3, <2>4 DEF Names
<1>4. Fits(c, caller[c])'
  BY <1>2 DEF Fits, Requesting, Attempting
<1>5. \A d \in Caller :
        /\ caller'[d].pc = "idle" => caller'[d] = Idle
        /\ Fits(d, caller[d])' /\ Owned(caller'[d]) \subseteq Owned(caller[d])
        /\ caller'[d].attempt # None => Names(caller'[d].key, caller'[d].attempt)
  BY <1>2, <1>3, <1>4
<1> QED BY <1>2, <1>5, CallsMove

(* handles and all                                                           *)
LEMMA CallMoves ==
  ASSUME Inv, NEW c \in Caller, NEW x \in CallState, x.pc = "idle" => x = Idle,
         caller' = [caller EXCEPT ![c] = x],
         UNCHANGED <<ready, inFlight, base, handles, fault>>,
         outcome' \in [Attempt -> Outcome],
         \A a \in Attempt : outcome'[a] \in {outcome[a], "Pending"},
         Fits(c, x), Owned(x) \subseteq Owned(caller[c]),
         x.attempt # None => Names(x.key, x.attempt)
  PROVE  Inv'
<1>1. Fits(c, x)'
  BY CallFields, FitsStays
<1>2. /\ handles' \in [Caller -> [Key -> Attempt \cup {None}]] /\ fault' \in BOOLEAN
      /\ \A d \in Caller, k \in Key :
           /\ handles'[d][k] \in {None, ready[k]}
           /\ d # c /\ handles[d][k] # None => handles'[d][k] # None
  BY DEF Inv, TypeOK, Authoritative, HandlesKnown
<1> QED BY <1>1, <1>2, OneMoves

(* A call fits what the lookup knows, and names what its key names             *)
LEMMA CallFits ==
  ASSUME Inv, NEW c \in Caller
  PROVE  /\ caller[c] \in CallState /\ Fits(c, caller[c])
         /\ caller[c].attempt # None => Names(caller[c].key, caller[c].attempt)
BY DEF Inv, TypeOK, Names

(* Fields of a call change one by one                                        *)
LEMMA CallChanges ==
  ASSUME NEW y \in CallState, NEW p \in Pc, NEW r \in Result, NEW k \in Key,
         NEW a \in Attempt \cup {None}, NEW o \in Attempt, NEW g \in SUBSET Attempt,
         NEW b \in BOOLEAN
  PROVE  /\ [y EXCEPT !.pc = p] \in CallState
         /\ [y EXCEPT !.result = r] \in CallState
         /\ [y EXCEPT !.key = k] \in CallState
         /\ [y EXCEPT !.attempt = a] \in CallState
         /\ [y EXCEPT !.outer = k] \in CallState
         /\ [y EXCEPT !.outerAttempt = o] \in CallState
         /\ [y EXCEPT !.groups = g] \in CallState
         /\ [y EXCEPT !.heard = b] \in CallState
BY DEF CallState, Pc, Result

-----------------------------------------------------------------------------
(* Steps of one call *)

(* A request starts with what it presents in hand                            *)
LEMMA RequestKeeps ==
  ASSUME Inv, NEW c \in Caller, NEW k \in Key, Request(c, k)
  PROVE  Inv'
<1>1. PICK p : p = IF k \in Rechecked THEN "checking" ELSE "requested"
  OBVIOUS
<1>2. PICK x : x = [Idle EXCEPT !.key = k, !.pc = p]
  OBVIOUS
<1>3. /\ x.pc = p /\ x.key = k /\ x.attempt = None /\ x.outer = NoKey
      /\ x.groups = {} /\ x.result = "None" /\ p \in {"checking", "requested"}
  BY <1>1, <1>2 DEF Idle
<1>4. x \in CallState
  BY <1>1, <1>2 DEF Idle, CallState
<1>5. caller' = [caller EXCEPT ![c] = x]
  BY <1>1, <1>2 DEF Request
<1>6. Fits(c, x)
  <2>1. Presenting(c, k)
    BY KeyAssumption DEF Request, Presented, Presenting
  <2> QED BY <1>3, <2>1 DEF Fits, Requesting, Attempting, Waiting, Owning
<1>7. Owned(x) \subseteq Owned(caller[c])
  BY <1>3 DEF Owned, Owning
<1>8. outcome' \in [Attempt -> Outcome] /\ outcome' = outcome
  BY DEF Request, Inv, TypeOK, Outcome
<1> QED BY <1>3, <1>4, <1>5, <1>6, <1>7, <1>8, CallMoves DEF Request

(* The outcomes a call keeps or forgets                                      *)
LEMMA Forgets ==
  ASSUME Inv, NEW c \in Caller, Forget(c) \/ outcome' = outcome
  PROVE  /\ outcome' \in [Attempt -> Outcome]
         /\ \A a \in Attempt : outcome'[a] \in {outcome[a], "Pending"}
BY DEF Inv, TypeOK, Forget, Outcome

(* A presented handle is compared, or the device refuses                      *)
LEMMA AnswersKeep ==
  ASSUME Inv, NEW c \in Caller, Recheck(c) \/ Unavailable(c)
  PROVE  Inv'
<1>1. PICK y : y = caller[c]
  OBVIOUS
<1>2. y \in CallState /\ Fits(c, y) /\ (y.attempt # None => Names(y.key, y.attempt))
  BY <1>1, CallFits
<1>3. y.pc \in {"checking", "requested"} /\ y.attempt = None /\ y.groups = {}
  BY <1>1, <1>2 DEF Recheck, Unavailable, At, Fits, Requesting, Attempting
<1>4. ASSUME NEW x \in {[y EXCEPT !.pc = "requested"],
                        [y EXCEPT !.pc = "returning", !.result = "Failed"]},
             caller' = [caller EXCEPT ![c] = x]
      PROVE  Inv'
  <2>1. x \in CallState /\ x.pc # "idle"
    BY <1>2, <1>4 DEF CallState
  <2>2. /\ x.pc \in {"requested", "returning"} /\ x.key = y.key /\ x.attempt = None
        /\ x.outer = y.outer /\ x.outerAttempt = y.outerAttempt /\ x.groups = {}
        /\ x.pc = "returning" => x.result = "Failed"
    BY <1>2, <1>3, <1>4 DEF CallState
  <2>3. Fits(c, x) /\ Owned(x) \subseteq Owned(y)
    BY <1>2, <1>3, <2>2 DEF Fits, Requesting, Attempting, Waiting, Owning, Owned
  <2>4. outcome' \in [Attempt -> Outcome] /\ outcome' = outcome
    BY DEF Recheck, Unavailable, Inv, TypeOK, Outcome
  <2> QED BY <1>1, <1>4, <2>1, <2>2, <2>3, <2>4, CallMoves DEF Recheck, Unavailable
<1>5. CASE Recheck(c)
  <2>1. \/ caller' = [caller EXCEPT ![c] = [y EXCEPT !.pc = "requested"]]
        \/ caller' = [caller EXCEPT ![c] = [y EXCEPT !.pc = "returning", !.result = "Failed"]]
    BY <1>1, <1>5 DEF Recheck
  <2> QED BY <1>4, <2>1
<1>6. CASE Unavailable(c)
  <2>1. caller' = [caller EXCEPT ![c] = [y EXCEPT !.pc = "returning", !.result = "Failed"]]
    BY <1>1, <1>6 DEF Unavailable
  <2> QED BY <1>4, <2>1
<1> QED BY <1>5, <1>6

(* A request finds a record, or joins an attempt                              *)
LEMMA ReservesKeep ==
  ASSUME Inv, NEW c \in Caller, ReserveReady(c) \/ ReserveWaiter(c)
  PROVE  Inv'
<1>1. PICK y : y = caller[c]
  OBVIOUS
<1>2. y \in CallState /\ Fits(c, y)
  BY <1>1, CallFits
<1>3. y.pc = "requested" /\ y.groups = {} /\ y.key \in Key
  BY <1>1, <1>2 DEF ReserveReady, ReserveWaiter, At, Fits, Requesting, Attempting,
                    Presenting
<1>4. outcome' \in [Attempt -> Outcome] /\ outcome' = outcome
  BY DEF ReserveReady, ReserveWaiter, Inv, TypeOK, Outcome
<1>5. CASE ReserveReady(c)
  <2>1. PICK a : a = ready[y.key]
    OBVIOUS
  <2>2. a \in Attempt /\ a # None
    BY <1>1, <1>3, <1>5, <2>1 DEF ReserveReady, Found, Inv, TypeOK
  <2>3. PICK x : x = [y EXCEPT !.pc = "returning", !.attempt = a, !.result = "Ready"]
    OBVIOUS
  <2>4. /\ x \in CallState /\ x.pc = "returning" /\ x.key = y.key /\ x.attempt = a
        /\ x.outer = y.outer /\ x.outerAttempt = y.outerAttempt /\ x.groups = {}
    BY <1>2, <1>3, <2>2, <2>3 DEF CallState
  <2>5. Fits(c, x) /\ Owned(x) \subseteq Owned(y) /\ Names(x.key, x.attempt)
    BY <1>2, <1>3, <2>1, <2>2, <2>4
       DEF Fits, Requesting, Attempting, Waiting, Owning, Owned, Names
  <2>6. caller' = [caller EXCEPT ![c] = x]
    BY <1>1, <1>5, <2>1, <2>3 DEF ReserveReady, Found
  <2> QED BY <1>1, <1>4, <1>5, <2>4, <2>5, <2>6, CallMoves DEF ReserveReady
<1>6. CASE ReserveWaiter(c)
  <2>1. PICK a : a = inFlight[y.key]
    OBVIOUS
  <2>2. a \in Attempt /\ a # None
    BY <1>1, <1>3, <1>6, <2>1 DEF ReserveWaiter, Joined, Inv, TypeOK
  <2>3. PICK x : x = [y EXCEPT !.pc = "joined", !.attempt = a]
    OBVIOUS
  <2>4. /\ x \in CallState /\ x.pc = "joined" /\ x.key = y.key /\ x.attempt = a
        /\ x.outer = y.outer /\ x.outerAttempt = y.outerAttempt /\ x.groups = {}
    BY <1>2, <1>3, <2>2, <2>3 DEF CallState
  <2>5. outcome[a] = "Pending"
    BY <1>3, <2>1, <2>2 DEF Inv, Distinct
  <2>6. Fits(c, x) /\ Owned(x) \subseteq Owned(y) /\ Names(x.key, x.attempt)
    BY <1>2, <1>3, <2>1, <2>2, <2>4, <2>5
       DEF Fits, Requesting, Attempting, Waiting, Owning, Owned, Names
  <2>7. caller' = [caller EXCEPT ![c] = x]
    BY <1>1, <1>6, <2>1, <2>3 DEF ReserveWaiter, Joined
  <2> QED BY <1>1, <1>4, <1>6, <2>4, <2>6, <2>7, CallMoves DEF ReserveWaiter
<1> QED BY <1>5, <1>6

(* A waiter listens, sleeps and wakes                                        *)
LEMMA WaitsKeep ==
  ASSUME Inv, NEW c \in Caller, NEW p \in Waiting, NEW h \in BOOLEAN,
         caller[c].pc \in Waiting,
         caller' = [caller EXCEPT ![c] = [caller[c] EXCEPT !.pc = p, !.heard = h]],
         UNCHANGED <<ready, inFlight, outcome, base, handles, fault>>
  PROVE  Inv'
<1>1. PICK y : y = caller[c]
  OBVIOUS
<1>2. y \in CallState /\ Fits(c, y) /\ (y.attempt # None => Names(y.key, y.attempt))
  BY <1>1, CallFits
<1>3. PICK x : x = [y EXCEPT !.pc = p, !.heard = h]
  OBVIOUS
<1>4. /\ x \in CallState /\ x.pc = p /\ x.key = y.key /\ x.attempt = y.attempt
      /\ x.outer = y.outer /\ x.outerAttempt = y.outerAttempt /\ x.groups = y.groups
  BY <1>2, <1>3 DEF CallState, Waiting
<1>5. Fits(c, x) /\ Owned(x) \subseteq Owned(y)
  BY <1>1, <1>2, <1>4 DEF Fits, Requesting, Attempting, Waiting, Owning, Owned
<1>6. outcome' \in [Attempt -> Outcome]
  BY DEF Inv, TypeOK, Outcome
<1>7. p # "idle"
  BY DEF Waiting
<1> QED BY <1>1, <1>2, <1>3, <1>4, <1>5, <1>6, <1>7, CallMoves

(* and reads its outcome, then it has the record or retries                   *)
LEMMA CheckKeeps ==
  ASSUME Inv, NEW c \in Caller, Check(c)
  PROVE  Inv'
<1>1. PICK y : y = caller[c]
  OBVIOUS
<1>2. y \in CallState /\ Fits(c, y) /\ (y.attempt # None => Names(y.key, y.attempt))
  BY <1>1, CallFits
<1>3. /\ y.pc = "listening" /\ y.groups = {} /\ y.attempt \in Attempt /\ y.attempt # None
      /\ outcome[y.attempt] \in Outcome
  BY <1>1, <1>2 DEF Check, At, Fits, Requesting, Attempting, Waiting, CallState,
                    Inv, TypeOK, Outcome
<1>4. PICK o : o = outcome[y.attempt]
  OBVIOUS
<1>5. \E x \in CallState :
        /\ caller' = [caller EXCEPT ![c] = x]
        /\ x.key = y.key /\ x.outer = y.outer /\ x.outerAttempt = y.outerAttempt
        /\ x.groups = {}
        /\ \/ x.pc = "waiting" /\ x.attempt = y.attempt
           \/ o = "Ready" /\ x.pc = "returning" /\ x.attempt = y.attempt
           \/ x.pc = "returning" /\ x.attempt = None /\ x.result = "Failed"
           \/ x.pc = "requested" /\ x.attempt = None
  <2>1. CASE o = "Pending"
    <3>1. PICK x : x = [y EXCEPT !.pc = "waiting"]
      OBVIOUS
    <3>2. x \in CallState /\ caller' = [caller EXCEPT ![c] = x]
      BY <1>1, <1>2, <1>4, <2>1, <3>1 DEF Check, Goto, CallState
    <3> QED BY <1>2, <1>3, <3>1, <3>2 DEF CallState
  <2>2. CASE o = "Ready"
    <3>1. PICK x : x = [y EXCEPT !.pc = "returning", !.result = "Ready", !.heard = FALSE]
      OBVIOUS
    <3>2. x \in CallState /\ caller' = [caller EXCEPT ![c] = x]
      BY <1>1, <1>2, <1>4, <2>2, <3>1 DEF Check, Resolve, CallState
    <3> QED BY <1>2, <1>3, <2>2, <3>1, <3>2 DEF CallState
  <2>3. CASE o = "Failed"
    <3>1. PICK x : x = [y EXCEPT !.pc = "returning", !.result = "Failed",
                                !.attempt = None, !.heard = FALSE]
      OBVIOUS
    <3>2. x \in CallState /\ caller' = [caller EXCEPT ![c] = x]
      BY <1>1, <1>2, <1>4, <2>3, <3>1 DEF Check, Resolve, CallState
    <3> QED BY <1>2, <1>3, <3>1, <3>2 DEF CallState
  <2>4. CASE o = "Abandoned"
    <3>1. PICK x : x = [y EXCEPT !.pc = "requested", !.attempt = None, !.heard = FALSE]
      OBVIOUS
    <3>2. x \in CallState /\ caller' = [caller EXCEPT ![c] = x]
      BY <1>1, <1>2, <1>4, <2>4, <3>1 DEF Check, Resolve, CallState
    <3> QED BY <1>2, <1>3, <3>1, <3>2 DEF CallState
  <2> QED BY <1>3, <1>4, <2>1, <2>2, <2>3, <2>4 DEF Outcome
<1>6. PICK x \in CallState :
        /\ caller' = [caller EXCEPT ![c] = x]
        /\ x.key = y.key /\ x.outer = y.outer /\ x.outerAttempt = y.outerAttempt
        /\ x.groups = {}
        /\ \/ x.pc = "waiting" /\ x.attempt = y.attempt
           \/ o = "Ready" /\ x.pc = "returning" /\ x.attempt = y.attempt
           \/ x.pc = "returning" /\ x.attempt = None /\ x.result = "Failed"
           \/ x.pc = "requested" /\ x.attempt = None
  BY <1>5
<1>7. Fits(c, x) /\ Owned(x) \subseteq Owned(y)
  BY <1>2, <1>3, <1>4, <1>6 DEF Fits, Requesting, Attempting, Waiting, Owning, Owned
<1>8. /\ outcome' \in [Attempt -> Outcome]
      /\ \A a \in Attempt : outcome'[a] \in {outcome[a], "Pending"}
  <2>1. Forget(c) \/ outcome' = outcome
    BY DEF Check
  <2> QED BY <2>1, Forgets
<1>9. x.pc # "idle" /\ (x.attempt # None => Names(x.key, x.attempt))
  BY <1>2, <1>6
<1> QED BY <1>1, <1>6, <1>7, <1>8, <1>9, CallMoves DEF Check

(* Back in the outer owner: it goes on with the nested record, or fails        *)
LEMMA UnnestFits ==
  ASSUME Inv, NEW c \in Caller, NEW y \in CallState, y.outer # NoKey,
         Fits(c, y), y.pc \in {"returning", "asleep"},
         y.result = "Ready" => ready[y.key] = y.attempt /\ y.attempt # None
  PROVE  /\ Unnest(y) \in CallState /\ Unnest(y).pc # "idle" /\ Fits(c, Unnest(y))
         /\ Owned(Unnest(y)) \subseteq Owned(y)
         /\ Unnest(y).attempt # None => Names(Unnest(y).key, Unnest(y).attempt)
<1>1. PICK x : x = Unnest(y)
  OBVIOUS
<1>2. /\ y.key \in Key /\ y.outer \in Key /\ Nested[y.outer] = y.key
      /\ Presenting(c, y.outer)
      /\ y.outerAttempt \in Attempt /\ y.outerAttempt # None
      /\ inFlight[y.outer] = y.outerAttempt
      /\ y.attempt \in Attempt \cup {None}
  BY CallFields DEF Fits, Requesting, Presenting
<1>3. /\ x.key = y.outer /\ x.attempt = y.outerAttempt
      /\ x.outer = NoKey /\ x.outerAttempt = None
      /\ x.pc = IF y.result = "Ready" THEN "creating" ELSE "concluding"
      /\ x.groups = IF y.result = "Ready" THEN {y.attempt} ELSE {}
      /\ x.result \in {"None", "Abandoned", "Failed"}
      /\ x.pc = "concluding" => x.result \in {"Abandoned", "Failed"}
  BY <1>1 DEF Unnest, Idle
<1>4. x \in CallState
  BY <1>1, <1>2 DEF Unnest, Idle, CallState
<1>5. Requesting(c, x)
  BY <1>2, <1>3 DEF Requesting, Waiting
<1>6. Attempting(x)
  <2>1. CASE y.result = "Ready"
    <3>1. Nested[x.key] # NoKey /\ Nested[x.key] = y.key
      BY <1>2, <1>3, KeyAssumption
    <3>2. {ready[d] : d \in {Nested[x.key]} \ {NoKey}} = {y.attempt}
      BY <2>1, <3>1
    <3> QED BY <1>2, <1>3, <2>1, <3>1, <3>2 DEF Attempting, Owning
  <2>2. CASE y.result # "Ready"
    BY <1>2, <1>3, <2>2 DEF Attempting, Owning
  <2> QED BY <2>1, <2>2
<1>7. Owned(x) \subseteq Owned(y)
  BY <1>2, <1>3, KeyAssumption DEF Owned
<1>8. Names(x.key, x.attempt)
  BY <1>2, <1>3 DEF Names
<1> QED BY <1>1, <1>3, <1>4, <1>5, <1>6, <1>7, <1>8 DEF Fits

(* A call that ended fits whatever is known                                  *)
LEMMA IdleFits ==
  ASSUME NEW c
  PROVE  /\ Fits(c, Idle) /\ Fits(c, Idle)' /\ Owned(Idle) = {}
         /\ Idle.attempt = None /\ Idle.pc = "idle"
BY DEF Fits, Requesting, Attempting, Idle, Owned, Owning, Waiting

(* A call returns to its caller, or to the owner it was nested in             *)
LEMMA ReturnKeeps ==
  ASSUME Inv, NEW c \in Caller, Return(c)
  PROVE  Inv'
<1>1. PICK y : y = caller[c]
  OBVIOUS
<1>2. y \in CallState /\ Fits(c, y) /\ y.pc = "returning"
  BY <1>1, CallFits DEF Return, At
<1>3. /\ y.key \in Key
      /\ y.result = "Ready" => ready[y.key] = y.attempt /\ y.attempt # None
  BY <1>2 DEF Fits, Requesting, Attempting, Presenting
<1>4. /\ outcome' \in [Attempt -> Outcome]
      /\ \A a \in Attempt : outcome'[a] \in {outcome[a], "Pending"}
  BY Forgets DEF Return
<1>5. CASE y.outer # NoKey
  <2>1. PICK x : x = Unnest(y)
    OBVIOUS
  <2>2. caller' = [caller EXCEPT ![c] = x] /\ UNCHANGED handles
    BY <1>1, <1>5, <2>1 DEF Return
  <2>3. /\ x \in CallState /\ x.pc # "idle" /\ Fits(c, x) /\ Owned(x) \subseteq Owned(y)
        /\ x.attempt # None => Names(x.key, x.attempt)
    BY <1>2, <1>3, <1>5, <2>1, UnnestFits
  <2> QED BY <1>1, <1>4, <2>2, <2>3, CallMoves DEF Return
<1>6. CASE y.outer = NoKey
  <2>1. caller' = [caller EXCEPT ![c] = Idle]
    BY <1>1, <1>6 DEF Return
  <2>2. handles' = IF y.result = "Ready"
                   THEN [handles EXCEPT ![c][y.key] = y.attempt] ELSE handles
    BY <1>1, <1>6 DEF Return
  <2>3. /\ handles' \in [Caller -> [Key -> Attempt \cup {None}]]
        /\ \A d \in Caller, k \in Key :
             /\ handles'[d][k] \in {None, ready[k]}
             /\ d # c /\ handles[d][k] # None => handles'[d][k] # None
    <3>1. /\ handles \in [Caller -> [Key -> Attempt \cup {None}]]
          /\ \A d \in Caller, k \in Key : handles[d][k] \in {None, ready[k]}
      BY DEF Inv, TypeOK, Authoritative, HandlesKnown
    <3>2. y.attempt \in Attempt \cup {None}
      BY <1>2, CallFields
    <3> QED BY <1>3, <2>2, <3>1, <3>2
  <2> QED BY <1>1, <1>4, <2>1, <2>3, CallFields, IdleFits, OneMoves DEF Return, Inv, TypeOK
<1> QED BY <1>5, <1>6

(* A call is dropped where it awaits                                         *)
LEMMA CancelKeeps ==
  ASSUME Inv, NEW c \in Caller, Cancel(c)
  PROVE  Inv'
<1>1. PICK y : y = caller[c]
  OBVIOUS
<1>2. /\ y \in CallState /\ Fits(c, y) /\ y.pc \in {"asleep", "creating"}
      /\ y.attempt # None => Names(y.key, y.attempt)
  BY <1>1, CallFits DEF Cancel
<1>3. /\ outcome' \in [Attempt -> Outcome]
      /\ \A a \in Attempt : outcome'[a] \in {outcome[a], "Pending"}
  BY Forgets DEF Cancel
<1>4. CASE y.pc = "creating"
  <2>1. PICK x : x = [y EXCEPT !.pc = "concluding", !.result = "Abandoned", !.groups = {}]
    OBVIOUS
  <2>2. caller' = [caller EXCEPT ![c] = x]
    BY <1>1, <1>4, <2>1 DEF Cancel
  <2>3. /\ x \in CallState /\ x.pc = "concluding" /\ x.key = y.key /\ x.attempt = y.attempt
        /\ x.outer = y.outer /\ x.outerAttempt = y.outerAttempt /\ x.groups = {}
        /\ x.result = "Abandoned"
    BY <1>2, <2>1 DEF CallState
  <2>4. Fits(c, x) /\ Owned(x) \subseteq Owned(y)
    BY <1>2, <1>4, <2>3 DEF Fits, Requesting, Attempting, Waiting, Owning, Owned
  <2> QED BY <1>1, <1>2, <1>3, <2>2, <2>3, <2>4, CallMoves DEF Cancel
<1>5. CASE y.pc = "asleep" /\ y.outer # NoKey
  <2>1. PICK z : z = [y EXCEPT !.result = "Abandoned"]
    OBVIOUS
  <2>2. PICK x : x = Unnest(z)
    OBVIOUS
  <2>3. caller' = [caller EXCEPT ![c] = x]
    BY <1>1, <1>5, <2>1, <2>2 DEF Cancel
  <2>4. /\ z \in CallState /\ z.pc = "asleep" /\ z.key = y.key /\ z.attempt = y.attempt
        /\ z.outer = y.outer /\ z.outerAttempt = y.outerAttempt /\ z.groups = y.groups
        /\ z.result = "Abandoned"
    BY <1>2, <1>5, <2>1 DEF CallState
  <2>5. Fits(c, z) /\ Owned(z) = Owned(y)
    BY <1>2, <1>5, <2>4 DEF Fits, Requesting, Attempting, Waiting, Owning, Owned
  <2>6. /\ x \in CallState /\ x.pc # "idle" /\ Fits(c, x) /\ Owned(x) \subseteq Owned(z)
        /\ x.attempt # None => Names(x.key, x.attempt)
    BY <1>5, <2>2, <2>4, <2>5, UnnestFits
  <2> QED BY <1>1, <1>3, <2>3, <2>5, <2>6, CallMoves DEF Cancel
<1>6. CASE y.pc = "asleep" /\ y.outer = NoKey
  <2>1. caller' = [caller EXCEPT ![c] = Idle]
    BY <1>1, <1>6 DEF Cancel
  <2> QED BY <1>1, <1>3, <2>1, CallFields, IdleFits, CallMoves DEF Cancel
<1> QED BY <1>2, <1>4, <1>5, <1>6

(* A handle drops                                                            *)
LEMMA ReleaseKeeps ==
  ASSUME Inv, NEW c \in Caller, NEW k \in Key, Release(c, k)
  PROVE  Inv'
<1>1. /\ handles \in [Caller -> [Key -> Attempt \cup {None}]]
      /\ \A d \in Caller, l \in Key : handles[d][l] \in {None, ready[l]}
      /\ caller \in [Caller -> CallState] /\ caller[c] = Idle /\ caller' = caller
      /\ outcome' \in [Attempt -> Outcome] /\ outcome' = outcome /\ fault' \in BOOLEAN
  BY DEF Inv, TypeOK, Authoritative, HandlesKnown, Release, At, Outcome
<1>2. handles' = [handles EXCEPT ![c][k] = None]
  BY DEF Release
<1>3. /\ handles' \in [Caller -> [Key -> Attempt \cup {None}]]
      /\ \A d \in Caller, l \in Key :
           /\ handles'[d][l] \in {None, ready[l]}
           /\ d # c /\ handles[d][l] # None => handles'[d][l] # None
  BY <1>1, <1>2
<1>4. caller' = [caller EXCEPT ![c] = Idle]
  BY <1>1
<1> QED BY <1>1, <1>3, <1>4, CallFields, IdleFits, OneMoves DEF Release

(* Waiters hear of the end of an attempt, its owner returns                    *)
LEMMA NotifyKeeps ==
  ASSUME Inv, NEW c \in Caller, Notify(c)
  PROVE  Inv'
<1>1. caller \in [Caller -> CallState] /\ At(c, "notifying")
  BY DEF Inv, TypeOK, Notify
<1>2. ASSUME NEW d \in Caller
      PROVE  /\ caller'[d] \in CallState /\ (caller'[d].pc = "idle" => caller'[d] = Idle)
             /\ Fits(d, caller[d])' /\ Owned(caller'[d]) \subseteq Owned(caller[d])
             /\ caller'[d].attempt # None => Names(caller'[d].key, caller'[d].attempt)
  <2>1. PICK y : y = caller[d]
    OBVIOUS
  <2>2. /\ y \in CallState /\ Fits(d, y) /\ (y.pc = "idle" => y = Idle)
        /\ y.attempt # None => Names(y.key, y.attempt)
    BY <2>1, CallFits DEF Inv, TypeOK, At
  <2>3. PICK x : x = caller'[d]
    OBVIOUS
  <2>4. \/ x = [y EXCEPT !.pc = "returning"] /\ y.pc = "notifying"
        \/ x = [y EXCEPT !.heard = TRUE] /\ y.pc # "idle"
        \/ x = y
    BY <1>1, <2>1, <2>3 DEF Notify, At, Listens
  <2>5. /\ x \in CallState /\ x.key = y.key /\ x.attempt = y.attempt
        /\ x.outer = y.outer /\ x.outerAttempt = y.outerAttempt /\ x.groups = y.groups
        /\ x.result = y.result
        /\ x.pc = y.pc \/ (y.pc = "notifying" /\ x.pc = "returning")
    BY <2>2, <2>4 DEF CallState
  <2>6. Fits(d, x) /\ Owned(x) \subseteq Owned(y)
    BY <2>2, <2>5 DEF Fits, Requesting, Attempting, Waiting, Owning, Owned
  <2>7. Fits(d, x)'
    BY <2>5, <2>6, CallFields, FitsStays DEF Notify
  <2>8. Fits(d, caller[d])'
    BY <2>3, <2>7 DEF Fits, Requesting, Attempting
  <2>9. x.pc = "idle" => x = Idle
    BY <2>2, <2>4, <2>5
  <2> QED BY <2>1, <2>2, <2>3, <2>5, <2>6, <2>8, <2>9
<1>3. caller' \in [Caller -> CallState]
  <2>1. DOMAIN caller' = Caller /\ caller' = [d \in Caller |-> caller'[d]]
    BY DEF Notify
  <2> QED BY <1>2, <2>1
<1>4. /\ fault' \in BOOLEAN /\ outcome' \in [Attempt -> Outcome] /\ outcome' = outcome
      /\ handles' \in [Caller -> [Key -> Attempt \cup {None}]]
      /\ \A d \in Caller, k \in Key : handles'[d][k] \in {None, ready[k]}
  BY DEF Notify, Inv, TypeOK, Authoritative, HandlesKnown, Outcome
<1> QED BY <1>2, <1>3, <1>4, CallsMove DEF Notify

-----------------------------------------------------------------------------
(* The steps of an owner *)

(* An attempt in flight is no record yet, and its owner is the only one       *)
LEMMA OwnerAlone ==
  ASSUME Inv, NEW c \in Caller, caller[c].pc \in Owning
  PROVE  /\ caller[c].key \in Key /\ caller[c].attempt \in Attempt
         /\ caller[c].attempt # None
         /\ inFlight[caller[c].key] = caller[c].attempt /\ ready[caller[c].key] = None
         /\ \A k \in Key : ready[k] # caller[c].attempt
         /\ \A k \in Key : inFlight[k] = caller[c].attempt => k = caller[c].key
         /\ caller[c].outer # caller[c].key
         /\ \A d \in Caller : d # c =>
              caller[c].key \notin Owned(caller[d]) /\ caller[d].outer # caller[c].key
<1>1. PICK y : y = caller[c]
  OBVIOUS
<1>2. y \in CallState /\ Fits(c, y) /\ y.pc \in Owning
  BY <1>1, CallFits
<1>3. /\ y.key \in Key /\ y.attempt \in Attempt /\ y.attempt # None
      /\ inFlight[y.key] = y.attempt
  BY <1>2, CallFields DEF Fits, Requesting, Attempting, Presenting, Owning
<1>4. ready[y.key] = None
  BY <1>3 DEF Inv, Distinct
<1>5. Names(y.key, y.attempt)
  BY <1>3 DEF Names
<1>6. ASSUME NEW k \in Key, y.attempt \in {ready[k], inFlight[k]} PROVE k = y.key
  <2>1. Names(k, y.attempt)
    BY <1>6 DEF Names
  <2> QED BY <1>3, <1>5, <2>1 DEF Inv, Distinct
<1>7. y.outer # y.key
  <2>1. y.outer # NoKey => y.outer \in Key /\ Nested[y.outer] = y.key
    BY <1>2 DEF Fits, Requesting, Presenting
  <2>2. y.outer # NoKey => Nested[y.outer] # NoKey
    BY <1>3, <2>1, KeyAssumption
  <2>3. CASE y.outer = NoKey
    BY <1>3, <2>3, KeyAssumption
  <2>4. CASE y.outer # NoKey
    BY <2>1, <2>2, <2>4, NestedApart
  <2> QED BY <2>3, <2>4
<1>8. ASSUME NEW d \in Caller, d # c
      PROVE  y.key \notin Owned(caller[d]) /\ caller[d].outer # y.key
  <2>1. y.key \in Owned(y)
    BY <1>2 DEF Owned
  <2>2. y.key \notin Owned(caller[d])
    BY <1>1, <1>8, <2>1 DEF Inv, Distinct
  <2> QED BY <1>3, <2>2, KeyAssumption DEF Owned
<1> QED BY <1>1, <1>3, <1>4, <1>6, <1>7, <1>8

(* The creation ends, and a record takes over what it was built on             *)
LEMMA CreateKeeps ==
  ASSUME Inv, NEW c \in Caller, NEW ok \in BOOLEAN, Create(c, ok)
  PROVE  Inv'
<1>1. PICK y : y = caller[c]
  OBVIOUS
<1>2. /\ y \in CallState /\ Fits(c, y) /\ y.pc = "creating"
      /\ y.attempt # None => Names(y.key, y.attempt)
  BY <1>1, CallFits DEF Create, At
<1>3. /\ y.key \in Key /\ y.attempt \in Attempt /\ y.attempt # None
      /\ inFlight[y.key] = y.attempt
      /\ \A k \in Key : ready[k] # y.attempt
      /\ \A k \in Key : inFlight[k] = y.attempt => k = y.key
      /\ \A d \in Caller : d # c => y.key \notin Owned(caller[d])
  BY <1>1, <1>2, OwnerAlone DEF Owning
<1>4. PICK built : built = y.groups \cup Presented(c, y.key)
  OBVIOUS
<1>5. \A d \in Given[y.key] : d \in Key /\ handles[c][d] = ready[d] /\ ready[d] \in Attempt
  <2>1. Presenting(c, y.key) /\ Given[y.key] \subseteq Key
    BY <1>2, <1>3, KeyAssumption DEF Fits, Requesting
  <2> QED BY <2>1 DEF Presenting, Inv, TypeOK, Authoritative, HandlesKnown, Attempt, None
<1>6. built \subseteq Attempt
  BY <1>2, <1>4, <1>5, CallFields DEF Presented
<1>7. base' = IF ok THEN [base EXCEPT ![y.attempt] = built] ELSE base
  BY <1>1, <1>4 DEF Create
<1>8. /\ base \in [Attempt -> SUBSET Attempt] /\ base' \in [Attempt -> SUBSET Attempt]
      /\ \A a \in Attempt : a # y.attempt => base'[a] = base[a]
      /\ ok => base'[y.attempt] = built
  BY <1>3, <1>6, <1>7 DEF Inv, TypeOK
<1>9. PICK x : x = [y EXCEPT !.pc = "concluding", !.groups = {},
                            !.result = IF ok THEN "Ready" ELSE "Failed"]
  OBVIOUS
<1>10. caller' = [caller EXCEPT ![c] = x]
  BY <1>1, <1>9 DEF Create
<1>11. /\ x \in CallState /\ x.pc = "concluding" /\ x.key = y.key /\ x.attempt = y.attempt
       /\ x.outer = y.outer /\ x.outerAttempt = y.outerAttempt /\ x.groups = {}
       /\ x.result = IF ok THEN "Ready" ELSE "Failed"
  BY <1>2, <1>9 DEF CallState
<1>12. UNCHANGED <<ready, inFlight, outcome, handles, fault>>
  BY DEF Create
<1>13. ok => BuiltOn(ready', base', y.attempt, y.key)
  <2>1. SUFFICES ASSUME ok PROVE BuiltOn(ready, base', y.attempt, y.key)
    BY <1>12
  <2>2. /\ y.groups = {ready[d] : d \in {Nested[y.key]} \ {NoKey}}
        /\ Nested[y.key] # NoKey => ready[Nested[y.key]] # None
    BY <1>2 DEF Fits, Attempting
  <2>3. base'[y.attempt] = y.groups \cup {handles[c][d] : d \in Given[y.key]}
    BY <1>4, <1>8, <2>1 DEF Presented
  <2>4. ASSUME NEW d \in Deps(y.key)
        PROVE  ready[d] # None /\ ready[d] \in base'[y.attempt]
    <3>1. CASE d \in Given[y.key]
      BY <1>5, <2>3, <3>1 DEF Attempt, None
    <3>2. CASE d = Nested[y.key] /\ d # NoKey
      BY <2>2, <2>3, <3>2
    <3> QED BY <3>1, <3>2 DEF Deps
  <2>5. ASSUME NEW r \in base'[y.attempt] PROVE \E d \in Deps(y.key) : r = ready[d]
    <3>1. CASE r \in y.groups
      BY <2>2, <3>1 DEF Deps
    <3>2. CASE r \in {handles[c][d] : d \in Given[y.key]}
      BY <1>5, <3>2 DEF Deps
    <3> QED BY <2>3, <3>1, <3>2
  <2> QED BY <2>4, <2>5 DEF BuiltOn
<1>14. ASSUME NEW a \in Attempt, a # y.attempt, NEW k, BuiltOn(ready, base, a, k)
       PROVE  BuiltOn(ready', base', a, k)
  BY <1>8, <1>12, <1>14 DEF BuiltOn
<1>15. TypeOK'
  <2>1. caller' \in [Caller -> CallState]
    BY <1>10, <1>11 DEF Inv, TypeOK
  <2>2. \A d \in Caller : At(d, "idle")' => caller'[d] = Idle
    BY <1>10, <1>11 DEF Inv, TypeOK, At
  <2> QED BY <1>8, <1>12, <2>1, <2>2 DEF Inv, TypeOK, At, Idle
<1>16. Authoritative'
  <2>1. HandlesKnown'
    BY <1>12 DEF Inv, Authoritative, HandlesKnown
  <2>2. ASSUME NEW k \in Key, ready'[k] # None PROVE BuiltOn(ready', base', ready'[k], k)
    <3>1. ready[k] \in Attempt /\ ready[k] # y.attempt
      BY <1>3, <1>12, <2>2 DEF Inv, TypeOK
    <3>2. BuiltOn(ready, base, ready[k], k)
      BY <1>12, <2>2 DEF Inv, Authoritative, Grounded
    <3> QED BY <1>12, <1>14, <3>1, <3>2
  <2> QED BY <2>1, <2>2 DEF Authoritative, Grounded
<1>17. ASSUME NEW d \in Caller PROVE Fits(d, caller[d])' /\ Owned(caller'[d]) \subseteq Owned(caller[d])
  <2>1. CASE d = c
    <3>1. Fits(d, x)'
      BY <1>2, <1>3, <1>11, <1>12, <1>13, <2>1
         DEF Fits, Requesting, Attempting, Presenting, Waiting, Owning, BuiltOnReady
    <3>2. Owned(x) \subseteq Owned(y)
      BY <1>2, <1>11 DEF Owned, Owning
    <3>3. caller'[d] = x
      BY <1>10, <2>1 DEF Inv, TypeOK
    <3> QED BY <1>1, <2>1, <3>1, <3>2, <3>3 DEF Fits, Requesting, Attempting
  <2>2. CASE d # c
    <3>1. PICK z : z = caller[d] /\ z = caller'[d]
      BY <1>10, <2>2 DEF Inv, TypeOK
    <3>2. z \in CallState /\ Fits(d, z)
      BY <3>1, CallFits
    <3>3. z.pc = "concluding" /\ z.result = "Ready" => BuiltOn(ready', base', z.attempt, z.key)
      <4>1. SUFFICES ASSUME z.pc = "concluding", z.result = "Ready"
                     PROVE  BuiltOn(ready', base', z.attempt, z.key)
        OBVIOUS
      <4>2. BuiltOn(ready, base, z.attempt, z.key) /\ z.pc \in Owning
        BY <3>2, <4>1 DEF Fits, Attempting, BuiltOnReady, Owning
      <4>3. z.attempt \in Attempt /\ inFlight[z.key] = z.attempt /\ z.key \in Key
        BY <3>1, <4>2, OwnerAlone
      <4>4. z.key # y.key
        BY <1>3, <2>2, <3>1, <4>2 DEF Owned
      <4>5. z.attempt # y.attempt
        BY <1>3, <4>3, <4>4
      <4> QED BY <1>14, <4>2, <4>3, <4>5
    <3>4. Fits(d, z)'
      BY <1>12, <3>2, <3>3 DEF Fits, Requesting, Attempting, Presenting, BuiltOnReady
    <3> QED BY <3>1, <3>4 DEF Fits, Requesting, Attempting
  <2> QED BY <2>1, <2>2
<1>18. Distinct'
  <2>1. ASSUME NEW a \in Attempt, NEW k \in Key, Names(k, a)' PROVE Names(k, a)
    <3>1. \A d \in Caller : caller'[d].key = caller[d].key /\ caller'[d].attempt = caller[d].attempt
      BY <1>1, <1>10, <1>11 DEF Inv, TypeOK
    <3> QED BY <1>12, <2>1, <3>1 DEF Names
  <2>2. \A k \in Key : inFlight'[k] # None =>
          ready'[k] = None /\ outcome'[inFlight'[k]] = "Pending"
    BY <1>12 DEF Inv, Distinct
  <2> QED BY <1>17, <2>1, <2>2 DEF Inv, Distinct
<1> QED BY <1>15, <1>16, <1>17, <1>18 DEF Inv

(* What was built on the lookup stays so when another key gets its record      *)
LEMMA BuiltStays ==
  ASSUME NEW a, NEW k \in Key, NEW l, BuiltOn(ready, base, a, k), ready[l] = None,
         base' = base, \A d \in Key : d # l => ready'[d] = ready[d]
  PROVE  BuiltOn(ready', base', a, k)
<1>1. \A d \in Deps(k) : d \in Key /\ d # l
  BY DepsAreKeys DEF BuiltOn
<1> QED BY <1>1 DEF BuiltOn

(* The attempt leaves the flight, and its record enters the lookup             *)
LEMMA ConcludeKeeps ==
  ASSUME Inv, NEW c \in Caller, Conclude(c)
  PROVE  Inv'
<1>1. PICK y : y = caller[c]
  OBVIOUS
<1>2. /\ y \in CallState /\ Fits(c, y) /\ y.pc = "concluding"
  BY <1>1, CallFits DEF Conclude, At
<1>3. /\ y.key \in Key /\ y.attempt \in Attempt /\ y.attempt # None
      /\ inFlight[y.key] = y.attempt /\ ready[y.key] = None
      /\ \A k \in Key : ready[k] # y.attempt
      /\ \A k \in Key : inFlight[k] = y.attempt => k = y.key
      /\ y.outer # y.key
      /\ \A d \in Caller : d # c => y.key \notin Owned(caller[d]) /\ caller[d].outer # y.key
  BY <1>1, <1>2, OwnerAlone DEF Owning
<1>4. /\ inFlight' = [inFlight EXCEPT ![y.key] = None]
      /\ ready' = IF y.result = "Ready" THEN [ready EXCEPT ![y.key] = y.attempt] ELSE ready
      /\ UNCHANGED <<outcome, base, handles, fault>>
  BY <1>1, <1>3 DEF Conclude
<1>5. /\ ready \in [Key -> Attempt \cup {None}] /\ ready' \in [Key -> Attempt \cup {None}]
      /\ inFlight \in [Key -> Attempt \cup {None}] /\ inFlight' \in [Key -> Attempt \cup {None}]
      /\ \A k \in Key : k # y.key => ready'[k] = ready[k] /\ inFlight'[k] = inFlight[k]
      /\ inFlight'[y.key] = None
      /\ ready'[y.key] = IF y.result = "Ready" THEN y.attempt ELSE None
  BY <1>3, <1>4 DEF Inv, TypeOK
<1>6. PICK x : x = [y EXCEPT !.pc = "announcing"]
  OBVIOUS
<1>7. caller' = [caller EXCEPT ![c] = x]
  BY <1>1, <1>6 DEF Conclude, Goto
<1>8. /\ x \in CallState /\ x.pc = "announcing" /\ x.key = y.key /\ x.attempt = y.attempt
      /\ x.outer = y.outer /\ x.outerAttempt = y.outerAttempt /\ x.groups = y.groups
      /\ x.result = y.result
  BY <1>2, <1>6 DEF CallState
<1>9. TypeOK'
  <2>1. caller' \in [Caller -> CallState]
    BY <1>7, <1>8 DEF Inv, TypeOK
  <2>2. \A d \in Caller : At(d, "idle")' => caller'[d] = Idle
    BY <1>7, <1>8 DEF Inv, TypeOK, At
  <2> QED BY <1>4, <1>5, <2>1, <2>2 DEF Inv, TypeOK, At, Idle
<1>10. Authoritative'
  <2>1. HandlesKnown'
    <3>1. ASSUME NEW d \in Caller, NEW k \in Key PROVE handles[d][k] \in {None, ready'[k]}
      <4>1. handles[d][k] \in {None, ready[k]}
        BY DEF Inv, Authoritative, HandlesKnown
      <4> QED BY <1>3, <1>5, <4>1
    <3> QED BY <1>4, <3>1 DEF HandlesKnown
  <2>2. ASSUME NEW k \in Key, ready'[k] # None PROVE BuiltOn(ready', base', ready'[k], k)
    <3>1. CASE k = y.key
      <4>1. y.result = "Ready" /\ ready'[k] = y.attempt
        BY <1>5, <2>2, <3>1
      <4>2. BuiltOn(ready, base, y.attempt, y.key)
        BY <1>2, <4>1 DEF Fits, Attempting, BuiltOnReady
      <4> QED BY <1>3, <1>4, <1>5, <3>1, <4>1, <4>2, BuiltStays
    <3>2. CASE k # y.key
      <4>1. ready'[k] = ready[k] /\ BuiltOn(ready, base, ready[k], k)
        BY <1>5, <2>2, <3>2 DEF Inv, Authoritative, Grounded
      <4> QED BY <1>3, <1>4, <1>5, <4>1, BuiltStays
    <3> QED BY <3>1, <3>2
  <2> QED BY <2>1, <2>2 DEF Authoritative, Grounded
<1>11. ASSUME NEW d \in Caller
       PROVE  Fits(d, caller[d])' /\ Owned(caller'[d]) \subseteq Owned(caller[d])
  <2>1. CASE d = c
    <3>1. Requesting(c, x)'
      <4>1. Presenting(c, y.key)' /\ (y.outer # NoKey => Presenting(c, y.outer)')
        BY <1>2, <1>4 DEF Fits, Requesting, Presenting
      <4>2. y.outer # NoKey => inFlight'[y.outer] = inFlight[y.outer]
        BY <1>2, <1>3, <1>5 DEF Fits, Requesting, Presenting
      <4> QED BY <1>2, <1>8, <4>1, <4>2 DEF Fits, Requesting, Waiting
    <3>2. Attempting(x)'
      BY <1>2, <1>3, <1>5, <1>8 DEF Fits, Attempting, Owning
    <3>3. Owned(x) \subseteq Owned(y)
      BY <1>8 DEF Owned, Owning
    <3>4. caller'[d] = x
      BY <1>7, <2>1 DEF Inv, TypeOK
    <3> QED BY <1>1, <2>1, <3>1, <3>2, <3>3, <3>4 DEF Fits, Requesting, Attempting
  <2>2. CASE d # c
    <3>1. PICK z : z = caller[d] /\ z = caller'[d]
      BY <1>7, <2>2 DEF Inv, TypeOK
    <3>2. z \in CallState /\ Fits(d, z) /\ y.key \notin Owned(z) /\ z.outer # y.key
      BY <1>3, <2>2, <3>1, CallFits
    <3>3. ASSUME NEW k \in Key, ready[k] # None PROVE ready'[k] = ready[k]
      BY <1>3, <1>5, <3>3
    <3>4. z.pc # "idle" => z.key \in Key
      BY <3>2 DEF Fits, Requesting, Presenting
    <3>5. Requesting(d, z)'
      <4>1. /\ z.pc # "idle" => Presenting(d, z.key)'
            /\ z.outer # NoKey => Presenting(d, z.outer)'
        BY <1>4, <3>2 DEF Fits, Requesting, Presenting
      <4>2. z.outer # NoKey => z.outer \in Key /\ inFlight'[z.outer] = inFlight[z.outer]
        BY <1>5, <3>2 DEF Fits, Requesting, Presenting
      <4>3. z.pc \in Waiting /\ outcome'[z.attempt] = "Ready" => ready'[z.key] = z.attempt
        BY <1>4, <3>2, <3>3, <3>4 DEF Fits, Requesting, Waiting
      <4> QED BY <3>2, <4>1, <4>2, <4>3 DEF Fits, Requesting, Waiting
    <3>6. Attempting(z)'
      <4>1. z.pc \in Owning => z.attempt # None /\ inFlight'[z.key] = z.attempt
        BY <1>5, <3>2, <3>4 DEF Fits, Attempting, Owned, Owning
      <4>2. z.pc \in {"announcing", "notifying"} =>
              z.attempt # None /\ inFlight'[z.key] # z.attempt
        BY <1>5, <3>2, <3>4 DEF Fits, Attempting
      <4>3. z.pc \in {"announcing", "notifying", "returning"} /\ z.result = "Ready" =>
              z.attempt # None /\ ready'[z.key] = z.attempt
        BY <3>2, <3>3, <3>4 DEF Fits, Attempting
      <4>4. z.pc = "creating" =>
              /\ z.groups = {ready'[e] : e \in {Nested[z.key]} \ {NoKey}}
              /\ Nested[z.key] # NoKey => ready'[Nested[z.key]] # None
        <5>1. SUFFICES ASSUME z.pc = "creating"
                       PROVE  /\ z.groups = {ready'[e] : e \in {Nested[z.key]} \ {NoKey}}
                              /\ Nested[z.key] # NoKey => ready'[Nested[z.key]] # None
          OBVIOUS
        <5>2. /\ z.groups = {ready[e] : e \in {Nested[z.key]} \ {NoKey}}
              /\ Nested[z.key] # NoKey => ready[Nested[z.key]] # None
          BY <3>2, <5>1 DEF Fits, Attempting
        <5>3. Nested[z.key] # NoKey => ready'[Nested[z.key]] = ready[Nested[z.key]]
          BY <3>3, <3>4, <5>1, <5>2, KeyAssumption
        <5> QED BY <5>2, <5>3
      <4>5. z.pc = "concluding" /\ z.result = "Ready" => BuiltOn(ready', base', z.attempt, z.key)
        BY <1>3, <1>4, <1>5, <3>2, <3>4, BuiltStays DEF Fits, Attempting, BuiltOnReady
      <4> QED BY <3>2, <4>1, <4>2, <4>3, <4>4, <4>5 DEF Fits, Attempting, BuiltOnReady
    <3> QED BY <3>1, <3>5, <3>6 DEF Fits, Requesting, Attempting
  <2> QED BY <2>1, <2>2
<1>12. Distinct'
  <2>1. ASSUME NEW a \in Attempt, NEW k \in Key, Names(k, a)' PROVE Names(k, a)
    <3>1. \A d \in Caller : caller'[d].key = caller[d].key /\ caller'[d].attempt = caller[d].attempt
      BY <1>1, <1>7, <1>8 DEF Inv, TypeOK
    <3>2. a # None
      BY DEF Attempt, None
    <3>3. a \in {ready'[k], inFlight'[k]} => a \in {ready[k], inFlight[k]}
      BY <1>3, <1>5, <3>2
    <3> QED BY <2>1, <3>1, <3>3 DEF Names
  <2>2. \A k \in Key : inFlight'[k] # None =>
          ready'[k] = None /\ outcome'[inFlight'[k]] = "Pending"
    BY <1>4, <1>5 DEF Inv, Distinct
  <2> QED BY <1>11, <2>1, <2>2 DEF Inv, Distinct
<1> QED BY <1>9, <1>10, <1>11, <1>12 DEF Inv

(* The outcome of the attempt becomes known to its waiters                    *)
LEMMA AnnounceKeeps ==
  ASSUME Inv, NEW c \in Caller, Announce(c)
  PROVE  Inv'
<1>1. PICK y : y = caller[c]
  OBVIOUS
<1>2. /\ y \in CallState /\ Fits(c, y) /\ y.pc = "announcing"
      /\ y.attempt # None => Names(y.key, y.attempt)
  BY <1>1, CallFits DEF Announce, At
<1>3. /\ y.key \in Key /\ y.attempt \in Attempt /\ y.attempt # None
      /\ inFlight[y.key] # y.attempt /\ y.result \in {"Ready", "Failed", "Abandoned"}
      /\ y.result = "Ready" => ready[y.key] = y.attempt
  BY <1>2, CallFields DEF Fits, Requesting, Attempting, Presenting
<1>4. outcome' = [outcome EXCEPT ![y.attempt] = y.result]
  BY <1>1 DEF Announce
<1>5. UNCHANGED <<ready, inFlight, base, handles, fault>>
  BY DEF Announce
<1>6. PICK x : x = [y EXCEPT !.pc = "notifying"]
  OBVIOUS
<1>7. caller' = [caller EXCEPT ![c] = x]
  BY <1>1, <1>6 DEF Announce, Goto
<1>8. /\ x \in CallState /\ x.pc = "notifying" /\ x.key = y.key /\ x.attempt = y.attempt
      /\ x.outer = y.outer /\ x.outerAttempt = y.outerAttempt /\ x.groups = y.groups
      /\ x.result = y.result
  BY <1>2, <1>6 DEF CallState
<1>9. TypeOK'
  <2>1. caller' \in [Caller -> CallState]
    BY <1>7, <1>8 DEF Inv, TypeOK
  <2>2. \A d \in Caller : At(d, "idle")' => caller'[d] = Idle
    BY <1>7, <1>8 DEF Inv, TypeOK, At
  <2>3. outcome' \in [Attempt -> {"Pending", "Ready", "Failed", "Abandoned"}]
    BY <1>3, <1>4 DEF Inv, TypeOK
  <2> QED BY <1>5, <2>1, <2>2, <2>3 DEF Inv, TypeOK, At, Idle
<1>10. Authoritative'
  BY <1>5 DEF Inv, Authoritative, HandlesKnown
<1>11. ASSUME NEW d \in Caller
       PROVE  Fits(d, caller[d])' /\ Owned(caller'[d]) \subseteq Owned(caller[d])
  <2>1. PICK z : z = caller[d]
    OBVIOUS
  <2>2. /\ z \in CallState /\ Fits(d, z) /\ (z.attempt # None => Names(z.key, z.attempt))
    BY <2>1, CallFits
  <2>3. PICK w : w = caller'[d]
    OBVIOUS
  <2>4. \/ w = x /\ z = y
        \/ w = z
    BY <1>1, <1>7, <2>1, <2>3 DEF Inv, TypeOK
  <2>5. /\ w.key = z.key /\ w.attempt = z.attempt
        /\ w.outer = z.outer /\ w.outerAttempt = z.outerAttempt /\ w.groups = z.groups
        /\ w.result = z.result
        /\ w.pc = z.pc \/ (z.pc = "announcing" /\ w.pc = "notifying")
    BY <1>2, <1>8, <2>4
  <2>6. z.pc \in Waiting /\ outcome'[z.attempt] = "Ready" => ready[z.key] = z.attempt
    <3>1. SUFFICES ASSUME z.pc \in Waiting, outcome'[z.attempt] = "Ready"
                   PROVE  ready[z.key] = z.attempt
      OBVIOUS
    <3>2. z.attempt \in Attempt /\ z.key \in Key /\ Names(z.key, z.attempt)
      BY <2>2, <3>1, CallFields DEF Fits, Requesting, Presenting, Waiting
    <3>3. CASE z.attempt = y.attempt
      <4>1. z.key = y.key
        BY <1>2, <1>3, <3>2, <3>3 DEF Inv, Distinct
      <4>2. y.result = "Ready"
        BY <1>3, <1>4, <3>1, <3>3 DEF Inv, TypeOK
      <4> QED BY <1>3, <3>3, <4>1, <4>2
    <3>4. CASE z.attempt # y.attempt
      <4>1. outcome[z.attempt] = "Ready"
        BY <1>4, <3>1, <3>2, <3>4 DEF Inv, TypeOK
      <4> QED BY <2>2, <3>1, <4>1 DEF Fits, Requesting
    <3> QED BY <3>3, <3>4
  <2>7. Requesting(d, w)'
    BY <1>5, <2>2, <2>5, <2>6 DEF Fits, Requesting, Presenting, Waiting
  <2>8. Attempting(w)'
    BY <1>5, <2>2, <2>5 DEF Fits, Attempting, Owning, BuiltOnReady
  <2>9. Owned(w) \subseteq Owned(z)
    BY <2>5 DEF Owned, Owning
  <2> QED BY <2>1, <2>3, <2>7, <2>8, <2>9 DEF Fits, Requesting, Attempting
<1>12. Distinct'
  <2>1. ASSUME NEW a \in Attempt, NEW k \in Key, Names(k, a)' PROVE Names(k, a)
    <3>1. \A d \in Caller : caller'[d].key = caller[d].key /\ caller'[d].attempt = caller[d].attempt
      BY <1>1, <1>7, <1>8 DEF Inv, TypeOK
    <3> QED BY <1>5, <2>1, <3>1 DEF Names
  <2>2. ASSUME NEW k \in Key, inFlight[k] # None
        PROVE  ready[k] = None /\ outcome'[inFlight[k]] = "Pending"
    <3>1. inFlight[k] \in Attempt /\ ready[k] = None /\ outcome[inFlight[k]] = "Pending"
      BY <2>2 DEF Inv, Distinct, TypeOK
    <3>2. inFlight[k] # y.attempt
      <4>1. SUFFICES ASSUME inFlight[k] = y.attempt PROVE FALSE
        OBVIOUS
      <4>2. Names(k, y.attempt) /\ Names(y.key, y.attempt)
        BY <1>2, <1>3, <4>1 DEF Names
      <4>3. k = y.key
        BY <1>3, <4>2 DEF Inv, Distinct
      <4> QED BY <1>3, <4>1, <4>3
    <3> QED BY <1>4, <3>1, <3>2 DEF Inv, TypeOK
  <2> QED BY <1>5, <1>11, <2>1, <2>2 DEF Inv, Distinct
<1> QED BY <1>9, <1>10, <1>11, <1>12 DEF Inv

-----------------------------------------------------------------------------
(* Collection *)

(* Records that may go: in the lookup, and in the hands of nobody who stays     *)
Gone(gone) ==
  /\ \A r \in gone : r \in Attempt /\ \E k \in Key : ready[k] = r
  /\ \A r \in gone, c \in Caller :
       /\ r \notin HandlesOf(c) \cup caller[c].groups
       /\ ~(caller[c].attempt = r /\ (caller[c].result = "Ready" \/ outcome[r] = "Ready"))
  /\ \A r \in gone, q \in Attempt \ gone : r \notin base[q]

(* One family of a registry adds such records                                *)
LEMMA CollectsGone ==
  ASSUME TypeOK, NEW g, NEW gone, Gone(gone), NEW family \in SUBSET Key
  PROVE  Gone(Collect(g, gone, family))
<1>1. PICK more : more = {f \in family : Home[f] = g /\ ready[f] # None /\ ~Retained(ready[f], gone)}
  OBVIOUS
<1>2. Collect(g, gone, family) = gone \cup {ready[k] : k \in more}
  BY <1>1 DEF Collect
<1>3. PICK all : all = gone \cup {ready[k] : k \in more}
  OBVIOUS
<1>4. ASSUME NEW r \in all
      PROVE  \/ r \in gone
             \/ r \in Attempt /\ (\E k \in Key : ready[k] = r) /\ ~Retained(r, gone)
  BY <1>1, <1>3 DEF TypeOK
<1>5. ASSUME NEW r \in all
      PROVE  /\ r \in Attempt /\ \E k \in Key : ready[k] = r
             /\ \A c \in Caller :
                  /\ r \notin HandlesOf(c) \cup caller[c].groups
                  /\ ~(caller[c].attempt = r
                       /\ (caller[c].result = "Ready" \/ outcome[r] = "Ready"))
             /\ \A q \in Attempt \ all : r \notin base[q]
  <2>1. CASE r \in gone
    BY <1>3, <2>1 DEF Gone
  <2>2. CASE r \notin gone
    BY <1>3, <1>4, <2>2 DEF Retained
  <2> QED BY <2>1, <2>2
<1>6. Gone(all)
  BY <1>5 DEF Gone
<1> QED BY <1>2, <1>3, <1>6

(* The pass over the families is a fold over their places                     *)
Passes(g, f) ==
  f = [T \in SUBSET DOMAIN Families |->
         IF T = {} THEN {} ELSE Collect(g, f[T \ {Max(T)}], Families[Max(T)])]

(* which has a result                                                        *)
LEMMA PassExists ==
  ASSUME TypeOK, NEW g
  PROVE  \E f : Passes(g, f)
<1>1. PICK S : S = DOMAIN Families
  OBVIOUS
<1>2. /\ IsFiniteSet(S) /\ S \subseteq Nat
      /\ \A i \in S : Families[i] \in SUBSET Key
  <2>1. S = 1 .. Len(Families) /\ Len(Families) \in Nat
    BY <1>1, KeyAssumption
  <2>2. IsFiniteSet(1 .. Len(Families))
    BY <2>1, FS_Interval
  <2>3. \A i \in S : Families[i] \in SUBSET Key
    BY <2>1, KeyAssumption
  <2> QED BY <2>1, <2>2, <2>3
<1>3. PICK pick : pick = [T \in SUBSET S |-> Max(T)]
  OBVIOUS
<1>4. ASSUME NEW T \in SUBSET S, T # {} PROVE Max(T) \in T
  BY <1>2, <1>4, FS_Subset, GreatestIsMax
<1>5. Picks(pick, S)
  BY <1>3, <1>4 DEF Picks
<1>6. PICK step : step = [p \in S \X SUBSET Attempt |-> Collect(g, p[2], Families[p[1]])]
  OBVIOUS
<1>7. PICK f : IsFold(step, {}, pick, S, f)
  BY <1>2, <1>5, FoldExists
<1>8. /\ DOMAIN f = SUBSET S /\ f = [T \in SUBSET S |-> f[T]]
      /\ \A T \in SUBSET S : f[T] = IF T = {} THEN {} ELSE step[<<pick[T], f[T \ {pick[T]}]>>]
  BY <1>7, Zenon DEF IsFold
<1>9. ASSUME NEW T \in SUBSET S, T # {}, f[T \ {Max(T)}] \in SUBSET Attempt
      PROVE  f[T] = Collect(g, f[T \ {Max(T)}], Families[Max(T)])
  <2>1. pick[T] = Max(T) /\ Max(T) \in S
    BY <1>3, <1>4, <1>9
  <2>2. PICK u : u = f[T \ {Max(T)}]
    OBVIOUS
  <2>3. f[T] = step[<<Max(T), u>>]
    BY <1>8, <1>9, <2>1, <2>2
  <2> QED BY <1>6, <1>9, <2>1, <2>2, <2>3
<1>10. ASSUME NEW gone \in SUBSET Attempt, NEW i \in S
       PROVE  Collect(g, gone, Families[i]) \in SUBSET Attempt
  BY <1>2 DEF Collect, TypeOK
<1>11. PICK P : P = {T \in SUBSET S : f[T] \in SUBSET Attempt}
  OBVIOUS
<1>12. ASSUME NEW T \in SUBSET S, \A U \in SUBSET T : U # T => U \in P
       PROVE  T \in P
  <2>1. CASE T = {}
    BY <1>8, <1>11, <2>1
  <2>2. CASE T # {}
    <3>1. Max(T) \in T
      BY <1>4, <2>2
    <3>2. T \ {Max(T)} \in P
      BY <1>12, <3>1
    <3>3. f[T \ {Max(T)}] \in SUBSET Attempt
      BY <1>11, <3>2
    <3>4. f[T] = Collect(g, f[T \ {Max(T)}], Families[Max(T)])
      BY <1>9, <2>2, <3>3
    <3> QED BY <1>10, <1>11, <3>1, <3>3, <3>4
  <2> QED BY <2>1, <2>2
<1>13. ASSUME NEW T \in SUBSET S PROVE f[T] \in SUBSET Attempt
  <2>1. IsFiniteSet(T)
    BY <1>2, FS_Subset
  <2>2. T \in P
    <3>1. ASSUME NEW U \in SUBSET T, \A V \in SUBSET U : V # U => V \in P
          PROVE  U \in P
      BY <1>12, <3>1
    <3> QED BY <2>1, <3>1, FiniteInduction
  <2> QED BY <1>11, <2>2
<1>14. ASSUME NEW T \in SUBSET S
       PROVE  f[T] = IF T = {} THEN {} ELSE Collect(g, f[T \ {Max(T)}], Families[Max(T)])
  <2>1. CASE T = {}
    BY <1>8, <2>1
  <2>2. CASE T # {}
    <3>1. f[T \ {Max(T)}] \in SUBSET Attempt
      <4>1. T \ {Max(T)} \in SUBSET S
        OBVIOUS
      <4> QED BY <1>13, <4>1
    <3> QED BY <1>9, <2>2, <3>1
  <2> QED BY <2>1, <2>2
<1>15. f = [T \in SUBSET S |->
              IF T = {} THEN {} ELSE Collect(g, f[T \ {Max(T)}], Families[Max(T)])]
  BY <1>8, <1>14, Zenon
<1> QED BY <1>1, <1>15 DEF Passes

(* What a registry collects may go                                           *)
LEMMA LookupOnlyGone ==
  ASSUME TypeOK, NEW g
  PROVE  Gone(LookupOnly(g))
<1>1. PICK f : f = CHOOSE h : Passes(g, h)
  OBVIOUS
<1>2. Passes(g, f)
  BY <1>1, PassExists
<1>3. LookupOnly(g) = f[DOMAIN Families]
  BY <1>1 DEF LookupOnly, FoldLeft, MapThenFoldSet, Passes
<1>4. PICK S : S = DOMAIN Families
  OBVIOUS
<1>5. /\ IsFiniteSet(S) /\ S \subseteq Nat
      /\ \A i \in S : Families[i] \in SUBSET Key
  <2>1. S = 1 .. Len(Families) /\ Len(Families) \in Nat
    BY <1>4, KeyAssumption
  <2>2. IsFiniteSet(1 .. Len(Families))
    BY <2>1, FS_Interval
  <2>3. \A i \in S : Families[i] \in SUBSET Key
    BY <2>1, KeyAssumption
  <2> QED BY <2>1, <2>2, <2>3
<1>6. PICK P : P = {T \in SUBSET S : Gone(f[T])}
  OBVIOUS
<1>7. ASSUME NEW T \in SUBSET S, \A U \in SUBSET T : U # T => U \in P
      PROVE  T \in P
  <2>1. f[T] = IF T = {} THEN {} ELSE Collect(g, f[T \ {Max(T)}], Families[Max(T)])
    BY <1>2, <1>4, Zenon DEF Passes
  <2>2. CASE T = {}
    BY <1>6, <2>1, <2>2 DEF Gone
  <2>3. CASE T # {}
    <3>1. Max(T) \in T
      BY <1>5, <2>3, FS_Subset, GreatestIsMax
    <3>2. T \ {Max(T)} \in P
      BY <1>7, <3>1
    <3>3. Gone(f[T \ {Max(T)}])
      BY <1>6, <3>2
    <3>4. Families[Max(T)] \in SUBSET Key
      BY <1>5, <3>1
    <3>5. Gone(Collect(g, f[T \ {Max(T)}], Families[Max(T)]))
      BY <3>3, <3>4, CollectsGone
    <3> QED BY <1>6, <2>1, <2>3, <3>5
  <2> QED BY <2>2, <2>3
<1>8. S \in P
  BY <1>5, <1>7, FiniteInduction
<1> QED BY <1>3, <1>4, <1>6, <1>8

(* so does what the bind-group sweep takes of all registries                   *)
LEMMA SweepGone ==
  ASSUME TypeOK
  PROVE  Gone(UNION {Collect(g, {}, BindGroups) : g \in Registry})
<1>1. Gone({})
  BY DEF Gone
<1>2. PICK all : all = UNION {Collect(g, {}, BindGroups) : g \in Registry}
  OBVIOUS
<1>3. \A g \in Registry : Gone(Collect(g, {}, BindGroups))
  BY <1>1, KeyAssumption, CollectsGone
<1>4. ASSUME NEW r \in all
      PROVE  /\ r \in Attempt /\ \E k \in Key : ready[k] = r
             /\ \A c \in Caller :
                  /\ r \notin HandlesOf(c) \cup caller[c].groups
                  /\ ~(caller[c].attempt = r
                       /\ (caller[c].result = "Ready" \/ outcome[r] = "Ready"))
             /\ \A q \in Attempt \ all : r \notin base[q]
  <2>1. PICK g \in Registry : r \in Collect(g, {}, BindGroups)
    BY <1>2
  <2>2. PICK some : some = Collect(g, {}, BindGroups)
    OBVIOUS
  <2>3. Gone(some) /\ r \in some /\ some \subseteq all
    BY <1>2, <1>3, <2>1, <2>2
  <2> QED BY <2>3 DEF Gone
<1>5. Gone(all)
  BY <1>4 DEF Gone
<1> QED BY <1>2, <1>5

(* Whatever is kept stays in the lookup, and stays as it was                   *)
LEMMA DropKeeps ==
  ASSUME Inv, NEW gone, Gone(gone), Drop(gone), handles' = handles
  PROVE  /\ ready' \in [Key -> Attempt \cup {None}] /\ base' \in [Attempt -> SUBSET Attempt]
         /\ \A k \in Key : ready'[k] \in {ready[k], None}
         /\ \A k \in Key : ready[k] \notin gone => ready'[k] = ready[k]
         /\ \A a \in Attempt : a \notin gone => base'[a] = base[a]
         /\ Authoritative'
<1>1. /\ ready \in [Key -> Attempt \cup {None}] /\ base \in [Attempt -> SUBSET Attempt]
      /\ handles \in [Caller -> [Key -> Attempt \cup {None}]]
  BY DEF Inv, TypeOK
<1>2. /\ ready' = [k \in Key |-> IF ready[k] \in gone THEN None ELSE ready[k]]
      /\ base' = [a \in Attempt |-> IF a \in gone THEN {} ELSE base[a]]
  BY DEF Drop
<1>3. /\ ready' \in [Key -> Attempt \cup {None}] /\ base' \in [Attempt -> SUBSET Attempt]
      /\ \A k \in Key : ready'[k] \in {ready[k], None}
      /\ \A k \in Key : ready[k] \notin gone => ready'[k] = ready[k]
      /\ \A k \in Key : ready'[k] # None => ready[k] \notin gone /\ ready'[k] = ready[k]
      /\ \A a \in Attempt : a \notin gone => base'[a] = base[a]
  BY <1>1, <1>2
<1>4. HandlesKnown'
  <2>1. ASSUME NEW c \in Caller, NEW k \in Key PROVE handles[c][k] \in {None, ready'[k]}
    <3>1. handles[c][k] \in {None, ready[k]}
      BY DEF Inv, Authoritative, HandlesKnown
    <3>2. handles[c][k] # None => handles[c][k] \in HandlesOf(c)
      BY DEF HandlesOf
    <3>3. handles[c][k] # None => ready[k] \notin gone
      BY <3>1, <3>2 DEF Gone
    <3> QED BY <1>3, <3>1, <3>3
  <2> QED BY <2>1 DEF HandlesKnown
<1>5. ASSUME NEW k \in Key, ready'[k] # None PROVE BuiltOn(ready', base', ready'[k], k)
  <2>1. PICK a : a = ready[k]
    OBVIOUS
  <2>2. a = ready'[k] /\ a \notin gone /\ a \in Attempt /\ base'[a] = base[a]
    BY <1>1, <1>3, <1>5, <2>1
  <2>3. BuiltOn(ready, base, a, k)
    BY <2>1, <1>5, <2>2 DEF Inv, Authoritative, Grounded
  <2>4. ASSUME NEW d \in Deps(k) PROVE ready'[d] = ready[d]
    <3>1. d \in Key /\ ready[d] \in base[a]
      BY <2>3, DepsAreKeys DEF BuiltOn
    <3>2. ready[d] \notin gone
      BY <2>2, <3>1 DEF Gone
    <3> QED BY <1>3, <3>1, <3>2
  <2>5. BuiltOn(ready', base', a, k)
    BY <2>2, <2>3, <2>4 DEF BuiltOn
  <2> QED BY <2>2, <2>5
<1> QED BY <1>3, <1>4, <1>5 DEF Authoritative, Grounded

(* and every call that waited through it still fits                           *)
LEMMA FitsAfterDrop ==
  ASSUME Inv, NEW gone, Gone(gone), Drop(gone), handles' = handles,
         NEW d \in Caller, NEW z, z = caller[d],
         \A k \in Key : inFlight'[k] = inFlight[k]
                        \/ (inFlight[k] = None /\ inFlight'[k] # z.attempt),
         \A a \in Attempt : outcome'[a] \in {outcome[a], "Pending"}
  PROVE  Fits(d, z)'
<1>1. z \in CallState /\ Fits(d, z)
  BY CallFits
<1>2. /\ z.pc # "idle" => z.key \in Key
      /\ z.attempt \in Attempt \cup {None}
      /\ z.outer # NoKey => z.outer \in Key
  BY <1>1, CallFields DEF Fits, Requesting, Presenting
<1>3. /\ \A k \in Key : ready[k] \notin gone => ready'[k] = ready[k]
      /\ \A a \in Attempt : a \notin gone => base'[a] = base[a]
  BY DropKeeps
<1>4. Requesting(d, z)'
  <2>1. /\ z.pc # "idle" => Presenting(d, z.key)'
        /\ z.outer # NoKey => Presenting(d, z.outer)'
    BY <1>1 DEF Fits, Requesting, Presenting
  <2>2. z.outer # NoKey => inFlight'[z.outer] = z.outerAttempt
    BY <1>1, <1>2 DEF Fits, Requesting
  <2>3. z.pc \in Waiting /\ outcome'[z.attempt] = "Ready" => ready'[z.key] = z.attempt
    <3>1. SUFFICES ASSUME z.pc \in Waiting, outcome'[z.attempt] = "Ready"
                   PROVE  ready'[z.key] = z.attempt
      OBVIOUS
    <3>2. z.attempt \in Attempt /\ z.key \in Key
      BY <1>1, <1>2, <3>1 DEF Fits, Requesting, Waiting
    <3>3. outcome[z.attempt] = "Ready"
      BY <3>1, <3>2
    <3>4. ready[z.key] = z.attempt
      BY <1>1, <3>1, <3>3 DEF Fits, Requesting
    <3>5. z.attempt \notin gone
      BY <3>3 DEF Gone
    <3> QED BY <1>3, <3>2, <3>4, <3>5
  <2> QED BY <1>1, <2>1, <2>2, <2>3 DEF Fits, Requesting, Waiting
<1>5. Attempting(z)'
  <2>1. z.pc \in Owning => z.attempt # None /\ inFlight'[z.key] = z.attempt
    BY <1>1, <1>2 DEF Fits, Attempting, Owning
  <2>2. z.pc \in {"announcing", "notifying"} => z.attempt # None /\ inFlight'[z.key] # z.attempt
    BY <1>1, <1>2 DEF Fits, Attempting
  <2>3. z.pc \in {"announcing", "notifying", "returning"} /\ z.result = "Ready" =>
          z.attempt # None /\ ready'[z.key] = z.attempt
    BY <1>1, <1>2, <1>3 DEF Fits, Attempting, Gone
  <2>4. z.pc = "creating" =>
          /\ z.groups = {ready'[e] : e \in {Nested[z.key]} \ {NoKey}}
          /\ Nested[z.key] # NoKey => ready'[Nested[z.key]] # None
    <3>1. SUFFICES ASSUME z.pc = "creating"
                   PROVE  /\ z.groups = {ready'[e] : e \in {Nested[z.key]} \ {NoKey}}
                          /\ Nested[z.key] # NoKey => ready'[Nested[z.key]] # None
      OBVIOUS
    <3>2. /\ z.groups = {ready[e] : e \in {Nested[z.key]} \ {NoKey}}
          /\ Nested[z.key] # NoKey => ready[Nested[z.key]] # None
      BY <1>1, <3>1 DEF Fits, Attempting
    <3>3. Nested[z.key] # NoKey => ready'[Nested[z.key]] = ready[Nested[z.key]]
      <4>1. SUFFICES ASSUME Nested[z.key] # NoKey
                     PROVE  ready'[Nested[z.key]] = ready[Nested[z.key]]
        OBVIOUS
      <4>2. Nested[z.key] \in Key /\ ready[Nested[z.key]] \in z.groups
        BY <1>2, <3>1, <3>2, <4>1, KeyAssumption
      <4>3. ready[Nested[z.key]] \notin gone
        BY <4>2 DEF Gone
      <4> QED BY <1>3, <4>2, <4>3
    <3> QED BY <3>2, <3>3
  <2>5. z.pc = "concluding" /\ z.result = "Ready" => BuiltOn(ready', base', z.attempt, z.key)
    <3>1. SUFFICES ASSUME z.pc = "concluding", z.result = "Ready"
                   PROVE  BuiltOn(ready', base', z.attempt, z.key)
      OBVIOUS
    <3>2. BuiltOn(ready, base, z.attempt, z.key)
      BY <1>1, <3>1 DEF Fits, Attempting, BuiltOnReady
    <3>3. z.attempt \in Attempt /\ z.attempt \notin gone /\ z.key \in Key
      BY <3>1, OwnerAlone DEF Owning, Gone
    <3>4. ASSUME NEW e \in Deps(z.key) PROVE ready'[e] = ready[e]
      <4>1. e \in Key /\ ready[e] \in base[z.attempt]
        BY <3>2, <3>3, DepsAreKeys DEF BuiltOn
      <4>2. ready[e] \notin gone
        BY <3>3, <4>1 DEF Gone
      <4> QED BY <1>3, <4>1, <4>2
    <3> QED BY <1>3, <3>2, <3>3, <3>4 DEF BuiltOn
  <2> QED BY <1>1, <2>1, <2>2, <2>3, <2>4, <2>5 DEF Fits, Attempting, BuiltOnReady
<1> QED BY <1>4, <1>5 DEF Fits

(* Room is made and refused, or made for resources                            *)
LEMMA RoomKeeps ==
  ASSUME Inv, NEW gone, Gone(gone), Drop(gone),
         UNCHANGED <<inFlight, outcome, handles, fault>>,
         caller' = caller \/ \E c \in Caller :
           /\ At(c, "requested")
           /\ caller' = [caller EXCEPT ![c].pc = "returning", ![c].result = "Full"]
  PROVE  Inv'
<1>1. /\ ready' \in [Key -> Attempt \cup {None}] /\ base' \in [Attempt -> SUBSET Attempt]
      /\ \A k \in Key : ready'[k] \in {ready[k], None}
      /\ Authoritative'
  BY DropKeeps
<1>2. ASSUME NEW d \in Caller
      PROVE  /\ caller'[d] \in CallState /\ (caller'[d].pc = "idle" => caller'[d] = Idle)
             /\ caller'[d].key = caller[d].key /\ caller'[d].attempt = caller[d].attempt
             /\ Fits(d, caller[d])' /\ Owned(caller'[d]) \subseteq Owned(caller[d])
  <2>1. PICK z : z = caller[d]
    OBVIOUS
  <2>2. z \in CallState /\ (z.pc = "idle" => z = Idle)
    BY <2>1 DEF Inv, TypeOK, At
  <2>3. Fits(d, z)'
    BY <2>1, FitsAfterDrop DEF Inv, TypeOK
  <2>4. PICK x : x = caller'[d]
    OBVIOUS
  <2>5. \/ x = z
        \/ x = [z EXCEPT !.pc = "returning", !.result = "Full"] /\ z.pc = "requested"
    BY <2>1, <2>4 DEF Inv, TypeOK, At
  <2>6. CASE x = z
    BY <2>1, <2>2, <2>3, <2>4, <2>6 DEF Fits, Requesting, Attempting
  <2>7. CASE x = [z EXCEPT !.pc = "returning", !.result = "Full"] /\ z.pc = "requested"
    <3>1. /\ x \in CallState /\ x.pc = "returning" /\ x.key = z.key /\ x.attempt = z.attempt
          /\ x.outer = z.outer /\ x.outerAttempt = z.outerAttempt /\ x.groups = z.groups
          /\ x.result = "Full"
      BY <2>2, <2>7 DEF CallState
    <3>2. Fits(d, x)' /\ Owned(x) \subseteq Owned(z)
      BY <2>3, <2>7, <3>1 DEF Fits, Requesting, Attempting, Waiting, Owning, Owned
    <3> QED BY <2>1, <2>4, <3>1, <3>2 DEF Fits, Requesting, Attempting
  <2> QED BY <2>5, <2>6, <2>7
<1>3. caller' \in [Caller -> CallState]
  <2>1. DOMAIN caller' = Caller /\ caller' = [d \in Caller |-> caller'[d]]
    BY DEF Inv, TypeOK
  <2> QED BY <1>2, <2>1
<1>4. TypeOK'
  BY <1>1, <1>2, <1>3 DEF Inv, TypeOK, At, Idle
<1>5. Distinct'
  <2>1. ASSUME NEW a \in Attempt, NEW k \in Key, Names(k, a)' PROVE Names(k, a)
    <3>1. a # None
      BY DEF Attempt, None
    <3> QED BY <1>1, <1>2, <2>1, <3>1 DEF Names
  <2>2. \A k \in Key : inFlight[k] # None =>
          ready'[k] = None /\ outcome[inFlight[k]] = "Pending"
    BY <1>1 DEF Inv, Distinct
  <2> QED BY <1>2, <2>1, <2>2 DEF Inv, Distinct
<1> QED BY <1>1, <1>2, <1>4, <1>5 DEF Inv

(* Nothing refers to a number that is taken for an attempt                    *)
LEMMA Unused ==
  ASSUME Inv, NEW a \in Attempt, ~Referenced(a)
  PROVE  /\ a # None /\ \A k \in Key : a # ready[k] /\ a # inFlight[k]
         /\ \A c \in Caller : a # caller[c].attempt
         /\ \A k : ~Names(k, a) \/ k \notin Key
BY DEF Referenced, Names, Attempt, None

(* A request becomes the owner of its key, or of the key it nests in          *)
LEMMA ReserveOwnerKeeps ==
  ASSUME Inv, NEW c \in Caller, ReserveOwner(c)
  PROVE  Inv'
<1>1. PICK y : y = caller[c]
  OBVIOUS
<1>2. y \in CallState /\ Fits(c, y) /\ y.pc = "requested"
  BY <1>1, CallFits DEF ReserveOwner, Vacant, At
<1>3. /\ y.key \in Key /\ y.attempt = None /\ y.groups = {}
      /\ ready[y.key] = None /\ inFlight[y.key] = None
  BY <1>1, <1>2 DEF ReserveOwner, Vacant, Found, Joined, Fits, Requesting, Attempting, Presenting
<1>4. PICK a : a = Min({b \in Attempt : ~Referenced(b)})
  OBVIOUS
<1>5. a \in Attempt /\ ~Referenced(a)
  <2>1. {b \in Attempt : ~Referenced(b)} # {}
    BY DEF ReserveOwner
  <2>2. {b \in Attempt : ~Referenced(b)} \subseteq Nat
    BY DEF Attempt
  <2> QED BY <1>4, <2>1, <2>2, LeastIsMin
<1>6. /\ a # None /\ \A k \in Key : a # ready[k] /\ a # inFlight[k]
      /\ \A d \in Caller : a # caller[d].attempt
      /\ \A k \in Key : ~Names(k, a)
  BY <1>5, Unused
<1>7. /\ inFlight' = [inFlight EXCEPT ![y.key] = a]
      /\ outcome' = [outcome EXCEPT ![a] = "Pending"]
      /\ UNCHANGED <<handles, fault>>
  BY <1>1, <1>4 DEF ReserveOwner, Vacant
<1>8. PICK gone : gone = Collected(Home[y.key])
  OBVIOUS
<1>9. Gone(gone) /\ Drop(gone)
  <2>1. Gone({})
    BY DEF Gone
  <2>2. Gone(LookupOnly(Home[y.key]))
    BY LookupOnlyGone DEF Inv
  <2> QED BY <1>1, <1>8, <2>1, <2>2 DEF ReserveOwner, Vacant, Collected
<1>10. /\ ready' \in [Key -> Attempt \cup {None}] /\ base' \in [Attempt -> SUBSET Attempt]
       /\ \A k \in Key : ready'[k] \in {ready[k], None}
       /\ Authoritative'
  BY <1>7, <1>9, DropKeeps
<1>11. /\ inFlight' \in [Key -> Attempt \cup {None}] /\ inFlight'[y.key] = a
       /\ \A k \in Key : k # y.key => inFlight'[k] = inFlight[k]
       /\ outcome' \in [Attempt -> Outcome]
       /\ \A b \in Attempt : outcome'[b] \in {outcome[b], "Pending"}
       /\ outcome'[a] = "Pending"
       /\ \A k \in Key : inFlight'[k] = inFlight[k]
                        \/ (inFlight[k] = None /\ inFlight'[k] = a)
  BY <1>3, <1>5, <1>7 DEF Inv, TypeOK, Outcome
<1>12. ASSUME NEW d \in Caller PROVE Fits(d, caller[d])'  \/ d = c
  <2>1. PICK z : z = caller[d]
    OBVIOUS
  <2>2. Fits(d, z)'
    BY <1>6, <1>7, <1>9, <1>11, <2>1, FitsAfterDrop
  <2>3. CASE d # c
    <3>1. caller'[d] = z
      BY <2>1, <2>3 DEF ReserveOwner, Inv, TypeOK
    <3> QED BY <2>2, <3>1 DEF Fits, Requesting, Attempting
  <2> QED BY <2>3
<1>13. ASSUME NEW d \in Caller PROVE y.key \notin Owned(caller[d])
  <2>1. PICK z : z = caller[d]
    OBVIOUS
  <2>2. Fits(d, z)
    BY <2>1, CallFits
  <2>3. z.pc \in Owning => z.key # y.key
    BY <1>3, <2>2 DEF Fits, Attempting
  <2>4. z.outer # NoKey => z.outer # y.key
    BY <1>3, <2>2 DEF Fits, Requesting
  <2> QED BY <2>1, <2>3, <2>4 DEF Owned
<1>14. /\ Presenting(c, y.key)' /\ (y.outer # NoKey => Presenting(c, y.outer)')
       /\ y.outer # NoKey =>
            /\ y.outer \in Key /\ Nested[y.outer] = y.key
            /\ y.outerAttempt # None /\ inFlight[y.outer] = y.outerAttempt
  BY <1>2, <1>7 DEF Fits, Requesting, Presenting
<1>15. y.outer # NoKey => y.outer # y.key /\ Nested[y.key] = NoKey
                          /\ inFlight'[y.outer] = y.outerAttempt
  <2>1. SUFFICES ASSUME y.outer # NoKey
                 PROVE  y.outer # y.key /\ Nested[y.key] = NoKey
                        /\ inFlight'[y.outer] = y.outerAttempt
    OBVIOUS
  <2>2. Nested[y.outer] # NoKey
    BY <1>3, <1>14, <2>1, KeyAssumption
  <2>3. y.outer # y.key /\ Nested[y.key] = NoKey
    BY <1>14, <2>1, <2>2, NestedApart
  <2> QED BY <1>11, <1>14, <2>1, <2>3
<1>16. \E x \in CallState :
         /\ caller' = [caller EXCEPT ![c] = x]
         /\ x.pc # "idle" /\ Fits(c, x)'
         /\ Owned(x) \subseteq Owned(y) \cup {y.key}
         /\ x.attempt # None => x.attempt = a /\ x.key = y.key
  <2>1. CASE Nested[y.key] = NoKey
    <3>1. PICK x : x = [y EXCEPT !.pc = "creating", !.attempt = a]
      OBVIOUS
    <3>2. /\ x \in CallState /\ x.pc = "creating" /\ x.key = y.key /\ x.attempt = a
          /\ x.outer = y.outer /\ x.outerAttempt = y.outerAttempt /\ x.groups = {}
      BY <1>2, <1>3, <1>5, <3>1 DEF CallState
    <3>3. caller' = [caller EXCEPT ![c] = x]
      BY <1>1, <1>4, <2>1, <3>1 DEF ReserveOwner
    <3>4. Requesting(c, x)'
      BY <1>14, <1>15, <3>2 DEF Requesting, Waiting
    <3>5. Attempting(x)'
      BY <1>6, <1>11, <2>1, <3>2 DEF Attempting, Owning
    <3>6. Owned(x) \subseteq Owned(y) \cup {y.key}
      BY <3>2 DEF Owned
    <3> QED BY <3>2, <3>3, <3>4, <3>5, <3>6 DEF Fits
  <2>2. CASE Nested[y.key] # NoKey
    <3>1. PICK x : x = [y EXCEPT !.key = Nested[y.key], !.outer = y.key, !.outerAttempt = a]
      OBVIOUS
    <3>2. y.outer = NoKey /\ Nested[y.key] \in Key /\ Given[Nested[y.key]] = {}
      BY <1>3, <1>15, <2>2, NestedApart
    <3>3. /\ x \in CallState /\ x.pc = "requested" /\ x.key = Nested[y.key] /\ x.attempt = None
          /\ x.outer = y.key /\ x.outerAttempt = a /\ x.groups = {}
      BY <1>2, <1>3, <1>5, <3>1, <3>2 DEF CallState
    <3>4. caller' = [caller EXCEPT ![c] = x]
      BY <1>1, <1>4, <2>2, <3>1 DEF ReserveOwner
    <3>5. Presenting(c, x.key)'
      BY <3>2, <3>3 DEF Presenting
    <3>6. Requesting(c, x)'
      BY <1>6, <1>11, <1>14, <3>3, <3>5 DEF Requesting, Waiting
    <3>7. Attempting(x)'
      BY <3>3 DEF Attempting, Owning
    <3>8. Owned(x) \subseteq Owned(y) \cup {y.key}
      BY <3>3 DEF Owned, Owning
    <3> QED BY <3>3, <3>4, <3>6, <3>7, <3>8 DEF Fits
  <2> QED BY <2>1, <2>2
<1>17. PICK x \in CallState :
         /\ caller' = [caller EXCEPT ![c] = x]
         /\ x.pc # "idle" /\ Fits(c, x)'
         /\ Owned(x) \subseteq Owned(y) \cup {y.key}
         /\ x.attempt # None => x.attempt = a /\ x.key = y.key
  BY <1>16
<1>18. /\ caller \in [Caller -> CallState] /\ caller' \in [Caller -> CallState]
       /\ caller'[c] = x /\ \A d \in Caller : d # c => caller'[d] = caller[d]
  BY <1>17 DEF Inv, TypeOK
<1>19. TypeOK'
  <2>1. \A d \in Caller : At(d, "idle")' => caller'[d] = Idle
    BY <1>17, <1>18 DEF Inv, TypeOK, At
  <2> QED BY <1>7, <1>10, <1>11, <1>18, <2>1 DEF Inv, TypeOK, At, Idle, Outcome
<1>20. \A d \in Caller : Fits(d, caller[d])'
  <2>1. Fits(c, caller[c])'
    BY <1>17, <1>18 DEF Fits, Requesting, Attempting
  <2> QED BY <1>12, <2>1
<1>21. Distinct'
  <2>1. ASSUME NEW b \in Attempt, NEW k \in Key, Names(k, b)'
        PROVE  Names(k, b) \/ (b = a /\ k = y.key)
    <3>1. b # None
      BY DEF Attempt, None
    <3>2. ASSUME b \in {ready'[k], inFlight'[k]}
          PROVE  b \in {ready[k], inFlight[k]} \/ (b = a /\ k = y.key)
      BY <1>10, <1>11, <3>1, <3>2
    <3>3. ASSUME NEW d \in Caller, caller'[d].key = k, caller'[d].attempt = b
          PROVE  (caller[d].key = k /\ caller[d].attempt = b) \/ (b = a /\ k = y.key)
      BY <1>17, <1>18, <3>1, <3>3
    <3> QED BY <2>1, <3>2, <3>3 DEF Names
  <2>2. ASSUME NEW b \in Attempt, NEW k \in Key, NEW l \in Key, Names(k, b)', Names(l, b)'
        PROVE  k = l
    <3>1. CASE b = a
      BY <1>6, <2>1, <2>2, <3>1
    <3>2. CASE b # a
      BY <2>1, <2>2, <3>2 DEF Inv, Distinct
    <3> QED BY <3>1, <3>2
  <2>3. ASSUME NEW d \in Caller, NEW e \in Caller, d # e
        PROVE  Owned(caller'[d]) \cap Owned(caller'[e]) = {}
    <3>1. Owned(caller[d]) \cap Owned(caller[e]) = {}
      BY <2>3 DEF Inv, Distinct
    <3>2. /\ Owned(caller'[d]) \subseteq Owned(caller[d]) \cup (IF d = c THEN {y.key} ELSE {})
          /\ Owned(caller'[e]) \subseteq Owned(caller[e]) \cup (IF e = c THEN {y.key} ELSE {})
      BY <1>1, <1>17, <1>18
    <3>3. y.key \notin Owned(caller[d]) /\ y.key \notin Owned(caller[e])
      BY <1>13
    <3> QED BY <2>3, <3>1, <3>2, <3>3
  <2>4. ASSUME NEW k \in Key, inFlight'[k] # None
        PROVE  ready'[k] = None /\ outcome'[inFlight'[k]] = "Pending"
    <3>1. CASE k = y.key
      BY <1>3, <1>10, <1>11, <3>1
    <3>2. CASE k # y.key
      <4>1. inFlight'[k] = inFlight[k] /\ inFlight[k] \in Attempt
        BY <1>11, <2>4, <3>2 DEF Inv, TypeOK
      <4>2. ready[k] = None /\ outcome[inFlight[k]] = "Pending"
        BY <2>4, <4>1 DEF Inv, Distinct
      <4> QED BY <1>10, <1>11, <4>1, <4>2
    <3> QED BY <3>1, <3>2
  <2> QED BY <2>2, <2>3, <2>4 DEF Distinct
<1> QED BY <1>10, <1>19, <1>20, <1>21 DEF Inv

-----------------------------------------------------------------------------
(* The invariant *)

(* It holds at the start                                                     *)
LEMMA InvStarts == Init => Inv
<1> SUFFICES ASSUME Init PROVE Inv
  OBVIOUS
<1>1. TypeOK
  BY CallFields DEF Init, TypeOK, At
<1>2. Authoritative
  BY DEF Init, Authoritative, HandlesKnown, Grounded
<1>3. \A c \in Caller : caller[c] = Idle
  BY DEF Init
<1>4. Distinct
  <2>1. ASSUME NEW a \in Attempt, NEW k \in Key PROVE ~Names(k, a)
    BY <1>3, IdleFits DEF Init, Names, Attempt, None
  <2>2. \A c \in Caller : Owned(caller[c]) = {}
    BY <1>3, IdleFits
  <2> QED BY <2>1, <2>2 DEF Distinct, Init
<1> QED BY <1>1, <1>2, <1>3, <1>4, IdleFits DEF Inv

(* a call keeps it                                                           *)
LEMMA CallStepKeeps ==
  ASSUME Inv, NEW c \in Caller, CallStep(c)
  PROVE  Inv'
<1>1. CASE Recheck(c) \/ Unavailable(c)
  BY <1>1, AnswersKeep
<1>2. CASE ReserveReady(c) \/ ReserveWaiter(c)
  BY <1>2, ReservesKeep
<1>3. CASE ReserveOwner(c)
  BY <1>3, ReserveOwnerKeeps
<1>4. CASE ReserveFull(c)
  <2>1. PICK gone : gone = Collected(Home[caller[c].key])
    OBVIOUS
  <2>2. Gone(gone) /\ Drop(gone)
    <3>1. Gone({})
      BY DEF Gone
    <3>2. Gone(LookupOnly(Home[caller[c].key]))
      BY LookupOnlyGone DEF Inv
    <3> QED BY <1>4, <2>1, <3>1, <3>2 DEF ReserveFull, Vacant, Collected
  <2> QED BY <1>4, <2>2, RoomKeeps DEF ReserveFull, Vacant
<1>5. CASE Listen(c) \/ Park(c) \/ Wake(c)
  <2>1. PICK y : y = caller[c]
    OBVIOUS
  <2>2. y \in CallState /\ y.heard \in BOOLEAN
    BY <2>1, CallFits, CallFields
  <2>3. \A p \in Pc : [y EXCEPT !.pc = p] = [y EXCEPT !.pc = p, !.heard = y.heard]
    BY <2>2 DEF CallState
  <2>4. CASE Listen(c)
    <3>1. caller' = [caller EXCEPT ![c] = [caller[c] EXCEPT !.pc = "listening", !.heard = y.heard]]
      BY <2>1, <2>3, <2>4 DEF Listen, Goto, Pc
    <3> QED BY <2>2, <2>4, <3>1, WaitsKeep DEF Listen, At, Waiting
  <2>5. CASE Park(c)
    <3>1. caller' = [caller EXCEPT ![c] = [caller[c] EXCEPT !.pc = "asleep", !.heard = y.heard]]
      BY <2>1, <2>3, <2>5 DEF Park, Goto, Pc
    <3> QED BY <2>2, <2>5, <3>1, WaitsKeep DEF Park, At, Waiting
  <2>6. CASE Wake(c)
    <3>1. caller' = [caller EXCEPT ![c] = [caller[c] EXCEPT !.pc = "joined", !.heard = FALSE]]
      BY <2>6 DEF Wake
    <3> QED BY <2>6, <3>1, WaitsKeep DEF Wake, Waiting
  <2> QED BY <1>5, <2>4, <2>5, <2>6
<1>6. CASE Check(c)
  BY <1>6, CheckKeeps
<1>7. CASE \E ok \in BOOLEAN : Create(c, ok)
  BY <1>7, CreateKeeps
<1>8. CASE Conclude(c)
  BY <1>8, ConcludeKeeps
<1>9. CASE Announce(c)
  BY <1>9, AnnounceKeeps
<1>10. CASE Notify(c)
  BY <1>10, NotifyKeeps
<1>11. CASE Return(c)
  BY <1>11, ReturnKeeps
<1> QED BY <1>1, <1>2, <1>3, <1>4, <1>5, <1>6, <1>7, <1>8, <1>9, <1>10, <1>11 DEF CallStep

(* and every other step                                                      *)
LEMMA InvKept == Inv /\ [Next]_vars => Inv'
<1> SUFFICES ASSUME Inv, [Next]_vars PROVE Inv'
  OBVIOUS
<1>1. ASSUME NEW c \in Caller, CallStep(c) PROVE Inv'
  BY <1>1, CallStepKeeps
<1>2. ASSUME NEW c \in Caller, Cancel(c) PROVE Inv'
  BY <1>2, CancelKeeps
<1>3. ASSUME NEW c \in Caller, NEW k \in Key, Request(c, k) PROVE Inv'
  BY <1>3, RequestKeeps
<1>4. ASSUME NEW c \in Caller, NEW k \in Key, Release(c, k) PROVE Inv'
  BY <1>4, ReleaseKeeps
<1>5. CASE SweepBindGroups
  <2>1. PICK gone : gone = UNION {Collect(g, {}, BindGroups) : g \in Registry}
    OBVIOUS
  <2>2. Gone(gone) /\ Drop(gone)
    BY <1>5, <2>1, SweepGone DEF SweepBindGroups, Inv
  <2> QED BY <1>5, <2>2, RoomKeeps DEF SweepBindGroups
<1>6. CASE DeviceFault \/ UNCHANGED vars
  <2>1. UNCHANGED <<ready, inFlight, outcome, base, caller, handles>> /\ fault' \in BOOLEAN
    BY <1>6 DEF DeviceFault, vars, Inv, TypeOK
  <2>2. TypeOK'
    BY <2>1 DEF Inv, TypeOK, At, Idle
  <2>3. Authoritative'
    BY <2>1 DEF Inv, Authoritative, HandlesKnown
  <2>4. Distinct'
    BY <2>1 DEF Inv, Distinct, Names
  <2>5. \A c \in Caller : Fits(c, caller[c])'
    BY <2>1 DEF Inv, Fits, Requesting, Attempting, Presenting, BuiltOnReady
  <2> QED BY <2>2, <2>3, <2>4, <2>5 DEF Inv
<1> QED BY <1>1, <1>2, <1>3, <1>4, <1>5, <1>6 DEF Next

(* One key has one record and one attempt, an attempt one owner, and every     *)
(* call fits what the lookup knows (Reservation and InFlight in both           *)
(* registries): equal requests are created once at a time.                    *)
THEOREM Invariance == Spec => []Inv
BY InvStarts, InvKept, PTL DEF Spec

-----------------------------------------------------------------------------
(* One pass is complete *)

(* A record retains others while its owner concludes and from then on, in the  *)
(* lookup; no request is refused before it returns                            *)
Retaining ==
  /\ \A q \in Attempt : base[q] # {} =>
       \/ \E k \in Key : ready[k] = q
       \/ \E c \in Caller : /\ caller[c].pc = "concluding" /\ caller[c].result = "Ready"
                           /\ caller[c].attempt = q
  /\ \A c \in Caller : caller[c].result = "Full" => caller[c].pc = "returning"

(* Most steps move a call that does not conclude                              *)
LEMMA RetainingRests ==
  ASSUME Inv, Retaining, UNCHANGED <<ready, base>>,
         \A c \in Caller :
           /\ caller[c].pc = "concluding" =>
                caller'[c].pc = "concluding" /\ caller'[c].result = caller[c].result
                /\ caller'[c].attempt = caller[c].attempt
           /\ caller'[c].result = "Full" => caller'[c].pc = "returning"
  PROVE  Retaining'
BY DEF Retaining

(* The record an owner concludes retains what it was built on                  *)
LEMMA CreateRetains ==
  ASSUME Inv, Retaining, NEW c \in Caller, NEW ok \in BOOLEAN, Create(c, ok)
  PROVE  Retaining'
<1>1. PICK y : y = caller[c]
  OBVIOUS
<1>2. y \in CallState /\ y.pc = "creating" /\ y.attempt \in Attempt
  BY <1>1, CallFits, OwnerAlone DEF Create, At, Owning
<1>3. PICK x : x = [y EXCEPT !.pc = "concluding", !.groups = {},
                            !.result = IF ok THEN "Ready" ELSE "Failed"]
  OBVIOUS
<1>4. /\ x.pc = "concluding" /\ x.attempt = y.attempt
      /\ x.result = IF ok THEN "Ready" ELSE "Failed"
  BY <1>2, <1>3 DEF CallState
<1>5. caller' = [caller EXCEPT ![c] = x]
  BY <1>1, <1>3 DEF Create
<1>6. caller'[c] = x /\ \A d \in Caller : d # c => caller'[d] = caller[d]
  BY <1>5 DEF Inv, TypeOK
<1>7. \A q \in Attempt : base'[q] = base[q] \/ (ok /\ q = y.attempt)
  BY <1>1, <1>2 DEF Create, Inv, TypeOK
<1>8. ready' = ready
  BY DEF Create
<1> QED BY <1>1, <1>2, <1>4, <1>6, <1>7, <1>8 DEF Retaining

(* and it does when it is in the lookup                                       *)
LEMMA ConcludeRetains ==
  ASSUME Inv, Retaining, NEW c \in Caller, Conclude(c)
  PROVE  Retaining'
<1>1. PICK y : y = caller[c]
  OBVIOUS
<1>2. /\ y \in CallState /\ y.pc = "concluding" /\ y.key \in Key /\ y.attempt \in Attempt
      /\ inFlight[y.key] = y.attempt /\ ready[y.key] = None
  BY <1>1, CallFits, OwnerAlone DEF Conclude, At, Owning
<1>3. PICK x : x = [y EXCEPT !.pc = "announcing"]
  OBVIOUS
<1>4. x.pc = "announcing" /\ x.result = y.result
  BY <1>2, <1>3 DEF CallState
<1>5. caller' = [caller EXCEPT ![c] = x]
  BY <1>1, <1>3 DEF Conclude, Goto
<1>6. caller'[c] = x /\ \A d \in Caller : d # c => caller'[d] = caller[d]
  BY <1>5 DEF Inv, TypeOK
<1>7. ready' = IF y.result = "Ready" THEN [ready EXCEPT ![y.key] = y.attempt] ELSE ready
  BY <1>1, <1>2 DEF Conclude
<1>8. /\ \A k \in Key : k # y.key => ready'[k] = ready[k]
      /\ y.result = "Ready" => ready'[y.key] = y.attempt
  BY <1>2, <1>7 DEF Inv, TypeOK
<1>9. ASSUME NEW q \in Attempt, base[q] # {}
      PROVE  \/ \E k \in Key : ready'[k] = q
             \/ \E d \in Caller : /\ caller'[d].pc = "concluding" /\ caller'[d].result = "Ready"
                                 /\ caller'[d].attempt = q
  <2>1. CASE \E k \in Key : ready[k] = q
    <3>1. PICK k \in Key : ready[k] = q
      BY <2>1
    <3>2. k # y.key
      BY <1>2, <3>1 DEF Attempt, None
    <3> QED BY <1>8, <3>1, <3>2
  <2>2. CASE \E d \in Caller : /\ caller[d].pc = "concluding" /\ caller[d].result = "Ready"
                              /\ caller[d].attempt = q
    <3>1. PICK d \in Caller : /\ caller[d].pc = "concluding" /\ caller[d].result = "Ready"
                              /\ caller[d].attempt = q
      BY <2>2
    <3>2. CASE d = c
      BY <1>1, <1>2, <1>8, <3>1, <3>2
    <3>3. CASE d # c
      BY <1>6, <3>1, <3>3
    <3> QED BY <3>2, <3>3
  <2> QED BY <1>9, <2>1, <2>2 DEF Retaining
<1>10. base' = base
  BY DEF Conclude
<1>11. \A d \in Caller : caller'[d].result = "Full" => caller'[d].pc = "returning"
  BY <1>1, <1>2, <1>4, <1>6 DEF Retaining
<1> QED BY <1>9, <1>10, <1>11 DEF Retaining

(* Records that go retain nothing                                            *)
LEMMA DropRetains ==
  ASSUME Inv, Retaining, NEW gone, Drop(gone),
         \A c \in Caller :
           /\ caller[c].pc = "concluding" => caller'[c] = caller[c]
           /\ caller'[c].result = "Full" => caller'[c].pc = "returning"
  PROVE  Retaining'
<1>1. ASSUME NEW q \in Attempt, base'[q] # {}
      PROVE  q \notin gone /\ base[q] # {}
  BY <1>1 DEF Drop
<1>2. \A k \in Key : ready[k] \notin gone => ready'[k] = ready[k]
  BY DEF Drop
<1> QED BY <1>1, <1>2 DEF Retaining

(* It is kept throughout                                                     *)
LEMMA RetainingKept == Inv /\ Retaining /\ [Next]_vars => Retaining'
<1> SUFFICES ASSUME Inv, Retaining, [Next]_vars PROVE Retaining'
  OBVIOUS
<1>1. ASSUME NEW c \in Caller, CallStep(c) \/ Cancel(c) PROVE Retaining'
  <2>1. PICK y : y = caller[c]
    OBVIOUS
  <2>2. /\ y \in CallState /\ (y.result = "Full" => y.pc = "returning")
        /\ Fits(c, y) /\ caller \in [Caller -> CallState]
    BY <2>1, CallFits DEF Retaining, Inv, TypeOK
  <2>3. ASSUME NEW x, caller' = [caller EXCEPT ![c] = x], UNCHANGED <<ready, base>>,
               y.pc # "concluding", x.result = "Full" => x.pc = "returning"
        PROVE  Retaining'
    <3>1. caller'[c] = x /\ \A d \in Caller : d # c => caller'[d] = caller[d]
      BY <2>2, <2>3
    <3> QED BY <2>1, <2>3, <3>1, RetainingRests DEF Retaining
  <2>4. ASSUME NEW z \in CallState
        PROVE  Unnest(z).result # "Full"
    BY DEF Unnest, Idle
  <2>5. CASE Recheck(c) \/ Unavailable(c)
    <3>1. y.pc \in {"checking", "requested"}
      BY <2>1, <2>5 DEF Recheck, Unavailable, At
    <3>2. \/ caller' = [caller EXCEPT ![c] = [y EXCEPT !.pc = "requested"]]
          \/ caller' = [caller EXCEPT ![c] = [y EXCEPT !.pc = "returning", !.result = "Failed"]]
      BY <2>1, <2>5 DEF Recheck, Unavailable
    <3>3. /\ [y EXCEPT !.pc = "requested"].result = y.result
          /\ [y EXCEPT !.pc = "returning", !.result = "Failed"].result = "Failed"
      BY <2>2 DEF CallState
    <3> QED BY <2>2, <2>3, <2>5, <3>1, <3>2, <3>3 DEF Recheck, Unavailable
  <2>6. CASE ReserveReady(c) \/ ReserveWaiter(c)
    <3>1. y.pc = "requested"
      BY <2>1, <2>6 DEF ReserveReady, ReserveWaiter, At
    <3>2. \/ caller' = [caller EXCEPT ![c] = [y EXCEPT !.pc = "returning", !.attempt = Found(c),
                                                     !.result = "Ready"]]
          \/ caller' = [caller EXCEPT ![c] = [y EXCEPT !.pc = "joined", !.attempt = Joined(c)]]
      BY <2>1, <2>6 DEF ReserveReady, ReserveWaiter
    <3>3. /\ [y EXCEPT !.pc = "returning", !.attempt = Found(c), !.result = "Ready"].result = "Ready"
          /\ [y EXCEPT !.pc = "joined", !.attempt = Joined(c)].result = y.result
      BY <2>2 DEF CallState
    <3> QED BY <2>2, <2>3, <2>6, <3>1, <3>2, <3>3 DEF ReserveReady, ReserveWaiter
  <2>7. CASE ReserveOwner(c) \/ ReserveFull(c)
    <3>1. y.pc = "requested" /\ y.result # "Full"
      BY <2>1, <2>2, <2>7 DEF ReserveOwner, ReserveFull, Vacant, At
    <3>2. PICK gone : Drop(gone)
      BY <2>7 DEF ReserveOwner, ReserveFull, Vacant
    <3>3. PICK a : a = Min({b \in Attempt : ~Referenced(b)})
      OBVIOUS
    <3>4. \E x : /\ caller' = [caller EXCEPT ![c] = x]
                 /\ x.result = "Full" => x.pc = "returning"
      <4>1. CASE ReserveFull(c)
        <5>1. caller' = [caller EXCEPT ![c] = [y EXCEPT !.pc = "returning", !.result = "Full"]]
          BY <2>1, <4>1 DEF ReserveFull
        <5>2. [y EXCEPT !.pc = "returning", !.result = "Full"].pc = "returning"
          BY <2>2 DEF CallState
        <5> QED BY <5>1, <5>2
      <4>2. CASE ReserveOwner(c) /\ Nested[y.key] = NoKey
        <5>1. caller' = [caller EXCEPT ![c] = [y EXCEPT !.pc = "creating", !.attempt = a]]
          BY <2>1, <3>3, <4>2 DEF ReserveOwner
        <5>2. [y EXCEPT !.pc = "creating", !.attempt = a].result = y.result
          BY <2>2 DEF CallState
        <5> QED BY <3>1, <5>1, <5>2
      <4>3. CASE ReserveOwner(c) /\ Nested[y.key] # NoKey
        <5>1. caller' = [caller EXCEPT ![c] =
                 [y EXCEPT !.key = Nested[y.key], !.outer = y.key, !.outerAttempt = a]]
          BY <2>1, <3>3, <4>3 DEF ReserveOwner
        <5>2. [y EXCEPT !.key = Nested[y.key], !.outer = y.key, !.outerAttempt = a].result = y.result
          BY <2>2 DEF CallState
        <5> QED BY <3>1, <5>1, <5>2
      <4> QED BY <2>7, <4>1, <4>2, <4>3
    <3>5. PICK x : /\ caller' = [caller EXCEPT ![c] = x]
                   /\ x.result = "Full" => x.pc = "returning"
      BY <3>4
    <3>6. caller'[c] = x /\ \A d \in Caller : d # c => caller'[d] = caller[d]
      BY <2>2, <3>5
    <3> QED BY <2>1, <3>1, <3>2, <3>5, <3>6, DropRetains DEF Retaining
  <2>8. CASE Listen(c) \/ Park(c) \/ Wake(c)
    <3>1. y.pc \in {"joined", "waiting", "asleep"}
      BY <2>1, <2>8 DEF Listen, Park, Wake, At
    <3>2. \/ caller' = [caller EXCEPT ![c] = [y EXCEPT !.pc = "listening"]]
          \/ caller' = [caller EXCEPT ![c] = [y EXCEPT !.pc = "asleep"]]
          \/ caller' = [caller EXCEPT ![c] = [y EXCEPT !.pc = "joined", !.heard = FALSE]]
      BY <2>1, <2>8 DEF Listen, Park, Wake, Goto
    <3>3. /\ [y EXCEPT !.pc = "listening"].result = y.result
          /\ [y EXCEPT !.pc = "asleep"].result = y.result
          /\ [y EXCEPT !.pc = "joined", !.heard = FALSE].result = y.result
      BY <2>2 DEF CallState
    <3> QED BY <2>2, <2>3, <2>8, <3>1, <3>2, <3>3 DEF Listen, Park, Wake
  <2>9. CASE Check(c)
    <3>1. y.pc = "listening" /\ UNCHANGED <<ready, base>>
      BY <2>1, <2>9 DEF Check, At
    <3>2. outcome[y.attempt] \in {"Pending", "Ready", "Failed", "Abandoned"}
      BY <2>2, <3>1, CallFields DEF Fits, Requesting, Waiting, Inv, TypeOK
    <3>3. \/ caller' = [caller EXCEPT ![c] = [y EXCEPT !.pc = "waiting"]]
          \/ caller' = [caller EXCEPT ![c] =
               [y EXCEPT !.pc = "returning", !.result = "Ready", !.heard = FALSE]]
          \/ caller' = [caller EXCEPT ![c] =
               [y EXCEPT !.pc = "returning", !.result = "Failed", !.attempt = None, !.heard = FALSE]]
          \/ caller' = [caller EXCEPT ![c] =
               [y EXCEPT !.pc = "requested", !.attempt = None, !.heard = FALSE]]
      BY <2>1, <2>9, <3>2 DEF Check, Goto, Resolve
    <3>4. /\ [y EXCEPT !.pc = "waiting"].result = y.result
          /\ [y EXCEPT !.pc = "returning", !.result = "Ready", !.heard = FALSE].result = "Ready"
          /\ [y EXCEPT !.pc = "returning", !.result = "Failed", !.attempt = None,
                       !.heard = FALSE].result = "Failed"
          /\ [y EXCEPT !.pc = "requested", !.attempt = None, !.heard = FALSE].result = y.result
      BY <2>2 DEF CallState
    <3> QED BY <2>2, <2>3, <3>1, <3>3, <3>4
  <2>10. CASE \E ok \in BOOLEAN : Create(c, ok)
    BY <2>10, CreateRetains
  <2>11. CASE Conclude(c)
    BY <2>11, ConcludeRetains
  <2>12. CASE Announce(c)
    <3>1. caller' = [caller EXCEPT ![c] = [y EXCEPT !.pc = "notifying"]] /\ y.pc = "announcing"
      BY <2>1, <2>12 DEF Announce, Goto, At
    <3>2. [y EXCEPT !.pc = "notifying"].result = y.result
      BY <2>2 DEF CallState
    <3> QED BY <2>2, <2>3, <2>12, <3>1, <3>2 DEF Announce
  <2>13. CASE Notify(c)
    <3>1. ASSUME NEW d \in Caller
          PROVE  /\ caller[d].pc = "concluding" =>
                      caller'[d].pc = "concluding" /\ caller'[d].result = caller[d].result
                      /\ caller'[d].attempt = caller[d].attempt
                 /\ caller'[d].result = "Full" => caller'[d].pc = "returning"
      BY <2>2, <2>13 DEF Notify, At, Listens, Retaining, CallState
    <3> QED BY <2>13, <3>1, RetainingRests DEF Notify
  <2>14. CASE Return(c)
    <3>1. y.pc = "returning"
      BY <2>1, <2>14 DEF Return, At
    <3>2. \/ caller' = [caller EXCEPT ![c] = Unnest(y)]
          \/ caller' = [caller EXCEPT ![c] = Idle]
      BY <2>1, <2>14 DEF Return
    <3>3. Idle.result = "None"
      BY DEF Idle
    <3> QED BY <2>2, <2>3, <2>4, <2>14, <3>1, <3>2, <3>3 DEF Return
  <2>15. CASE Cancel(c)
    <3>1. y.pc \in {"asleep", "creating"}
      BY <2>1, <2>15 DEF Cancel
    <3>2. \/ caller' = [caller EXCEPT ![c] =
               [y EXCEPT !.pc = "concluding", !.result = "Abandoned", !.groups = {}]]
          \/ caller' = [caller EXCEPT ![c] = Unnest([y EXCEPT !.result = "Abandoned"])]
          \/ caller' = [caller EXCEPT ![c] = Idle]
      BY <2>1, <2>15, <3>1 DEF Cancel
    <3>3. /\ Idle.result = "None"
          /\ [y EXCEPT !.pc = "concluding", !.result = "Abandoned", !.groups = {}].result = "Abandoned"
          /\ [y EXCEPT !.result = "Abandoned"] \in CallState
      BY <2>2 DEF Idle, CallState
    <3> QED BY <2>2, <2>3, <2>4, <2>15, <3>1, <3>2, <3>3 DEF Cancel
  <2> QED BY <1>1, <2>5, <2>6, <2>7, <2>8, <2>9, <2>10, <2>11, <2>12, <2>13, <2>14, <2>15
          DEF CallStep
<1>2. ASSUME NEW c \in Caller, NEW k \in Key, Request(c, k) PROVE Retaining'
  <2>1. PICK x : x = [Idle EXCEPT !.key = k,
                        !.pc = IF k \in Rechecked THEN "checking" ELSE "requested"]
    OBVIOUS
  <2>2. x.result = "None" /\ caller' = [caller EXCEPT ![c] = x] /\ caller[c].pc = "idle"
    BY <1>2, <2>1 DEF Request, Idle, At
  <2>3. caller'[c] = x /\ \A d \in Caller : d # c => caller'[d] = caller[d]
    BY <2>2 DEF Inv, TypeOK
  <2>4. ASSUME NEW d \in Caller
        PROVE  /\ caller[d].pc = "concluding" =>
                    caller'[d].pc = "concluding" /\ caller'[d].result = caller[d].result
                    /\ caller'[d].attempt = caller[d].attempt
               /\ caller'[d].result = "Full" => caller'[d].pc = "returning"
    <3>1. CASE d = c
      BY <2>2, <2>3, <3>1
    <3>2. CASE d # c
      BY <2>3, <3>2 DEF Retaining
    <3> QED BY <3>1, <3>2
  <2>5. UNCHANGED <<ready, base>>
    BY <1>2 DEF Request
  <2> QED BY <2>4, <2>5, RetainingRests
<1>3. ASSUME NEW c \in Caller, NEW k \in Key, Release(c, k) PROVE Retaining'
  BY <1>3, RetainingRests DEF Release, Retaining
<1>4. CASE SweepBindGroups
  BY <1>4, DropRetains DEF SweepBindGroups, Retaining
<1>5. CASE DeviceFault \/ UNCHANGED vars
  BY <1>5, RetainingRests DEF DeviceFault, vars, Retaining
<1> QED BY <1>1, <1>2, <1>3, <1>4, <1>5 DEF Next

(* The pass goes over the families one by one, and takes back nothing         *)
Stages(g, s) ==
  /\ s[0] = {} /\ s[Len(Families)] = LookupOnly(g)
  /\ \A i \in 1 .. Len(Families) : s[i] = Collect(g, s[i - 1], Families[i])
  /\ \A i, j \in 0 .. Len(Families) : i <= j => s[i] \subseteq s[j]

(* so every pass has its stages                                              *)
LEMMA StagesExist ==
  ASSUME TypeOK, NEW g
  PROVE  \E s : Stages(g, s)
<1>1. PICK f : f = CHOOSE h : Passes(g, h)
  OBVIOUS
<1>2. Passes(g, f)
  BY <1>1, PassExists
<1>3. LookupOnly(g) = f[DOMAIN Families]
  BY <1>1 DEF LookupOnly, FoldLeft, MapThenFoldSet, Passes
<1>4. PICK n \in Nat : n = Len(Families) /\ DOMAIN Families = 1 .. n
  BY KeyAssumption
<1>5. PICK s : s = [i \in 0 .. n |-> f[1 .. i]]
  OBVIOUS
<1>6. s[0] = {} /\ s[n] = LookupOnly(g)
  <2>1. f[{}] = {}
    BY <1>2, Zenon DEF Passes
  <2>2. 1 .. 0 = {}
    OBVIOUS
  <2> QED BY <1>3, <1>4, <1>5, <2>1, <2>2
<1>7. ASSUME NEW i \in 1 .. n PROVE s[i] = Collect(g, s[i - 1], Families[i])
  <2>1. Max(1 .. i) = i
    <3>1. i \in 1 .. i /\ \A j \in 1 .. i : i >= j
      OBVIOUS
    <3>2. 1 .. i \in SUBSET Nat /\ 1 .. i # {}
      OBVIOUS
    <3>3. IsFiniteSet(1 .. i)
      BY FS_Interval
    <3>4. Max(1 .. i) \in 1 .. i /\ \A j \in 1 .. i : Max(1 .. i) >= j
      BY <3>2, <3>3, GreatestIsMax
    <3> QED BY <3>1, <3>4
  <2>2. (1 .. i) \ {i} = 1 .. (i - 1) /\ 1 .. i # {} /\ 1 .. i \in SUBSET (1 .. n)
    OBVIOUS
  <2>3. f[1 .. i] = Collect(g, f[(1 .. i) \ {Max(1 .. i)}], Families[Max(1 .. i)])
    BY <1>2, <1>4, <2>2, Zenon DEF Passes
  <2>4. s[i] = f[1 .. i] /\ s[i - 1] = f[1 .. (i - 1)]
    BY <1>5
  <2> QED BY <2>1, <2>2, <2>3, <2>4
<1>8. ASSUME NEW i \in 0 .. n, NEW j \in 0 .. n, i <= j PROVE s[i] \subseteq s[j]
  <2>1. PICK P : P = {k \in Nat : i + k \in 0 .. n => s[i] \subseteq s[i + k]}
    OBVIOUS
  <2>2. 0 \in P
    BY <2>1
  <2>3. ASSUME NEW k \in Nat, k \in P PROVE k + 1 \in P
    <3>1. SUFFICES ASSUME i + (k + 1) \in 0 .. n PROVE s[i] \subseteq s[i + (k + 1)]
      BY <2>1
    <3>2. PICK m : m = i + (k + 1) /\ m \in 1 .. n /\ m - 1 = i + k /\ m - 1 \in 0 .. n
      <4>1. /\ i + (k + 1) \in 1 .. n /\ (i + (k + 1)) - 1 = i + k
            /\ (i + (k + 1)) - 1 \in 0 .. n
        BY <1>4, <1>8, <2>3, <3>1
      <4> QED BY <4>1
    <3>3. s[i] \subseteq s[m - 1]
      BY <2>1, <2>3, <3>2
    <3>4. s[m - 1] \subseteq s[m]
      BY <1>7, <3>2 DEF Collect
    <3> QED BY <3>2, <3>3, <3>4
  <2>4. \A k \in Nat : k \in P
    BY <2>2, <2>3, NumberInduction
  <2>5. j - i \in Nat /\ i + (j - i) = j
    BY <1>4, <1>8
  <2> QED BY <2>1, <2>4, <2>5
<1> QED BY <1>4, <1>6, <1>7, <1>8 DEF Stages

(* What callers hold, and what other registries have, are roots                *)
LEMMA RootsHold ==
  ASSUME NEW g
  PROVE  /\ \A c \in Caller :
              /\ HandlesOf(c) \subseteq Roots(g) /\ caller[c].groups \subseteq Roots(g)
              /\ caller[c].attempt \in Roots(g)
         /\ \A k \in Key : Home[k] # g => ready[k] \in Roots(g)
<1>1. ASSUME NEW c \in Caller
      PROVE  HandlesOf(c) \cup caller[c].groups \cup {caller[c].attempt} \subseteq Roots(g)
  <2>1. HandlesOf(c) \cup caller[c].groups \cup {caller[c].attempt} \subseteq OfCallers
    BY Zenon DEF OfCallers
  <2> QED BY <2>1 DEF Roots
<1>2. ASSUME NEW k \in Key, Home[k] # g PROVE ready[k] \in Roots(g)
  <2>1. ready[k] \in Elsewhere(g)
    BY <1>2 DEF Elsewhere
  <2> QED BY <2>1 DEF Roots
<1> QED BY <1>1, <1>2

(* A record of registry g that its family's turn left in the lookup            *)
Left(g, s, k, i) ==
  /\ k \in Key /\ Home[k] = g /\ i \in 1 .. Len(Families) /\ k \in Families[i]
  /\ ready[k] # None /\ ready[k] \notin s[i]

(* It is a root, retained by one, or retained by another such record           *)
LEMMA LeftRetained ==
  ASSUME Inv, Retaining, NEW g, NEW s, Stages(g, s), NEW k, NEW i, Left(g, s, k, i)
  PROVE  \/ ready[k] \in Below(Roots(g))
         \/ \E l, j : Left(g, s, l, j) /\ Retains(l, k) /\ ready[k] \in base[ready[l]]
<1>1. PICK r : r = ready[k]
  OBVIOUS
<1>2. r \in Attempt /\ r # None /\ i \in 1 .. Len(Families) /\ i \in Nat /\ Len(Families) \in Nat
  BY <1>1, KeyAssumption DEF Left, Inv, TypeOK
<1>3. Retained(r, s[i - 1])
  BY <1>1, <1>2 DEF Left, Stages, Collect
<1>4. CASE \E c \in Caller : \/ r \in HandlesOf(c) \cup caller[c].groups
                            \/ caller[c].attempt = r
  BY <1>1, <1>4, RootsHold DEF Below
<1>5. CASE \E q \in Attempt \ s[i - 1] : r \in base[q]
  <2>1. PICK q \in Attempt \ s[i - 1] : r \in base[q]
    BY <1>5
  <2>2. CASE q \in Roots(g)
    <3>1. q # None
      BY DEF Attempt, None
    <3> QED BY <1>1, <2>1, <2>2, <3>1 DEF Below
  <2>3. CASE q \notin Roots(g)
    <3>1. \A c \in Caller : caller[c].attempt # q
      BY <2>3, RootsHold
    <3>2. PICK l \in Key : ready[l] = q
      BY <2>1, <3>1 DEF Retaining
    <3>3. Home[l] = g
      BY <2>3, <3>2, RootsHold
    <3>4. q # None
      BY DEF Attempt, None
    <3>5. BuiltOn(ready, base, q, l)
      BY <3>2, <3>4 DEF Inv, Authoritative, Grounded
    <3>6. PICK d \in Deps(l) : r = ready[d]
      BY <2>1, <3>5 DEF BuiltOn
    <3>7. d \in Key /\ d = k
      <4>1. d \in Key
        BY <3>6, DepsAreKeys
      <4>2. Names(d, r) /\ Names(k, r)
        BY <1>1, <3>6 DEF Names
      <4> QED BY <1>2, <4>1, <4>2 DEF Inv, Distinct, Left
    <3>8. Retains(l, k)
      BY <3>6, <3>7 DEF Deps, Retains
    <3>9. DOMAIN Families = 1 .. Len(Families)
      BY KeyAssumption
    <3>10. PICK j \in 1 .. i - 1 : l \in Families[j]
      BY <1>2, <3>3, <3>8, <3>9, FamilyAssumption DEF Left
    <3>11. j \in 1 .. Len(Families) /\ s[j] \subseteq s[i - 1]
      <4>1. /\ j \in 0 .. Len(Families) /\ i - 1 \in 0 .. Len(Families) /\ j <= i - 1
            /\ j \in 1 .. Len(Families)
        BY <1>2
      <4> QED BY <4>1 DEF Stages
    <3>12. Left(g, s, l, j)
      BY <2>1, <3>2, <3>3, <3>4, <3>10, <3>11 DEF Left
    <3> QED BY <1>1, <2>1, <3>2, <3>8, <3>12
  <2> QED BY <2>2, <2>3
<1> QED BY <1>3, <1>4, <1>5 DEF Retained

(* Looking down from more finds more, and what a record found retains          *)
LEMMA BelowGrows ==
  ASSUME NEW X
  PROVE  /\ X \subseteq Below(X)
         /\ \A q \in X : q # None => base[q] \subseteq Below(X)
BY DEF Below

(* Whatever a pass leaves in its registry is alive                            *)
LEMMA PassIsComplete ==
  ASSUME Inv, Retaining, NEW g, NEW k \in Key, Home[k] = g, ready[k] # None,
         ready[k] \notin LookupOnly(g)
  PROVE  ready[k] \in Live(g)
<1>1. PICK s : Stages(g, s)
  BY StagesExist DEF Inv
<1>2. PICK rank \in [Key -> 0 .. 2] : \A l, d \in Key : Retains(l, d) => rank[d] < rank[l]
  BY FamilyAssumption
<1>3. PICK i \in 1 .. Len(Families) : k \in Families[i]
  BY KeyAssumption
<1>4. Left(g, s, k, i)
  <2>1. i \in 0 .. Len(Families) /\ Len(Families) \in 0 .. Len(Families) /\ i <= Len(Families)
    BY KeyAssumption
  <2> QED BY <1>1, <1>3, <2>1 DEF Left, Stages
<1>5. PICK one : one = Below(Roots(g))
  OBVIOUS
<1>6. PICK two : two = Below(one)
  OBVIOUS
<1>7. PICK three : three = Below(two)
  OBVIOUS
<1>8. /\ one \subseteq two /\ two \subseteq three
      /\ \A q \in one : q # None => base[q] \subseteq two
      /\ \A q \in two : q # None => base[q] \subseteq three
  BY <1>6, <1>7, BelowGrows
<1>9. ASSUME NEW l, NEW j, Left(g, s, l, j)
      PROVE  \/ ready[l] \in one
             \/ \E m, n : /\ Left(g, s, m, n) /\ ready[l] \in base[ready[m]]
                         /\ l \in Key /\ m \in Key /\ rank[l] < rank[m] /\ ready[m] # None
  BY <1>1, <1>2, <1>5, <1>9, LeftRetained DEF Left
<1>10. ASSUME NEW l, NEW j, Left(g, s, l, j), rank[l] = 2
       PROVE  ready[l] \in one
  BY <1>2, <1>9, <1>10
<1>11. ASSUME NEW l, NEW j, Left(g, s, l, j), rank[l] = 1
       PROVE  ready[l] \in two
  <2>1. CASE ready[l] \in one
    BY <1>8, <2>1
  <2>2. CASE ready[l] \notin one
    <3>1. PICK m, n : /\ Left(g, s, m, n) /\ ready[l] \in base[ready[m]]
                      /\ l \in Key /\ m \in Key /\ rank[l] < rank[m] /\ ready[m] # None
      BY <1>9, <1>11, <2>2
    <3>2. rank[m] = 2
      BY <1>2, <1>11, <3>1
    <3> QED BY <1>8, <1>10, <3>1, <3>2
  <2> QED BY <2>1, <2>2
<1>12. ready[k] \in three
  <2>1. CASE ready[k] \in one
    BY <1>8, <2>1
  <2>2. CASE ready[k] \notin one
    <3>1. PICK m, n : /\ Left(g, s, m, n) /\ ready[k] \in base[ready[m]]
                      /\ m \in Key /\ rank[k] < rank[m] /\ ready[m] # None
      BY <1>4, <1>9, <2>2
    <3>2. rank[m] \in {1, 2}
      BY <1>2, <3>1
    <3>3. ready[m] \in two
      BY <1>8, <1>10, <1>11, <3>1, <3>2
    <3> QED BY <1>8, <3>1, <3>3
  <2> QED BY <2>1, <2>2
<1> QED BY <1>5, <1>6, <1>7, <1>12 DEF Live

(* A step moves one call; others may at most hear something                   *)
LEMMA OthersRest ==
  ASSUME Inv, NEW c \in Caller, NEW d \in Caller, d # c, CallStep(d) \/ Cancel(d)
  PROVE  \/ caller'[c] = caller[c]
         \/ Notify(d) /\ Listens(c)
<1>1. caller \in [Caller -> CallState]
  BY DEF Inv, TypeOK
<1>2. ASSUME NEW x, caller' = [caller EXCEPT ![d] = x] PROVE caller'[c] = caller[c]
  BY <1>1, <1>2
<1>3. CASE Recheck(d) \/ Unavailable(d) \/ ReserveReady(d) \/ ReserveWaiter(d)
  BY <1>2, <1>3 DEF Recheck, Unavailable, ReserveReady, ReserveWaiter
<1>4. CASE ReserveOwner(d) \/ ReserveFull(d)
  BY <1>2, <1>4 DEF ReserveOwner, ReserveFull
<1>5. CASE Listen(d) \/ Check(d) \/ Park(d) \/ Wake(d)
  BY <1>2, <1>5 DEF Listen, Check, Park, Wake, Goto, Resolve
<1>6. CASE (\E ok \in BOOLEAN : Create(d, ok)) \/ Conclude(d) \/ Announce(d)
  BY <1>2, <1>6 DEF Create, Conclude, Announce, Goto
<1>7. CASE Notify(d)
  BY <1>7 DEF Notify
<1>8. CASE Return(d)
  BY <1>2, <1>8 DEF Return
<1>9. CASE Cancel(d)
  BY <1>2, <1>9 DEF Cancel
<1> QED BY <1>3, <1>4, <1>5, <1>6, <1>7, <1>8, <1>9 DEF CallStep

(* A lookup has one record for a key, so it can be counted                    *)
LEMMA TotalIsNumber ==
  ASSUME Inv, NEW g
  PROVE  Total(g) \in Nat
<1>1. IsFiniteSet(Attempt)
  BY KeyAssumption, FS_Interval DEF Attempt
<1>2. PICK A : A = {k \in Key : Home[k] = g /\ ready[k] # None}
  OBVIOUS
<1>3. PICK B : B = {k \in Key : Home[k] = g /\ inFlight[k] # None}
  OBVIOUS
<1>4. IsFiniteSet(A)
  <2>1. PICK f : f = [k \in A |-> ready[k]]
    OBVIOUS
  <2>2. f \in [A -> Attempt]
    BY <1>2, <2>1 DEF Inv, TypeOK
  <2>3. ASSUME NEW k \in A, NEW l \in A, f[k] = f[l] PROVE k = l
    <3>1. Names(k, f[k]) /\ Names(l, f[k]) /\ f[k] \in Attempt
      BY <2>1, <2>2, <2>3 DEF Names
    <3> QED BY <1>2, <3>1 DEF Inv, Distinct
  <2>4. f \in Injection(A, Attempt)
    BY <2>2, <2>3 DEF Injection, IsInjective
  <2> QED BY <1>1, <2>4, FS_Injection
<1>5. IsFiniteSet(B)
  <2>1. PICK f : f = [k \in B |-> inFlight[k]]
    OBVIOUS
  <2>2. f \in [B -> Attempt]
    BY <1>3, <2>1 DEF Inv, TypeOK
  <2>3. ASSUME NEW k \in B, NEW l \in B, f[k] = f[l] PROVE k = l
    <3>1. Names(k, f[k]) /\ Names(l, f[k]) /\ f[k] \in Attempt
      BY <2>1, <2>2, <2>3 DEF Names
    <3> QED BY <1>3, <3>1 DEF Inv, Distinct
  <2>4. f \in Injection(B, Attempt)
    BY <2>2, <2>3 DEF Injection, IsInjective
  <2> QED BY <1>1, <2>4, FS_Injection
<1>6. Cardinality(A) \in Nat /\ Cardinality(B) \in Nat
  BY <1>4, <1>5, FS_CardinalityType
<1> QED BY <1>2, <1>3, <1>6 DEF Total

(* Where a request finds no room, or makes some, a whole pass was made         *)
LEMMA PressureCollects ==
  ASSUME Inv, Retaining, [Next]_vars, NEW g \in Registry, PressureOn(g)
  PROVE  Drop(LookupOnly(g))
<1>1. PICK c \in Caller :
        /\ At(c, "requested") /\ Home[caller[c].key] = g
        /\ ~At(c, "requested")' \/ caller[c].key # caller'[c].key
        /\ \/ \E l \in Key : Home[l] = g /\ ready[l] # None /\ ready'[l] = None
           \/ caller'[c].result = "Full"
  BY DEF PressureOn
<1>2. /\ caller \in [Caller -> CallState] /\ caller[c].pc = "requested"
      /\ caller[c].result # "Full"
      /\ caller'[c].pc # "requested" \/ caller'[c].key # caller[c].key
  BY <1>1 DEF Inv, TypeOK, Retaining, At
<1>3. PICK d \in Caller : CallStep(d) \/ Cancel(d)
  <2>1. ASSUME NEW d \in Caller, NEW k \in Key, Request(d, k) PROVE FALSE
    BY <1>2, <2>1 DEF Request, At
  <2>2. ASSUME NEW d \in Caller, NEW k \in Key, Release(d, k) PROVE FALSE
    BY <1>2, <2>2 DEF Release
  <2>3. caller' # caller
    BY <1>2
  <2> QED BY <2>1, <2>2, <2>3 DEF Next, SweepBindGroups, DeviceFault, vars
<1>4. d = c
  <2>1. ~Listens(c)
    BY <1>2 DEF Listens
  <2> QED BY <1>2, <1>3, <2>1, OthersRest
<1>5. \/ Unavailable(c) \/ ReserveReady(c) \/ ReserveWaiter(c)
      \/ ReserveOwner(c) \/ ReserveFull(c)
  BY <1>2, <1>3, <1>4 DEF CallStep, Cancel, Recheck, Listen, Check, Park, Wake, Create,
                          Conclude, Announce, Notify, Return, At
<1>6. ASSUME Unavailable(c) \/ ReserveReady(c) \/ ReserveWaiter(c) PROVE FALSE
  <2>1. ready' = ready /\ caller'[c].result \in {"Failed", "Ready", caller[c].result}
    BY <1>2, <1>6 DEF Unavailable, ReserveReady, ReserveWaiter, CallState
  <2> QED BY <1>1, <1>2, <2>1
<1>7. CASE ReserveOwner(c)
  <2>1. caller'[c].result = caller[c].result /\ Drop(Collected(g))
    BY <1>1, <1>2, <1>7 DEF ReserveOwner, Vacant, CallState
  <2>2. PICK l \in Key : ready[l] # None /\ ready'[l] = None
    BY <1>1, <1>2, <2>1
  <2>3. Collected(g) # {}
    BY <2>1, <2>2 DEF Drop
  <2> QED BY <2>1, <2>3 DEF Collected
<1>8. CASE ReserveFull(c)
  <2>1. Drop(Collected(g)) /\ ~Room(g)
    BY <1>1, <1>8 DEF ReserveFull, Vacant
  <2>2. Total(g) >= MaxRecords[g]
    <3>1. SUFFICES ASSUME ~(Total(g) >= MaxRecords[g]) PROVE FALSE
      OBVIOUS
    <3>2. Collected(g) = {}
      BY <3>1 DEF Collected
    <3>3. Cardinality(Collected(g)) = 0
      BY <3>2, FS_EmptySet
    <3>4. Total(g) \in Nat /\ MaxRecords[g] \in Nat
      BY TotalIsNumber, KeyAssumption
    <3> QED BY <2>1, <3>1, <3>3, <3>4 DEF Room
  <2> QED BY <2>1, <2>2 DEF Collected
<1> QED BY <1>5, <1>6, <1>7, <1>8

-----------------------------------------------------------------------------
(* The theorems *)

(* Lookups, attempts, records and calls stay what the registries can store,   *)
(* and an idle caller has no call (reserve, wait, finish in registry.rs).      *)
THEOREM TypeCorrect == Spec => []TypeOK
<1>1. Inv => TypeOK
  BY DEF Inv
<1> QED BY <1>1, Invariance, PTL

(* A handle stays the authority for its key, and so does all its record was    *)
(* built on, whatever is collected, fails or is dropped meanwhile              *)
(* (collect_lookup_only and Reservation in both registries).                  *)
THEOREM HandlesAreAuthoritative == Spec => []HandlesStayAuthoritative
<1>1. Inv => HandlesStayAuthoritative
  BY AuthorityIs DEF Inv
<1> QED BY <1>1, Invariance, PTL

(* One bounded pass is complete: after a collection, and whenever a request is *)
(* refused for capacity, every record left in that registry is alive, whole    *)
(* chains nobody holds being gone (collect_lookup_only and ensure_capacity).   *)
THEOREM PassesAreComplete == Spec => OnlyLiveRecordsSurvive
<1>1. Init => Retaining
  BY DEF Init, Retaining, Idle
<1>2. Inv /\ Retaining /\ [Next]_vars =>
        \A g \in Registry : PressureOn(g) =>
          \A k \in Key : Home[k] = g /\ ready'[k] # None => ready'[k] \in Live(g)
  <2>1. SUFFICES ASSUME Inv, Retaining, [Next]_vars, NEW g \in Registry, PressureOn(g),
                        NEW k \in Key, Home[k] = g, ready'[k] # None
                 PROVE  ready'[k] \in Live(g)
    OBVIOUS
  <2>2. Drop(LookupOnly(g))
    BY <2>1, PressureCollects
  <2>3. ready'[k] = ready[k] /\ ready[k] \notin LookupOnly(g)
    BY <2>1, <2>2 DEF Drop
  <2> QED BY <2>1, <2>3, PassIsComplete
<1> QED BY <1>1, <1>2, InvStarts, InvKept, RetainingKept, PTL DEF Spec, OnlyLiveRecordsSurvive
=============================================================================
