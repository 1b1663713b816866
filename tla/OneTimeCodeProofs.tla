-------------------------- MODULE OneTimeCodeProofs --------------------------
(***************************************************************************)
(* What concurrency can cost verifyCode, for any number of requests, codes *)
(* and addresses and any failures of the database: a code is taken twice   *)
(* only by requests that overlapped, and the failed attempts of an address *)
(* exceed the limit by no more than its requests in flight.                *)
(***************************************************************************)
EXTENDS OneTimeCode, FiniteSetTheorems, TLAPS

\* A request that may still take its code, or has taken it.
Holds(r) == req[r].pc = "update" \/ Took(r)

\* The reply is decided no earlier than the code is read, and the attempts
\* left to a request that goes on are not zero.
Coherent(r) ==
  /\ req[r].pc = "find" => req[r].left > 0
  /\ req[r].pc # "over" /\ req[r].pc # "create" => req[r].reply = "none"
  /\ req[r].pc = "create" => req[r].reply \in {"used", "invalid"}

\* Codes are marked before a request counts as having taken them, and marks
\* stay; so whoever finds a code fresh races only with those about to mark it.
OneTimeInv ==
  /\ otp \in [Code -> {"none", "fresh", "used"}]
  /\ req \in [Request -> Verify]
  /\ \A r \in Request : Coherent(r)
  /\ \A r \in Request : Took(r) => otp[req[r].code] = "used"
  /\ \A r, s \in Request :
       r # s /\ Holds(r) /\ Holds(s) /\ req[r].code = req[s].code => {r, s} \in raced

\* What a step of r can do to the requests: r alone moves, and keeps its code
\* and its address.
Moved(r) ==
  /\ req' \in [Request -> Verify]
  /\ \A s \in Request \ {r} : req'[s] = req[s]
  /\ req'[r].code = req[r].code /\ req'[r].ip = req[r].ip

LEMMA Moves ==
  ASSUME req \in [Request -> Verify], NEW r \in Request
  PROVE  /\ \A pc \in Pc : Go(r, pc) => Moved(r) /\ req'[r].pc = pc /\ req'[r].reply = req[r].reply
         /\ \A reply \in Reply : Over(r, reply) =>
              Moved(r) /\ req'[r].pc = "over" /\ req'[r].reply = reply
         /\ ReadFails(r) => Moved(r) /\ req'[r].pc = "over" /\ req'[r].reply = "error"
<1>1. ASSUME NEW pc \in Pc, Go(r, pc)
      PROVE  Moved(r) /\ req'[r].pc = pc /\ req'[r].reply = req[r].reply
  BY <1>1 DEF Go, Moved, Verify
<1>2. ASSUME NEW reply \in Reply, Over(r, reply)
      PROVE  Moved(r) /\ req'[r].pc = "over" /\ req'[r].reply = reply
  <2> DEFINE ended == [req[r] EXCEPT !.pc = "over", !.reply = reply]
  <2>1. ended \in Verify /\ ended.code = req[r].code /\ ended.ip = req[r].ip
        /\ ended.pc = "over" /\ ended.reply = reply
    BY DEF Verify, Pc
  <2>2. req' = [req EXCEPT ![r] = ended]
    BY <1>2 DEF Over
  <2> HIDE DEF ended
  <2> QED BY <2>1, <2>2 DEF Moved
<1> QED BY <1>1, <1>2 DEF ReadFails, Reply

\* The reads of verifyCode change a request's remaining attempts as well.
LEMMA CountMoves ==
  ASSUME req \in [Request -> Verify], attempts \in [Ip -> Nat], NEW r \in Request, CountAttempts(r)
  PROVE  /\ Moved(r) /\ req[r].pc = "idle"
         /\ \/ /\ req'[r].pc = "find" /\ req'[r].left > 0 /\ req'[r].reply = req[r].reply
               /\ attempts[req[r].ip] < RateLimit
               /\ crowd' = [crowd EXCEPT ![req[r].ip] =
                              Larger(@, Cardinality(InFlight(req[r].ip)) + 1)]
            \/ /\ req'[r].pc = "over" /\ req'[r].reply \in {"limited", "error"}
               /\ UNCHANGED crowd
<1> DEFINE n == attempts[req[r].ip]
           counted == [req[r] EXCEPT !.pc = "find", !.left = RateLimit - n]
<1>1. n \in Nat
  BY DEF Verify
<1>2. ASSUME n < RateLimit, req' = [req EXCEPT ![r] = counted]
      PROVE  Moved(r) /\ req'[r].pc = "find" /\ req'[r].left > 0 /\ req'[r].reply = req[r].reply
  <2>1. RateLimit - n \in 0..RateLimit /\ RateLimit - n > 0
    BY <1>1, <1>2, RateLimitAssumption
  <2>2. /\ counted \in Verify /\ counted.code = req[r].code /\ counted.ip = req[r].ip
        /\ counted.pc = "find" /\ counted.left > 0 /\ counted.reply = req[r].reply
    BY <2>1 DEF Verify, Pc
  <2> HIDE DEF counted
  <2> QED BY <1>2, <2>2 DEF Moved
<1>3. Over(r, "limited") \/ ReadFails(r) =>
        Moved(r) /\ req'[r].pc = "over" /\ req'[r].reply \in {"limited", "error"}
  BY Moves DEF Reply
<1> QED BY <1>2, <1>3 DEF CountAttempts

LEMMA FindMoves ==
  ASSUME req \in [Request -> Verify], NEW r \in Request, FindCode(r), req[r].left > 0
  PROVE  /\ Moved(r) /\ req[r].pc = "find"
         /\ \/ /\ req'[r].pc = "update" /\ req'[r].reply = req[r].reply
               /\ otp[req[r].code] = "fresh"
               /\ raced' = raced \cup {{r, s} : s \in
                    {x \in Request : req[x].pc = "update" /\ req[x].code = req[r].code}}
            \/ /\ req'[r].pc = "create" /\ req'[r].reply \in {"used", "invalid"}
               /\ UNCHANGED raced
            \/ /\ req'[r].pc = "over" /\ req'[r].reply = "error"
               /\ UNCHANGED raced
<1> DEFINE state == otp[req[r].code]
           refused == [req[r] EXCEPT !.pc = "create", !.left = req[r].left - 1,
                                     !.reply = IF state = "used" THEN "used" ELSE "invalid"]
<1>1. ASSUME req' = [req EXCEPT ![r] = refused]
      PROVE  Moved(r) /\ req'[r].pc = "create" /\ req'[r].reply \in {"used", "invalid"}
  <2>1. req[r].left - 1 \in 0..RateLimit
    BY RateLimitAssumption DEF Verify
  <2>2. /\ refused \in Verify /\ refused.code = req[r].code /\ refused.ip = req[r].ip
        /\ refused.pc = "create" /\ refused.reply \in {"used", "invalid"}
    BY <2>1 DEF Verify, Pc, Reply
  <2> HIDE DEF refused
  <2> QED BY <1>1, <2>2 DEF Moved
<1>2. Go(r, "update") => Moved(r) /\ req'[r].pc = "update" /\ req'[r].reply = req[r].reply
  BY Moves DEF Pc
<1>3. ReadFails(r) => Moved(r) /\ req'[r].pc = "over" /\ req'[r].reply = "error"
  BY Moves
<1> QED BY <1>1, <1>2, <1>3 DEF FindCode

\* The three writes: where they leave the request, and that one that fails
\* may or may not have changed its table.
LEMMA WriteMoves ==
  ASSUME req \in [Request -> Verify], NEW r \in Request
  PROVE  /\ RecordFailure(r) => Moved(r) /\ req'[r].pc = "over"
                                /\ req'[r].reply \in {req[r].reply, "error"}
         /\ TakeCode(r) =>
              /\ Moved(r)
              /\ \/ /\ req'[r].pc = "clear" /\ req'[r].reply = req[r].reply
                    /\ otp' = [otp EXCEPT ![req[r].code] = "used"]
                 \/ /\ req'[r].pc = "over" /\ req'[r].reply = "error"
                    /\ UNCHANGED otp \/ otp' = [otp EXCEPT ![req[r].code] = "used"]
         /\ ForgiveIp(r) => Moved(r) /\ req'[r].pc = "over" /\ req'[r].reply \in {"ok", "error"}
<1>1. req[r].reply \in Reply
  BY DEF Verify
<1>2. \A reply \in Reply : Over(r, reply) => Moved(r) /\ req'[r].pc = "over" /\ req'[r].reply = reply
  BY Moves
<1>3. Go(r, "clear") => Moved(r) /\ req'[r].pc = "clear" /\ req'[r].reply = req[r].reply
  BY Moves DEF Pc
<1>4. {"ok", "error"} \subseteq Reply
  BY DEF Reply
<1> HIDE DEF Verify
<1> QED BY <1>1, <1>2, <1>3, <1>4 DEF RecordFailure, TakeCode, ForgiveIp, Await
-----------------------------------------------------------------------------
AttemptsTyped == attempts \in [Ip -> Nat]

LEMMA AttemptsCounted == Spec => []AttemptsTyped
<1>1. Init => AttemptsTyped
  BY DEF Init, AttemptsTyped
<1>2. ASSUME AttemptsTyped, [Next]_vars PROVE AttemptsTyped'
  <2> USE DEF AttemptsTyped
  <2>1. CASE \E i \in Ip : Age(i)
    BY <1>2, <2>1 DEF Age
  <2>2. CASE \E r \in Request : RecordFailure(r)
    BY <1>2, <2>2 DEF RecordFailure, Await
  <2>3. CASE \E r \in Request : ForgiveIp(r)
    BY <1>2, <2>3 DEF ForgiveIp, Await
  <2>4. CASE \E r \in Request : CountAttempts(r) \/ FindCode(r) \/ TakeCode(r)
    BY <1>2, <2>4 DEF CountAttempts, FindCode, TakeCode
  <2>5. CASE UNCHANGED vars \/ \E batch \in SUBSET Code : Generate(batch)
    BY <1>2, <2>5 DEF vars, Generate
  <2> QED BY <1>2, <2>1, <2>2, <2>3, <2>4, <2>5, Zenon DEF Next, VerifyCode
<1> QED BY <1>1, <1>2, PTL DEF Spec

LEMMA OneTimeInit == Init => OneTimeInv
BY RateLimitAssumption DEF Init, OneTimeInv, Verify, Pc, Reply, Holds, Took, Coherent

\* A step of r that takes nothing and does not come to hold a code.
LEMMA NothingTaken ==
  ASSUME OneTimeInv, NEW r \in Request, Moved(r), UNCHANGED <<otp, raced>>,
         Coherent(r)', ~Holds(r)'
  PROVE  OneTimeInv'
<1>1. \A s \in Request : Coherent(s)'
  BY DEF OneTimeInv, Moved, Coherent
<1>2. \A s \in Request : Holds(s)' => s # r /\ Holds(s) /\ req'[s] = req[s]
  BY DEF OneTimeInv, Moved, Holds, Took
<1>3. \A s \in Request : Took(s)' => s # r /\ Took(s) /\ req'[s] = req[s]
  BY DEF OneTimeInv, Moved, Holds, Took
<1> QED BY <1>1, <1>2, <1>3 DEF OneTimeInv, Moved

LEMMA OneTimeNext == OneTimeInv /\ AttemptsTyped /\ [Next]_vars => OneTimeInv'
<1> SUFFICES ASSUME OneTimeInv, AttemptsTyped, [Next]_vars PROVE OneTimeInv'
  OBVIOUS
<1>1. CASE UNCHANGED vars
  BY <1>1 DEF vars, OneTimeInv, Holds, Took, Coherent
<1>2. ASSUME NEW batch \in SUBSET Code, Generate(batch) PROVE OneTimeInv'
  BY <1>2 DEF Generate, OneTimeInv, Holds, Took, Coherent, Verify
<1>3. ASSUME NEW i \in Ip, Age(i) PROVE OneTimeInv'
  BY <1>3 DEF Age, OneTimeInv, Holds, Took, Coherent
<1>4. ASSUME NEW r \in Request, VerifyCode(r) PROVE OneTimeInv'
  <2>1. req \in [Request -> Verify] /\ Coherent(r) /\ req[r].code \in Code
    BY DEF OneTimeInv, Verify
  <2>2. CASE CountAttempts(r)
    <3>1. Moved(r) /\ ~Holds(r)' /\ UNCHANGED <<otp, raced>>
      BY <2>1, <2>2, CountMoves DEF AttemptsTyped, CountAttempts, Holds, Took, Coherent
    <3>2. Coherent(r)'
      BY <2>1, <2>2, CountMoves DEF AttemptsTyped, Coherent
    <3> QED BY <3>1, <3>2, NothingTaken
  <2>3. CASE FindCode(r)
    <3>1. req[r].pc = "find" /\ req[r].left > 0
      BY <2>1, <2>3 DEF FindCode, Coherent
    <3>2. Moved(r) /\ Coherent(r)' /\ UNCHANGED otp
      BY <2>1, <2>3, <3>1, FindMoves DEF FindCode, Coherent
    <3>3. CASE req'[r].pc # "update"
      BY <2>1, <2>3, <3>1, <3>2, <3>3, FindMoves, NothingTaken DEF Holds, Took, Coherent
    <3>4. CASE req'[r].pc = "update"
      <4>1. /\ otp[req[r].code] = "fresh"
            /\ raced' = raced \cup {{r, s} : s \in
                 {x \in Request : req[x].pc = "update" /\ req[x].code = req[r].code}}
        BY <2>1, <2>3, <3>1, <3>4, FindMoves
      <4>2. ~Took(r)'
        BY <3>2, <3>4 DEF Took, Coherent
      <4>3. \A s \in Request \ {r} : req'[s] = req[s] /\ Coherent(s)'
                                     /\ Took(s)' = Took(s) /\ Holds(s)' = Holds(s)
        BY <3>2 DEF OneTimeInv, Moved, Holds, Took, Coherent
      <4>4. \A s \in Request \ {r} : Holds(s) /\ req[s].code = req[r].code => {r, s} \in raced'
        <5>1. \A s \in Request : Took(s) => otp[req[s].code] = "used"
          BY DEF OneTimeInv
        <5> QED BY <4>1, <5>1 DEF Holds
      <4>5. \A s, t \in Request : s # t /\ Holds(s)' /\ Holds(t)' /\ req'[s].code = req'[t].code
              => {s, t} \in raced'
        <5>1. ASSUME NEW s \in Request \ {r}, NEW t \in Request \ {r}, s # t,
                     Holds(s)', Holds(t)', req'[s].code = req'[t].code
              PROVE  {s, t} \in raced'
          BY <4>1, <4>3, <5>1 DEF OneTimeInv
        <5>2. \A s \in Request : {r, s} = {s, r}
          OBVIOUS
        <5>3. req'[r].code = req[r].code
          BY <3>2 DEF Moved
        <5> QED BY <4>3, <4>4, <5>1, <5>2, <5>3
      <4>6. \A s \in Request : Took(s)' => otp'[req'[s].code] = "used"
        BY <3>2, <4>2, <4>3 DEF OneTimeInv
      <4> QED BY <3>2, <4>3, <4>5, <4>6 DEF OneTimeInv, Moved
    <3> QED BY <3>3, <3>4
  <2>4. CASE RecordFailure(r)
    <3>1. Moved(r) /\ req'[r].pc = "over" /\ req'[r].reply # "ok" /\ UNCHANGED <<otp, raced>>
      BY <2>1, <2>4, WriteMoves DEF RecordFailure, Coherent
    <3> QED BY <3>1, NothingTaken DEF Coherent, Holds, Took
  <2>5. CASE TakeCode(r)
    <3>1. Moved(r) /\ Coherent(r)' /\ Holds(r) /\ UNCHANGED raced
      BY <2>1, <2>5, WriteMoves DEF TakeCode, Coherent, Holds
    <3>2. \A s \in Request \ {r} : req'[s] = req[s] /\ Coherent(s)'
                                   /\ Took(s)' = Took(s) /\ Holds(s)' = Holds(s)
      BY <3>1 DEF OneTimeInv, Moved, Holds, Took, Coherent
    <3>3. otp' \in [Code -> {"none", "fresh", "used"}]
          /\ \A c \in Code : otp[c] = "used" => otp'[c] = "used"
      BY <2>1, <2>5, WriteMoves DEF OneTimeInv
    <3>4. Took(r)' => otp'[req'[r].code] = "used"
      BY <2>1, <2>5, <3>1, WriteMoves DEF Took, Moved, OneTimeInv
    <3>5. \A s \in Request : Took(s)' => otp'[req'[s].code] = "used"
      BY <3>2, <3>3, <3>4 DEF OneTimeInv, Verify
    <3>6. \A s \in Request : Holds(s)' => Holds(s) /\ req'[s].code = req[s].code
      BY <3>1, <3>2 DEF Moved
    <3> QED BY <3>1, <3>2, <3>3, <3>5, <3>6 DEF OneTimeInv, Moved
  <2>6. CASE ForgiveIp(r)
    <3>1. Moved(r) /\ req'[r].pc = "over" /\ Took(r) /\ UNCHANGED <<otp, raced>>
      BY <2>1, <2>6, WriteMoves DEF ForgiveIp, Took
    <3>2. \A s \in Request : Coherent(s)'
      BY <3>1 DEF OneTimeInv, Moved, Coherent
    <3>3. \A s \in Request : (Holds(s)' => Holds(s)) /\ (Took(s)' => Took(s))
                             /\ req'[s].code = req[s].code
      BY <3>1 DEF Moved, Holds, Took
    <3> QED BY <3>1, <3>2, <3>3 DEF OneTimeInv, Moved
  <2> QED BY <1>4, <2>2, <2>3, <2>4, <2>5, <2>6 DEF VerifyCode
<1> QED BY <1>1, <1>2, <1>3, <1>4 DEF Next

\* verifyCode: a one-time code is good for two requests only if both had read
\* it as unused before either had marked it.
THEOREM TakenOnce == Spec => []OneTime
<1>1. OneTimeInv => OneTime
  BY DEF OneTimeInv, OneTime, Holds
<1> QED BY <1>1, OneTimeInit, OneTimeNext, AttemptsCounted, PTL DEF Spec
-----------------------------------------------------------------------------
\* The requests of an address in flight after a step of r: the same ones, but
\* for r itself.
LEMMA FlightMoves ==
  ASSUME NEW r \in Request, NEW i \in Ip, i = req[r].ip, Moved(r)
  PROVE  /\ \A j \in Ip : Cardinality(InFlight(j)) \in Nat
         /\ \A j \in Ip \ {i} : InFlight(j)' = InFlight(j)
         /\ Inside(r)' = Inside(r) => InFlight(i)' = InFlight(i)
         /\ Inside(r) /\ ~Inside(r)' => Cardinality(InFlight(i)') = Cardinality(InFlight(i)) - 1
         /\ ~Inside(r) /\ Inside(r)' => Cardinality(InFlight(i)') = Cardinality(InFlight(i)) + 1
<1>1. \A j \in Ip : IsFiniteSet(InFlight(j)) /\ Cardinality(InFlight(j)) \in Nat
  BY RequestsAssumption, FS_Subset, FS_CardinalityType DEF InFlight
<1>2. \A j \in Ip \ {i} : InFlight(j)' = InFlight(j)
  BY DEF InFlight, Inside, Moved
<1>3. Inside(r)' = Inside(r) => InFlight(i)' = InFlight(i)
  BY DEF InFlight, Inside, Moved
<1>4. ASSUME Inside(r), ~Inside(r)' PROVE Cardinality(InFlight(i)') = Cardinality(InFlight(i)) - 1
  <2>1. r \in InFlight(i) /\ InFlight(i)' = InFlight(i) \ {r}
    BY <1>4 DEF InFlight, Inside, Moved
  <2> QED BY <1>1, <2>1, FS_RemoveElement
<1>5. ASSUME ~Inside(r), Inside(r)' PROVE Cardinality(InFlight(i)') = Cardinality(InFlight(i)) + 1
  <2>1. r \notin InFlight(i) /\ InFlight(i)' = InFlight(i) \cup {r}
    BY <1>5 DEF InFlight, Inside, Moved
  <2> QED BY <1>1, <2>1, FS_AddElement
<1> QED BY <1>1, <1>2, <1>3, <1>4, <1>5

\* An overshoot is made of rows and of requests that may yet add one each.
LimitInv ==
  /\ AttemptsTyped
  /\ crowd \in [Ip -> Nat]
  /\ GuessesAreLimited

LEMMA LimitInit == Init => LimitInv
<1> SUFFICES ASSUME Init PROVE LimitInv
  OBVIOUS
<1>1. \A i \in Ip : InFlight(i) = {}
  BY DEF Init, InFlight, Inside
<1>2. \A i \in Ip : Cardinality(InFlight(i)) = 0
  BY <1>1, FS_EmptySet
<1> QED BY <1>2, RateLimitAssumption DEF Init, AttemptsTyped, LimitInv, GuessesAreLimited

\* A request that stays where it is, or leaves, adds at most what it leaves.
LEMMA Leaving ==
  ASSUME LimitInv, NEW r \in Request, NEW i \in Ip, i = req[r].ip, Moved(r),
         UNCHANGED crowd, AttemptsTyped', Inside(r)' => Inside(r),
         \A j \in Ip \ {i} : attempts'[j] = attempts[j],
         attempts'[i] > attempts[i] => attempts'[i] = attempts[i] + 1 /\ Inside(r) /\ ~Inside(r)'
  PROVE  LimitInv'
<1>1. \A j \in Ip : attempts[j] \in Nat /\ attempts'[j] \in Nat /\ crowd[j] \in Nat
  BY DEF LimitInv, AttemptsTyped
<1>2. ASSUME NEW j \in Ip
      PROVE  attempts'[j] + Cardinality(InFlight(j)') <= RateLimit - 1 + crowd'[j]
  <2>1. attempts[j] + Cardinality(InFlight(j)) <= RateLimit - 1 + crowd[j]
    BY DEF LimitInv, GuessesAreLimited
  <2>2. CASE j # i
    BY <2>1, <2>2, FlightMoves
  <2>3. CASE j = i
    <3>1. Cardinality(InFlight(j)) \in Nat
      BY FlightMoves
    <3>2. CASE Inside(r) /\ ~Inside(r)'
      BY <1>1, <2>1, <2>3, <3>1, <3>2, FlightMoves, RateLimitAssumption
    <3>3. CASE Inside(r)' = Inside(r)
      <4>1. Cardinality(InFlight(j)') = Cardinality(InFlight(j)) /\ ~(attempts'[i] > attempts[i])
        BY <2>3, <3>3, FlightMoves
      <4> QED BY <1>1, <2>1, <2>3, <3>1, <4>1, RateLimitAssumption
    <3> QED BY <3>2, <3>3 DEF Inside
  <2> QED BY <2>2, <2>3
<1> QED BY <1>2 DEF LimitInv, GuessesAreLimited

LEMMA LimitNext == OneTimeInv /\ LimitInv /\ [Next]_vars => LimitInv'
<1> SUFFICES ASSUME OneTimeInv, LimitInv, [Next]_vars PROVE LimitInv'
  OBVIOUS
<1>1. /\ req \in [Request -> Verify]
      /\ \A i \in Ip : Cardinality(InFlight(i)) \in Nat /\ attempts[i] \in Nat /\ crowd[i] \in Nat
  BY RequestsAssumption, FS_Subset, FS_CardinalityType
     DEF InFlight, OneTimeInv, LimitInv, AttemptsTyped
<1>2. ASSUME UNCHANGED <<req, crowd>>, AttemptsTyped', \A i \in Ip : attempts'[i] <= attempts[i]
      PROVE  LimitInv'
  <2>1. \A i \in Ip : InFlight(i)' = InFlight(i)
    BY <1>2 DEF InFlight, Inside
  <2>2. \A i \in Ip : attempts'[i] + Cardinality(InFlight(i)') <= RateLimit - 1 + crowd'[i]
    BY <1>1, <1>2, <2>1, RateLimitAssumption DEF LimitInv, GuessesAreLimited, AttemptsTyped
  <2> QED BY <1>2, <2>2 DEF LimitInv, GuessesAreLimited
<1>3. CASE UNCHANGED vars \/ \E batch \in SUBSET Code : Generate(batch)
  BY <1>1, <1>2, <1>3 DEF vars, Generate, LimitInv, AttemptsTyped
<1>4. ASSUME NEW i \in Ip, Age(i) PROVE LimitInv'
  BY <1>1, <1>2, <1>4 DEF Age, LimitInv, AttemptsTyped
<1>5. ASSUME NEW r \in Request, VerifyCode(r) PROVE LimitInv'
  <2>1. PICK i \in Ip : i = req[r].ip
    BY <1>1 DEF Verify
  <2>2. AttemptsTyped
    BY DEF LimitInv
  <2>3. CASE CountAttempts(r)
    <3>1. Moved(r) /\ UNCHANGED attempts /\ ~Inside(r)
      BY <1>1, <2>2, <2>3, CountMoves DEF CountAttempts, AttemptsTyped, Inside
    <3>2. CASE ~Inside(r)'
      <4>1. UNCHANGED crowd
        BY <1>1, <2>2, <2>3, <3>2, CountMoves DEF AttemptsTyped, Inside
      <4> QED BY <1>1, <2>1, <2>2, <3>1, <3>2, <4>1, Leaving DEF AttemptsTyped
    <3>3. CASE Inside(r)'
      <4>1. attempts[i] < RateLimit
            /\ crowd' = [crowd EXCEPT ![i] = Larger(crowd[i], Cardinality(InFlight(i)) + 1)]
        BY <1>1, <2>1, <2>2, <2>3, <3>3, CountMoves DEF AttemptsTyped, Inside
      <4>2. Cardinality(InFlight(i)') = Cardinality(InFlight(i)) + 1
        BY <2>1, <3>1, <3>3, FlightMoves
      <4>3. crowd' \in [Ip -> Nat] /\ crowd'[i] >= Cardinality(InFlight(i)) + 1
            /\ \A j \in Ip \ {i} : crowd'[j] = crowd[j]
        BY <1>1, <4>1 DEF Larger, LimitInv
      <4>4. attempts'[i] + Cardinality(InFlight(i)') <= RateLimit - 1 + crowd'[i]
        BY <1>1, <3>1, <4>1, <4>2, <4>3, RateLimitAssumption
      <4>5. \A j \in Ip \ {i} : attempts'[j] + Cardinality(InFlight(j)') <= RateLimit - 1 + crowd'[j]
        BY <2>1, <3>1, <4>3, FlightMoves DEF LimitInv, GuessesAreLimited
      <4> QED BY <2>2, <3>1, <4>3, <4>4, <4>5 DEF LimitInv, GuessesAreLimited, AttemptsTyped
    <3> QED BY <3>2, <3>3
  <2>4. CASE FindCode(r)
    <3>1. Coherent(r) /\ req[r].pc = "find"
      BY <2>4 DEF FindCode, OneTimeInv
    <3>2. Moved(r)
      BY <1>1, <2>4, <3>1, FindMoves DEF Coherent
    <3>3. UNCHANGED <<attempts, crowd>> /\ Inside(r)
      BY <2>4, <3>1 DEF FindCode, Inside
    <3> QED BY <1>1, <2>1, <2>2, <3>2, <3>3, Leaving DEF AttemptsTyped
  <2>5. CASE RecordFailure(r)
    <3>1. Moved(r) /\ UNCHANGED crowd /\ Inside(r) /\ ~Inside(r)'
      BY <1>1, <2>5, WriteMoves DEF RecordFailure, Inside
    <3>2. UNCHANGED attempts \/ attempts' = [attempts EXCEPT ![i] = attempts[i] + 1]
      BY <2>1, <2>5 DEF RecordFailure, Await
    <3>3. /\ AttemptsTyped' /\ \A j \in Ip \ {i} : attempts'[j] = attempts[j]
          /\ attempts'[i] \in {attempts[i], attempts[i] + 1}
      BY <1>1, <2>2, <3>2 DEF AttemptsTyped
    <3> QED BY <1>1, <2>1, <3>1, <3>3, Leaving
  <2>6. CASE TakeCode(r)
    <3>1. Moved(r) /\ UNCHANGED <<attempts, crowd>> /\ Inside(r)
      BY <1>1, <2>6, WriteMoves DEF TakeCode, Inside
    <3> QED BY <1>1, <2>1, <2>2, <3>1, Leaving DEF AttemptsTyped
  <2>7. CASE ForgiveIp(r)
    <3>1. Moved(r) /\ UNCHANGED crowd /\ Inside(r)
      BY <1>1, <2>7, WriteMoves DEF ForgiveIp, Inside
    <3>2. UNCHANGED attempts \/ attempts' = [attempts EXCEPT ![i] = 0]
      BY <2>1, <2>7 DEF ForgiveIp, Await
    <3>3. /\ AttemptsTyped' /\ \A j \in Ip \ {i} : attempts'[j] = attempts[j]
          /\ attempts'[i] \in {attempts[i], 0}
      BY <1>1, <2>2, <3>2 DEF AttemptsTyped
    <3> QED BY <1>1, <2>1, <3>1, <3>3, Leaving
  <2> QED BY <1>5, <2>3, <2>4, <2>5, <2>6, <2>7 DEF VerifyCode
<1> QED BY <1>3, <1>4, <1>5 DEF Next

\* verifyCode: the failed attempts of an address in a window, together with
\* its requests that may yet add one, exceed the limit by less than the most
\* requests of the address that were ever in flight at once.
THEOREM AttemptsLimited == Spec => []GuessesAreLimited
<1>1. LimitInv => GuessesAreLimited
  BY DEF LimitInv
<1>2. LimitInv => AttemptsTyped
  BY DEF LimitInv
<1> QED BY <1>1, <1>2, OneTimeInit, OneTimeNext, LimitInit, LimitNext, PTL DEF Spec
=============================================================================
