--------------------------- MODULE MembershipProofs ---------------------------
(***************************************************************************)
(* What overlapping and failing requests can cost, for any number of codes,*)
(* users, referrals and requests: the uses of a code beyond its bound, and *)
(* nothing else. A closed code stays closed, and what users hold has been  *)
(* counted, unless they signed up with it.                                 *)
(***************************************************************************)
EXTENDS Membership, FiniteSetTheorems, TLAPS

CodesTyped == code \in [Code -> Row]
RequestsTyped == val \in [Validation -> Val]

\* What a step of v can do to the validations: v alone moves, for the same code and user.
Moved(v) ==
  /\ RequestsTyped'
  /\ \A w \in Validation \ {v} : val'[w] = val[w]
  /\ val'[v].code = val[v].code /\ val'[v].user = val[v].user

LEMMA Moves ==
  ASSUME RequestsTyped, NEW v \in Validation
  PROVE  /\ \A pc \in ValPc : Go(v, pc) => Moved(v) /\ val'[v].pc = pc /\ val'[v].reply = val[v].reply
         /\ \A reply \in {"ok", "invalid", "error"} : Over(v, reply) =>
              Moved(v) /\ val'[v].pc = "over" /\ val'[v].reply = reply
<1>1. ASSUME NEW pc \in ValPc, Go(v, pc)
      PROVE  Moved(v) /\ val'[v].pc = pc /\ val'[v].reply = val[v].reply
  BY <1>1 DEF Go, Moved, RequestsTyped, Val
<1>2. ASSUME NEW reply \in {"ok", "invalid", "error"}, Over(v, reply)
      PROVE  Moved(v) /\ val'[v].pc = "over" /\ val'[v].reply = reply
  <2> DEFINE ended == [val[v] EXCEPT !.pc = "over", !.reply = reply]
  <2>1. ended \in Val /\ ended.code = val[v].code /\ ended.user = val[v].user
        /\ ended.pc = "over" /\ ended.reply = reply
    BY DEF RequestsTyped, Val, ValPc
  <2>2. val' = [val EXCEPT ![v] = ended]
    BY <1>2 DEF Over
  <2> HIDE DEF ended
  <2> QED BY <2>1, <2>2 DEF Moved, RequestsTyped
<1> QED BY <1>1, <1>2

(* A validation step by step: where it stood, where it stands, and what it did. *)
Entered(v) ==
  /\ val[v].pc = "idle" /\ val'[v].pc = "user" /\ val'[v].reply = val[v].reply
  /\ Usable(val[v].code)
  /\ crowd' = [crowd EXCEPT ![val[v].code] = Larger(crowd[val[v].code], Cardinality(InFlight(val[v].code)) + 1)]
  /\ UNCHANGED <<code, carries>>
Refused(v) ==
  /\ val[v].pc \in {"idle", "user"} /\ val'[v].pc = "over" /\ val'[v].reply \in {"invalid", "error"}
  /\ UNCHANGED <<code, carries, crowd>>
FoundUser(v) ==
  /\ val[v].pc = "user" /\ val'[v].pc = "write" /\ val'[v].reply = val[v].reply
  /\ UNCHANGED <<code, carries, crowd>>
Enrolled(v) ==
  /\ val[v].pc = "write"
  /\ \/ val'[v].pc = "bump" /\ val'[v].reply = val[v].reply
     \/ val'[v].pc = "over" /\ val'[v].reply = "error"
  /\ carries' = carries \/ carries' = [carries EXCEPT ![val[v].user] = val[v].code]
  /\ UNCHANGED <<code, crowd>>
Counted(v) ==
  /\ val[v].pc = "bump" /\ val'[v].pc = "over"
  /\ \/ val'[v].reply = "ok" /\ code' = [code EXCEPT ![val[v].code].uses = code[val[v].code].uses + 1]
     \/ val'[v].reply = "error" /\ code' = [code EXCEPT ![val[v].code].uses = code[val[v].code].uses + 1]
     \/ val'[v].reply = "error" /\ code' = code
  /\ UNCHANGED <<carries, crowd>>

LEMMA ValidationSteps ==
  ASSUME RequestsTyped, NEW v \in Validation, ValidateAccessCode(v)
  PROVE  /\ Moved(v) /\ UNCHANGED <<count, sign, late, brought>>
         /\ Entered(v) \/ Refused(v) \/ FoundUser(v) \/ Enrolled(v) \/ Counted(v)
<1>1. CASE ReadCode(v)
  BY <1>1, Moves, Zenon DEF ReadCode, Entered, Refused, ValPc
<1>2. CASE FindUser(v)
  BY <1>2, Moves, Zenon DEF FindUser, FoundUser, Refused, ValPc
<1>3. CASE Enrol(v)
  BY <1>3, Moves, Zenon DEF Enrol, Await, Enrolled, ValPc
<1>4. CASE CountUse(v)
  BY <1>4, Moves, Zenon DEF CountUse, Await, Counted, ValPc
<1> QED BY <1>1, <1>2, <1>3, <1>4 DEF ValidateAccessCode

\* The requests of the other kinds leave the validations alone, and the uses of codes.
LEMMA OtherSteps ==
  ASSUME CodesTyped, [Next]_vars, ~\E v \in Validation : ValidateAccessCode(v)
  PROVE  /\ UNCHANGED <<val, crowd>>
         /\ CodesTyped' /\ \A c \in Code : code'[c].uses = code[c].uses
<1>1. CASE UNCHANGED vars
  BY <1>1 DEF vars, CodesTyped
<1>2. ASSUME NEW c \in Code, Generate(c) \/ Expire(c)
      PROVE  UNCHANGED <<val, crowd>> /\ CodesTyped' /\ \A x \in Code : code'[x].uses = code[x].uses
  BY <1>2 DEF Generate, Expire, CodesTyped, Row
<1>3. ASSUME NEW d \in Disabling, DisableAccessCode(d)
      PROVE  UNCHANGED <<val, crowd>> /\ CodesTyped' /\ \A x \in Code : code'[x].uses = code[x].uses
  BY <1>3 DEF DisableAccessCode, FindForDisable, Disable, CodesTyped, Row
<1>4. ASSUME NEW s \in Signup, Create(s)
      PROVE  UNCHANGED <<val, crowd>> /\ CodesTyped' /\ \A x \in Code : code'[x].uses = code[x].uses
  BY <1>4 DEF Create, Insert, CountReferral, CodesTyped
<1> QED BY <1>1, <1>2, <1>3, <1>4 DEF Next
-----------------------------------------------------------------------------
(* Uses. *)

\* The validations of a code in flight after a step of v: the same ones, but for v itself.
LEMMA FlightMoves ==
  ASSUME NEW v \in Validation, NEW c \in Code, c = val[v].code, Moved(v)
  PROVE  /\ \A d \in Code : Cardinality(InFlight(d)) \in Nat
         /\ \A d \in Code \ {c} : InFlight(d)' = InFlight(d)
         /\ Inside(v)' = Inside(v) => InFlight(c)' = InFlight(c)
         /\ Inside(v) /\ ~Inside(v)' => Cardinality(InFlight(c)') = Cardinality(InFlight(c)) - 1
         /\ ~Inside(v) /\ Inside(v)' => Cardinality(InFlight(c)') = Cardinality(InFlight(c)) + 1
<1>1. \A d \in Code : IsFiniteSet(InFlight(d)) /\ Cardinality(InFlight(d)) \in Nat
  BY ValidationsAssumption, FS_Subset, FS_CardinalityType DEF InFlight
<1>2. \A d \in Code \ {c} : InFlight(d)' = InFlight(d)
  BY DEF InFlight, Inside, Moved
<1>3. Inside(v)' = Inside(v) => InFlight(c)' = InFlight(c)
  BY DEF InFlight, Inside, Moved
<1>4. ASSUME Inside(v), ~Inside(v)' PROVE Cardinality(InFlight(c)') = Cardinality(InFlight(c)) - 1
  <2>1. v \in InFlight(c) /\ InFlight(c)' = InFlight(c) \ {v}
    BY <1>4 DEF InFlight, Inside, Moved
  <2> QED BY <1>1, <2>1, FS_RemoveElement
<1>5. ASSUME ~Inside(v), Inside(v)' PROVE Cardinality(InFlight(c)') = Cardinality(InFlight(c)) + 1
  <2>1. v \notin InFlight(c) /\ InFlight(c)' = InFlight(c) \cup {v}
    BY <1>5 DEF InFlight, Inside, Moved
  <2> QED BY <1>1, <2>1, FS_AddElement
<1> QED BY <1>1, <1>2, <1>3, <1>4, <1>5

\* What is used, and what validations in flight may yet use.
UsesInv ==
  /\ CodesTyped /\ RequestsTyped
  /\ crowd \in [Code -> Nat]
  /\ UsesAreLimited

LEMMA UsesInit == Init => UsesInv
<1> SUFFICES ASSUME Init PROVE UsesInv
  OBVIOUS
<1>1. CodesTyped /\ RequestsTyped /\ crowd = [c \in Code |-> 0]
  BY DEF Init, CodesTyped, RequestsTyped, Row, Val, ValPc
<1>2. \A c \in Code : InFlight(c) = {}
  BY DEF Init, InFlight, Inside
<1>3. \A c \in Code : Cardinality(InFlight(c)) = 0 /\ code[c].uses = 0
  BY <1>2, FS_EmptySet DEF Init
<1> QED BY <1>1, <1>3, MaxUsesAssumption DEF UsesInv, UsesAreLimited

LEMMA UsesNext == UsesInv /\ [Next]_vars => UsesInv'
<1> SUFFICES ASSUME UsesInv, [Next]_vars PROVE UsesInv'
  OBVIOUS
<1>1. \A c \in Code : Cardinality(InFlight(c)) \in Nat /\ code[c].uses \in Nat /\ crowd[c] \in Nat /\ MaxUses[c] \in Nat
  BY ValidationsAssumption, FS_Subset, FS_CardinalityType, MaxUsesAssumption
     DEF InFlight, UsesInv, CodesTyped, Row
<1>2. ASSUME NEW v \in Validation, ValidateAccessCode(v) PROVE UsesInv'
  <2>0. RequestsTyped /\ CodesTyped
    BY DEF UsesInv
  <2>1. Moved(v) /\ (Entered(v) \/ Refused(v) \/ FoundUser(v) \/ Enrolled(v) \/ Counted(v))
    BY <1>2, <2>0, ValidationSteps
  <2>2. PICK c \in Code : c = val[v].code
    BY <2>0 DEF RequestsTyped, Val
  <2> DEFINE n == Cardinality(InFlight(c))
             m == Cardinality(InFlight(c)')
  <2>3. n \in Nat /\ \A d \in Code \ {c} : InFlight(d)' = InFlight(d)
    BY <1>1, <2>1, <2>2, FlightMoves
  <2>4. SUFFICES /\ CodesTyped' /\ crowd' \in [Code -> Nat]
                 /\ \A d \in Code \ {c} : code'[d] = code[d] /\ crowd'[d] = crowd[d]
                 /\ MaxUses[c] # 0 => code'[c].uses + m <= MaxUses[c] - 1 + crowd'[c]
    <3>1. RequestsTyped'
      BY <2>1 DEF Moved
    <3>2. \A d \in Code \ {c} : MaxUses[d] # 0 => code'[d].uses + Cardinality(InFlight(d)') <= MaxUses[d] - 1 + crowd'[d]
      BY <2>3, <2>4 DEF UsesInv, UsesAreLimited
    <3> QED BY <2>4, <3>1, <3>2 DEF UsesInv, UsesAreLimited
  <2>5. CASE Entered(v)
    <3>1. m = n + 1 /\ code' = code
      BY <2>1, <2>2, <2>5, FlightMoves DEF Entered, Inside
    <3>2. crowd' = [crowd EXCEPT ![c] = Larger(crowd[c], n + 1)]
      BY <2>2, <2>5 DEF Entered
    <3>3. crowd' \in [Code -> Nat] /\ crowd'[c] >= n + 1 /\ \A d \in Code \ {c} : crowd'[d] = crowd[d]
      BY <1>1, <2>3, <3>2 DEF Larger, UsesInv
    <3>4. MaxUses[c] # 0 => code[c].uses < MaxUses[c]
      BY <1>1, <2>2, <2>5 DEF Entered, Usable, Exhausted
    <3> QED BY <1>1, <2>0, <2>3, <3>1, <3>3, <3>4 DEF CodesTyped
  <2>6. CASE Counted(v)
    <3>1. m = n - 1 /\ crowd' = crowd
      BY <2>1, <2>2, <2>6, FlightMoves DEF Counted, Inside
    <3>2. code' = code \/ code' = [code EXCEPT ![c].uses = code[c].uses + 1]
      BY <2>2, <2>6 DEF Counted
    <3>3. CodesTyped' /\ code'[c].uses \in {code[c].uses, code[c].uses + 1} /\ \A d \in Code \ {c} : code'[d] = code[d]
      BY <1>1, <2>0, <3>2 DEF CodesTyped, Row
    <3> QED BY <1>1, <2>3, <3>1, <3>3 DEF UsesInv, UsesAreLimited
  <2>7. CASE Refused(v) \/ FoundUser(v) \/ Enrolled(v)
    <3>1. code' = code /\ crowd' = crowd /\ (Inside(v)' => Inside(v))
      BY <2>7 DEF Refused, FoundUser, Enrolled, Inside
    <3>2. m \in {n, n - 1}
      BY <2>1, <2>2, <3>1, FlightMoves DEF Inside
    <3> QED BY <1>1, <2>0, <2>3, <3>1, <3>2 DEF UsesInv, UsesAreLimited, CodesTyped
  <2> QED BY <2>1, <2>5, <2>6, <2>7
<1>3. CASE ~\E v \in Validation : ValidateAccessCode(v)
  <2>1. UNCHANGED <<val, crowd>> /\ CodesTyped' /\ \A c \in Code : code'[c].uses = code[c].uses
    BY <1>3, OtherSteps DEF UsesInv
  <2>2. \A c \in Code : InFlight(c)' = InFlight(c)
    BY <2>1 DEF InFlight, Inside
  <2> QED BY <2>1, <2>2 DEF UsesInv, UsesAreLimited, RequestsTyped
<1> QED BY <1>2, <1>3

\* validateAccessCode: a code with a bound is used beyond it by no more than the validations of it
\* that were once in flight together.
THEOREM UsesLimited == Spec => []UsesAreLimited
<1>1. UsesInv => UsesAreLimited
  BY DEF UsesInv
<1> QED BY <1>1, UsesInit, UsesNext, PTL DEF Spec
-----------------------------------------------------------------------------
(* Closing. *)

\* Generated, and since then disabled or expired, which no step undoes.
Closed(c) == code[c].state = "disabled" \/ (code[c].state # "none" /\ code[c].expired = "yes")
Late(v) == Closed(val[v].code) /\ (val[v].pc = "idle" \/ val[v].pc = "over") /\ val[v].reply # "ok"

ClosedInv ==
  /\ CodesTyped /\ RequestsTyped
  /\ late \subseteq Validation
  /\ \A v \in Validation : val[v].pc # "over" => val[v].reply = "none"
  /\ \A v \in late : Late(v)

LEMMA ClosedInit == Init => ClosedInv
BY UsesInit DEF Init, ClosedInv, UsesInv

\* Codes are closed for ever, and whoever joins the late ones has not begun.
LEMMA Closings ==
  ASSUME ClosedInv, [Next]_vars
  PROVE  /\ \A c \in Code : Closed(c) => Closed(c)'
         /\ \A v \in late' : v \in late \/ (val[v].pc = "idle" /\ v \in Validation /\ Closed(val[v].code)' /\ UNCHANGED val)
<1> USE DEF ClosedInv
<1>1. CASE UNCHANGED vars
  BY <1>1 DEF vars, Closed
<1>2. ASSUME NEW c \in Code, Generate(c) PROVE (\A d \in Code : Closed(d) => Closed(d)') /\ UNCHANGED late
  BY <1>2 DEF Generate, Closed, CodesTyped, Row
<1>3. ASSUME NEW c \in Code, Expire(c)
      PROVE  Closed(c)' /\ (\A d \in Code : Closed(d) => Closed(d)') /\ late' = late \cup NotBegun(c) /\ UNCHANGED val
  BY <1>3 DEF Expire, Closed, CodesTyped, Row
<1>4. ASSUME NEW d \in Disabling, FindForDisable(d) PROVE UNCHANGED <<code, late>>
  BY <1>4 DEF FindForDisable
<1>5. ASSUME NEW d \in Disabling, Disable(d), UNCHANGED <<code, late>>
      PROVE  (\A c \in Code : Closed(c) => Closed(c)') /\ UNCHANGED late
  BY <1>5 DEF Closed
<1>6. ASSUME NEW d \in Disabling, Disable(d), ~UNCHANGED <<code, late>>, NEW c, c = dis[d].code
      PROVE  /\ \A x \in Code : Closed(x) => Closed(x)'
             /\ c \in Code => Closed(c)'
             /\ late' = late \cup NotBegun(c) /\ UNCHANGED val
  <2>1. code' = [code EXCEPT ![c].state = "disabled"] /\ late' = late \cup NotBegun(c) /\ UNCHANGED val
    BY <1>6 DEF Disable
  <2> QED BY <2>1 DEF Closed, CodesTyped, Row
<1>7. ASSUME NEW s \in Signup, Create(s) PROVE UNCHANGED <<code, late>>
  BY <1>7 DEF Create, Insert, CountReferral
<1>8. ASSUME NEW v \in Validation, ValidateAccessCode(v)
      PROVE  (\A c \in Code : Closed(c) => Closed(c)') /\ UNCHANGED late
  <2>1. UNCHANGED late /\ (code' = code \/ code' = [code EXCEPT ![val[v].code].uses = code[val[v].code].uses + 1])
    BY <1>8, ValidationSteps DEF Entered, Refused, FoundUser, Enrolled, Counted
  <2>2. CASE code' = code
    BY <2>1, <2>2 DEF Closed
  <2>3. CASE code' = [code EXCEPT ![val[v].code].uses = code[val[v].code].uses + 1]
    BY <2>1, <2>3 DEF Closed, CodesTyped, Row
  <2> QED BY <2>1, <2>2, <2>3
<1>9. ASSUME NEW c, NEW v \in NotBegun(c)
      PROVE  val[v].pc = "idle" /\ v \in Validation /\ val[v].code = c /\ c \in Code
  BY <1>9 DEF NotBegun, RequestsTyped, Val
<1>10. CASE \E c \in Code : Expire(c)
  BY <1>3, <1>9, <1>10
<1>11. CASE \E d \in Disabling : Disable(d)
  BY <1>5, <1>6, <1>9, <1>11
<1>12. CASE \E d \in Disabling : FindForDisable(d)
  BY <1>4, <1>12 DEF Closed
<1>13. CASE \E s \in Signup : Create(s)
  BY <1>7, <1>13 DEF Closed
<1> QED BY <1>1, <1>2, <1>8, <1>10, <1>11, <1>12, <1>13 DEF Next, DisableAccessCode

LEMMA ClosedNext == ClosedInv /\ [Next]_vars => ClosedInv'
<1> SUFFICES ASSUME ClosedInv, [Next]_vars PROVE ClosedInv'
  OBVIOUS
<1>1. \A c \in Code : Closed(c) => Closed(c)'
  BY Closings
<1>2. CodesTyped /\ RequestsTyped /\ \A v \in Validation : val[v].code \in Code
  BY DEF ClosedInv, RequestsTyped, Val
<1>3. CASE ~\E v \in Validation : ValidateAccessCode(v)
  <2>1. UNCHANGED val /\ CodesTyped'
    BY <1>2, <1>3, OtherSteps
  <2>2. RequestsTyped' /\ late' \subseteq Validation /\ \A v \in Validation : (val[v].pc # "over" => val[v].reply = "none")'
    BY <2>1, Closings DEF ClosedInv, RequestsTyped
  <2>3. ASSUME NEW v \in late' PROVE Late(v)'
    <3>1. CASE v \in late
      BY <1>1, <1>2, <2>1, <3>1 DEF ClosedInv, Late
    <3>2. CASE v \notin late
      <4>1. val[v].pc = "idle" /\ v \in Validation /\ Closed(val[v].code)'
        BY <3>2, Closings
      <4> QED BY <2>1, <4>1 DEF ClosedInv, Late, Closed
    <3> QED BY <3>1, <3>2
  <2> QED BY <2>1, <2>2, <2>3 DEF ClosedInv
<1>4. ASSUME NEW v \in Validation, ValidateAccessCode(v) PROVE ClosedInv'
  <2>1. Moved(v) /\ UNCHANGED late /\ (Entered(v) \/ Refused(v) \/ FoundUser(v) \/ Enrolled(v) \/ Counted(v))
    BY <1>2, <1>4, ValidationSteps
  <2>2. CodesTyped'
    BY <1>2, <2>1 DEF Entered, Refused, FoundUser, Enrolled, Counted, CodesTyped, Row
  <2>3. val[v].pc # "over" /\ (val'[v].pc # "over" => val'[v].reply = "none")
    BY <2>1 DEF ClosedInv, Entered, Refused, FoundUser, Enrolled, Counted
  <2>4. ASSUME v \in late PROVE val'[v].pc = "over" /\ val'[v].reply # "ok"
    <3>1. val[v].pc = "idle" /\ Closed(val[v].code)
      BY <2>3, <2>4 DEF ClosedInv, Late
    <3>2. ~Usable(val[v].code)
      BY <3>1 DEF Closed, Usable
    <3> QED BY <2>1, <3>1, <3>2 DEF Entered, Refused, FoundUser, Enrolled, Counted
  <2>5. ASSUME NEW w \in late PROVE Late(w)'
    <3>1. w \in Validation /\ Late(w)
      BY DEF ClosedInv
    <3>2. PICK c \in Code : c = val[w].code
      BY <1>2, <3>1
    <3>3. val'[w].code = c /\ Closed(c)'
      BY <1>1, <2>1, <3>1, <3>2 DEF Late, Moved
    <3>4. w # v => val'[w] = val[w]
      BY <2>1, <3>1 DEF Moved
    <3> QED BY <2>4, <3>1, <3>3, <3>4 DEF Late, Closed
  <2> QED BY <2>1, <2>2, <2>3, <2>5 DEF ClosedInv, Moved
<1> QED BY <1>3, <1>4

\* disableAccessCode and expiry: a validation that begins once its code is closed never succeeds
\* and never gets as far as its user.
THEOREM ClosedForGood == Spec => []ClosedStaysClosed
<1>1. ClosedInv => ClosedStaysClosed
  BY DEF ClosedInv, Late, ClosedStaysClosed, Inside
<1> QED BY <1>1, ClosedInit, ClosedNext, PTL DEF Spec
-----------------------------------------------------------------------------
(* Members. *)

\* What keeps a user from being settled with a code: a validation between its two writes, or one
\* that failed.
Unsettled(v) == val[v].pc = "bump" \/ val[v].reply = "error"
Settled(c) ==
  {u \in User : carries[u] = c /\ brought[u] # c /\ ~\E v \in Validation :
     val[v].user = u /\ val[v].code = c /\ (val[v].pc = "bump" \/ val[v].reply = "error")}

\* Those who hold a code by a validation of it.
Holds(u) == carries[u] \in Code /\ brought[u] # carries[u]
Holders == {u \in User : Holds(u)}

MembersInv ==
  /\ CodesTyped /\ RequestsTyped
  /\ DOMAIN carries = User /\ DOMAIN brought = User
  /\ IsFiniteSet(Holders)
  /\ sign \in [Signup -> Sign]
  /\ \A v \in Validation : val[v].pc # "over" => val[v].reply = "none"
  /\ MembersAreCounted

LEMMA MembersInit == Init => MembersInv
<1> SUFFICES ASSUME Init PROVE MembersInv
  OBVIOUS
<1>1. CodesTyped /\ RequestsTyped
  BY UsesInit DEF UsesInv
<1>2. DOMAIN carries = User /\ DOMAIN brought = User /\ sign \in [Signup -> Sign]
      /\ \A v \in Validation : val[v].pc # "over" => val[v].reply = "none"
  BY DEF Init, Sign
<1>3. Holders = {} /\ \A c \in Code : Settled(c) = {}
  BY MarksAssumption DEF Init, Holders, Holds, Settled
<1>4. \A c \in Code : Cardinality(Settled(c)) = 0 /\ code[c].uses = 0
  BY <1>3, FS_EmptySet DEF Init
<1> QED BY <1>1, <1>2, <1>3, <1>4, FS_EmptySet DEF MembersInv, MembersAreCounted, Settled

\* Enough for the counts to stay true: who is newly settled has been counted.
LEMMA SettledCounted ==
  ASSUME MembersInv, CodesTyped', NEW u, NEW c \in Code,
         Settled(c)' \subseteq Settled(c)
           \/ (Settled(c)' \subseteq Settled(c) \cup {u} /\ code'[c].uses = code[c].uses + 1),
         code'[c].uses >= code[c].uses
  PROVE  Cardinality(Settled(c)') <= code'[c].uses
<1>1. code[c].uses \in Nat /\ code'[c].uses \in Nat
  BY DEF MembersInv, CodesTyped, Row
<1>2. Settled(c) \subseteq Holders
  BY DEF Settled, Holders, Holds
<1>3. IsFiniteSet(Settled(c)) /\ Cardinality(Settled(c)) \in Nat
  BY <1>2, FS_Subset, FS_CardinalityType DEF MembersInv
<1>4. Cardinality(Settled(c)) <= code[c].uses
  BY DEF MembersInv, MembersAreCounted, Settled
<1>5. IsFiniteSet(Settled(c) \cup {u})
      /\ Cardinality(Settled(c) \cup {u}) \in {Cardinality(Settled(c)), Cardinality(Settled(c)) + 1}
  BY <1>3, FS_AddElement
<1>6. CASE Settled(c)' \subseteq Settled(c)
  <2>1. Cardinality(Settled(c)') <= Cardinality(Settled(c)) /\ Cardinality(Settled(c)') \in Nat
    BY <1>3, <1>6, FS_Subset, FS_CardinalityType
  <2> QED BY <1>1, <1>3, <1>4, <2>1
<1>7. CASE Settled(c)' \subseteq Settled(c) \cup {u} /\ code'[c].uses = code[c].uses + 1
  <2>1. Cardinality(Settled(c)') <= Cardinality(Settled(c) \cup {u}) /\ Cardinality(Settled(c)') \in Nat
    BY <1>5, <1>7, FS_Subset, FS_CardinalityType
  <2> QED BY <1>1, <1>3, <1>4, <1>5, <1>7, <2>1
<1> QED BY <1>6, <1>7

\* What a sign-up does to the users: whoever it makes hold a code has signed up with it.
LEMMA InsertsBrought ==
  ASSUME MembersInv, NEW s \in Signup, Create(s)
  PROVE  /\ UNCHANGED <<code, val>> /\ DOMAIN carries' = User /\ DOMAIN brought' = User
         /\ \A u \in User : Holds(u)' => carries'[u] = carries[u] /\ brought'[u] = brought[u]
<1>1. DOMAIN carries = User /\ DOMAIN brought = User
  BY DEF MembersInv
<1>2. /\ UNCHANGED <<code, val>>
      /\ \/ UNCHANGED <<carries, brought>>
         \/ /\ carries' = [carries EXCEPT ![sign[s].user] = sign[s].ref]
            /\ brought' = [brought EXCEPT ![sign[s].user] = sign[s].ref]
  BY DEF Create, Insert, CountReferral, Await
<1> QED BY <1>1, <1>2 DEF Holds

LEMMA SignsTyped ==
  ASSUME sign \in [Signup -> Sign], [Next]_vars
  PROVE  sign' \in [Signup -> Sign]
<1>1. CASE ~\E s \in Signup : Create(s)
  BY <1>1 DEF Next, vars, Generate, Expire, ValidateAccessCode, ReadCode, FindUser, Enrol, CountUse,
              DisableAccessCode, FindForDisable, Disable
<1>2. ASSUME NEW s \in Signup, Create(s) PROVE sign' \in [Signup -> Sign]
  <2>1. ASSUME NEW reply \in {"ok", "error"}, SignOver(s, reply) PROVE sign' \in [Signup -> Sign]
    <3> DEFINE ended == [sign[s] EXCEPT !.pc = "over", !.reply = reply]
    <3>1. ended \in Sign /\ sign' = [sign EXCEPT ![s] = ended]
      BY <2>1 DEF Sign, SignOver
    <3> HIDE DEF ended
    <3> QED BY <3>1
  <2>2. ASSUME sign' = [sign EXCEPT ![s].pc = "bump"] PROVE sign' \in [Signup -> Sign]
    BY <2>2 DEF Sign
  <2>3. (\E reply \in {"ok", "error"} : SignOver(s, reply)) \/ sign' = [sign EXCEPT ![s].pc = "bump"]
    BY <1>2, Zenon DEF Create, Insert, CountReferral, Await
  <2> QED BY <2>1, <2>2, <2>3
<1> QED BY <1>1, <1>2

LEMMA MembersNext == MembersInv /\ [Next]_vars => MembersInv'
<1> SUFFICES ASSUME MembersInv, [Next]_vars PROVE MembersInv'
  OBVIOUS
<1>1. CodesTyped /\ RequestsTyped /\ DOMAIN carries = User /\ DOMAIN brought = User /\ sign' \in [Signup -> Sign]
  BY SignsTyped DEF MembersInv
<1>2. ASSUME NEW v \in Validation, ValidateAccessCode(v) PROVE MembersInv'
  <2>1. Moved(v) /\ (Entered(v) \/ Refused(v) \/ FoundUser(v) \/ Enrolled(v) \/ Counted(v))
    BY <1>1, <1>2, ValidationSteps
  <2>0. brought' = brought
    BY <1>1, <1>2, ValidationSteps
  <2>2. PICK c \in Code, u \in User : c = val[v].code /\ u = val[v].user
    BY <1>1 DEF RequestsTyped, Val
  <2>3. CodesTyped' /\ \A d \in Code : code'[d].uses >= code[d].uses /\ (d # c => code'[d] = code[d])
    BY <1>1, <2>1, <2>2 DEF Entered, Refused, FoundUser, Enrolled, Counted, CodesTyped, Row
  <2>4. val[v].reply = "none" /\ \A w \in Validation : val'[w].pc # "over" => val'[w].reply = "none"
    BY <2>1 DEF MembersInv, Moved, Entered, Refused, FoundUser, Enrolled, Counted
  <2>5. UNCHANGED carries \/ (Enrolled(v) /\ carries' = [carries EXCEPT ![u] = c])
    BY <2>1, <2>2 DEF Entered, Refused, FoundUser, Enrolled, Counted
  <2>6. DOMAIN carries' = User /\ DOMAIN brought' = User /\ Holders' \subseteq Holders \cup {u}
    BY <1>1, <2>0, <2>5 DEF Holders, Holds
  <2>7. IsFiniteSet(Holders')
    BY <2>6, FS_AddElement, FS_Subset DEF MembersInv
  <2>8. \A d \in Code, x \in User : carries'[x] = d /\ carries[x] # d => x = u /\ d = c /\ Unsettled(v)'
    BY <1>1, <2>1, <2>2, <2>5 DEF Enrolled, Unsettled
  <2>9. CASE Unsettled(v) => Unsettled(v)'
    <3>1. ASSUME NEW d \in Code PROVE Settled(d)' \subseteq Settled(d)
      BY <2>0, <2>1, <2>2, <2>8, <2>9 DEF Settled, Unsettled, Moved
    <3>2. ASSUME NEW d \in Code PROVE Cardinality(Settled(d)') <= code'[d].uses
      BY <2>3, <3>1, SettledCounted
    <3> QED BY <1>1, <2>1, <2>3, <2>4, <2>6, <2>7, <3>2 DEF MembersInv, MembersAreCounted, Moved, Settled
  <2>10. CASE Unsettled(v) /\ ~Unsettled(v)'
    <3>1. code' = [code EXCEPT ![c].uses = code[c].uses + 1] /\ UNCHANGED carries
      BY <2>1, <2>2, <2>4, <2>10 DEF Unsettled, Entered, Refused, FoundUser, Enrolled, Counted
    <3>2. code'[c].uses = code[c].uses + 1
      BY <1>1, <3>1 DEF CodesTyped, Row
    <3>3. Settled(c)' \subseteq Settled(c) \cup {u} /\ \A d \in Code \ {c} : Settled(d)' \subseteq Settled(d)
      BY <2>0, <2>1, <2>2, <3>1 DEF Settled, Moved
    <3>4. ASSUME NEW d \in Code PROVE Cardinality(Settled(d)') <= code'[d].uses
      <4>1. CASE d = c
        BY <2>3, <3>2, <3>3, <4>1, SettledCounted
      <4>2. CASE d # c
        BY <2>3, <3>3, <4>2, SettledCounted
      <4> QED BY <4>1, <4>2
    <3> QED BY <1>1, <2>1, <2>3, <2>4, <2>6, <2>7, <3>4 DEF MembersInv, MembersAreCounted, Moved, Settled
  <2> QED BY <2>9, <2>10
<1>3. CASE ~\E v \in Validation : ValidateAccessCode(v)
  <2>1. UNCHANGED val /\ CodesTyped' /\ \A c \in Code : code'[c].uses = code[c].uses /\ code[c].uses \in Nat
    BY <1>1, <1>3, OtherSteps DEF CodesTyped, Row
  <2>2. /\ DOMAIN carries' = User /\ DOMAIN brought' = User
        /\ \A x \in User : Holds(x)' => carries'[x] = carries[x] /\ brought'[x] = brought[x]
    <3>1. CASE \E s \in Signup : Create(s)
      BY <3>1, InsertsBrought
    <3>2. CASE ~\E s \in Signup : Create(s)
      <4>1. UNCHANGED <<carries, brought>>
        BY <1>3, <3>2 DEF Next, vars, Generate, Expire, DisableAccessCode, FindForDisable, Disable
      <4> QED BY <1>1, <4>1
    <3> QED BY <3>1, <3>2
  <2>3. Holders' \subseteq Holders /\ \A c \in Code : Settled(c)' \subseteq Settled(c)
    BY <2>1, <2>2 DEF Holders, Holds, Settled
  <2>4. ASSUME NEW c \in Code PROVE Cardinality(Settled(c)') <= code'[c].uses
    <3>1. code'[c].uses >= code[c].uses
      BY <2>1
    <3> QED BY <2>1, <2>3, <3>1, SettledCounted
  <2> QED BY <1>1, <2>1, <2>2, <2>3, <2>4, FS_Subset DEF MembersInv, MembersAreCounted, Settled, RequestsTyped
<1> QED BY <1>2, <1>3
-----------------------------------------------------------------------------
(* Referrals. *)

Signups(k, replies) == {s \in Signup : sign[s].ref = k /\ sign[s].reply \in replies}

ReferralsInv ==
  /\ sign \in [Signup -> Sign]
  /\ count \in [Known -> Nat]
  /\ \A s \in Signup : sign[s].pc # "over" => sign[s].reply = "none"
  /\ ReferralsAreCounted

LEMMA ReferralsInit == Init => ReferralsInv
<1> SUFFICES ASSUME Init PROVE ReferralsInv
  OBVIOUS
<1>1. \A k \in Known : Signups(k, {"ok"}) = {} /\ Signups(k, {"ok", "error"}) = {} /\ count[k] = 0
  BY DEF Init, Signups
<1>2. \A k \in Known : Cardinality(Signups(k, {"ok"})) = 0 /\ Cardinality(Signups(k, {"ok", "error"})) = 0
  BY <1>1, FS_EmptySet
<1> QED BY <1>1, <1>2 DEF Init, ReferralsInv, ReferralsAreCounted, Signups, Sign

\* What a sign-up comes to: s alone moves, and has either not got its answer or has not been
\* counted without one.
SignMoved(s) ==
  /\ \A x \in Signup \ {s} : sign'[x] = sign[x]
  /\ sign'[s].ref = sign[s].ref
SignWaits(s) == sign'[s].pc # "over" /\ sign'[s].reply = sign[s].reply /\ count' = count
SignEnds(s) ==
  LET k == sign[s].ref IN
  \/ sign'[s].reply = "ok" /\ k \notin Known /\ count' = count
  \/ sign'[s].reply = "error" /\ count' = count
  \/ sign'[s].reply \in {"ok", "error"} /\ k \in Known /\ count' = [count EXCEPT ![k] = count[k] + 1]

LEMMA SignSteps ==
  ASSUME ReferralsInv, NEW s \in Signup, Create(s)
  PROVE  sign[s].pc # "over" /\ SignMoved(s) /\ (SignWaits(s) \/ (sign'[s].pc = "over" /\ SignEnds(s)))
<1>1. ASSUME NEW reply \in {"ok", "error"}, SignOver(s, reply)
      PROVE  SignMoved(s) /\ sign'[s].pc = "over" /\ sign'[s].reply = reply
  <2> DEFINE ended == [sign[s] EXCEPT !.pc = "over", !.reply = reply]
  <2>1. ended.ref = sign[s].ref /\ ended.pc = "over" /\ ended.reply = reply
        /\ sign' = [sign EXCEPT ![s] = ended]
    BY <1>1 DEF ReferralsInv, Sign, SignOver
  <2> HIDE DEF ended
  <2> QED BY <2>1 DEF SignMoved, ReferralsInv
<1>2. ASSUME sign' = [sign EXCEPT ![s].pc = "bump"]
      PROVE  SignMoved(s) /\ sign'[s].pc = "bump" /\ sign'[s].reply = sign[s].reply
  BY <1>2 DEF SignMoved, ReferralsInv, Sign
<1>3. "none" \notin Known
  BY MarksAssumption, KnownAssumption
<1>4. CASE Insert(s)
  <2>1. sign[s].pc = "idle" /\ count' = count
        /\ (sign' = [sign EXCEPT ![s].pc = "bump"] \/ SignOver(s, "error") \/ (SignOver(s, "ok") /\ sign[s].ref = "none"))
    BY <1>4, Zenon DEF Insert, Await
  <2> QED BY <1>1, <1>2, <1>3, <2>1 DEF SignWaits, SignEnds
<1>5. CASE CountReferral(s)
  <2> DEFINE k == sign[s].ref
             more == [count EXCEPT ![k] = count[k] + 1]
  <2>1. /\ sign[s].pc = "bump"
        /\ \/ k \in Known /\ count' = more /\ (SignOver(s, "ok") \/ SignOver(s, "error"))
           \/ count' = count /\ SignOver(s, "error")
    BY <1>5 DEF CountReferral, Await
  <2> QED BY <1>1, <2>1 DEF SignEnds
<1> QED BY <1>4, <1>5 DEF Create

LEMMA ReferralsNext == ReferralsInv /\ [Next]_vars => ReferralsInv'
<1> SUFFICES ASSUME ReferralsInv, [Next]_vars PROVE ReferralsInv'
  OBVIOUS
<1>1. sign' \in [Signup -> Sign]
  BY SignsTyped DEF ReferralsInv
<1>2. CASE ~\E s \in Signup : Create(s)
  <2>1. UNCHANGED <<sign, count>>
    BY <1>2 DEF Next, vars, Generate, Expire, ValidateAccessCode, ReadCode, FindUser, Enrol, CountUse,
                DisableAccessCode, FindForDisable, Disable
  <2> QED BY <2>1 DEF ReferralsInv, ReferralsAreCounted
<1>3. ASSUME NEW s \in Signup, Create(s) PROVE ReferralsInv'
  <2>1. sign[s].pc # "over" /\ sign[s].reply = "none" /\ SignMoved(s)
        /\ (SignWaits(s) \/ (sign'[s].pc = "over" /\ SignEnds(s)))
    BY <1>3, SignSteps DEF ReferralsInv
  <2>2. \A x \in Signup : sign'[x].pc # "over" => sign'[x].reply = "none"
    BY <2>1 DEF ReferralsInv, SignMoved, SignWaits
  <2>3. count' \in [Known -> Nat]
    BY <2>1 DEF ReferralsInv, SignWaits, SignEnds
  <2>4. ASSUME NEW k \in Known
        PROVE  /\ Cardinality(Signups(k, {"ok"})') <= count'[k]
               /\ count'[k] <= Cardinality(Signups(k, {"ok", "error"})')
    <3> DEFINE told == Signups(k, {"ok"})
               answered == Signups(k, {"ok", "error"})
    <3>1. /\ Cardinality(told) <= count[k] /\ count[k] <= Cardinality(answered)
          /\ count[k] \in Nat /\ count'[k] \in Nat
      BY <2>3 DEF ReferralsInv, ReferralsAreCounted, Signups
    <3>2. /\ IsFiniteSet(told) /\ Cardinality(told) \in Nat
          /\ IsFiniteSet(answered) /\ Cardinality(answered) \in Nat
      BY SignupsAssumption, FS_Subset, FS_CardinalityType DEF Signups
    <3>3. s \notin told /\ s \notin answered
      BY <2>1 DEF Signups
    <3>4. /\ Cardinality(told \cup {s}) = Cardinality(told) + 1
          /\ Cardinality(answered \cup {s}) = Cardinality(answered) + 1
      BY <3>2, <3>3, FS_AddElement
    <3>5. CASE SignWaits(s) \/ sign[s].ref # k
      <4>1. told' = told /\ answered' = answered
        BY <2>1, <3>5 DEF Signups, SignMoved, SignWaits
      <4>2. count'[k] = count[k]
        BY <2>1, <3>5 DEF SignWaits, SignEnds, ReferralsInv
      <4> QED BY <3>1, <4>1, <4>2
    <3>6. CASE SignEnds(s) /\ sign[s].ref = k
      <4>1. answered' = answered \cup {s}
        BY <2>1, <3>6 DEF Signups, SignMoved, SignEnds
      <4>2. CASE sign'[s].reply = "ok"
        <5>1. told' = told \cup {s}
          BY <2>1, <3>6, <4>2 DEF Signups, SignMoved
        <5>2. count'[k] = count[k] + 1
          BY <3>6, <4>2 DEF SignEnds, ReferralsInv
        <5> QED BY <3>1, <3>2, <3>4, <4>1, <5>1, <5>2
      <4>3. CASE sign'[s].reply = "error"
        <5>1. told' = told
          BY <2>1, <3>3, <3>6, <4>3 DEF Signups, SignMoved
        <5>2. count'[k] \in {count[k], count[k] + 1}
          BY <3>6 DEF SignEnds, ReferralsInv
        <5> QED BY <3>1, <3>2, <3>4, <4>1, <5>1, <5>2
      <4> QED BY <3>6, <4>2, <4>3 DEF SignEnds
    <3> QED BY <2>1, <3>5, <3>6
  <2> QED BY <1>1, <2>2, <2>3, <2>4 DEF ReferralsInv, ReferralsAreCounted, Signups
<1> QED BY <1>2, <1>3

\* validateAccessCode and create: what users hold has been counted, except by requests that are
\* between their two writes or failed there, and the access code whose id a user signed up with.
THEOREM HoldersAreCounted == Spec => []CountsAreTrue
<1>1. MembersInv /\ ReferralsInv => CountsAreTrue
  BY DEF MembersInv, ReferralsInv, CountsAreTrue
<1> QED BY <1>1, MembersInit, MembersNext, ReferralsInit, ReferralsNext, PTL DEF Spec
=============================================================================
