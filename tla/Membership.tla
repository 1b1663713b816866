------------------------------ MODULE Membership ------------------------------
(***************************************************************************)
(* How a user comes to carry a code in users.usedReferralCode: by          *)
(* AccessCodeService.validateAccessCode (which writes the id of an access  *)
(* code) or by UserService.create (which writes the text of a referral     *)
(* code), while codes are generated, expire and are disabled.  Every       *)
(* handler is interleaved with the others at each database call it awaits; *)
(* a process that dies looks like a failing call of each of them.          *)
(***************************************************************************)
EXTENDS Integers, FiniteSets

CONSTANTS
  Code,        \* access codes, rows of access_codes
  MaxUses,     \* the bound each is generated with; 0 stands for null
  Referral,    \* texts a client may sign up with, the id of an access code
               \* not excluded; null is "none"
  Known,       \* those of them that are rows of referral_codes
  User,        \* Starknet addresses, the unique key of users
  Validation,  \* the validate requests that will ever be made
  Signup,      \* the create requests that will ever be made
  Disabling,   \* the disable requests that will ever be made
  DbFaults     \* "rejected": fails without, "ambiguous": with its effect

ASSUME MaxUsesAssumption == MaxUses \in [Code -> Nat]
ASSUME KnownAssumption == Known \subseteq Referral
ASSUME MarksAssumption == {"absent", "none"} \cap (Code \cup Referral) = {}
ASSUME ValidationsAssumption == IsFiniteSet(Validation)
ASSUME SignupsAssumption == IsFiniteSet(Signup)
ASSUME MemberFaultsAssumption == DbFaults \subseteq {"rejected", "ambiguous"}

VARIABLES
  code,      \* the access_codes table
  carries,   \* the users table: "absent", or what usedReferralCode holds
  count,     \* referral_codes.usageCount
  val,       \* the validate requests
  sign,      \* the create requests
  dis,       \* the disable requests
  crowd,     \* history: most validations of a code ever in flight at once
  late,      \* history: validations not begun when their code was closed
  brought    \* history: the text each user signed up with

vars == <<code, carries, count, val, sign, dis, crowd, late, brought>>

Row == [state : {"none", "active", "disabled"}, expired : {"no", "yes"}, uses : Nat]
ValPc == {"idle", "user", "write", "bump", "over"}
Val == [pc : ValPc, code : Code, user : User, reply : {"none", "ok", "invalid", "error"}]
Sign == [pc : {"idle", "bump", "over"}, ref : Referral \cup {"none"}, user : User,
         reply : {"none", "ok", "error"}]
Dis == [pc : {"idle", "write", "over"}, code : Code]

Init ==
  /\ code = [c \in Code |-> [state |-> "none", expired |-> "no", uses |-> 0]]
  /\ carries \in [User -> {"absent", "none"}]
  /\ count = [k \in Known |-> 0]
  /\ val \in [Validation -> [pc : {"idle"}, code : Code, user : User, reply : {"none"}]]
  /\ sign \in [Signup -> [pc : {"idle"}, ref : Referral \cup {"none"}, user : User,
                          reply : {"none"}]]
  /\ dis \in [Disabling -> [pc : {"idle"}, code : Code]]
  /\ crowd = [c \in Code |-> 0]
  /\ late = {}
  /\ brought = [u \in User |-> "none"]
-----------------------------------------------------------------------------
Inside(v) == val[v].pc \notin {"idle", "over"}
InFlight(c) == {v \in Validation : val[v].code = c /\ Inside(v)}
Larger(m, n) == IF m < n THEN n ELSE m

Go(v, pc) == val' = [val EXCEPT ![v].pc = pc]
Over(v, reply) == val' = [val EXCEPT ![v] = [@ EXCEPT !.pc = "over", !.reply = reply]]
SignOver(s, reply) == sign' = [sign EXCEPT ![s] = [@ EXCEPT !.pc = "over", !.reply = reply]]

\* An awaited call with an effect on the tables, and the error it ends in.
Await(effect, none, goOn, fail) ==
  \/ effect /\ goOn
  \/ fail /\ \/ "rejected" \in DbFaults /\ none
             \/ "ambiguous" \in DbFaults /\ effect

\* generateAccessCode; a batch is the same insert repeated, and one that fails
\* half way leaves the codes before it.
Generate(c) ==
  /\ code[c].state = "none"
  /\ code' = [code EXCEPT ![c].state = "active"]
  /\ UNCHANGED <<carries, count, val, sign, dis, crowd, late, brought>>

\* Not begun yet: what a closing of code c holds for.
NotBegun(c) == {v \in Validation : val[v].code = c /\ val[v].pc = "idle"}

Expire(c) ==
  /\ code[c].state # "none" /\ code[c].expired = "no"
  /\ code' = [code EXCEPT ![c].expired = "yes"]
  /\ late' = late \cup NotBegun(c)
  /\ UNCHANGED <<carries, count, val, sign, dis, crowd, brought>>

\* disableAccessCode: look it up, then update it.
FindForDisable(d) ==
  /\ dis[d].pc = "idle"
  /\ \/ code[dis[d].code].state # "none" /\ dis' = [dis EXCEPT ![d].pc = "write"]
     \/ (code[dis[d].code].state = "none" \/ DbFaults # {}) /\ dis' = [dis EXCEPT ![d].pc = "over"]
  /\ UNCHANGED <<code, carries, count, val, sign, crowd, late, brought>>

Disable(d) ==
  LET c == dis[d].code IN
  /\ dis[d].pc = "write"
  /\ dis' = [dis EXCEPT ![d].pc = "over"]
  /\ \/ code' = [code EXCEPT ![c].state = "disabled"] /\ late' = late \cup NotBegun(c)
     \/ "rejected" \in DbFaults /\ UNCHANGED <<code, late>>
  /\ UNCHANGED <<carries, count, val, sign, crowd, brought>>

\* Faulty variant: one use too many.
ExhaustedLate(c) == MaxUses[c] # 0 /\ code[c].uses > MaxUses[c]

Exhausted(c) == MaxUses[c] # 0 /\ code[c].uses >= MaxUses[c]

\* Faulty variant: a disabled code passes.
UsableThoughDisabled(c) == code[c].state # "none" /\ code[c].expired = "no" /\ ~Exhausted(c)

Usable(c) == code[c].state = "active" /\ code[c].expired = "no" /\ ~Exhausted(c)

\* validateAccessCode reads the code once and decides by what it read.
ReadCode(v) ==
  LET c == val[v].code IN
  /\ val[v].pc = "idle"
  /\ \/ /\ Usable(c)
        /\ Go(v, "user")
        /\ crowd' = [crowd EXCEPT ![c] = Larger(@, Cardinality(InFlight(c)) + 1)]
     \/ ~Usable(c) /\ Over(v, "invalid") /\ UNCHANGED crowd
     \/ DbFaults # {} /\ Over(v, "error") /\ UNCHANGED crowd
  /\ UNCHANGED <<code, carries, count, sign, dis, late, brought>>

FindUser(v) ==
  /\ val[v].pc = "user"
  /\ \/ carries[val[v].user] # "absent" /\ Go(v, "write")
     \/ carries[val[v].user] = "absent" /\ Over(v, "invalid")
     \/ DbFaults # {} /\ Over(v, "error")
  /\ UNCHANGED <<code, carries, count, sign, dis, crowd, late, brought>>

\* Whatever the user carried before is overwritten.
Enrol(v) ==
  /\ val[v].pc = "write"
  /\ Await(carries' = [carries EXCEPT ![val[v].user] = val[v].code], UNCHANGED carries,
           Go(v, "bump"), Over(v, "error"))
  /\ UNCHANGED <<code, count, sign, dis, crowd, late, brought>>

\* Faulty variant: the count of the new code that was checked is written back
\* plus one.
CountUseStale(v) ==
  /\ val[v].pc = "bump"
  /\ code' = [code EXCEPT ![val[v].code].uses = 1]
  /\ Over(v, "ok")
  /\ UNCHANGED <<carries, count, sign, dis, crowd, late, brought>>

CountUse(v) ==
  /\ val[v].pc = "bump"
  /\ Await(code' = [code EXCEPT ![val[v].code].uses = @ + 1], UNCHANGED code,
           Over(v, "ok"), Over(v, "error"))
  /\ UNCHANGED <<carries, count, sign, dis, crowd, late, brought>>
-----------------------------------------------------------------------------
\* UserService.create: the text is stored before it is looked up, whatever it
\* is; the insert fails when the address is taken.
Insert(s) ==
  /\ sign[s].pc = "idle"
  /\ LET u == sign[s].user IN
     \/ /\ carries[u] = "absent"
        /\ Await(carries' = [carries EXCEPT ![u] = sign[s].ref] /\ brought' = [brought EXCEPT ![u] = sign[s].ref],
                 UNCHANGED <<carries, brought>>,
                 IF sign[s].ref = "none" THEN SignOver(s, "ok")
                                         ELSE sign' = [sign EXCEPT ![s].pc = "bump"],
                 SignOver(s, "error"))
     \/ carries[u] # "absent" /\ SignOver(s, "error") /\ UNCHANGED <<carries, brought>>
  /\ UNCHANGED <<code, count, val, dis, crowd, late>>

\* The update throws for a text that is not a referral code; the user stays.
\* Neither expiresAt nor maxUses of the referral is looked at.
CountReferral(s) ==
  /\ sign[s].pc = "bump"
  /\ LET k == sign[s].ref IN
     \/ /\ k \in Known
        /\ Await(count' = [count EXCEPT ![k] = @ + 1], UNCHANGED count,
                 SignOver(s, "ok"), SignOver(s, "error"))
     \/ k \notin Known /\ SignOver(s, "error") /\ UNCHANGED count
  /\ UNCHANGED <<code, carries, val, dis, crowd, late, brought>>
-----------------------------------------------------------------------------
ValidateAccessCode(v) == ReadCode(v) \/ FindUser(v) \/ Enrol(v) \/ CountUse(v)
DisableAccessCode(d) == FindForDisable(d) \/ Disable(d)
Create(s) == Insert(s) \/ CountReferral(s)

Next ==
  \/ \E c \in Code : Generate(c) \/ Expire(c)
  \/ \E v \in Validation : ValidateAccessCode(v)
  \/ \E d \in Disabling : DisableAccessCode(d)
  \/ \E s \in Signup : Create(s)

Spec == Init /\ [][Next]_vars
-----------------------------------------------------------------------------
\* maxUses is checked on a row read before the use is counted, so it can be
\* overshot, but by no more than the validations of the code that were ever
\* in flight together: one at a time, it is never exceeded.
UsesAreLimited ==
  \A c \in Code : MaxUses[c] # 0 =>
    code[c].uses + Cardinality(InFlight(c)) <= MaxUses[c] - 1 + crowd[c]

\* A validation that begins after its code was disabled or has expired never
\* succeeds and never enrols its user, however the closing and it interleave.
ClosedStaysClosed == \A v \in late : ~Inside(v) /\ val[v].reply # "ok"

\* A use is paid for every user an access code holds, unless the user signed up
\* with the code's id for a referral; any other that carries a code without a
\* use stands for a validation between its two writes, or failed there.
MembersAreCounted ==
  \A c \in Code :
    LET settled == {u \in User : carries[u] = c /\ brought[u] # c /\ ~\E v \in Validation :
          val[v].user = u /\ val[v].code = c /\ (val[v].pc = "bump" \/ val[v].reply = "error")}
    IN Cardinality(settled) <= code[c].uses

\* The same for referrals: their count lies between the sign-ups that were
\* told they succeeded and those that got as far as the count.
ReferralsAreCounted ==
  \A k \in Known :
    LET signups(replies) == {s \in Signup : sign[s].ref = k /\ sign[s].reply \in replies}
    IN /\ Cardinality(signups({"ok"})) <= count[k]
       /\ count[k] <= Cardinality(signups({"ok", "error"}))

\* What users hold is accounted for, whatever fails and overlaps: by a use of
\* the access code for each one settled with it by a validation, and by a count
\* of the referral for each one who signed up with it.
CountsAreTrue == MembersAreCounted /\ ReferralsAreCounted

\* "Maximum number of times this code can be used", as the API documents it.
MaxUsesIsMaximum == \A c \in Code : MaxUses[c] # 0 => code[c].uses <= MaxUses[c]
=============================================================================
