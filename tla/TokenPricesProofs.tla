-------------------------- MODULE TokenPricesProofs --------------------------
(***************************************************************************)
(* What overlapping runs of the price sync can do to token_master, for any *)
(* number of tokens, symbols, chains, runs and edits: older quotes come    *)
(* back only between overlapping runs, reports are honest, and the rows of *)
(* one symbol agree.                                                       *)
(***************************************************************************)
EXTENDS TokenPrices, TLAPS

USE NamesAssumption, ClockAssumption, TokensAssumption

Runs == run \in [Sync -> RunState]

\* Where a run and its request stand: a request is served while its client
\* waits or after it gave up, and a run has written nothing before that.
Coherent(x) ==
  /\ run[x].pc = "idle" => x \notin job /\ Listed(x) = {}
  /\ run[x].pc = "fetch" => x \notin job
  /\ x \in job /\ run[x].pc = "over" => run[x].reply = "lost"
  /\ run[x].pc # "over" \/ x \in job => wrote[x] = {}
  /\ run[x].reply = "lost" => run[x].pc = "over" /\ run[x].missed = ListedSymbols(x)

\* Nobody quotes the future, and a row keeps a quote of a run that is done.
Quotes ==
  /\ \A x \in Sync, s \in Symbol : run[x].quotes[s] <= clock
  /\ \A t \in Token :
       /\ master[t].at <= clock
       /\ master[t].at > 0 => master[t].by \in Sync
       /\ \A x \in Sync : master[t].by = x => run[x].pc = "over" /\ x \notin job

\* Runs that are active together overlap; a run that does not overlap with
\* the writer of a row began after it, so its quotes are no older.
Ordered ==
  /\ \A x, y \in Sync : x # y /\ Active(x) /\ Active(y) => {x, y} \in overlap
  /\ \A x, y \in Sync, t \in Token, s \in Symbol :
       Active(x) /\ master[t].by = y /\ {x, y} \notin overlap /\ run[x].quotes[s] # 0
         => master[t].at <= run[x].quotes[s]

\* What syncPrices reports of one run.
Honest(x) ==
  run[x].pc = "over" =>
    /\ ListedSymbols(x) \ run[x].missed \subseteq wrote[x]
    /\ run[x].reply # "lost" => run[x].missed \cap wrote[x] = {}

Sound(x) == run[x].todo \subseteq Listed(x) /\ (x \in job => Quoted(x) # {})

PriceInv ==
  /\ TypeOK
  /\ \A x \in Sync : Coherent(x)
  /\ Quotes
  /\ Ordered
  /\ ReportIsHonest
  /\ SymbolsAgree

LEMMA PriceInit == Init => PriceInv
<1> SUFFICES ASSUME Init PROVE PriceInv
  OBVIOUS
<1>1. /\ master \in [Token -> Row]
      /\ \A t \in Token : master[t].at = 0 /\ master[t].by = "nobody"
  BY DEF Init, Unquoted, Row
<1>2. \A x \in Sync : /\ run[x].pc = "idle" /\ run[x].todo = {} /\ run[x].reply = "none"
                      /\ \A t \in Token : run[x].list[t] = "absent"
                      /\ \A s \in Symbol : run[x].quotes[s] = 0
  BY DEF Init
<1>3. TypeOK
  <2>1. run \in [Sync -> RunState]
    BY DEF Init, RunState
  <2>2. wrote \in [Sync -> SUBSET Symbol] /\ overlap \subseteq SUBSET Sync
    BY DEF Init
  <2>3. \A x \in Sync : run[x].todo \subseteq Listed(x) /\ x \notin job
    BY <1>2 DEF Init
  <2>4. clock \in 1..MaxClock /\ edits \in 0..MaxEdits /\ job \subseteq Sync /\ touched \subseteq Token
    BY DEF Init
  <2> QED BY <1>1, <2>1, <2>2, <2>3, <2>4 DEF TypeOK
<1>4. \A x \in Sync : Coherent(x)
  BY <1>2 DEF Init, Coherent, Listed
<1>5. Quotes
  BY <1>1, <1>2 DEF Init, Quotes
<1>6. Ordered /\ ReportIsHonest
  BY <1>2 DEF Init, Ordered, Active, ReportIsHonest
<1>7. SymbolsAgree
  BY <1>1 DEF SymbolsAgree, Rows
<1> QED BY <1>3, <1>4, <1>5, <1>6, <1>7 DEF PriceInv

LEMMA SetRun ==
  ASSUME Runs, NEW x \in Sync, NEW r \in RunState, run' = [run EXCEPT ![x] = r]
  PROVE  Runs' /\ run'[x] = r /\ \A y \in Sync \ {x} : run'[y] = run[y]
BY DEF Runs

\* A step of a run that leaves the tables alone.
LEMMA RunStep ==
  ASSUME PriceInv, NEW x \in Sync, NEW r \in RunState, run' = [run EXCEPT ![x] = r],
         run[x].pc # "over",
         UNCHANGED <<clock, master, edits, wrote, touched>>,
         job' = job \/ job' = job \cup {x},
         overlap \subseteq overlap', overlap' \subseteq SUBSET Sync,
         Coherent(x)', Honest(x)', Sound(x)',
         \A s \in Symbol : r.quotes[s] <= clock,
         \A y \in Sync \ {x} : Active(x)' /\ Active(y) => {x, y} \in overlap',
         \A y \in Sync, t \in Token, s \in Symbol :
           /\ Active(x)' /\ master[t].by = y /\ {x, y} \notin overlap' /\ r.quotes[s] # 0
           => master[t].at <= r.quotes[s]
  PROVE  PriceInv'
<1>1. Runs
  BY DEF PriceInv, TypeOK, Runs
<1>2. Runs' /\ run'[x] = r /\ \A y \in Sync \ {x} : run'[y] = run[y]
  BY <1>1, SetRun
<1>3. \A y \in Sync \ {x} : /\ y \in job' <=> y \in job
                            /\ Coherent(y)' /\ Honest(y)' /\ Sound(y)' /\ (Active(y)' <=> Active(y))
  <2> SUFFICES ASSUME NEW y \in Sync \ {x}
               PROVE  /\ y \in job' <=> y \in job
                      /\ Coherent(y)' /\ Honest(y)' /\ Sound(y)' /\ (Active(y)' <=> Active(y))
    OBVIOUS
  <2>1. (y \in job' <=> y \in job) /\ run'[y] = run[y] /\ wrote'[y] = wrote[y]
    BY <1>2
  <2>2. /\ Listed(y)' = Listed(y) /\ ListedSymbols(y)' = ListedSymbols(y)
        /\ Quoted(y)' = Quoted(y)
    BY <2>1 DEF Listed, ListedSymbols, Quoted
  <2>3. Coherent(y) /\ Honest(y) /\ Sound(y)
    BY DEF PriceInv, ReportIsHonest, Honest, TypeOK, Sound
  <2> QED BY <2>1, <2>2, <2>3 DEF Coherent, Honest, Sound, Active
<1>4. TypeOK'
  <2>1. \A y \in Sync : Sound(y)'
    BY <1>3
  <2>2. job' \subseteq Sync
    BY DEF PriceInv, TypeOK
  <2>3. \A y \in Sync : /\ run'[y].todo \subseteq Listed(y)'
                        /\ y \in job' => Quoted(y)' # {}
    BY <2>1 DEF Sound
  <2> QED BY <1>2, <2>2, <2>3 DEF PriceInv, TypeOK, Runs
<1>5. Quotes'
  <2>1. \A t \in Token : master[t].by # x
    BY DEF PriceInv, Quotes
  <2> QED BY <1>2, <1>3, <2>1 DEF PriceInv, Quotes
<1>6. Ordered'
  <2>1. ASSUME NEW y \in Sync, NEW z \in Sync, y # z, Active(y)', Active(z)'
        PROVE  {y, z} \in overlap'
    <3>1. CASE y = x
      BY <1>3, <2>1, <3>1
    <3>2. CASE z = x
      <4>1. {x, y} \in overlap'
        BY <1>3, <2>1, <3>2
      <4>2. {y, z} = {x, y}
        BY <3>2
      <4> QED BY <4>1, <4>2
    <3>3. CASE y # x /\ z # x
      BY <1>3, <2>1, <3>3 DEF PriceInv, Ordered
    <3> QED BY <3>1, <3>2, <3>3
  <2>2. ASSUME NEW y \in Sync, NEW z \in Sync, NEW t \in Token, NEW s \in Symbol,
               Active(y)', master'[t].by = z, {y, z} \notin overlap', run'[y].quotes[s] # 0
        PROVE  master'[t].at <= run'[y].quotes[s]
    <3>1. CASE y = x
      BY <1>2, <2>2, <3>1
    <3>2. CASE y # x
      BY <1>2, <1>3, <2>2, <3>2 DEF PriceInv, Ordered
    <3> QED BY <3>1, <3>2
  <2> QED BY <2>1, <2>2 DEF Ordered
<1>7. \A y \in Sync : Coherent(y)' /\ Honest(y)'
  BY <1>3
<1>8. SymbolsAgree'
  BY DEF PriceInv, SymbolsAgree, Rows
<1> QED BY <1>4, <1>5, <1>6, <1>7, <1>8 DEF PriceInv, ReportIsHonest, Honest

LEMMA BeginStep == ASSUME PriceInv, NEW x \in Sync, ListTokens(x) PROVE PriceInv'
<1>1. /\ Runs /\ run[x] \in RunState /\ run[x].pc = "idle" /\ x \notin job
      /\ wrote[x] = {} /\ run[x].reply # "lost" /\ Listed(x) = {}
      /\ master \in [Token -> Row]
  BY DEF PriceInv, TypeOK, Runs, ListTokens, Begin, Coherent
<1>2. CASE run' = [run EXCEPT ![x].pc = "over"] /\ UNCHANGED overlap
  <2> DEFINE r == [run[x] EXCEPT !.pc = "over"]
  <2>1. /\ r \in RunState /\ r.pc = "over" /\ r.list = run[x].list /\ r.reply = run[x].reply
        /\ r.quotes = run[x].quotes /\ r.todo = run[x].todo /\ r.missed = run[x].missed
    BY <1>1 DEF RunState
  <2>2. run' = [run EXCEPT ![x] = r]
    BY <1>1, <1>2 DEF Runs
  <2> HIDE DEF r
  <2>3. Runs' /\ run'[x] = r
    BY <1>1, <2>1, <2>2, SetRun
  <2>4. Listed(x)' = {} /\ ListedSymbols(x)' = {} /\ UNCHANGED <<clock, master, job, edits, wrote, touched>>
    BY <1>1, <2>1, <2>3 DEF Listed, ListedSymbols, ListTokens, Begin
  <2>5. Coherent(x)' /\ ~Active(x)'
    BY <1>1, <2>1, <2>3, <2>4 DEF Coherent, Active
  <2>6. Honest(x)' /\ Sound(x)'
    BY <1>1, <2>1, <2>3, <2>4 DEF Honest, Sound, PriceInv, TypeOK
  <2>7. \A s \in Symbol : r.quotes[s] <= clock
    BY <2>1 DEF PriceInv, Quotes
  <2> QED BY <1>1, <1>2, <2>1, <2>2, <2>4, <2>5, <2>6, <2>7, RunStep DEF PriceInv, TypeOK
<1>3. ASSUME Rows # {},
             run' = [run EXCEPT ![x] = [@ EXCEPT !.pc = "fetch", !.quotes = [s \in Symbol |-> 0],
               !.list = [t \in Token |-> master[t].symbol], !.todo = {t \in Rows : Askable(t)}]],
             overlap' = overlap \cup {{x, y} : y \in {z \in Sync \ {x} : Active(z)}}
      PROVE  PriceInv'
  <2> DEFINE r == [run[x] EXCEPT !.pc = "fetch", !.quotes = [s \in Symbol |-> 0],
               !.list = [t \in Token |-> master[t].symbol], !.todo = {t \in Rows : Askable(t)}]
  <2>1. /\ r.pc = "fetch" /\ r.list = [t \in Token |-> master[t].symbol] /\ r.reply = run[x].reply
        /\ r.todo = {t \in Rows : Askable(t)} /\ r.missed = run[x].missed
        /\ r.quotes = [s \in Symbol |-> 0]
    BY <1>1 DEF RunState
  <2>2. r \in RunState
    <3>1. [t \in Token |-> master[t].symbol] \in [Token -> Symbol \cup {"absent"}]
      BY <1>1 DEF Row
    <3>2. [s \in Symbol |-> 0] \in [Symbol -> 0..MaxClock] /\ {t \in Rows : Askable(t)} \subseteq Token
      BY DEF Rows
    <3> QED BY <1>1, <3>1, <3>2 DEF RunState
  <2>3. run' = [run EXCEPT ![x] = r]
    BY <1>1, <1>3 DEF Runs
  <2> HIDE DEF r
  <2>4. Runs' /\ run'[x] = r
    BY <1>1, <2>2, <2>3, SetRun
  <2>5. UNCHANGED <<clock, master, job, edits, wrote, touched>>
    BY DEF ListTokens, Begin
  <2>6. Coherent(x)' /\ Honest(x)'
    BY <1>1, <2>1, <2>4, <2>5 DEF Coherent, Honest
  <2>7. Sound(x)'
    <3>1. \A t \in Rows : run'[x].list[t] # "absent"
      BY <2>1, <2>4 DEF Rows
    <3> QED BY <1>1, <2>1, <2>4, <2>5, <3>1 DEF Sound, Listed, Rows
  <2>8. \A s \in Symbol : r.quotes[s] = 0 /\ 0 <= clock
    BY <2>1 DEF PriceInv, TypeOK
  <2>9. /\ overlap \subseteq overlap' /\ overlap' \subseteq SUBSET Sync
        /\ \A y \in Sync \ {x} : Active(y) => {x, y} \in overlap'
    BY <1>3 DEF PriceInv, TypeOK
  <2>10. \A s \in Symbol : r.quotes[s] <= clock
    BY <2>8
  <2>11. \A y \in Sync, t \in Token, s \in Symbol :
           /\ Active(x)' /\ master[t].by = y /\ {x, y} \notin overlap' /\ r.quotes[s] # 0
           => master[t].at <= r.quotes[s]
    BY <2>8
  <2>12. \A y \in Sync \ {x} : Active(x)' /\ Active(y) => {x, y} \in overlap'
    BY <2>9
  <2>13. run[x].pc # "over"
    BY <1>1
  <2> QED BY <2>2, <2>3, <2>5, <2>6, <2>7, <2>9, <2>10, <2>11, <2>12, <2>13, RunStep
<1> QED BY <1>2, <1>3 DEF ListTokens, Begin

LEMMA FetchStep == ASSUME PriceInv, NEW x \in Sync, FetchPrices(x) PROVE PriceInv'
<1>1. /\ Runs /\ run[x] \in RunState /\ run[x].pc = "fetch" /\ x \notin job
      /\ wrote[x] = {} /\ run[x].reply # "lost" /\ clock \in 1..MaxClock
      /\ UNCHANGED <<clock, master, job, edits, overlap, wrote, touched>>
  BY DEF PriceInv, TypeOK, Runs, FetchPrices, Coherent
<1>2. PICK todo \in SUBSET Token, found \in SUBSET (Symbol \cup {"absent"}) :
        /\ todo \subseteq run[x].todo
        /\ run' = [run EXCEPT ![x] = [@ EXCEPT !.todo = todo,
             !.quotes = [s \in Symbol |-> IF s \in found THEN clock ELSE run[x].quotes[s]]]]
  <2>1. PICK batch \in Batches(x) : \E priced \in SUBSET batch :
          LET found == {run[x].list[t] : t \in priced} IN
          run' = [run EXCEPT ![x] = [@ EXCEPT !.todo = run[x].todo \ batch,
                   !.quotes = [s \in Symbol |-> IF s \in found THEN clock ELSE run[x].quotes[s]]]]
    BY DEF FetchPrices
  <2>0. PICK priced \in SUBSET batch :
          run' = [run EXCEPT ![x] = [@ EXCEPT !.todo = run[x].todo \ batch,
                   !.quotes = [s \in Symbol |-> IF s \in {run[x].list[t] : t \in priced}
                                                THEN clock ELSE run[x].quotes[s]]]]
    BY <2>1
  <2>2. batch \subseteq Token
    BY <1>1 DEF Batches, On, RunState
  <2>3. {run[x].list[t] : t \in priced} \subseteq Symbol \cup {"absent"}
    BY <1>1, <2>2 DEF RunState
  <2>4. run[x].todo \ batch \subseteq Token
    BY <1>1 DEF RunState
  <2> QED BY <2>0, <2>3, <2>4
<1> DEFINE quotes == [s \in Symbol |-> IF s \in found THEN clock ELSE run[x].quotes[s]]
           r == [run[x] EXCEPT !.todo = todo, !.quotes = quotes]
<1>3. quotes \in [Symbol -> 0..MaxClock]
  BY <1>1 DEF RunState
<1>4. \A s \in Symbol : quotes[s] = clock \/ quotes[s] = run[x].quotes[s]
  OBVIOUS
<1>5. run' = [run EXCEPT ![x] = r]
  BY <1>1, <1>2 DEF Runs
<1> HIDE DEF quotes
<1>6. /\ r \in RunState /\ r.pc = "fetch" /\ r.list = run[x].list /\ r.reply = run[x].reply
      /\ r.quotes = quotes /\ r.todo = todo
  BY <1>1, <1>2, <1>3 DEF RunState
<1> HIDE DEF r
<1>7. run'[x] = r
  BY <1>1, <1>5, <1>6, SetRun
<1>8. Listed(x)' = Listed(x)
  BY <1>6, <1>7 DEF Listed
<1>9. Coherent(x)' /\ Honest(x)' /\ Sound(x)'
  BY <1>1, <1>2, <1>6, <1>7, <1>8 DEF Coherent, Honest, Sound, PriceInv, TypeOK
<1>10. \A s \in Symbol : r.quotes[s] <= clock
  BY <1>1, <1>4, <1>6 DEF PriceInv, Quotes
<1>11. \A y \in Sync, t \in Token, s \in Symbol :
         /\ Active(x)' /\ master[t].by = y /\ {x, y} \notin overlap' /\ r.quotes[s] # 0
         => master[t].at <= r.quotes[s]
  <2> SUFFICES ASSUME NEW y \in Sync, NEW t \in Token, NEW s \in Symbol,
                      master[t].by = y, {x, y} \notin overlap, r.quotes[s] # 0
               PROVE  master[t].at <= r.quotes[s]
    BY <1>1
  <2>1. CASE r.quotes[s] = clock
    BY <2>1 DEF PriceInv, Quotes
  <2>2. CASE r.quotes[s] = run[x].quotes[s]
    BY <1>1, <2>2 DEF PriceInv, Ordered, Active
  <2> QED BY <1>4, <1>6, <2>1, <2>2
<1>12. \A y \in Sync \ {x} : Active(x)' /\ Active(y) => {x, y} \in overlap'
  BY <1>1 DEF PriceInv, Ordered, Active
<1> QED BY <1>1, <1>5, <1>6, <1>9, <1>10, <1>11, <1>12, RunStep DEF PriceInv, TypeOK

LEMMA SendStep == ASSUME PriceInv, NEW x \in Sync, SendPrices(x) PROVE PriceInv'
<1>1. /\ Runs /\ run[x] \in RunState /\ run[x].pc = "fetch" /\ x \notin job
      /\ wrote[x] = {} /\ run[x].reply # "lost"
      /\ UNCHANGED <<clock, master, edits, overlap, wrote, touched>>
  BY DEF PriceInv, TypeOK, Runs, SendPrices, Coherent
<1>2. PICK pc \in {"wait", "over"}, missed \in SUBSET Symbol :
        /\ run' = [run EXCEPT ![x] = [@ EXCEPT !.pc = pc, !.missed = missed]]
        /\ pc = "over" => missed = ListedSymbols(x) /\ job' = job
        /\ pc = "wait" => Quoted(x) # {} /\ job' = job \cup {x}
  <2>1. CASE Quoted(x) # {}
    <3>1. run' = [run EXCEPT ![x] = [@ EXCEPT !.pc = "wait", !.missed = run[x].missed]]
      <4>1. [run[x] EXCEPT !.pc = "wait"] = [run[x] EXCEPT !.pc = "wait", !.missed = run[x].missed]
        BY <1>1 DEF RunState
      <4> QED BY <1>1, <2>1, <4>1 DEF SendPrices, Runs
    <3>2. run[x].missed \in SUBSET Symbol
      BY <1>1 DEF RunState
    <3> QED BY <2>1, <3>1, <3>2 DEF SendPrices
  <2>2. CASE Quoted(x) = {}
    <3>1. ListedSymbols(x) \subseteq Symbol
      BY <1>1 DEF ListedSymbols, Listed, RunState
    <3> QED BY <2>2, <3>1 DEF SendPrices
  <2> QED BY <2>1, <2>2
<1> DEFINE r == [run[x] EXCEPT !.pc = pc, !.missed = missed]
<1>3. /\ r \in RunState /\ r.pc = pc /\ r.missed = missed /\ r.list = run[x].list
      /\ r.quotes = run[x].quotes /\ r.todo = run[x].todo /\ r.reply = run[x].reply
  BY <1>1, <1>2 DEF RunState
<1>4. run' = [run EXCEPT ![x] = r]
  BY <1>1, <1>2 DEF Runs
<1> HIDE DEF r
<1>5. run'[x] = r
  BY <1>1, <1>3, <1>4, SetRun
<1>6. Listed(x)' = Listed(x) /\ ListedSymbols(x)' = ListedSymbols(x) /\ Quoted(x)' = Quoted(x)
  BY <1>3, <1>5 DEF Listed, ListedSymbols, Quoted
<1>7. Coherent(x)' /\ Honest(x)' /\ Sound(x)'
  BY <1>1, <1>2, <1>3, <1>5, <1>6 DEF Coherent, Honest, Sound, PriceInv, TypeOK
<1>8. \A s \in Symbol : r.quotes[s] <= clock
  BY <1>3 DEF PriceInv, Quotes
<1>9. \A y \in Sync, t \in Token, s \in Symbol :
         /\ Active(x)' /\ master[t].by = y /\ {x, y} \notin overlap' /\ r.quotes[s] # 0
         => master[t].at <= r.quotes[s]
  BY <1>1, <1>3 DEF PriceInv, Ordered, Active
<1>10. \A y \in Sync \ {x} : Active(x)' /\ Active(y) => {x, y} \in overlap'
  BY <1>1 DEF PriceInv, Ordered, Active
<1>11. job' = job \/ job' = job \cup {x}
  BY <1>2
<1> QED BY <1>1, <1>3, <1>4, <1>7, <1>8, <1>9, <1>10, <1>11, RunStep DEF PriceInv, TypeOK

\* What a request without an answer makes of a run.
LEMMA LostRun ==
  ASSUME Runs, NEW x \in Sync
  PROVE  \E r \in RunState :
           /\ Lost(x) = [run EXCEPT ![x] = r]
           /\ r.pc = "over" /\ r.reply = "lost" /\ r.missed = ListedSymbols(x)
           /\ r.list = run[x].list /\ r.quotes = run[x].quotes /\ r.todo = run[x].todo
<1> DEFINE r == [run[x] EXCEPT !.pc = "over", !.reply = "lost", !.missed = ListedSymbols(x)]
<1>1. run[x] \in RunState /\ ListedSymbols(x) \subseteq Symbol
  BY DEF Runs, ListedSymbols, Listed, RunState
<1>2. r \in RunState
  BY <1>1 DEF RunState
<1>3. /\ r.pc = "over" /\ r.reply = "lost" /\ r.missed = ListedSymbols(x)
      /\ r.list = run[x].list /\ r.quotes = run[x].quotes /\ r.todo = run[x].todo
  BY <1>1 DEF RunState
<1>4. Lost(x) = [run EXCEPT ![x] = r]
  BY DEF Lost, Runs
<1> HIDE DEF r
<1> QED BY <1>2, <1>3, <1>4

LEMMA GiveUpStep == ASSUME PriceInv, NEW x \in Sync, GiveUp(x) PROVE PriceInv'
<1>1. /\ Runs /\ run[x] \in RunState /\ run[x].pc = "wait" /\ wrote[x] = {}
      /\ run' = Lost(x)
      /\ UNCHANGED <<clock, master, job, edits, overlap, wrote, touched>>
  BY DEF PriceInv, TypeOK, Runs, GiveUp, Coherent
<1>2. PICK r \in RunState :
        /\ run' = [run EXCEPT ![x] = r]
        /\ r.pc = "over" /\ r.reply = "lost" /\ r.missed = ListedSymbols(x)
        /\ r.list = run[x].list /\ r.quotes = run[x].quotes /\ r.todo = run[x].todo
  BY <1>1, LostRun
<1>3. run'[x] = r
  BY <1>1, <1>2, SetRun
<1>4. Listed(x)' = Listed(x) /\ ListedSymbols(x)' = ListedSymbols(x) /\ Quoted(x)' = Quoted(x)
  BY <1>2, <1>3 DEF Listed, ListedSymbols, Quoted
<1>5. Coherent(x)' /\ Honest(x)' /\ Sound(x)'
  BY <1>1, <1>2, <1>3, <1>4 DEF Coherent, Honest, Sound, PriceInv, TypeOK
<1>6. \A s \in Symbol : r.quotes[s] <= clock
  BY <1>2 DEF PriceInv, Quotes
<1>7. \A y \in Sync, t \in Token, s \in Symbol :
         /\ Active(x)' /\ master[t].by = y /\ {x, y} \notin overlap' /\ r.quotes[s] # 0
         => master[t].at <= r.quotes[s]
  BY <1>1, <1>2 DEF PriceInv, Ordered, Active
<1>8. \A y \in Sync \ {x} : Active(x)' /\ Active(y) => {x, y} \in overlap'
  BY <1>1 DEF PriceInv, Ordered, Active
<1>9. overlap' \subseteq SUBSET Sync
  BY <1>1 DEF PriceInv, TypeOK
<1>10. run[x].pc # "over"
  BY <1>1
<1> QED BY <1>1, <1>2, <1>5, <1>6, <1>7, <1>8, <1>9, <1>10, RunStep

\* The backend serves the request of x: its client's run is over then, and
\* either reports all it listed, or what was not priced and not found.
LEMMA Served ==
  ASSUME PriceInv, NEW x \in Sync, BatchUpdatePricesBySymbol(x)
  PROVE  /\ x \in job /\ wrote[x] = {} /\ UNCHANGED <<clock, edits, overlap>> /\ job' = job \ {x}
         /\ \/ /\ master' = [t \in Token |-> IF t \in Priced(x)
                               THEN [master[t] EXCEPT !.at = run[x].quotes[master[t].symbol], !.by = x]
                               ELSE master[t]]
               /\ wrote' = [wrote EXCEPT ![x] = {master[t].symbol : t \in Priced(x)}]
               /\ touched' = touched \ Priced(x)
            \/ UNCHANGED <<master, wrote, touched>>
         /\ \E r \in RunState :
              /\ run' = [run EXCEPT ![x] = r]
              /\ r.pc = "over" /\ r.list = run[x].list /\ r.quotes = run[x].quotes
              /\ r.todo = run[x].todo
              /\ \/ r.reply = "lost" /\ r.missed = ListedSymbols(x)
                 \/ /\ r.reply = "ok"
                    /\ wrote' = [wrote EXCEPT ![x] = {master[t].symbol : t \in Priced(x)}]
                    /\ r.missed = (ListedSymbols(x) \ Quoted(x))
                                    \cup (Quoted(x) \ {master[t].symbol : t \in Priced(x)})
<1> DEFINE found == {master[t].symbol : t \in Priced(x)}
<1>1. Runs /\ run[x] \in RunState /\ Coherent(x) /\ x \in job
  BY DEF PriceInv, TypeOK, Runs, BatchUpdatePricesBySymbol
<1>2. wrote[x] = {} /\ UNCHANGED <<clock, edits, overlap>> /\ job' = job \ {x}
  BY <1>1 DEF Coherent, BatchUpdatePricesBySymbol
<1>3. \/ /\ master' = [t \in Token |-> IF t \in Priced(x)
                         THEN [master[t] EXCEPT !.at = run[x].quotes[master[t].symbol], !.by = x]
                         ELSE master[t]]
         /\ wrote' = [wrote EXCEPT ![x] = found]
         /\ touched' = touched \ Priced(x)
         /\ IF run[x].pc # "wait" THEN UNCHANGED run
            ELSE run' = IF found = {} THEN Lost(x) ELSE Answered(x, Quoted(x) \ found)
      \/ /\ IF run[x].pc # "wait" THEN UNCHANGED run ELSE run' = Lost(x)
         /\ UNCHANGED <<master, wrote, touched>>
  BY DEF BatchUpdatePricesBySymbol, Written
<1> HIDE DEF found
<1>4. \E r \in RunState :
        /\ run' = [run EXCEPT ![x] = r]
        /\ r.pc = "over" /\ r.list = run[x].list /\ r.quotes = run[x].quotes /\ r.todo = run[x].todo
        /\ \/ r.reply = "lost" /\ r.missed = ListedSymbols(x)
           \/ /\ r.reply = "ok" /\ wrote' = [wrote EXCEPT ![x] = found]
              /\ r.missed = (ListedSymbols(x) \ Quoted(x)) \cup (Quoted(x) \ found)
  <2>1. CASE run[x].pc # "wait"
    <3>1. run[x].pc = "over"
      BY <1>1, <2>1 DEF Coherent, RunState
    <3>2. run' = [run EXCEPT ![x] = run[x]]
      BY <1>1, <1>3, <2>1 DEF Runs
    <3>3. run[x].reply = "lost" /\ run[x].missed = ListedSymbols(x)
      BY <1>1, <3>1 DEF Coherent
    <3> QED BY <1>1, <3>1, <3>2, <3>3
  <2>2. CASE run' = Lost(x)
    BY <1>1, <2>2, LostRun
  <2>3. CASE run' = Answered(x, Quoted(x) \ found) /\ wrote' = [wrote EXCEPT ![x] = found]
    <3> DEFINE missed == (ListedSymbols(x) \ Quoted(x)) \cup (Quoted(x) \ found)
               r == [run[x] EXCEPT !.pc = "over", !.reply = "ok", !.missed = missed]
    <3>1. missed \subseteq Symbol
      BY <1>1 DEF ListedSymbols, Listed, Quoted, RunState
    <3>2. run' = [run EXCEPT ![x] = r]
      BY <1>1, <2>3 DEF Answered, Runs
    <3> HIDE DEF missed
    <3>3. /\ r \in RunState /\ r.pc = "over" /\ r.list = run[x].list /\ r.quotes = run[x].quotes
          /\ r.todo = run[x].todo /\ r.reply = "ok" /\ r.missed = missed
      BY <1>1, <3>1 DEF RunState
    <3> HIDE DEF r
    <3> QED BY <2>3, <3>2, <3>3 DEF missed
  <2> QED BY <1>3, <2>1, <2>2, <2>3
<1> QED BY <1>1, <1>2, <1>3, <1>4 DEF found

LEMMA ServeStep == ASSUME PriceInv, NEW x \in Sync, BatchUpdatePricesBySymbol(x) PROVE PriceInv'
<1> DEFINE found == {master[t].symbol : t \in Priced(x)}
<1>1. /\ Runs /\ run[x] \in RunState /\ master \in [Token -> Row] /\ wrote \in [Sync -> SUBSET Symbol]
      /\ x \in job /\ wrote[x] = {} /\ UNCHANGED <<clock, edits, overlap>> /\ job' = job \ {x}
  BY Served DEF PriceInv, TypeOK, Runs
<1>2. PICK r \in RunState :
        /\ run' = [run EXCEPT ![x] = r]
        /\ r.pc = "over" /\ r.list = run[x].list /\ r.quotes = run[x].quotes /\ r.todo = run[x].todo
        /\ \/ r.reply = "lost" /\ r.missed = ListedSymbols(x)
           \/ /\ r.reply = "ok" /\ wrote' = [wrote EXCEPT ![x] = found]
              /\ r.missed = (ListedSymbols(x) \ Quoted(x)) \cup (Quoted(x) \ found)
  BY Served
<1>3. Runs' /\ run'[x] = r /\ \A y \in Sync \ {x} : run'[y] = run[y]
  BY <1>1, <1>2, SetRun
<1>4. /\ Priced(x) \subseteq Rows /\ found \subseteq Quoted(x) /\ Quoted(x) \subseteq Symbol
      /\ \A t \in Priced(x) : /\ master[t].symbol \in Symbol
                              /\ run[x].quotes[master[t].symbol] \in 1..MaxClock
                              /\ run[x].quotes[master[t].symbol] <= clock
  <2>1. Priced(x) \subseteq Rows /\ found \subseteq Quoted(x) /\ Quoted(x) \subseteq Symbol
    BY DEF Priced, Quoted
  <2>2. ASSUME NEW t \in Priced(x)
        PROVE  /\ master[t].symbol \in Symbol
               /\ run[x].quotes[master[t].symbol] \in 1..MaxClock
               /\ run[x].quotes[master[t].symbol] <= clock
    <3>1. master[t].symbol \in Symbol /\ run[x].quotes[master[t].symbol] # 0
      BY DEF Priced, Quoted
    <3>2. run[x].quotes[master[t].symbol] \in 0..MaxClock
      BY <1>1, <3>1 DEF RunState
    <3> QED BY <3>1, <3>2 DEF PriceInv, Quotes
  <2> QED BY <2>1, <2>2
<1> HIDE DEF found
<1>5. /\ master' \in [Token -> Row] /\ wrote' \in [Sync -> SUBSET Symbol] /\ touched' \subseteq touched
      /\ \A y \in Sync \ {x} : wrote'[y] = wrote[y]
      /\ r.reply = "ok" => wrote'[x] = found
  <2>1. CASE /\ master' = [t \in Token |-> IF t \in Priced(x)
                             THEN [master[t] EXCEPT !.at = run[x].quotes[master[t].symbol], !.by = x]
                             ELSE master[t]]
             /\ wrote' = [wrote EXCEPT ![x] = found]
             /\ touched' = touched \ Priced(x)
    <3>1. \A t \in Priced(x) :
            [master[t] EXCEPT !.at = run[x].quotes[master[t].symbol], !.by = x] \in Row
      <4> TAKE t \in Priced(x)
      <4>1. master[t] \in Row /\ run[x].quotes[master[t].symbol] \in 0..MaxClock
        BY <1>1, <1>4 DEF Rows
      <4> HIDE NamesAssumption, ClockAssumption, TokensAssumption
      <4> QED BY <4>1 DEF Row
    <3>2. master' \in [Token -> Row]
      BY <1>1, <2>1, <3>1
    <3> QED BY <1>1, <1>4, <2>1, <3>2
  <2>2. CASE UNCHANGED <<master, wrote, touched>>
    BY <1>1, <1>2, <2>2
  <2> QED BY <2>1, <2>2, Served DEF found
<1>6. \A t \in Token : \/ /\ t \in Priced(x) /\ master'[t].by = x
                          /\ master'[t].at = run[x].quotes[master[t].symbol]
                          /\ master'[t].symbol = master[t].symbol
                       \/ master'[t] = master[t]
  <2>1. CASE master' = [t \in Token |-> IF t \in Priced(x)
                          THEN [master[t] EXCEPT !.at = run[x].quotes[master[t].symbol], !.by = x]
                          ELSE master[t]]
    BY <1>1, <2>1 DEF Row
  <2>2. CASE UNCHANGED master
    BY <2>2
  <2> QED BY <2>1, <2>2, Served
<1>7. Rows' = Rows
  BY <1>6 DEF Rows
<1>8. \A y \in Sync : /\ Listed(y)' = Listed(y) /\ ListedSymbols(y)' = ListedSymbols(y)
                      /\ Quoted(y)' = Quoted(y) /\ run'[y].todo = run[y].todo
  BY <1>2, <1>3 DEF Listed, ListedSymbols, Quoted
<1>9. TypeOK'
  <2>1. \A y \in Sync : run'[y].todo \subseteq Listed(y)' /\ (y \in job' => Quoted(y)' # {})
    BY <1>1, <1>8 DEF PriceInv, TypeOK
  <2> QED BY <1>1, <1>3, <1>5, <2>1 DEF PriceInv, TypeOK, Runs
<1>10. \A y \in Sync : Coherent(y)' /\ Honest(y)'
  <2> SUFFICES ASSUME NEW y \in Sync PROVE Coherent(y)' /\ Honest(y)'
    OBVIOUS
  <2>1. CASE y = x
    <3>1. Coherent(x)'
      BY <1>1, <1>2, <1>3, <1>8 DEF Coherent
    <3>2. CASE r.reply = "lost"
      BY <1>2, <1>3, <1>8, <2>1, <3>1, <3>2 DEF Honest
    <3>3. CASE r.reply = "ok"
      BY <1>2, <1>3, <1>4, <1>5, <1>8, <2>1, <3>1, <3>3 DEF Honest
    <3> QED BY <1>2, <3>2, <3>3
  <2>2. CASE y # x
    BY <1>1, <1>3, <1>5, <1>8, <2>2 DEF PriceInv, Coherent, ReportIsHonest, Honest
  <2> QED BY <2>1, <2>2
<1>11. Quotes'
  <2>1. ASSUME NEW y \in Sync, NEW s \in Symbol PROVE run'[y].quotes[s] <= clock'
    BY <1>1, <1>2, <1>3 DEF PriceInv, Quotes
  <2>2. ASSUME NEW t \in Token
        PROVE  /\ master'[t].at <= clock' /\ (master'[t].at > 0 => master'[t].by \in Sync)
               /\ \A y \in Sync : master'[t].by = y => run'[y].pc = "over" /\ y \notin job'
    BY <1>1, <1>2, <1>3, <1>4, <1>6 DEF PriceInv, Quotes
  <2> QED BY <2>1, <2>2 DEF Quotes
<1>12. Ordered'
  <2>1. \A y \in Sync : Active(y)' => y # x /\ Active(y)
    BY <1>1, <1>2, <1>3 DEF Active
  <2>2. ASSUME NEW y \in Sync, NEW z \in Sync, NEW t \in Token, NEW s \in Symbol,
               Active(y)', master'[t].by = z, {y, z} \notin overlap', run'[y].quotes[s] # 0
        PROVE  master'[t].at <= run'[y].quotes[s]
    <3>1. CASE z = x /\ t \in Priced(x)
      BY <1>1, <2>1, <2>2, <3>1 DEF PriceInv, Ordered, Active
    <3>2. CASE master'[t] = master[t]
      BY <1>1, <1>3, <2>1, <2>2, <3>2 DEF PriceInv, Ordered
    <3> QED BY <1>6, <2>2, <3>1, <3>2
  <2> QED BY <1>1, <2>1, <2>2 DEF PriceInv, Ordered
<1>13. SymbolsAgree'
  <2> SUFFICES ASSUME NEW t \in Rows \ touched', NEW u \in Rows \ touched',
                      master'[t].symbol = master'[u].symbol
               PROVE  master'[t].at = master'[u].at /\ master'[t].by = master'[u].by
    BY <1>7 DEF SymbolsAgree
  <2>1. t \in Token /\ u \in Token /\ master[t].symbol = master[u].symbol
    BY <1>6 DEF Rows
  <2>2. CASE UNCHANGED <<master, touched>>
    BY <2>1, <2>2 DEF PriceInv, SymbolsAgree
  <2>3. CASE /\ master' = [v \in Token |-> IF v \in Priced(x)
                             THEN [master[v] EXCEPT !.at = run[x].quotes[master[v].symbol], !.by = x]
                             ELSE master[v]]
             /\ touched' = touched \ Priced(x)
    <3>1. t \in Priced(x) <=> u \in Priced(x)
      BY <2>1 DEF Priced
    <3>2. CASE t \in Priced(x)
      BY <1>1, <2>1, <2>3, <3>1, <3>2 DEF Row
    <3>3. CASE t \notin Priced(x)
      BY <2>1, <2>3, <3>1, <3>3 DEF PriceInv, SymbolsAgree
    <3> QED BY <3>2, <3>3
  <2> QED BY <2>2, <2>3, Served
<1> QED BY <1>9, <1>10, <1>11, <1>12, <1>13 DEF PriceInv, ReportIsHonest, Honest

LEMMA TickStep == ASSUME PriceInv, Tick PROVE PriceInv'
<1>1. /\ UNCHANGED <<master, run, job, edits, overlap, wrote, touched>>
      /\ clock' \in 1..MaxClock /\ clock <= clock' /\ clock \in Nat
  BY DEF Tick, PriceInv, TypeOK
<1>2. \A x \in Sync : /\ Listed(x)' = Listed(x) /\ ListedSymbols(x)' = ListedSymbols(x)
                      /\ Quoted(x)' = Quoted(x) /\ (Active(x)' <=> Active(x))
  BY <1>1 DEF Listed, ListedSymbols, Quoted, Active
<1>3. TypeOK'
  BY <1>1, <1>2 DEF PriceInv, TypeOK
<1>4. Quotes'
  <2>1. \A x \in Sync, s \in Symbol : run[x].quotes[s] \in Nat
    BY DEF PriceInv, TypeOK, RunState
  <2>2. \A t \in Token : master[t].at \in Nat
    BY DEF PriceInv, TypeOK, Row
  <2> QED BY <1>1, <2>1, <2>2 DEF PriceInv, Quotes
<1>5. Ordered'
  BY <1>1, <1>2 DEF PriceInv, Ordered
<1>6. (\A x \in Sync : Coherent(x)') /\ ReportIsHonest'
  BY <1>1, <1>2 DEF PriceInv, Coherent, ReportIsHonest
<1>7. SymbolsAgree'
  BY <1>1 DEF PriceInv, SymbolsAgree, Rows
<1> QED BY <1>3, <1>4, <1>5, <1>6, <1>7 DEF PriceInv

\* What a client's new row may be: without a quote, or with the one it has.
Allowed(rows) ==
  /\ DOMAIN rows \subseteq Token
  /\ \A t \in DOMAIN rows :
       /\ rows[t] \in Row
       /\ \/ rows[t].at = 0 /\ rows[t].by = "nobody"
          \/ rows[t].at = master[t].at /\ rows[t].by = master[t].by

LEMMA EditStep == ASSUME PriceInv, NEW rows, Allowed(rows), Edit(rows) PROVE PriceInv'
<1>1. /\ UNCHANGED <<clock, run, job, overlap, wrote>>
      /\ edits' \in 0..MaxEdits /\ touched' = touched \cup DOMAIN rows
      /\ master' = [t \in Token |-> IF t \in DOMAIN rows THEN rows[t] ELSE master[t]]
  BY DEF Edit, PriceInv, TypeOK
<1>2. \A x \in Sync : /\ Listed(x)' = Listed(x) /\ ListedSymbols(x)' = ListedSymbols(x)
                      /\ Quoted(x)' = Quoted(x) /\ (Active(x)' <=> Active(x))
  BY <1>1 DEF Listed, ListedSymbols, Quoted, Active
<1>3. \A t \in Token : \/ master'[t].at = 0 /\ master'[t].by = "nobody"
                       \/ master'[t].at = master[t].at /\ master'[t].by = master[t].by
  BY <1>1 DEF Allowed
<1>4. master' \in [Token -> Row] /\ touched' \subseteq Token
  BY <1>1 DEF Allowed, PriceInv, TypeOK
<1>5. TypeOK'
  BY <1>1, <1>2, <1>4 DEF PriceInv, TypeOK
<1>6. Quotes'
  <2>1. 0 <= clock
    BY DEF PriceInv, TypeOK
  <2> QED BY <1>1, <1>3, <2>1 DEF PriceInv, Quotes
<1>7. Ordered'
  BY <1>1, <1>2, <1>3 DEF PriceInv, Ordered
<1>8. (\A x \in Sync : Coherent(x)') /\ ReportIsHonest'
  BY <1>1, <1>2 DEF PriceInv, Coherent, ReportIsHonest
<1>9. SymbolsAgree'
  <2> SUFFICES ASSUME NEW t \in Token \ touched', NEW u \in Token \ touched',
                      master'[t].symbol # "absent", master'[u].symbol # "absent",
                      master'[t].symbol = master'[u].symbol
               PROVE  master'[t].at = master'[u].at /\ master'[t].by = master'[u].by
    BY DEF SymbolsAgree, Rows
  <2>1. master'[t] = master[t] /\ master'[u] = master[u] /\ t \notin touched /\ u \notin touched
    BY <1>1
  <2> QED BY <2>1 DEF PriceInv, SymbolsAgree, Rows
<1> QED BY <1>5, <1>6, <1>7, <1>8, <1>9 DEF PriceInv

\* The write endpoints only give rows that are allowed.
LEMMA Edits ==
  ASSUME PriceInv,
         \/ \E ts \in SUBSET Token : UpdatePricesBatch(ts) \/ RemoveBatch(ts)
         \/ \E ts \in SUBSET Token, s \in Symbol : CreateBatch(ts, s)
         \/ \E t \in Token, s \in Symbol : Update(t, s)
  PROVE  \E rows : Allowed(rows) /\ Edit(rows)
<1>1. \A t \in Token : master[t] \in Row
  BY DEF PriceInv, TypeOK
<1>2. \A s \in Symbol \cup {"absent"} : [symbol |-> s, at |-> 0, by |-> "nobody"] \in Row
  BY DEF Row
<1>3. ASSUME NEW ts \in SUBSET Token, UpdatePricesBatch(ts) PROVE \E rows : Allowed(rows) /\ Edit(rows)
  <2> DEFINE rows == [t \in ts |-> [master[t] EXCEPT !.at = 0, !.by = "nobody"]]
  <2>1. \A t \in ts : rows[t] \in Row /\ rows[t].at = 0 /\ rows[t].by = "nobody"
    <3> TAKE t \in ts
    <3>1. master[t] \in Row /\ rows[t] = [master[t] EXCEPT !.at = 0, !.by = "nobody"]
      BY <1>1
    <3> HIDE DEF rows
    <3>2. master[t].symbol \in Symbol \cup {"absent"}
      BY <3>1 DEF Row
    <3>3. rows[t] = [symbol |-> master[t].symbol, at |-> 0, by |-> "nobody"]
      BY <3>1 DEF Row
    <3> QED BY <1>2, <3>2, <3>3
  <2>2. Allowed(rows)
    BY <2>1 DEF Allowed
  <2> QED BY <1>3, <2>2 DEF UpdatePricesBatch
<1>4. ASSUME NEW ts \in SUBSET Token, NEW s \in Symbol \cup {"absent"},
             Edit([t \in ts |-> [symbol |-> s, at |-> 0, by |-> "nobody"]])
      PROVE  \E rows : Allowed(rows) /\ Edit(rows)
  <2> DEFINE rows == [t \in ts |-> [symbol |-> s, at |-> 0, by |-> "nobody"]]
  <2>1. Allowed(rows)
    BY <1>2 DEF Allowed
  <2> QED BY <1>4, <2>1
<1>5. ASSUME NEW t \in Token, NEW s \in Symbol, Update(t, s) PROVE \E rows : Allowed(rows) /\ Edit(rows)
  <2>1. CASE Edit([u \in {t} |-> [master[u] EXCEPT !.symbol = s]])
    <3> DEFINE rows == [u \in {t} |-> [master[u] EXCEPT !.symbol = s]]
    <3>1. /\ rows[t] \in Row /\ rows[t].at = master[t].at /\ rows[t].by = master[t].by
      BY <1>1 DEF Row
    <3>2. Allowed(rows)
      BY <3>1 DEF Allowed
    <3> QED BY <2>1, <3>2
  <2>2. CASE Edit([u \in {t} |-> [symbol |-> s, at |-> 0, by |-> "nobody"]])
    BY <1>4, <2>2
  <2> QED BY <1>5, <2>1, <2>2 DEF Update
<1>6. \A ts \in SUBSET Token : RemoveBatch(ts) => \E rows : Allowed(rows) /\ Edit(rows)
  BY <1>4 DEF RemoveBatch
<1>7. \A ts \in SUBSET Token, s \in Symbol : CreateBatch(ts, s) => \E rows : Allowed(rows) /\ Edit(rows)
  BY <1>4 DEF CreateBatch
<1> QED BY <1>3, <1>5, <1>6, <1>7

LEMMA PriceNext == PriceInv /\ [Next]_vars => PriceInv'
<1> SUFFICES ASSUME PriceInv, [Next]_vars PROVE PriceInv'
  OBVIOUS
<1>1. CASE UNCHANGED vars
  <2>1. \A x \in Sync : /\ Listed(x)' = Listed(x) /\ ListedSymbols(x)' = ListedSymbols(x)
                        /\ Quoted(x)' = Quoted(x) /\ (Active(x)' <=> Active(x))
    BY <1>1 DEF vars, Listed, ListedSymbols, Quoted, Active
  <2>2. TypeOK' /\ Quotes' /\ Ordered'
    BY <1>1, <2>1 DEF vars, PriceInv, TypeOK, Quotes, Ordered
  <2>3. (\A x \in Sync : Coherent(x)') /\ ReportIsHonest' /\ SymbolsAgree'
    BY <1>1, <2>1 DEF vars, PriceInv, Coherent, ReportIsHonest, SymbolsAgree, Rows
  <2> QED BY <2>2, <2>3 DEF PriceInv
<1>2. CASE Tick
  BY <1>2, TickStep
<1>3. ASSUME NEW x \in Sync, SyncPrices(x) PROVE PriceInv'
  BY <1>3, BeginStep, FetchStep, SendStep, GiveUpStep, ServeStep DEF SyncPrices
<1>4. CASE \/ \E ts \in SUBSET Token : UpdatePricesBatch(ts) \/ RemoveBatch(ts)
           \/ \E ts \in SUBSET Token, s \in Symbol : CreateBatch(ts, s)
           \/ \E t \in Token, s \in Symbol : Update(t, s)
  BY <1>4, Edits, EditStep
<1> QED BY <1>1, <1>2, <1>3, <1>4 DEF Next

\* Every step of the price syncs and of the other writers of token_master keeps
\* what is known of rows, runs and their overlaps.
THEOREM PriceInvariance == Spec => []PriceInv
BY PriceInit, PriceNext, PTL DEF Spec

\* syncPrices: what a run reports as not updated it has not written, and the
\* rest it has, unless its client gave up on the answer.
THEOREM ReportsAreHonest == Spec => []ReportIsHonest
<1>1. PriceInv => ReportIsHonest
  BY DEF PriceInv
<1> QED BY <1>1, PriceInvariance, PTL

\* batchUpdatePricesBySymbol: the rows of a symbol have one price as long as
\* no client has written one of them since.
THEOREM SymbolsStayAgreed == Spec => []SymbolsAgree
<1>1. PriceInv => SymbolsAgree
  BY DEF PriceInv
<1> QED BY <1>1, PriceInvariance, PTL

\* Rows and runs stay well formed, and no empty list is sent to the backend.
THEOREM PricesTyped == Spec => []TypeOK
<1>1. PriceInv => TypeOK
  BY DEF PriceInv
<1> QED BY <1>1, PriceInvariance, PTL

\* syncPrices: a run puts back an older quote only over that of a run it
\* overlapped with.
THEOREM OlderQuotesOverlap == Spec => NoOlderQuote
<1>1. PriceInv /\ [Next]_vars =>
        [\A t \in Token :
           LET old == master[t]
               new == master'[t]
           IN new.by \in Sync /\ new.at < old.at => {old.by, new.by} \in overlap]_vars
  <2> SUFFICES ASSUME PriceInv, [Next]_vars, NEW t \in Token,
                      master'[t].by \in Sync, master'[t].at < master[t].at
               PROVE  {master[t].by, master'[t].by} \in overlap
    OBVIOUS
  <2>1. master[t].at \in Nat
    BY DEF PriceInv, TypeOK, Row
  <2>2. CASE \E x \in Sync : BatchUpdatePricesBySymbol(x)
    <3>1. PICK x \in Sync : BatchUpdatePricesBySymbol(x)
      BY <2>2
    <3>2. /\ x \in job /\ t \in Priced(x) /\ master'[t].by = x
          /\ master'[t].at = run[x].quotes[master[t].symbol]
      <4>1. x \in job
        BY <3>1, Served
      <4>2. master'[t] # master[t]
        BY <2>1
      <4>3. master[t] \in Row
        BY DEF PriceInv, TypeOK
      <4>4. master' = [u \in Token |-> IF u \in Priced(x)
                         THEN [master[u] EXCEPT !.at = run[x].quotes[master[u].symbol], !.by = x]
                         ELSE master[u]]
        BY <3>1, <4>2, Served
      <4> QED BY <4>1, <4>2, <4>3, <4>4 DEF Row
    <3>3. master[t].symbol \in Symbol /\ run[x].quotes[master[t].symbol] # 0
      BY <3>2 DEF Priced, Quoted
    <3>4. master'[t].at \in Nat
      BY <3>2, <3>3 DEF PriceInv, TypeOK, RunState
    <3>5. master[t].by \in Sync
      BY <2>1, <3>4 DEF PriceInv, Quotes
    <3>6. {x, master[t].by} \in overlap
      BY <2>1, <3>2, <3>3, <3>4, <3>5 DEF PriceInv, Ordered, Active
    <3>7. {x, master[t].by} = {master[t].by, master'[t].by}
      BY <3>2
    <3> QED BY <3>6, <3>7
  <2>3. CASE \E rows : Allowed(rows) /\ Edit(rows)
    <3>1. \/ master'[t].at = 0 /\ master'[t].by = "nobody"
          \/ master'[t].at = master[t].at
      BY <2>3 DEF Allowed, Edit
    <3> QED BY <2>1, <3>1
  <2>4. CASE UNCHANGED master
    BY <2>1, <2>4
  <2> QED BY <2>2, <2>3, <2>4, Edits
       DEF Next, vars, Tick, SyncPrices, ListTokens, Begin, FetchPrices, SendPrices, GiveUp
<1> QED BY <1>1, PriceInvariance, PTL DEF Spec, NoOlderQuote
=============================================================================
