----------------------------- MODULE TokenPrices -----------------------------
(***************************************************************************)
(* TokenPriceSyncService.syncPrices and TokenMasterService: the prices of  *)
(* token_master, written by runs of the sync (every hour, and by hand)     *)
(* through the backend's own HTTP API, while tokens are created, edited    *)
(* and removed.  A row is known by its chain and contract, prices are      *)
(* written by symbol.  A price is abstracted to the moment it was quoted   *)
(* at; a value a client gives is a quote of nobody.  Each call over HTTP   *)
(* gives up after a timeout, whatever becomes of it on the other side.     *)
(***************************************************************************)
EXTENDS Integers, FiniteSets

CONSTANTS
  Token,       \* keys of token_master: a contract on a chain
  Symbol,      \* canonical symbols
  ChainOf,     \* the chain of each token
  Valid,       \* tokens whose address has the form its chain requires
  BatchSize,   \* addresses in one call of DexScreener, 30 in the code
  Sync,        \* the runs of the sync that will ever be made
  MaxClock,    \* bound: how often the markets move
  MaxEdits,    \* bound: how often a client writes the table
  DbFaults     \* "rejected": the transaction may fail

ASSUME TokensAssumption == IsFiniteSet(Token) /\ Valid \subseteq Token
ASSUME BatchAssumption == BatchSize \in Nat \ {0}
ASSUME ClockAssumption == MaxClock \in Nat \ {0} /\ MaxEdits \in Nat
ASSUME NamesAssumption == "absent" \notin Symbol /\ "nobody" \notin Sync

VARIABLES
  clock,     \* the moment
  master,    \* the token_master table
  run,       \* the runs of the sync
  job,       \* runs whose request the backend has still to serve
  edits,     \* how often a client has written the table
  overlap,   \* history: pairs of runs of which one began while the other was active
  wrote,     \* history: the symbols of which each run has written a row
  touched    \* history: rows written by a client after they were by a run

vars == <<clock, master, run, job, edits, overlap, wrote, touched>>

\* symbol "absent": no row.  at 0: no quote.
Row == [symbol : Symbol \cup {"absent"}, at : 0..MaxClock, by : Sync \cup {"nobody"}]

\* list: the symbols of the tokens as they were listed; quotes: the payload,
\* the moment of the last price of each symbol; missed: what is reported as
\* not updated; reply: what came of the request.
RunState == [pc : {"idle", "fetch", "wait", "over"}, list : [Token -> Symbol \cup {"absent"}],
             todo : SUBSET Token, quotes : [Symbol -> 0..MaxClock], missed : SUBSET Symbol,
             reply : {"none", "ok", "lost"}]

Unquoted == [symbol : Symbol \cup {"absent"}, at : {0}, by : {"nobody"}]

Init ==
  /\ clock = 1
  /\ master \in [Token -> Unquoted]
  /\ run = [x \in Sync |-> [pc |-> "idle", list |-> [t \in Token |-> "absent"], todo |-> {},
              quotes |-> [s \in Symbol |-> 0], missed |-> {}, reply |-> "none"]]
  /\ job = {} /\ edits = 0
  /\ overlap = {} /\ wrote = [x \in Sync |-> {}] /\ touched = {}
-----------------------------------------------------------------------------
Rows == {t \in Token : master[t].symbol # "absent"}
Tick == clock < MaxClock /\ clock' = clock + 1
        /\ UNCHANGED <<master, run, job, edits, overlap, wrote, touched>>

\* A client gives some tokens new rows.
Edit(rows) ==
  /\ DOMAIN rows # {} /\ edits < MaxEdits
  /\ edits' = edits + 1
  /\ master' = [t \in Token |-> IF t \in DOMAIN rows THEN rows[t] ELSE master[t]]
  /\ touched' = touched \cup DOMAIN rows
  /\ UNCHANGED <<clock, run, job, overlap, wrote>>

\* create and createBatch: rows that exist already are refused or skipped.
CreateBatch(ts, s) ==
  /\ ts \subseteq Token \ Rows
  /\ Edit([t \in ts |-> [symbol |-> s, at |-> 0, by |-> "nobody"]])

\* update: a token gets another symbol, and may get a price.
Update(t, s) ==
  /\ t \in Rows
  /\ \/ Edit([u \in {t} |-> [master[u] EXCEPT !.symbol = s]])
     \/ Edit([u \in {t} |-> [symbol |-> s, at |-> 0, by |-> "nobody"]])

\* updatePrice, and updatePricesBatch in one transaction: ids without a row
\* are passed over.
UpdatePricesBatch(ts) ==
  /\ ts \subseteq Rows
  /\ Edit([t \in ts |-> [master[t] EXCEPT !.at = 0, !.by = "nobody"]])

RemoveBatch(ts) ==
  /\ ts \subseteq Rows
  /\ Edit([t \in ts |-> [symbol |-> "absent", at |-> 0, by |-> "nobody"]])
-----------------------------------------------------------------------------
Active(x) == run[x].pc \in {"fetch", "wait"} \/ x \in job
Listed(x) == {t \in Token : run[x].list[t] # "absent"}
ListedSymbols(x) == {run[x].list[t] : t \in Listed(x)}
Quoted(x) == {s \in Symbol : run[x].quotes[s] # 0}
Askable(t) == ChainOf[t] = "paradex" \/ t \in Valid

\* syncPrices lists the tokens; nothing to list, or an error, ends it.
Begin(x, quotes) ==
  /\ run[x].pc = "idle"
  /\ \/ /\ Rows # {}
        /\ run' = [run EXCEPT ![x] = [@ EXCEPT !.pc = "fetch", !.quotes = quotes,
             !.list = [t \in Token |-> master[t].symbol], !.todo = {t \in Rows : Askable(t)}]]
        /\ overlap' = overlap \cup {{x, y} : y \in {z \in Sync \ {x} : Active(z)}}
     \/ run' = [run EXCEPT ![x].pc = "over"] /\ UNCHANGED overlap
  /\ UNCHANGED <<clock, master, job, edits, wrote, touched>>

\* Faulty variant: the prices found are kept from one run to the next.
ListTokensAgain(x) == \E y \in Sync : Begin(x, run[y].quotes)

ListTokens(x) == Begin(x, [s \in Symbol |-> 0])

\* One chain of DexScreener after the other, in batches, then the tokens of
\* Paradex one by one.
On(x, c) == {t \in run[x].todo : ChainOf[t] = c}
Untouched(x, c) == On(x, c) = {t \in Listed(x) : ChainOf[t] = c /\ Askable(t)}
DexChains(x) == {ChainOf[t] : t \in run[x].todo} \ {"paradex"}
Batches(x) ==
  IF DexChains(x) = {} THEN {{t} : t \in run[x].todo}
  ELSE UNION {{b \in SUBSET On(x, c) :
                 /\ Cardinality(b) <= BatchSize
                 /\ b = On(x, c) \/ Cardinality(b) = BatchSize} :
              c \in {d \in DexChains(x) : \A e \in DexChains(x) \ {d} : Untouched(x, e)}}

\* Each call prices some of its tokens; an error prices none.
FetchPrices(x) ==
  /\ run[x].pc = "fetch"
  /\ \E batch \in Batches(x) : \E priced \in SUBSET batch :
       LET found == {run[x].list[t] : t \in priced} IN
       run' = [run EXCEPT ![x] = [@ EXCEPT !.todo = run[x].todo \ batch,
                 !.quotes = [s \in Symbol |-> IF s \in found THEN clock ELSE run[x].quotes[s]]]]
  /\ UNCHANGED <<clock, master, job, edits, overlap, wrote, touched>>

SendPrices(x) ==
  /\ run[x].pc = "fetch" /\ run[x].todo = {}
  /\ IF Quoted(x) # {}
     THEN run' = [run EXCEPT ![x].pc = "wait"] /\ job' = job \cup {x}
     ELSE /\ run' = [run EXCEPT ![x] = [@ EXCEPT !.pc = "over", !.missed = ListedSymbols(x)]]
          /\ UNCHANGED job
  /\ UNCHANGED <<clock, master, edits, overlap, wrote, touched>>
-----------------------------------------------------------------------------
\* The report: symbols never priced, and those the backend did not find.  A
\* request without an answer puts the priced ones back.
Answered(x, notFound) ==
  [run EXCEPT ![x] = [@ EXCEPT !.pc = "over", !.reply = "ok",
                        !.missed = (ListedSymbols(x) \ Quoted(x)) \cup notFound]]

\* Faulty variant: the priced ones are not put back.
LostAndForgotten(x) ==
  [run EXCEPT ![x] = [@ EXCEPT !.pc = "over", !.reply = "lost",
                        !.missed = ListedSymbols(x) \ Quoted(x)]]

Lost(x) ==
  [run EXCEPT ![x] = [@ EXCEPT !.pc = "over", !.reply = "lost", !.missed = ListedSymbols(x)]]

GiveUp(x) ==
  /\ run[x].pc = "wait"
  /\ run' = Lost(x)
  /\ UNCHANGED <<clock, master, job, edits, overlap, wrote, touched>>

Priced(x) == {t \in Rows : master[t].symbol \in Quoted(x)}

\* Faulty variant: update instead of updateMany, one row of each symbol.
PricedOnce(x) ==
  {t \in Priced(x) : t = CHOOSE u \in Priced(x) : master[u].symbol = master[t].symbol}

\* batchUpdatePricesBySymbol, served whether or not the client still waits:
\* one transaction over all rows of each symbol.  Finding no row at all is
\* answered as an error.
Written(x) == Priced(x)

BatchUpdatePricesBySymbol(x) ==
  LET found == {master[t].symbol : t \in Written(x)} IN
  /\ x \in job
  /\ job' = job \ {x}
  /\ \/ /\ master' = [t \in Token |->
             IF t \in Written(x)
             THEN [master[t] EXCEPT !.at = run[x].quotes[master[t].symbol], !.by = x] ELSE master[t]]
        /\ wrote' = [wrote EXCEPT ![x] = found]
        /\ touched' = touched \ Priced(x)
        /\ IF run[x].pc # "wait" THEN UNCHANGED run
           ELSE run' = IF found = {} THEN Lost(x) ELSE Answered(x, Quoted(x) \ found)
     \/ /\ DbFaults # {}
        /\ IF run[x].pc # "wait" THEN UNCHANGED run ELSE run' = Lost(x)
        /\ UNCHANGED <<master, wrote, touched>>
  /\ UNCHANGED <<clock, edits, overlap>>
-----------------------------------------------------------------------------
SyncPrices(x) ==
  \/ ListTokens(x) \/ FetchPrices(x) \/ SendPrices(x) \/ GiveUp(x)
  \/ BatchUpdatePricesBySymbol(x)

Next ==
  \/ Tick
  \/ \E x \in Sync : SyncPrices(x)
  \/ \E ts \in SUBSET Token : UpdatePricesBatch(ts) \/ RemoveBatch(ts)
  \/ \E ts \in SUBSET Token, s \in Symbol : CreateBatch(ts, s)
  \/ \E t \in Token, s \in Symbol : Update(t, s)

Spec == Init /\ [][Next]_vars
-----------------------------------------------------------------------------
\* Rows and runs are well formed, a run asks only for tokens it listed, and
\* the backend is never sent an empty list, which it would refuse.
TypeOK ==
  /\ clock \in 1..MaxClock /\ edits \in 0..MaxEdits
  /\ master \in [Token -> Row]
  /\ run \in [Sync -> RunState]
  /\ \A x \in Sync : run[x].todo \subseteq Listed(x) /\ (x \in job => Quoted(x) # {})
  /\ job \subseteq Sync /\ overlap \subseteq SUBSET Sync
  /\ wrote \in [Sync -> SUBSET Symbol] /\ touched \subseteq Token

\* A run of the sync replaces a price by an older quote only if the run that
\* wrote it overlapped with it.  A run that gave up waiting is active until
\* the backend has served its request: that overlaps with the next run.
NoOlderQuote ==
  [][\A t \in Token :
       LET old == master[t]
           new == master'[t]
       IN new.by \in Sync /\ new.at < old.at => {old.by, new.by} \in overlap]_vars

\* What syncPrices reports: a symbol not named as missed has been written by
\* this run, and one that is named has not, unless the answer was lost.
ReportIsHonest ==
  \A x \in Sync : run[x].pc = "over" =>
    /\ ListedSymbols(x) \ run[x].missed \subseteq wrote[x]
    /\ run[x].reply # "lost" => run[x].missed \cap wrote[x] = {}

\* Tokens of one symbol on several chains have one price, however runs
\* overlap, as long as no client has written one of them since.
SymbolsAgree ==
  \A t, u \in Rows \ touched : master[t].symbol = master[u].symbol =>
    master[t].at = master[u].at /\ master[t].by = master[u].by
=============================================================================
