------------------------------ MODULE Pricing ------------------------------
(***************************************************************************)
(* The price tables and the snapshot requests are priced from: the price   *)
(* part of internal/store/store.go, internal/store/model_settings.go, the  *)
(* catalogue refresh of internal/app/app.go and the administrators'        *)
(* handlers of internal/app/api.go.                                        *)
(*                                                                         *)
(* Every change writes its table and then rebuilds the snapshot from four  *)
(* separate reads, under a mutex of its own; the capability index is       *)
(* rebuilt from three reads under no lock.  A worker runs one operation: a *)
(* handler, or the catalogue refresh of the maintenance loop.  The         *)
(* operations of a behaviour are chosen in the initial state.              *)
(*                                                                         *)
(* A capability is what its version and its overrides say; what is in it   *)
(* is left out.  A read fails when its request is cancelled or the         *)
(* database does not answer.                                               *)
(***************************************************************************)
EXTENDS Billing

CONSTANTS
  Workers,        \* handlers and the maintenance loop
  Feeds,          \* 1..n: the successive contents of models.dev
  Feed,           \* [Feeds -> set of offers]
  MinimumEntries, \* 10: a catalogue with fewer entries is refused
  Asked,          \* the dimensions a price is asked for
  MaxRestarts     \* bound: restarts of the process

Blank == [provider |-> " ", name |-> " ", dated |-> FALSE]   \* a name of blanks
NoOne == "no one"
NoCatalog == [version |-> 0, entries |-> <<>>]
NoIndex == [version |-> 0, overrides |-> {}]
NoSnapshot == [admin |-> <<>>, catalog |-> <<>>, aliases |-> <<>>, rules |-> {}, built |-> FALSE]

(* What an operation is: its kind, and what it writes. *)
Nothing == [kind |-> "none"]

VARIABLES
  prices,       \* model_prices: administrator rows, [models -> prices]
  catalog,      \* model_catalog_prices, and the models-dev-capabilities setting
  aliases,      \* model_aliases
  rules,        \* model_price_rules
  settings,     \* model_settings: the models with a capability override
  snapshot,     \* Store.pricingCatalog
  capabilities, \* App.capabilities
  pricingMu,    \* who holds Store.pricingMu
  syncMu,       \* who holds App.pricingSyncMu
  jobs,         \* [Workers -> job]
  feed,         \* what models.dev serves now
  restarts,     \* how often the process has restarted
  unsettled     \* the index may be behind: operations on it overlapped, or
                \* the process started and could not read it

tables == <<prices, catalog, aliases, rules, settings>>
pricingVars == <<prices, catalog, aliases, rules, settings, snapshot, capabilities,
                 pricingMu, syncMu, jobs, feed, restarts, unsettled>>

(* Where an operation is, and what it has read. *)
Steps == {"start", "list", "lock_sync", "fetch", "apply", "refresh", "read_admin", "read_catalog",
          "read_aliases", "read_rules", "compile", "read_index", "read_settings",
          "publish", "publish_again"}
(* refused: nothing was changed; failed: a table was, the snapshot was not; *)
(* stale: the index could not be read again.                                *)
Ends == {"ok", "refused", "failed", "stale"}
NewJob(op) == [op |-> op, pc |-> IF op = Nothing THEN "ok" ELSE "start",
               read |-> NoSnapshot, fetched |-> NoCatalog, index |-> NoIndex]

IndexOps == {"setting_put", "setting_delete", "sync_get", "sync_post", "refresh", "prices"}
SyncOps == {"sync_post", "refresh", "prices"}

(* The tables are empty, and each worker is about to do its operation. *)
PricingStart(workload) ==
  /\ prices = <<>> /\ catalog = NoCatalog /\ aliases = <<>> /\ rules = {} /\ settings = {}
  /\ snapshot = NoSnapshot /\ capabilities = NoIndex
  /\ pricingMu = NoOne /\ syncMu = NoOne
  /\ jobs = [w \in Workers |-> NewJob(workload[w])]
  /\ feed = 1 /\ restarts = 0 /\ unsettled = FALSE

At(w, step) == jobs[w].pc = step
Step(w, step) == jobs' = [jobs EXCEPT ![w].pc = step]
Kind(w) == jobs[w].op.kind
Running(w) == jobs[w].pc \in Steps \ {"start"}

(* Every return releases the locks its function holds. *)
Return(w, end) ==
  /\ Step(w, end)
  /\ pricingMu' = IF pricingMu = w THEN NoOne ELSE pricingMu
  /\ syncMu' = IF syncMu = w THEN NoOne ELSE syncMu

NoteOverlap(w) ==
  unsettled' = (unsettled \/ (Kind(w) \in IndexOps /\ \E o \in Workers \ {w} :
                                  Kind(o) \in IndexOps /\ Running(o)))

----------------------------------------------------------------------------
(* Writing a table.  What follows a write is RefreshPricing. *)

WriteThenRefresh(w, kind) ==
  /\ At(w, "start") /\ Kind(w) = kind
  /\ Step(w, "refresh")
  /\ UNCHANGED <<catalog, settings, snapshot, capabilities, pricingMu, syncMu, feed, restarts,
                 unsettled>>

(* A name of blanks passes the handler's check. *)
adminPriceUpdate(w) ==
  /\ WriteThenRefresh(w, "price_put")
  /\ LET op == jobs[w].op
     IN prices' = [m \in DOMAIN prices \cup {op.model} |->
                     IF m = op.model THEN op.price ELSE prices[m]]
  /\ UNCHANGED <<aliases, rules>>

(* The refresh comes first even when no row was deleted. *)
adminPriceDelete(w) ==
  /\ WriteThenRefresh(w, "price_delete")
  /\ jobs[w].op.model # Blank
  /\ prices' = [m \in DOMAIN prices \ {jobs[w].op.model} |-> prices[m]]
  /\ UNCHANGED <<aliases, rules>>

ReplaceModelAliases(w) ==
  /\ WriteThenRefresh(w, "aliases")
  /\ aliases' = jobs[w].op.aliases
  /\ UNCHANGED <<prices, rules>>

(* One invalid rule, and the transaction changes nothing. *)
ReplacePriceRules(w) ==
  /\ WriteThenRefresh(w, "rules")
  /\ \A rule \in jobs[w].op.rules : ValidRule(rule)
  /\ rules' = jobs[w].op.rules
  /\ UNCHANGED <<prices, aliases>>

(* The handler refuses what it was given, or the write fails. *)
WriteRefused(w) ==
  /\ At(w, "start")
  /\ Kind(w) \in {"price_put", "price_delete", "aliases", "rules", "setting_put", "setting_delete"}
  /\ Step(w, "refused")
  /\ UNCHANGED <<tables, snapshot, capabilities, pricingMu, syncMu, feed, restarts, unsettled>>

(* A price is asked for: the first one builds the snapshot. *)
ResolvePrice(w) ==
  /\ At(w, "start") /\ Kind(w) = "resolve"
  /\ Step(w, IF snapshot.built THEN "ok" ELSE "refresh")
  /\ UNCHANGED <<tables, snapshot, capabilities, pricingMu, syncMu, feed, restarts, unsettled>>

----------------------------------------------------------------------------
(* RefreshPricing: four reads and the replacement, under pricingMu. *)

(* Mutant of RefreshLock: the refresh takes no lock. *)
RefreshUnlocked(w) ==
  /\ At(w, "refresh")
  /\ Step(w, "read_admin")
  /\ UNCHANGED <<pricingMu, tables, snapshot, capabilities, syncMu, feed, restarts, unsettled>>

RefreshLock(w) ==
  /\ At(w, "refresh") /\ pricingMu = NoOne
  /\ pricingMu' = w
  /\ Step(w, "read_admin")
  /\ UNCHANGED <<tables, snapshot, capabilities, syncMu, feed, restarts, unsettled>>

ReadNext == [read_admin |-> "read_catalog", read_catalog |-> "read_aliases",
             read_aliases |-> "read_rules", read_rules |-> "compile"]

RefreshRead(w) ==
  /\ jobs[w].pc \in DOMAIN ReadNext
  /\ jobs' = [jobs EXCEPT
       ![w].pc = ReadNext[jobs[w].pc],
       ![w].read = [@ EXCEPT
         !.admin = IF At(w, "read_admin") THEN prices ELSE @,
         !.catalog = IF At(w, "read_catalog") THEN catalog.entries ELSE @,
         !.aliases = IF At(w, "read_aliases") THEN aliases ELSE @,
         !.rules = IF At(w, "read_rules") THEN rules ELSE @]]
  /\ UNCHANGED <<tables, snapshot, capabilities, pricingMu, syncMu, feed, restarts, unsettled>>

(* A read fails, and the snapshot stays what it was. *)
RefreshFails(w) ==
  /\ jobs[w].pc \in DOMAIN ReadNext
  /\ Return(w, "failed")
  /\ UNCHANGED <<tables, snapshot, capabilities, feed, restarts, unsettled>>

(* A row without a name does not compile; otherwise the snapshot is        *)
(* replaced.  The synchronisations go on to publish the capability index,  *)
(* the refresh of the maintenance loop without releasing pricingSyncMu.    *)
Compile(w) ==
  /\ At(w, "compile")
  /\ \/ /\ Blank \in DOMAIN jobs[w].read.admin
        /\ Return(w, "failed")
        /\ UNCHANGED snapshot
     \/ /\ Blank \notin DOMAIN jobs[w].read.admin
        /\ snapshot' = [jobs[w].read EXCEPT !.built = TRUE]
        /\ Step(w, IF Kind(w) \in SyncOps THEN "read_settings" ELSE "ok")
        /\ pricingMu' = IF pricingMu = w THEN NoOne ELSE pricingMu
        /\ syncMu' = IF Kind(w) = "sync_post" THEN NoOne ELSE syncMu
  /\ UNCHANGED <<tables, capabilities, feed, restarts, unsettled>>

----------------------------------------------------------------------------
(* The models.dev catalogue. *)

(* adminPrices: the catalogue is fetched when there is none. *)
adminPrices(w) ==
  /\ At(w, "start") /\ Kind(w) = "prices"
  /\ Step(w, IF catalog.entries = <<>> THEN "lock_sync" ELSE "ok")
  /\ NoteOverlap(w)
  /\ UNCHANGED <<tables, snapshot, capabilities, pricingMu, syncMu, feed, restarts>>

(* refreshPricingCatalog: it fetches, stores and publishes under one lock. *)
refreshPricingCatalog(w) ==
  /\ syncMu = NoOne
  /\ \/ At(w, "start") /\ Kind(w) = "refresh"
     \/ At(w, "lock_sync") /\ Kind(w) = "prices"
  /\ syncMu' = w
  /\ Step(w, IF Kind(w) = "prices" THEN "list" ELSE "fetch")
  /\ NoteOverlap(w)
  /\ UNCHANGED <<tables, snapshot, capabilities, pricingMu, feed, restarts>>

(* onlyIfEmpty: another one may have fetched it meanwhile. *)
OnlyIfEmpty(w) ==
  /\ At(w, "list")
  /\ IF catalog.entries = <<>>
       THEN Step(w, "fetch") /\ UNCHANGED <<pricingMu, syncMu>>
       ELSE Return(w, "ok")
  /\ UNCHANGED <<tables, snapshot, capabilities, feed, restarts, unsettled>>

(* adminPricingSync: it fetches before it locks. *)
adminPricingSync(w) ==
  /\ At(w, "start") /\ Kind(w) \in {"sync_get", "sync_post"}
  /\ Step(w, "fetch")
  /\ NoteOverlap(w)
  /\ UNCHANGED <<tables, snapshot, capabilities, pricingMu, syncMu, feed, restarts>>

(* FetchModelsDev goes through Go maps: the offers come in any order. *)
Fetch(w) ==
  /\ At(w, "fetch")
  /\ \E offers \in SetToSeqs(Feed[feed]) :
       LET entries == FetchModelsDev(offers)
       IN IF Cardinality(DOMAIN entries) < MinimumEntries
            THEN Return(w, "refused")
            ELSE /\ jobs' = [jobs EXCEPT
                      ![w].fetched = [version |-> feed, entries |-> entries],
                      ![w].pc = IF Kind(w) = "sync_get" THEN "read_settings" ELSE "apply"]
                 /\ UNCHANGED <<pricingMu, syncMu>>
  /\ UNCHANGED <<tables, snapshot, capabilities, feed, restarts, unsettled>>

FetchFails(w) ==
  /\ At(w, "fetch")
  /\ Return(w, "refused")
  /\ UNCHANGED <<tables, snapshot, capabilities, feed, restarts, unsettled>>

(* The whole catalogue is replaced in one transaction, with the facts it *)
(* brings; the transaction may fail.                                     *)
ApplyCatalog(w) ==
  /\ At(w, "apply")
  /\ Kind(w) = "sync_post" => syncMu = NoOne
  /\ \/ /\ catalog' = jobs[w].fetched
        /\ Step(w, "refresh")
        /\ syncMu' = w
        /\ UNCHANGED pricingMu
     \/ Return(w, "refused") /\ UNCHANGED catalog
  /\ UNCHANGED <<prices, aliases, rules, settings, snapshot, capabilities, feed, restarts,
                 unsettled>>

----------------------------------------------------------------------------
(* The capability index. *)

UpsertModelSetting(w) ==
  /\ At(w, "start") /\ Kind(w) = "setting_put"
  /\ settings' = settings \cup {jobs[w].op.model}
  /\ Step(w, "read_index")
  /\ NoteOverlap(w)
  /\ UNCHANGED <<prices, catalog, aliases, rules, snapshot, capabilities, pricingMu, syncMu,
                 feed, restarts>>

DeleteModelSetting(w) ==
  /\ At(w, "start") /\ Kind(w) = "setting_delete"
  /\ jobs[w].op.model \in settings
  /\ settings' = settings \ {jobs[w].op.model}
  /\ Step(w, "read_index")
  /\ NoteOverlap(w)
  /\ UNCHANGED <<prices, catalog, aliases, rules, snapshot, capabilities, pricingMu, syncMu,
                 feed, restarts>>

(* loadCapabilitiesFromStore: the facts of the stored catalogue.  A failed *)
(* read publishes nothing.                                                 *)
loadCapabilitiesFromStore(w) ==
  /\ At(w, "read_index")
  /\ \/ jobs' = [jobs EXCEPT ![w].fetched = catalog, ![w].pc = "read_settings"]
     \/ Step(w, "stale")
  /\ UNCHANGED <<tables, snapshot, capabilities, pricingMu, syncMu, feed, restarts, unsettled>>

(* mergeCapabilityIndex: the overrides go on top; when they cannot be read *)
(* the published index is published again.                                 *)
mergeCapabilityIndex(w) ==
  /\ At(w, "read_settings")
  /\ \/ jobs' = [jobs EXCEPT
            ![w].index = [version |-> jobs[w].fetched.version, overrides |-> settings],
            ![w].pc = "publish"]
     \/ jobs' = [jobs EXCEPT ![w].index = capabilities, ![w].pc = "publish_again"]
  /\ UNCHANGED <<tables, snapshot, capabilities, pricingMu, syncMu, feed, restarts, unsettled>>

setCapabilities(w) ==
  /\ At(w, "publish") \/ At(w, "publish_again")
  /\ capabilities' = jobs[w].index
  /\ Return(w, IF At(w, "publish") THEN "ok" ELSE "stale")
  /\ UNCHANGED <<tables, snapshot, feed, restarts, unsettled>>

----------------------------------------------------------------------------
(* models.dev changes; nobody notices unless an operation is still to end. *)
FeedAdvances ==
  /\ \E w \in Workers : jobs[w].pc \in Steps
  /\ feed + 1 \in Feeds /\ feed' = feed + 1
  /\ UNCHANGED <<tables, snapshot, capabilities, pricingMu, syncMu, jobs, restarts, unsettled>>

(* The process stops wherever its workers are.  The next one starts without *)
(* a snapshot, and with the index of the store when it can read it.         *)
Restart ==
  /\ restarts < MaxRestarts /\ restarts' = restarts + 1
  /\ snapshot' = NoSnapshot
  /\ \/ /\ capabilities' = [version |-> catalog.version, overrides |-> settings]
        /\ unsettled' = FALSE
     \/ capabilities' = NoIndex /\ unsettled' = TRUE
  /\ pricingMu' = NoOne /\ syncMu' = NoOne
  /\ jobs' = [w \in Workers |-> IF At(w, "start") THEN jobs[w] ELSE [jobs[w] EXCEPT !.pc = "ok"]]
  /\ UNCHANGED <<tables, feed>>

PricingStep(w) ==
  \/ adminPriceUpdate(w) \/ adminPriceDelete(w) \/ ReplaceModelAliases(w) \/ ReplacePriceRules(w)
  \/ WriteRefused(w) \/ ResolvePrice(w)
  \/ RefreshLock(w) \/ RefreshRead(w) \/ RefreshFails(w) \/ Compile(w)
  \/ adminPrices(w) \/ refreshPricingCatalog(w) \/ OnlyIfEmpty(w) \/ adminPricingSync(w)
  \/ Fetch(w) \/ FetchFails(w) \/ ApplyCatalog(w)
  \/ UpsertModelSetting(w) \/ DeleteModelSetting(w)
  \/ loadCapabilitiesFromStore(w) \/ mergeCapabilityIndex(w) \/ setCapabilities(w)

----------------------------------------------------------------------------
(* What the price tables promise. *)

(* Every job is at a step of its operation, a lock is held only inside the  *)
(* section it guards, and what is stored is well formed.                    *)
PricingTypeOK ==
  /\ DOMAIN prices \subseteq Models \cup {Blank}
  /\ \A m \in DOMAIN prices : IsPrice(prices[m])
  /\ \A m \in DOMAIN catalog.entries : m \in Models /\ IsPrice(catalog.entries[m])
  /\ \A rule \in rules : ValidRule(rule)
  /\ snapshot.built => Blank \notin DOMAIN snapshot.admin
  /\ \A w \in Workers :
       /\ jobs[w].pc \in Steps \cup Ends
       /\ pricingMu = w => jobs[w].pc \in DOMAIN ReadNext \cup {"compile"}
       /\ syncMu = w => Kind(w) \in SyncOps /\ Running(w)

(* The snapshot follows the tables: when no operation is under way and none *)
(* failed after it wrote, requests are priced from exactly what the tables  *)
(* hold, whatever order the operations wrote and read them in and wherever  *)
(* the process stopped (RefreshPricing).                                    *)
Rows == [admin |-> prices, catalog |-> catalog.entries, aliases |-> aliases, rules |-> rules,
         built |-> TRUE]
SnapshotFollowsRows ==
  (\A w \in Workers : ~Running(w) /\ ~At(w, "failed")) => (snapshot.built => snapshot = Rows)

(* One content of models.dev gives one catalogue, whatever order Go's maps  *)
(* are met in: two fetches of the same version agree on every price         *)
(* (FetchModelsDev, preferCatalogCandidate).                                *)
SameVersionSameCatalog ==
  LET seen == {catalog} \cup {jobs[w].fetched : w \in Workers}
  IN \A a, b \in seen : a.version = b.version => a = b

(* A model an administrator made free costs nothing, an image model and a   *)
(* priority request included (the free override of Snapshot.Resolve).       *)
FreeOverrideIsFree ==
  \A d \in Asked :
    /\ d.model \in DOMAIN snapshot.admin /\ d.model \notin DOMAIN snapshot.aliases
    /\ \/ ~hasAnyPrice(snapshot.admin[d.model])
       \/ snapshot.admin[d.model].multiplier = 0
    => LET price == Resolve(snapshot, d) IN price.found /\ ~hasAnyPrice(price)

(* An image model is never charged by text rates alone: its price has image *)
(* rates, or it is free (docs/image-billing.md, Snapshot.Resolve).          *)
ImagesHaveImageRates ==
  \A d \in Asked :
    hasImagePriceCandidate(BundledPrices, modelCandidates(PricedModel(snapshot.aliases, d)))
    => LET price == Resolve(snapshot, d)
       IN price.found /\ (hasImagePricing(price) \/ ~hasAnyPrice(price))

(* The overrides in force are the ones stored, once the operations on the   *)
(* index have ended one after the other (mergeCapabilityIndex).             *)
OverridesInForce ==
  (~unsettled /\ \A w \in Workers : ~Running(w) /\ ~At(w, "stale"))
    => capabilities.overrides = settings

(* What a request is priced with: the compiled snapshot and the published   *)
(* capabilities are those of the stored rows, a catalogue version names one *)
(* catalogue, and neither images nor free overrides fall through to a row   *)
(* that does not price them.                                                *)
PricesConsistent ==
  /\ PricingTypeOK
  /\ SnapshotFollowsRows /\ OverridesInForce
  /\ SameVersionSameCatalog
  /\ FreeOverrideIsFree /\ ImagesHaveImageRates
=============================================================================
