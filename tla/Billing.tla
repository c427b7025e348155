------------------------------ MODULE Billing ------------------------------
(***************************************************************************)
(* Prices and charges, the pure part: how one price is found for a request *)
(* (internal/pricing/pricing.go), how the usage of a response is read out  *)
(* of its events (internal/billing/usage.go), what it costs                *)
(* (internal/pricing/cost.go) and whether it may be charged at all         *)
(* (internal/billing/settlement.go); and how one entry per model is chosen *)
(* from the models.dev feed (internal/pricing/sync.go,                     *)
(* internal/pricing/capabilities.go).                                      *)
(*                                                                         *)
(* A model name is the record of what the code's string surgery takes      *)
(* apart: the provider before the slash ("" without one), the name, and    *)
(* whether a date is appended.  Lower-casing and trimming are left out.    *)
(* Price multipliers are in halves, so that rounding happens; rule         *)
(* multipliers are whole.  A rate or a cost saturates at MaxInt64.         *)
(***************************************************************************)
EXTENDS Integers, Sequences, FiniteSets, FiniteSetsExt, SequencesExt

CONSTANTS
  Names,            \* model names without provider and date
  Providers,        \* provider prefixes, "" (none) among them
  ProviderOf,       \* [Names -> Providers]: the provider a bare name belongs to
  LongContextNames, \* the names whose price doubles for long prompts
  LongContext,      \* 200,000 prompt tokens
  BundledPrices,    \* [models -> prices]: the prices compiled into the program
  MaxInt64          \* the largest int64

ASSUME BillingAssumption ==
  /\ "" \in Providers
  /\ ProviderOf \in [Names -> Providers]
  /\ LongContextNames \subseteq Names
  /\ LongContext \in Nat /\ MaxInt64 \in Nat \ {0}

Models == [provider : Providers, name : Names, dated : BOOLEAN]
NoModel == [provider |-> "", name |-> "", dated |-> FALSE]

(* The eight rates of a price, and its own multiplier. *)
Rates == {"input", "output", "cached", "cache_write", "reasoning",
          "image_input", "cached_image", "image_output"}
ImageRates == {"image_input", "cached_image", "image_output"}
IsPrice(p) == p.rates \in [Rates -> 0..MaxInt64] /\ p.multiplier \in Nat
NoPrice == [rates |-> [r \in Rates |-> 0], multiplier |-> 0, found |-> FALSE]

Tiers == {"", "default", "priority"}
RuleFields == {"service_tier", "response_service_tier", "prompt_tokens_gte"}
(* A rule's value is a tier, or a number of tokens. *)
ValidRule(rule) ==
  /\ rule.field \in RuleFields
  /\ IF rule.field = "prompt_tokens_gte" THEN rule.value \in Nat \ {0}
                                         ELSE rule.value \in Tiers \ {""}

----------------------------------------------------------------------------
(* Finding a price. *)

(* The names a price row may have for this model, most specific first. *)
modelCandidates(model) ==
  LET initial ==
        IF model.provider # "" THEN <<model, [model EXCEPT !.provider = ""]>>
        ELSE IF ProviderOf[model.name] # ""
          THEN <<model, [model EXCEPT !.provider = ProviderOf[model.name]]>>
        ELSE <<model>>
  IN IF model.dated
       THEN initial \o [i \in DOMAIN initial |-> [initial[i] EXCEPT !.dated = FALSE]]
       ELSE initial

hasImagePricing(price) == \E r \in ImageRates : price.rates[r] # 0

hasImagePriceCandidate(table, candidates) ==
  \E c \in ToSet(candidates) : c \in DOMAIN table /\ hasImagePricing(table[c])

hasAnyPrice(price) == \E r \in Rates : price.rates[r] # 0

(* math.Round of the rate times a number of halves. *)
scaleInt(value, halves) ==
  LET rounded == (value * halves + 1) \div 2
  IN IF halves = 0 \/ value = 0 THEN 0
     ELSE IF rounded > MaxInt64 THEN MaxInt64 ELSE rounded

scaled(price, ruleMultiplier) ==
  LET total == price.multiplier * ruleMultiplier
  IN [rates |-> [r \in Rates |-> scaleInt(price.rates[r], total)], multiplier |-> total]

dimensionValue(d, field) ==
  IF field = "service_tier" THEN d.service_tier ELSE d.response_service_tier

RuleMatches(rule, d) ==
  IF rule.field = "prompt_tokens_gte" THEN d.prompt >= rule.value
                                      ELSE dimensionValue(d, rule.field) = rule.value

matchingRuleMultiplier(rules, d) ==
  LET matched == {rule \in rules : RuleMatches(rule, d)}
  IN MapThenFoldSet(LAMBDA a, b : a * b, 1, LAMBDA rule : rule.multiplier,
                    LAMBDA S : CHOOSE x \in S : TRUE, matched)

effectiveServiceTier(d) ==
  IF d.response_service_tier # "" THEN d.response_service_tier ELSE d.service_tier

hasMatchingTierRule(rules, d) ==
  \E rule \in rules : rule.field # "prompt_tokens_gte" /\ RuleMatches(rule, d)

hasPromptThresholdRule(rules) == \E rule \in rules : rule.field = "prompt_tokens_gte"

defaultLongContext(model, prompt) ==
  /\ prompt >= LongContext
  /\ model.provider \in {"", "xai"}
  /\ model.name \in LongContextNames

(* The model whose row prices the request: an alias of the upstream's name *)
(* for the model wins over an alias of the requested one.                  *)
PricedModel(aliases, d) ==
  IF d.alias \in DOMAIN aliases THEN aliases[d.alias]
  ELSE IF d.model \in DOMAIN aliases THEN aliases[d.model]
  ELSE d.model

Table(snapshot, source) ==
  IF source = 1 THEN snapshot.admin
  ELSE IF source = 2 THEN snapshot.catalog ELSE BundledPrices

(* A row without image rates does not price an image model, unless an *)
(* administrator made the model free.                                 *)
Usable(snapshot, source, candidates, model) ==
  LET price == Table(snapshot, source)[model]
  IN ~ /\ source < 3
       /\ ~hasImagePricing(price)
       /\ hasImagePriceCandidate(BundledPrices, candidates)
       /\ source # 1 \/ (hasAnyPrice(price) /\ price.multiplier # 0)

(* Administrator, catalogue, bundled: the first source with a usable row, *)
(* and in it the first candidate.                                         *)
Resolve(snapshot, d) ==
  LET candidates == modelCandidates(PricedModel(snapshot.aliases, d))
      hits == {h \in (1..3) \X DOMAIN candidates :
                 /\ candidates[h[2]] \in DOMAIN Table(snapshot, h[1])
                 /\ Usable(snapshot, h[1], candidates, candidates[h[2]])}
      best == CHOOSE h \in hits : \A o \in hits :
                h[1] < o[1] \/ (h[1] = o[1] /\ h[2] <= o[2])
      model == candidates[best[2]]
      rules == {rule \in snapshot.rules : rule.model = model}
      tier == IF effectiveServiceTier(d) = "priority" /\ ~hasMatchingTierRule(rules, d)
                THEN 2 ELSE 1
      long == IF defaultLongContext(model, d.prompt) /\ ~hasPromptThresholdRule(rules)
                THEN 2 ELSE 1
  IN IF hits = {} THEN NoPrice
     ELSE LET price == scaled(Table(snapshot, best[1])[model],
                              matchingRuleMultiplier(rules, d) * tier * long)
          IN [rates |-> price.rates, multiplier |-> price.multiplier, found |-> TRUE]

----------------------------------------------------------------------------
(* Reading the usage of a response. *)

Counters == {"prompt", "completion", "cached", "cache_write", "reasoning", "total",
             "image_input", "cached_image", "image_output"}
NoUsage == [c \in Counters |-> 0]

(* What one event reports: every counter it carries (zero: it does not),   *)
(* whether the cache counters are disjoint from the input                  *)
(* (cache_read_input_tokens), whether the input is broken down by modality *)
(* (imageGenerationUsage), and the service tier.                           *)
UsageEvents == [usage : [Counters -> 0..MaxInt64], disjoint : BOOLEAN, modal : BOOLEAN, tier : Tiers]
NoResult == [usage |-> NoUsage, found |-> FALSE, tier |-> "", quality |-> ""]

Most(a, b) == IF a >= b THEN a ELSE b
Least(a, b) == IF a <= b THEN a ELSE b

saturatingSum(a, b) == IF a > MaxInt64 - b THEN MaxInt64 ELSE a + b

(* What an event says of each counter, in the terms of this program. *)
readUsage(event) ==
  [event.usage EXCEPT
     !.prompt = IF event.disjoint THEN saturatingSum(event.usage.prompt, event.usage.cached)
                ELSE event.usage.prompt,
     !.image_output = IF event.usage.image_output = 0 /\ event.modal
                        THEN event.usage.completion ELSE event.usage.image_output]

(* Every counter is the largest value an event reported, the tier the last *)
(* one; the total is at least the sum of its parts.                        *)
ParseResponse(events) ==
  LET u == [c \in Counters |-> Max({0} \cup {readUsage(events[i])[c] : i \in DOMAIN events})]
      tiers == {i \in DOMAIN events : events[i].tier # ""}
  IN [usage |-> [u EXCEPT !.total =
        Most(@, saturatingSum(saturatingSum(u.prompt, u.cache_write), u.completion))],
      found |-> events # <<>>,
      tier |-> IF tiers = {} THEN "" ELSE events[Max(tiers)].tier,
      quality |-> ""]

----------------------------------------------------------------------------
(* What a usage costs. *)

saturatingMultiply(a, b) ==
  IF a = 0 \/ b = 0 THEN 0
  ELSE IF a > MaxInt64 \div b THEN MaxInt64 ELSE a * b

saturatingAdd(a, b) == IF a >= MaxInt64 - b THEN MaxInt64 ELSE a + b

reasoningIncludedInCompletion(u) ==
  u.total <= u.prompt \/ u.total - u.prompt <= u.completion

(* How many tokens are charged at each rate. *)
Charged(u) ==
  LET imageInput == Least(u.image_input, u.prompt)
      cachedInput == Least(u.cached, u.prompt)
      cachedImage == Least(u.cached_image, Least(imageInput, cachedInput))
      textInput == u.prompt - imageInput
      cachedText == Least(textInput, cachedInput - cachedImage)
      imageOutput == Least(u.image_output, u.completion)
      output == u.completion - imageOutput
  IN [input |-> textInput - cachedText, cached |-> cachedText,
      image_input |-> imageInput - cachedImage, cached_image |-> cachedImage,
      output |-> IF u.reasoning > 0 /\ reasoningIncludedInCompletion(u)
                   THEN Most(0, output - u.reasoning) ELSE output,
      image_output |-> imageOutput, cache_write |-> u.cache_write, reasoning |-> u.reasoning]

CostNanoUSD(price, u) ==
  LET charged == Charged(u)
      and(cost, rate) == saturatingAdd(cost, saturatingMultiply(charged[rate], price.rates[rate]))
      input == and(and(and(and(0, "input"), "cached"), "image_input"), "cached_image")
  IN and(and(and(and(input, "output"), "image_output"), "cache_write"), "reasoning")

UsageComplete(price, u) == price.rates["image_output"] = 0 \/ u.image_output > 0

(* Only complete usage with a known price is charged; quality is what the *)
(* runtime says of the usage ("" when it was read from the response).     *)
Assess(result, price) ==
  IF result.quality = "not_generated" THEN [cost |-> 0, complete |-> TRUE]
  ELSE IF result.quality \notin {"", "complete"} THEN [cost |-> 0, complete |-> FALSE]
  ELSE IF result.found /\ result.usage = NoUsage THEN [cost |-> 0, complete |-> TRUE]
  ELSE IF result.found /\ price.found /\ UsageComplete(price, result.usage)
    THEN [cost |-> CostNanoUSD(price, result.usage), complete |-> TRUE]
  ELSE [cost |-> 0, complete |-> FALSE]

----------------------------------------------------------------------------
(* The models.dev feed: offers [provider, model, order, price], where model *)
(* is the qualified name a price row gets and order the place of provider,  *)
(* source model id and raw text in the order of strings.                    *)

catalogProviderMatchesModel(offer) == offer.provider = offer.model.provider

(* The direct provider first, then provider, source id and text in order. *)
preferCatalogCandidate(offer, current) ==
  IF catalogProviderMatchesModel(offer) # catalogProviderMatchesModel(current)
    THEN catalogProviderMatchesModel(offer)
    ELSE \E i \in DOMAIN offer.order :
           /\ offer.order[i] < current.order[i]
           /\ \A j \in 1..i-1 : offer.order[j] = current.order[j]

Offered(best, offer) ==
  IF \/ offer.model \notin DOMAIN best
     \/ preferCatalogCandidate(offer, best[offer.model])
    THEN [m \in DOMAIN best \cup {offer.model} |->
            IF m = offer.model THEN offer ELSE best[m]]
    ELSE best

(* The catalogue read from a feed whose offers are met in this order. *)
FetchModelsDev(offers) ==
  LET best == FoldLeft(Offered, <<>>, offers)
  IN [m \in DOMAIN best |-> best[m].price]
=============================================================================
