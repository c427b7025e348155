----------------------------- MODULE MCServing -----------------------------
(***************************************************************************)
(* Small instances of Pricing, Serving and WebSocketSession, several in one *)
(* run: a scenario, chosen in the initial state, says what the workers do, *)
(* what is asked for, how far the clock runs and whether the process stops *)
(* or crashes.                                                             *)
(***************************************************************************)
EXTENDS WebSocketSession, TLC

(* Models, prices and the feed. *)
Model(p, n) == [provider |-> p, name |-> n, dated |-> FALSE]
Image == Model("", "gpt-image")
Grok == Model("xai", "grok")
Text(n) == [rates |-> [r \in Rates |-> IF r \in ImageRates THEN 0 ELSE n], multiplier |-> 2]
Modal(n) == [rates |-> [r \in Rates |-> IF r \in ImageRates THEN n + 1 ELSE n], multiplier |-> 2]
FreeText == [Text(3) EXCEPT !.multiplier = 0]
MCBundled == (Image :> Modal(2)) @@ (Grok :> Text(2))
MCProviderOf == [x \in Names |-> IF x = "grok" THEN "xai" ELSE "openai"]
Offer(p, m, o, n) == [provider |-> p, model |-> m, order |-> o, price |-> Text(n)]
MCFeed == << {Offer("azure", Model("openai", "gpt-image"), <<1, 1, 1>>, 1),
              Offer("openai", Model("openai", "gpt-image"), <<2, 1, 1>>, 3),
              Offer("relay", Grok, <<3, 1, 1>>, 4),
              Offer("router", Grok, <<4, 1, 1>>, 5)},
             {Offer("xai", Grok, <<5, 1, 1>>, 5)} >>
MCAsked == [model : {Image, Grok, Model("openai", "gpt-image")}, alias : {NoModel},
            service_tier : {"", "priority"}, response_service_tier : {""}, prompt : {3}]

(* What the workers do. *)
Put(m, p) == [kind |-> "price_put", model |-> m, price |-> p]
Op(k) == [kind |-> k]
On(k, m) == [kind |-> k, model |-> m]
Rule(f, v, n) == [model |-> Grok, field |-> f, value |-> v, multiplier |-> n]
PriceOps == <<Put(Image, FreeText), Put(Image, Text(3)), Put(Grok, Text(3)), Put(Blank, Text(1)),
              On("price_delete", Image),
              [kind |-> "aliases", aliases |-> (Grok :> Image)],
              [kind |-> "rules", rules |-> {Rule("service_tier", "priority", 3),
                                            Rule("prompt_tokens_gte", 2, 2)}],
              Op("resolve")>>
CatalogOps == <<Op("sync_get"), Op("sync_post"), Op("refresh"), Op("prices"),
                On("setting_put", Grok), On("setting_delete", Grok),
                Put(Image, FreeText), Op("resolve"), Nothing>>
FirstWorker == CHOOSE w \in Workers : TRUE
Pairs(ops) == UNION {{[w \in Workers |-> IF w = FirstWorker THEN ops[i] ELSE ops[j]]
                        : j \in i..Len(ops)} : i \in DOMAIN ops}
Idle == [w \in Workers |-> Nothing]
Alone(op) == [w \in Workers |-> IF w = FirstWorker THEN op ELSE Nothing]

(* What is asked for, and what is answered. *)
Used(p, c, h) == [NoUsage EXCEPT !.prompt = p, !.completion = c, !.cached = h]
Event(u) == [usage |-> u, disjoint |-> FALSE, modal |-> FALSE, tier |-> ""]
Answers(events, ok, quality) == [events |-> events, ok |-> ok, quality |-> quality]
MCResponses ==
  {Answers(<<Event(Used(1, 0, 1)), [Event(Used(1, 1, 1)) EXCEPT !.tier = "priority"]>>, TRUE, ""),
   Answers(<<Event(Used(1, 1, 0))>>, FALSE, "complete"),
   Answers(<<>>, TRUE, "missing")}
Ask(kind, key) == [kind |-> kind, key |-> key, model |-> Grok, tier |-> ""]
Frame(type, model, prewarm) == [type |-> type, model |-> model, prewarm |-> prewarm]
Socket == [kind |-> "socket", key |-> "k1", model |-> NoModel, tier |-> "",
           frames |-> <<Frame("create", Grok, TRUE), Frame("update", NoModel, FALSE),
                        Frame("create", NoModel, FALSE), Frame("create", Image, FALSE)>>]
RealtimeSocket == [kind |-> "realtime", key |-> "k1", model |-> Grok, tier |-> "",
                   frames |-> <<Frame("create", NoModel, FALSE)>>]

Scenario(work, asks, until, stops, crashes) ==
  [work |-> work, asks |-> asks, until |-> until, stops |-> stops, crashes |-> crashes]
NoAsks == [r \in Requests |-> NoAsk]
Only(ask) == [NoAsks EXCEPT ![1] = ask]
Both(first, second) == [NoAsks EXCEPT ![1] = first, ![2] = second]
MCScenarios ==
  {Scenario(work, NoAsks, 0, FALSE, TRUE) : work \in Pairs(PriceOps) \cup Pairs(CatalogOps)}
  \cup {Scenario(Alone(op), Only(Ask("http", "k1")), 0, FALSE, TRUE) :
          op \in {Put(Grok, Text(3)), Op("refresh")}}
  \cup {Scenario(Idle, Only(Socket), 1, TRUE, FALSE), Scenario(Idle, Only(RealtimeSocket), 0, FALSE, FALSE)}
  \cup {Scenario(Idle, Both(Ask("http", "k1"), Ask("http", "k2")), 0, TRUE, FALSE),
        Scenario(Idle, Both(Ask("count", "k1"), Ask("count", "k1")), 3, FALSE, FALSE),
        Scenario(Idle, Both(Ask("http", "k1"), Ask("http", "k2")), 1, FALSE, FALSE)}
=============================================================================
