---------------------------- MODULE MCOperations ----------------------------
(***************************************************************************)
(* Small instances of RuntimeSettings and Retention.  A behaviour starts   *)
(* from one of the histories of a database, or with one of the plans for   *)
(* retention.                                                              *)
(***************************************************************************)
EXTENDS RuntimeSettings, Retention, TLC

CONSTANTS a1, a2, a3, p1, p2, p3, u1, u2, c1, c2, j1, j2, q1

Full(sys, gh) == [sys |-> sys, gh |-> gh, ws |-> TRUE, max |-> 1, budget |-> 2]
ProxyRows(a, b) == [p \in Proxies |-> IF p = p1 THEN a ELSE IF p = p2 THEN b ELSE NoProxy]
Own(a, b) == [c \in Accounts |-> IF c = c1 THEN a ELSE b]
New(p) == [proxy |-> p, doc |-> NoProxy]
Old(u) == [proxy |-> NoProxy, doc |-> u]

NoFields == [c \in {} |-> NoProxy]

Asked ==
    {[op |-> "put", patch |-> x]
        : x \in {[sys |-> p1], [gh |-> p2], [ws |-> FALSE, budget |-> 3], [max |-> 3]}}
      \cup {[op |-> "patch", id |-> p1, to |-> u2], [op |-> "delete", id |-> p2],
            [op |-> "create", to |-> u1],
            [op |-> "assign", id |-> c1, to |-> p2], [op |-> "catalog"]}

(* A server that is up, with a system proxy or a proxy for the GitHub      *)
(* login; and the databases of older versions, with a global address, with *)
(* addresses in the accounts' documents and without newer settings, or     *)
(* with files to import.                                                   *)
Running ==
    {[rows |-> ProxyRows(u1, u1), accounts |-> Own(New(p1), New(NoProxy)), up |-> TRUE,
      files |-> NoFields, config |-> NoProxy, requests |-> Asked, faults |-> 1,
      stored |-> [found |-> TRUE, set |-> s, legacy |-> NoProxy]]
        : s \in {Full(p1, NoProxy), Full(NoProxy, p2), Full(p2, System)}}
OldSettings ==
    {[found |-> FALSE, set |-> NoFields, legacy |-> NoProxy]}
      \cup {[found |-> TRUE, set |-> [gh |-> NoProxy, sys |-> NoProxy], legacy |-> l] : l \in {NoProxy, u1}}
Older ==
    {[rows |-> r, accounts |-> Own(a, b), up |-> FALSE,
      files |-> NoFields, config |-> NoProxy, requests |-> {}, faults |-> 2,
      stored |-> s]
        : r \in {ProxyRows(NoProxy, NoProxy), ProxyRows(u2, NoProxy)}, s \in OldSettings,
          a \in {Old(NoProxy), Old(Direct), Old(u2)}, b \in {Old(NoProxy), Old(Direct), Old(u1)}}
Imported ==
    {[rows |-> r, accounts |-> Own(a, Absent), up |-> FALSE,
      files |-> [c \in {c2} |-> d], config |-> g, requests |-> {}, faults |-> 2,
      stored |-> s]
        : r \in {ProxyRows(NoProxy, NoProxy), ProxyRows(u2, NoProxy)}, s \in OldSettings,
          a \in {Old(NoProxy), Old(Direct)}, d \in {NoProxy, Direct, u1}, g \in {NoProxy, u2}}

(* What retention finds: logs with their details, two jobs at a time, and  *)
(* the other tables.                                                       *)
Item(kind, log, flags) ==
    [kind |-> kind, log |-> log, day |-> IF log = 3 THEN 2 ELSE 1, counts |-> "counts" \in flags,
     failed |-> "failed" \in flags, open |-> "open" \in flags, later |-> "later" \in flags]
Log(n, flags) == Item("log", n, flags)
Logged ==
    [rows |-> <<Log(1, {"counts"}), Log(2, {"failed"}), Log(3, {"counts", "later"}), Log(4, {"counts"}),
                Item("detail", 1, {}), Item("detail", 2, {}), Item("detail", 3, {"later"})>>,
     clock |-> 0, jobs |-> {j1}, reports |-> {"usage", "heatmap"}]
Contended ==
    [rows |-> <<Log(1, {"counts"}), Log(2, {"counts"}), Item("detail", 1, {})>>,
     clock |-> MaxDay, jobs |-> Jobs, reports |-> {}]
Others ==
    [rows |-> <<Log(1, {"counts"}), Item("event", 1, {"open"}), Item("event", 1, {"failed"}),
                Item("reservation", 1, {"open"}), Item("reservation", 1, {"failed"}),
                Item("observation", 1, {}), Item("invitation", 1, {"open"})>>,
     clock |-> 0, jobs |-> {j1}, reports |-> {}]
NoRetention == [rows |-> <<>>, clock |-> MaxDay, jobs |-> {}, reports |-> {}]
MCPlans == {Logged, Contended, Others, NoRetention}
MCKeep ==
    [x \in {"success", "reservations", "details", "events", "failed events", "incomplete",
            "logs", "observations", "invitations"} |->
       IF x \in {"success", "reservations", "events"} THEN 1 ELSE 2]

(* The settings and retention share the maintenance of a server but no     *)
(* state: one of them is at work, the other has nothing to do.             *)
AtRest == [rows |-> NoRows, accounts |-> Own(New(NoProxy), New(NoProxy)), up |-> TRUE,
           files |-> NoFields, config |-> NoProxy, requests |-> {}, faults |-> 0,
           stored |-> [found |-> TRUE, set |-> Full(NoProxy, NoProxy), legacy |-> NoProxy]]
MCHistories == Running \cup Older \cup Imported \cup {AtRest}
MCInit == SettingsInit /\ RetentionInit /\ (origin = AtRest <=> plan # NoRetention)
MCNext == \/ SettingsNext /\ UNCHANGED retentionVars
          \/ RetentionNext /\ UNCHANGED vars
MCSpec == MCInit /\ [][MCNext]_<<vars, retentionVars>>

Symmetry == Permutations(Admins)
=============================================================================
