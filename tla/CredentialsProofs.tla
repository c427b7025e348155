------------------------- MODULE CredentialsProofs -------------------------
(***************************************************************************)
(* The upstream credentials for any number of credentials, requests and    *)
(* tokens: once everything is quiet the runtime serves the rows, every row *)
(* was activated, the parents show the rows, and no stored token is spent. *)
(***************************************************************************)
EXTENDS Credentials, FiniteSetTheorems, TLAPS

-----------------------------------------------------------------------------
(* The inductive invariant *)

\* A row that is not there is blank.
Rows == {r \in RowType : r.there} \cup {NoRow}

Names == {"none", "add", "update", "delete", "oauth", "catalog"}
Accounts == {"add", "update", "oauth"}
Steps == {"new", "done", "save", "list", "replace", "get", "put", "discover", "validate",
          "undo", "end", "expand", "persist", "sync", "mark"}
Thens == {"end", "sync", "discover", "validate", "expand"}

Request == [op : Names, cred : SUBSET Creds, pc : Steps, prev : Rows, new : Rows,
            list : [Creds -> Rows], todo : SUBSET Creds, seen : Rows, then : Thens]

\* A request that has written and may still roll its write back; and one that
\* is going to write, or has.
Holds(r) ==
    /\ r.pc \in {"list", "replace", "get", "put", "discover", "validate", "undo"}
    /\ r.then # "end"
Works(r) == r.op \in Accounts /\ (r.pc = "save" \/ Holds(r))

\* What a request writes: an added row has neither token nor models yet, an
\* update keeps the token, a finalize brings one, and models are not lost.
WorkOK(r) ==
    /\ r.new.there
    /\ r.prev.models > 0 => r.new.models > 0
    /\ r.op = "add" => ~r.prev.there /\ r.new.token = 0
    /\ r.op = "update" => r.prev.there /\ r.new.token = r.prev.token
    /\ r.op = "oauth" => r.new.token > 0
    /\ ~r.prev.there /\ r.new.models = 0 => r.then = "discover"

RequestOK(r) ==
    /\ r \in Request
    /\ r.pc = "new" => r = NoReq
    /\ r.pc = "done" => r = Done
    /\ r.pc \notin {"new", "done"} => r.op # "none"
    /\ r.op \in {"none", "catalog"} => r.cred = {}
    /\ r.op \notin {"none", "catalog"} => \E c \in Creds : r.cred = {c}
    /\ r.pc \in {"save", "discover", "validate", "undo"} => r.op \in Accounts /\ r.then # "end"
    /\ r.pc \in {"discover", "validate"} => r.then = r.pc
    /\ r.then \in {"discover", "validate"} => r.op \in Accounts
    /\ r.pc \in {"get", "put"} => r.todo # {}
    /\ r.pc = "put" => r.seen.there
    /\ Works(r) => WorkOK(r)

SessionOK ==
    /\ session \in [st : {"none", "open", "captured"}, targets : SUBSET Creds,
                    token : 0..MaxToken, tried : SUBSET Admins]
    /\ session.st = "captured" => session.token > 0

Refresher == [pc : {"idle", "get", "put"}, seen : Rows, token : 0..MaxToken]
NoHook == [pc |-> "idle", seen |-> NoRow, token |-> 0]
RefresherOK(f) ==
    /\ f \in Refresher
    /\ f.pc = "idle" => f = NoHook
    /\ f.pc # "idle" => f.token > 0
    /\ f.pc = "put" => f.seen.there

TablesOK ==
    /\ row \in [Creds -> Rows] /\ rt \in [Creds -> Rows]
    /\ issued \in 1..MaxToken /\ valid \subseteq 1..issued /\ catalog \in 1..MaxCatalog
    /\ parents \in [Creds -> {"none", "available", "disabled", "missing"}]
    /\ SessionOK
    /\ req \in [Admins -> Request] /\ \A a \in Admins : RequestOK(req[a])
    /\ refresher \in [Creds -> Refresher] /\ \A c \in Creds : RefresherOK(refresher[c])
    /\ {disturbed, repeated, diverged, unsynced} \subseteq BOOLEAN

\* The runtime serves the rows, with the document of a refresh that is not
\* stored yet, unless some request is going to replace its copy.
Stale(r) == r.pc \in {"list", "replace", "undo", "discover"}
Serves(c, has, r, f, v) ==
    IF f.pc = "idle" THEN has = Installed(c, r, v)
    ELSE Installed(c, r, v).there /\ has = [Installed(c, r, v) EXCEPT !.token = f.token]
ServedInv ==
    ~diverged /\ (\A a \in Admins : ~Stale(req[a]))
        => \A c \in Creds : Serves(c, rt[c], row[c], refresher[c], catalog)

\* The parents show the rows unless some request is going to synchronise.
Syncs(r) == r.pc \in {"expand", "persist", "sync", "mark"} \/ Holds(r)
Shows(status, r) == IF r.there THEN status = Status(r) ELSE status \in {"none", "missing"}
ParentsInv ==
    ~unsynced /\ ~disturbed /\ (\A a \in Admins : ~Syncs(req[a]))
        => \A c \in Creds : Shows(parents[c], row[c])

\* A row without models is there because some request has added it and not
\* found its models yet. There are more such requests than requests that have
\* given the row models and may take them back.
Bare(r) == r.there /\ r.models = 0
Adds(r, c) == r.cred = {c} /\ r.op \in Accounts /\ Holds(r) /\ ~r.prev.there /\ r.new.models = 0
Lends(r, c) == r.cred = {c} /\ r.op \in Accounts /\ Holds(r) /\ Bare(r.prev) /\ r.new.models > 0
Adders(c, reqs) == {a \in Admins : Adds(reqs[a], c)}
Lenders(c, reqs) == {a \in Admins : Lends(reqs[a], c)}
Activates(c, reqs, r) ==
    Cardinality(Lenders(c, reqs)) + (IF Bare(r) THEN 1 ELSE 0) <= Cardinality(Adders(c, reqs))
ActivationInv == ~disturbed => \A c \in Creds : Activates(c, req, row[c])

\* Every token that was stored or installed belongs to one credential; a
\* token that was captured belongs to none until it is stored.
Mine(o, c, t) == t > 0 => o[t] = {c}
Finalizes(r) == r.op = "oauth"
RequestOwns(o, r) ==
    /\ \A c \in Creds : Mine(o, c, r.list[c].token)
    /\ Finalizes(r) => /\ \A c \in r.cred : Mine(o, c, r.prev.token) /\ (r.pc # "save" => Mine(o, c, r.new.token))
                       /\ r.pc = "save" => r.new.token \in valid /\ o[r.new.token] = {}
Owns(o) ==
    /\ \A t \in 1..MaxToken : t > issued => o[t] = {}
    /\ \A c \in Creds : Mine(o, c, row[c].token) /\ Mine(o, c, rt[c].token) /\ Mine(o, c, refresher[c].token)
    /\ \A a \in Admins : RequestOwns(o, req[a])
Captured == session.st = "captured" /\ session.tried = {}

\* A stored token is spent only while its successor is on the way; so is the
\* token to which a finalize may go back.
InFlight(c) == refresher[c].pc # "idle"
Usable(c, t) == t > 0 => t \in valid \/ InFlight(c)
GoesBack(r) ==
    /\ \A c \in Creds : InFlight(c) => refresher[c].token # r.new.token
    /\ Holds(r) => \A c \in r.cred : row[c].token = r.new.token => Usable(c, r.prev.token)
TokensOK ==
    /\ \A c \in Creds : Usable(c, row[c].token) /\ (InFlight(c) => refresher[c].token \in valid)
    /\ \A a \in Admins : Finalizes(req[a]) => GoesBack(req[a])
    /\ \A a, b \in Admins : Finalizes(req[a]) /\ Finalizes(req[b]) => a = b
    /\ Captured => /\ session.token \in valid
                   /\ \A a \in Admins : Finalizes(req[a]) => req[a].new.token # session.token
    /\ \E o \in [1..MaxToken -> SUBSET Creds] : Owns(o) /\ (Captured => o[session.token] = {})
TokenInv == ~disturbed /\ ~repeated => TokensOK

CredentialsInv == TablesOK /\ ServedInv /\ ParentsInv /\ ActivationInv /\ TokenInv

-----------------------------------------------------------------------------
(* Rows *)

LEMMA Constants ==
    /\ MaxToken \in Nat /\ MaxCatalog \in Nat /\ 1 <= MaxToken /\ 1 <= MaxCatalog
    /\ IsFiniteSet(Admins) /\ IsFiniteSet(Creds)
BY CredentialsAssumption

LEMMA RowFacts ==
    /\ NoRow \in Rows /\ ~NoRow.there /\ ~NoRow.enabled /\ NoRow.models = 0 /\ NoRow.token = 0
    /\ \A r \in Rows : /\ r \in RowType /\ r.there \in BOOLEAN /\ r.enabled \in BOOLEAN
                       /\ r.models \in 0..MaxCatalog /\ r.token \in 0..MaxToken
                       /\ ~r.there => r = NoRow
    /\ \A r \in RowType : r.there => r \in Rows
<1>1. NoRow \in Rows /\ ~NoRow.there /\ ~NoRow.enabled /\ NoRow.models = 0 /\ NoRow.token = 0
  BY Zenon DEF Rows, NoRow
<1>2. 0 \in 0..MaxCatalog /\ 0 \in 0..MaxToken
  BY Constants, SMT
<1>3. NoRow \in RowType
  BY <1>2, Zenon DEF RowType, NoRow
<1>4. \A r \in RowType : /\ r.there \in BOOLEAN /\ r.enabled \in BOOLEAN
                         /\ r.models \in 0..MaxCatalog /\ r.token \in 0..MaxToken
  BY Zenon DEF RowType
<1>5. \A r \in Rows : r \in RowType /\ (~r.there => r = NoRow)
  BY <1>3, Zenon DEF Rows
<1>6. \A r \in RowType : r.there => r \in Rows
  BY Zenon DEF Rows
<1> QED
  BY <1>1, <1>4, <1>5, <1>6, Zenon

\* A row that gets another document, another model list or another switch.
LEMMA TokenRow ==
    ASSUME NEW r \in Rows, r.there, NEW t \in 0..MaxToken
    PROVE  LET n == [r EXCEPT !.token = t]
           IN n \in Rows /\ n.there /\ n.enabled = r.enabled /\ n.models = r.models /\ n.token = t
<1> DEFINE n == [r EXCEPT !.token = t]
<1>1. r \in RowType
  BY RowFacts, Zenon
<1>2. n \in RowType /\ n.there = r.there /\ n.enabled = r.enabled /\ n.models = r.models /\ n.token = t
  BY <1>1, Zenon DEF RowType
<1> QED
  BY <1>2, RowFacts, Zenon

LEMMA ModelsRow ==
    ASSUME NEW r \in Rows, r.there, NEW m \in 0..MaxCatalog
    PROVE  LET n == [r EXCEPT !.models = m]
           IN n \in Rows /\ n.there /\ n.enabled = r.enabled /\ n.models = m /\ n.token = r.token
<1> DEFINE n == [r EXCEPT !.models = m]
<1>1. r \in RowType
  BY RowFacts, Zenon
<1>2. n \in RowType /\ n.there = r.there /\ n.enabled = r.enabled /\ n.models = m /\ n.token = r.token
  BY <1>1, Zenon DEF RowType
<1> QED
  BY <1>2, RowFacts, Zenon

LEMMA EnabledRow ==
    ASSUME NEW r \in Rows, r.there, NEW e \in BOOLEAN
    PROVE  LET n == [r EXCEPT !.enabled = e]
           IN n \in Rows /\ n.there /\ n.enabled = e /\ n.models = r.models /\ n.token = r.token
<1> DEFINE n == [r EXCEPT !.enabled = e]
<1>1. r \in RowType
  BY RowFacts, Zenon
<1>2. n \in RowType /\ n.there = r.there /\ n.enabled = e /\ n.models = r.models /\ n.token = r.token
  BY <1>1, Zenon DEF RowType
<1> QED
  BY <1>2, RowFacts, Zenon

LEMMA BuiltRow ==
    ASSUME NEW e \in BOOLEAN, NEW m \in 0..MaxCatalog, NEW t \in 0..MaxToken
    PROVE  LET n == [there |-> TRUE, enabled |-> e, models |-> m, token |-> t]
           IN n \in Rows /\ n.there /\ n.enabled = e /\ n.models = m /\ n.token = t
<1> DEFINE n == [there |-> TRUE, enabled |-> e, models |-> m, token |-> t]
<1>1. n \in RowType /\ n.there /\ n.enabled = e /\ n.models = m /\ n.token = t
  BY Zenon DEF RowType
<1> QED
  BY <1>1, RowFacts, Zenon

\* Two rows with the same columns are the same row.
LEMMA SameRow ==
    ASSUME NEW r \in Rows, NEW s \in Rows, r.there = s.there, r.enabled = s.enabled,
           r.models = s.models, r.token = s.token
    PROVE  r = s
BY RowFacts DEF RowType

LEMMA InstalledFacts ==
    ASSUME NEW c \in Creds, NEW r \in Rows, NEW v \in 1..MaxCatalog
    PROVE  LET i == Installed(c, r, v)
           IN /\ i \in Rows
              /\ ~(r.there /\ r.enabled) => i = NoRow
              /\ r.there /\ r.enabled =>
                   /\ i.there /\ i.enabled /\ i.token = r.token
                   /\ i.models = IF c \in Compatible \/ r.models > v THEN r.models ELSE v
<1> DEFINE m == IF c \in Compatible \/ r.models > v THEN r.models ELSE v
<1>1. m \in 0..MaxCatalog
  BY RowFacts, Constants, SMT
<1>2. CASE r.there /\ r.enabled
  <2>1. Installed(c, r, v) = [r EXCEPT !.models = m]
    BY <1>2, Zenon DEF Installed
  <2> HIDE DEF m
  <2>2. /\ [r EXCEPT !.models = m] \in Rows /\ [r EXCEPT !.models = m].there
        /\ [r EXCEPT !.models = m].enabled = r.enabled /\ [r EXCEPT !.models = m].models = m
        /\ [r EXCEPT !.models = m].token = r.token
    BY <1>1, <1>2, ModelsRow, Zenon
  <2> QED
    BY <2>1, <2>2, <1>2, Zenon DEF m
<1>3. CASE ~(r.there /\ r.enabled)
  BY <1>3, RowFacts, Zenon DEF Installed
<1> QED
  BY <1>2, <1>3, Zenon

LEMMA InstalledRow ==
    ASSUME NEW c \in Creds, NEW r \in Rows, NEW v \in 1..MaxCatalog
    PROVE  Installed(c, r, v) \in Rows /\ Installed(c, r, v).token \in {0, r.token}
<1>1. CASE r.there /\ r.enabled
  BY <1>1, InstalledFacts, Zenon
<1>2. CASE ~(r.there /\ r.enabled)
  BY <1>2, RowFacts DEF Installed
<1> QED
  BY <1>1, <1>2

\* The runtime's copy of a row with a new document is its copy with that document.
LEMMA InstalledToken ==
    ASSUME NEW c \in Creds, NEW r \in Rows, NEW v \in 1..MaxCatalog, NEW t \in 0..MaxToken,
           Installed(c, r, v).there
    PROVE  Installed(c, [r EXCEPT !.token = t], v) = [Installed(c, r, v) EXCEPT !.token = t]
<1> DEFINE i == Installed(c, r, v)
           n == [r EXCEPT !.token = t]
           j == Installed(c, n, v)
           k == [i EXCEPT !.token = t]
<1>1. r.there /\ r.enabled /\ i \in Rows /\ i.there
  BY InstalledFacts, RowFacts, Zenon
<1>2. n \in Rows /\ n.there /\ n.enabled = r.enabled /\ n.models = r.models /\ n.token = t
  BY <1>1, TokenRow, Zenon
<1>3. k \in Rows /\ k.there /\ k.enabled = i.enabled /\ k.models = i.models /\ k.token = t
  <2> HIDE DEF i
  <2> QED  BY <1>1, TokenRow, Zenon
<1> HIDE DEF n, k
<1>4. /\ i.enabled /\ i.models = (IF c \in Compatible \/ r.models > v THEN r.models ELSE v)
      /\ j \in Rows /\ j.there /\ j.enabled /\ j.token = t
      /\ j.models = (IF c \in Compatible \/ n.models > v THEN n.models ELSE v)
  BY <1>1, <1>2, InstalledFacts, Zenon
<1> HIDE DEF i, j
<1>5. j.there = k.there /\ j.enabled = k.enabled /\ j.token = k.token
  BY <1>1, <1>3, <1>4, RowFacts
<1>6. j.models = k.models
  BY <1>2, <1>3, <1>4, Zenon
<1>7. j = k
  BY <1>3, <1>4, <1>5, <1>6, SameRow, Zenon
<1> QED
  BY <1>7, Zenon DEF i, j, k, n

\* Storing the models that the runtime serves does not change what it serves.
LEMMA InstalledModels ==
    ASSUME NEW c \in Creds, NEW r \in Rows, NEW v \in 1..MaxCatalog,
           Installed(c, r, v).there
    PROVE  Installed(c, [r EXCEPT !.models = Installed(c, r, v).models], v) = Installed(c, r, v)
<1> DEFINE i == Installed(c, r, v)
           n == [r EXCEPT !.models = i.models]
           j == Installed(c, n, v)
<1>1. r.there /\ r.enabled /\ i \in Rows /\ i.there
  BY InstalledFacts, RowFacts, Zenon
<1>2. i.models \in 0..MaxCatalog
  BY <1>1, RowFacts, Zenon
<1>3. n \in Rows /\ n.there /\ n.enabled = r.enabled /\ n.models = i.models /\ n.token = r.token
  <2> HIDE DEF i
  <2> QED  BY <1>1, <1>2, ModelsRow, Zenon
<1> HIDE DEF n
<1>4. /\ i.enabled /\ i.models = (IF c \in Compatible \/ r.models > v THEN r.models ELSE v)
      /\ i.token = r.token /\ j \in Rows /\ j.there /\ j.enabled /\ j.token = n.token
      /\ j.models = (IF c \in Compatible \/ n.models > v THEN n.models ELSE v)
  BY <1>1, <1>3, InstalledFacts, Zenon
<1> HIDE DEF i, j
<1>5. j.there = i.there /\ j.enabled = i.enabled /\ j.token = i.token
  BY <1>1, <1>3, <1>4, RowFacts
<1>6. j.models = i.models
  BY <1>3, <1>4, RowFacts, Constants
<1>7. j = i
  BY <1>1, <1>4, <1>5, <1>6, SameRow, Zenon
<1> QED
  BY <1>7, Zenon DEF i, j, n

-----------------------------------------------------------------------------
(* Requests *)

LEMMA RequestParts ==
    ASSUME NEW r \in Request
    PROVE  /\ r.op \in Names /\ r.cred \in SUBSET Creds /\ r.pc \in Steps /\ r.prev \in Rows
           /\ r.new \in Rows /\ r.list \in [Creds -> Rows] /\ r.todo \in SUBSET Creds
           /\ r.seen \in Rows /\ r.then \in Thens
  BY Zenon DEF Request

LEMMA Words ==
    /\ {"none", "add", "update", "delete", "oauth", "catalog"} \subseteq Names
    /\ {"new", "done", "save", "list", "replace", "get", "put", "discover", "validate",
        "undo", "end", "expand", "persist", "sync", "mark"} \subseteq Steps
    /\ {"end", "sync", "discover", "validate", "expand"} \subseteq Thens
    /\ NoRows \in [Creds -> Rows] /\ \A c \in Creds : NoRows[c] = NoRow
  BY RowFacts, Zenon DEF Names, Steps, Thens, NoRows

LEMMA BlankRequest ==
    /\ NoReq \in Request /\ NoReq.op = "none" /\ NoReq.cred = {} /\ NoReq.pc = "new"
    /\ NoReq.prev = NoRow /\ NoReq.new = NoRow /\ NoReq.list = NoRows /\ NoReq.todo = {}
    /\ NoReq.seen = NoRow /\ NoReq.then = "end"
BY Words, RowFacts DEF NoReq, Request

LEMMA DoneRequest ==
    /\ Done \in Request /\ Done.op = "none" /\ Done.cred = {} /\ Done.pc = "done"
    /\ Done.prev = NoRow /\ Done.new = NoRow /\ Done.list = NoRows /\ Done.todo = {}
    /\ Done.seen = NoRow /\ Done.then = "end"
BY Words, BlankRequest DEF Done, Request

LEMMA IdleRequests ==
    RequestOK(NoReq) /\ RequestOK(Done)
BY BlankRequest, DoneRequest DEF RequestOK, Works, Holds, Accounts

\* What a handler's first step leaves behind.
Started(o, cred, pc, prev, new, then) ==
    [NoReq EXCEPT !.op = o, !.cred = cred, !.pc = pc, !.prev = prev, !.new = new, !.then = then]

LEMMA SteppedRequest ==
    ASSUME NEW r \in Request, NEW pc \in Steps
    PROVE  LET q == [r EXCEPT !.pc = pc]
           IN /\ q \in Request /\ q.op = r.op /\ q.cred = r.cred /\ q.pc = pc /\ q.prev = r.prev
              /\ q.new = r.new /\ q.list = r.list /\ q.todo = r.todo /\ q.seen = r.seen
              /\ q.then = r.then
  BY Zenon DEF Request

-----------------------------------------------------------------------------
(* The steps of a request *)

\* What a step that writes nothing keeps of a request: a write that may be
\* rolled back stays known, and so do the documents of a finalize.
Carries(r, q) ==
    Finalizes(q) =>
        /\ Finalizes(r) /\ r.pc # "save" /\ q.pc # "save"
        /\ \/ q.prev.token = 0 /\ q.new.token = 0
           \/ /\ q.prev.token = r.prev.token /\ q.new.token = r.new.token /\ q.cred = r.cred
              /\ Holds(q) => Holds(r)
Continues(r, q) ==
    /\ \A c \in Creds : (Adds(r, c) => Adds(q, c)) /\ (Lends(q, c) => Lends(r, c))
    /\ Carries(r, q)

\* The step after which nothing is rolled back.
LEMMA Forgets ==
    ASSUME NEW r, RequestOK(r), r.pc \notin {"new", "done", "save"},
           Holds(r) => r.then # "discover",
           NEW q \in Request, q.op = r.op, q.cred = r.cred, q.prev = NoRow, q.new = NoRow,
           q.then = "end", q.pc \in {"sync", "expand", "end"}
    PROVE  RequestOK(q) /\ Continues(r, q)
<1>1. ~Works(q) /\ ~Holds(q)
  BY SMT DEF Works, Holds
<1>2. RequestOK(q)
  BY <1>1, SMT DEF RequestOK
<1>3. \A c \in Creds : ~Adds(r, c)
  <2> SUFFICES ASSUME NEW c \in Creds, Adds(r, c) PROVE FALSE
    OBVIOUS
  <2>1. Holds(r) /\ Works(r) /\ ~r.prev.there /\ r.new.models = 0
    BY Zenon DEF Adds, Works
  <2>2. WorkOK(r)
    BY <2>1, Zenon DEF RequestOK
  <2> QED
    BY <2>1, <2>2, Zenon DEF WorkOK
<1>4. \A c \in Creds : ~Lends(q, c)
  BY <1>1, Zenon DEF Lends
<1>5. Carries(r, q)
  BY RowFacts, SMT DEF Carries, Finalizes
<1> QED
  BY <1>2, <1>3, <1>4, <1>5, Zenon DEF Continues

\* A step of a request that keeps its rows.
LEMMA Remembers ==
    ASSUME NEW r, RequestOK(r),
           r.pc \in {"list", "replace", "get", "put", "discover", "validate"},
           NEW q \in Request, q.op = r.op, q.cred = r.cred, q.prev = r.prev, q.new = r.new,
           q.then = r.then,
           q.pc \in {"replace", "get", "put", "discover", "validate", "undo"},
           q.pc \in {"discover", "validate"} => q.then = q.pc,
           q.pc = "undo" => q.op \in Accounts /\ q.then # "end",
           q.pc \in {"get", "put"} => q.todo # {},
           q.pc = "put" => q.seen.there
    PROVE  RequestOK(q) /\ Continues(r, q) /\ (Syncs(r) <=> Syncs(q))
<1>1. (Holds(q) <=> Holds(r)) /\ (Works(q) <=> Works(r))
  BY SMT DEF Holds, Works
<1>2. WorkOK(r) <=> WorkOK(q)
  BY Zenon DEF WorkOK
<1>3. RequestOK(q)
  BY <1>1, <1>2, SMT DEF RequestOK
<1>4. \A c \in Creds : (Adds(r, c) <=> Adds(q, c)) /\ (Lends(q, c) <=> Lends(r, c))
  BY <1>1, Zenon DEF Adds, Lends
<1>5. r.pc # "save" /\ q.pc # "save"
  BY SMT
<1>6. Carries(r, q)
  BY <1>1, <1>5, Zenon DEF Carries, Finalizes
<1>7. Syncs(r) <=> Syncs(q)
  BY <1>1, SMT DEF Syncs
<1> QED
  BY <1>3, <1>4, <1>6, <1>7, Zenon DEF Continues

LEMMA AtRequest ==
    ASSUME NEW r \in Request, NEW pc \in Steps
    PROVE  LET q == At(r, pc)
           IN /\ q \in Request /\ q.op = r.op /\ q.cred = r.cred /\ q.pc = pc
              /\ pc \in {"sync", "expand", "end"} =>
                   q.prev = NoRow /\ q.new = NoRow /\ q.list = NoRows /\ q.then = "end"
              /\ pc \notin {"sync", "expand", "end"} =>
                   /\ q.prev = r.prev /\ q.new = r.new /\ q.list = r.list /\ q.then = r.then
                   /\ q.todo = r.todo /\ q.seen = r.seen
<1>1. CASE pc \in {"sync", "expand", "end"}
  <2> DEFINE q == [NoReq EXCEPT !.op = r.op, !.cred = r.cred, !.pc = pc]
  <2>1. At(r, pc) = q
    BY <1>1, Zenon DEF At
  <2>2. r.op \in Names /\ r.cred \in SUBSET Creds
    BY RequestParts, Zenon
  <2>3. /\ q \in Request /\ q.op = r.op /\ q.cred = r.cred /\ q.pc = pc
        /\ q.prev = NoReq.prev /\ q.new = NoReq.new /\ q.list = NoReq.list /\ q.then = NoReq.then
    BY <2>2, BlankRequest, Zenon DEF Request
  <2> HIDE DEF q
  <2> QED
    BY <2>1, <2>3, <1>1, BlankRequest, Zenon
<1>2. CASE pc \notin {"sync", "expand", "end"}
  <2> DEFINE q == [r EXCEPT !.pc = pc]
  <2>1. At(r, pc) = q
    BY <1>2, Zenon DEF At
  <2>2. /\ q \in Request /\ q.op = r.op /\ q.cred = r.cred /\ q.pc = pc /\ q.prev = r.prev
        /\ q.new = r.new /\ q.list = r.list /\ q.todo = r.todo /\ q.seen = r.seen
        /\ q.then = r.then
    BY SteppedRequest, Zenon
  <2> HIDE DEF q
  <2> QED
    BY <2>1, <2>2, <1>2, Zenon
<1> QED
  BY <1>1, <1>2, Zenon

\* The end of a reload, seen from the request before its last hook.
LEMMA ReloadedRequest ==
    ASSUME NEW r, RequestOK(r), r.pc \in {"replace", "get", "put"},
           NEW s \in Request, s.op = r.op, s.cred = r.cred, s.prev = r.prev, s.new = r.new,
           s.then = r.then
    PROVE  LET q == Reloaded(s)
           IN /\ RequestOK(q) /\ Continues(r, q) /\ (Syncs(r) => Syncs(q)) /\ q.list = NoRows
<1> DEFINE t == [s EXCEPT !.list = NoRows]
           q == At(t, s.then)
<1>1. /\ t \in Request /\ t.op = r.op /\ t.cred = r.cred /\ t.prev = r.prev /\ t.new = r.new
      /\ t.list = NoRows /\ t.then = r.then
  BY Words, Zenon DEF Request
<1>2. Reloaded(s) = q
  BY Zenon DEF Reloaded
<1>3. r \in Request /\ r.then \in Thens /\ r.then \in Steps
  BY RequestParts, Zenon DEF RequestOK, Thens, Steps
<1> HIDE DEF t
<1>4. /\ q \in Request /\ q.op = r.op /\ q.cred = r.cred /\ q.pc = r.then /\ q.list = NoRows
      /\ r.then \in {"sync", "expand", "end"} =>
           q.prev = NoRow /\ q.new = NoRow /\ q.then = "end"
      /\ r.then \notin {"sync", "expand", "end"} =>
           q.prev = r.prev /\ q.new = r.new /\ q.then = r.then
  <2> DEFINE u == At(t, r.then)
  <2>1. /\ u \in Request /\ u.op = t.op /\ u.cred = t.cred /\ u.pc = r.then
        /\ r.then \in {"sync", "expand", "end"} =>
             u.prev = NoRow /\ u.new = NoRow /\ u.list = NoRows /\ u.then = "end"
        /\ r.then \notin {"sync", "expand", "end"} =>
             u.prev = t.prev /\ u.new = t.new /\ u.list = t.list /\ u.then = t.then
    BY <1>1, <1>3, AtRequest, Zenon
  <2>2. q = u
    BY Zenon
  <2> HIDE DEF q, u
  <2> QED
    BY <1>1, <2>1, <2>2, Zenon
<1> HIDE DEF q
<1>5. CASE r.then \in {"sync", "expand", "end"}
  <2>1. RequestOK(q) /\ Continues(r, q)
    BY <1>4, <1>5, Forgets
  <2>2. Syncs(r) => Syncs(q)
    BY <1>4, <1>5, SMT DEF Syncs, Holds
  <2> QED
    BY <1>2, <1>4, <2>1, <2>2, Zenon
<1>6. CASE r.then \in {"discover", "validate"}
  BY <1>2, <1>4, <1>6, Remembers
<1> QED
  BY <1>3, <1>5, <1>6, Zenon DEF Thens

\* The end of one update hook.
LEMMA HookedRequest ==
    ASSUME NEW r, RequestOK(r), r.pc \in {"get", "put"}, NEW c \in r.todo
    PROVE  LET q == Hooked(r, c)
           IN /\ RequestOK(q) /\ Continues(r, q) /\ (Syncs(r) => Syncs(q))
              /\ q.list \in {r.list, NoRows}
<1>1. r \in Request /\ r.todo \in SUBSET Creds /\ NoRow \in Rows /\ r.pc \in Steps /\ "get" \in Steps
  BY RequestParts, RowFacts, Words, Zenon DEF RequestOK
<1>2. CASE r.todo = {c}
  <2> DEFINE s == [r EXCEPT !.todo = {}, !.seen = NoRow]
  <2>1. /\ s \in Request /\ s.op = r.op /\ s.cred = r.cred /\ s.prev = r.prev /\ s.new = r.new
        /\ s.then = r.then
    BY <1>1, Zenon DEF Request
  <2>2. Hooked(r, c) = Reloaded(s)
    BY <1>2, Zenon DEF Hooked
  <2> HIDE DEF s
  <2>3. r.pc \in {"replace", "get", "put"}
    BY SMT
  <2> QED
    BY <2>1, <2>2, <2>3, ReloadedRequest, Zenon
<1>3. CASE r.todo # {c}
  <2> DEFINE d == r.todo \ {c}
             q == [r EXCEPT !.pc = "get", !.todo = d, !.seen = NoRow]
  <2>1. Hooked(r, c) = q
    BY <1>3, Zenon DEF Hooked
  <2>2. d \in SUBSET Creds /\ d # {}
    BY <1>1, <1>3, SMT
  <2> HIDE DEF d
  <2>3. /\ q \in Request /\ q.op = r.op /\ q.cred = r.cred /\ q.pc = "get" /\ q.prev = r.prev
        /\ q.new = r.new /\ q.list = r.list /\ q.todo = d /\ q.then = r.then
    BY <1>1, <2>2 DEF Request
  <2> HIDE DEF q
  <2>4. /\ r.pc \in {"list", "replace", "get", "put", "discover", "validate"}
        /\ q.pc \in {"replace", "get", "put", "discover", "validate", "undo"}
        /\ q.pc \notin {"discover", "validate"} /\ q.pc # "undo" /\ q.pc # "put"
    BY <2>3, SMT
  <2>5. RequestOK(q) /\ Continues(r, q) /\ (Syncs(r) <=> Syncs(q))
    BY <2>2, <2>3, <2>4, Remembers, Zenon
  <2> QED
    BY <2>1, <2>3, <2>5, Zenon
<1> QED
  BY <1>2, <1>3, Zenon

-----------------------------------------------------------------------------
(* What the parts of the invariant need of a step *)

\* A step that changes one request.
LEMMA Turned ==
    ASSUME TablesOK, NEW a \in Admins, NEW q, RequestOK(q), req' = [req EXCEPT ![a] = q]
    PROVE  /\ req' \in [Admins -> Request] /\ \A b \in Admins : RequestOK(req'[b])
           /\ req'[a] = q /\ \A b \in Admins \ {a} : req'[b] = req[b]
BY DEF RequestOK, TablesOK

LEMMA ServedStep ==
    ASSUME ServedInv,
           ~diverged' =>
             /\ ~diverged
             /\ row' = row /\ rt' = rt /\ refresher' = refresher /\ catalog' = catalog
             /\ \A b \in Admins : Stale(req[b]) => Stale(req'[b])
    PROVE  ServedInv'
  BY Zenon DEF ServedInv

LEMMA ParentsStep ==
    ASSUME ParentsInv,
           ~unsynced' /\ ~disturbed' =>
             /\ ~unsynced /\ ~disturbed /\ parents' = parents
             /\ \A c \in Creds : row'[c].there = row[c].there /\ row'[c].enabled = row[c].enabled
             /\ \A b \in Admins : Syncs(req[b]) => Syncs(req'[b])
    PROVE  ParentsInv'
<1> SUFFICES ASSUME ~unsynced', ~disturbed', \A b \in Admins : ~Syncs(req'[b]), NEW c \in Creds
             PROVE  Shows(parents'[c], row'[c])
  BY Zenon DEF ParentsInv
<1>1. Shows(parents[c], row[c])
  BY Zenon DEF ParentsInv
<1>2. row'[c].there = row[c].there /\ row'[c].enabled = row[c].enabled /\ parents' = parents
  BY Zenon
<1> QED
  BY <1>1, <1>2, Zenon DEF Shows, Status

LEMMA CountedSets ==
    ASSUME NEW c, NEW reqs
    PROVE  /\ IsFiniteSet(Adders(c, reqs)) /\ IsFiniteSet(Lenders(c, reqs))
           /\ Cardinality(Adders(c, reqs)) \in Nat /\ Cardinality(Lenders(c, reqs)) \in Nat
BY Constants, FS_Subset, FS_CardinalityType DEF Adders, Lenders

LEMMA ActivationStep ==
    ASSUME ActivationInv,
           ~disturbed' =>
             /\ ~disturbed
             /\ \A c \in Creds : Bare(row'[c]) => Bare(row[c])
             /\ \A b \in Admins, c \in Creds :
                  (Adds(req[b], c) => Adds(req'[b], c)) /\ (Lends(req'[b], c) => Lends(req[b], c))
    PROVE  ActivationInv'
<1> SUFFICES ASSUME ~disturbed', NEW c \in Creds
             PROVE  Activates(c, req', row'[c])
  BY Zenon DEF ActivationInv
<1> DEFINE A == Adders(c, req)
           B == Adders(c, req')
           L == Lenders(c, req)
           M == Lenders(c, req')
           x == IF Bare(row[c]) THEN 1 ELSE 0
           y == IF Bare(row'[c]) THEN 1 ELSE 0
<1>1. A \subseteq B /\ M \subseteq L
  BY Zenon DEF Adders, Lenders
<1>2. /\ IsFiniteSet(B) /\ IsFiniteSet(L) /\ Cardinality(A) \in Nat /\ Cardinality(B) \in Nat
      /\ Cardinality(L) \in Nat /\ Cardinality(M) \in Nat
  BY CountedSets, Zenon
<1>3. Cardinality(L) + x <= Cardinality(A)
  BY Zenon DEF ActivationInv, Activates
<1>4. x \in {0, 1} /\ y \in {0, 1} /\ (y = 1 => x = 1)
  BY Zenon
<1> HIDE DEF A, B, L, M, x, y
<1>5. Cardinality(A) <= Cardinality(B) /\ Cardinality(M) <= Cardinality(L)
  BY <1>1, <1>2, FS_Subset, Zenon
<1>6. Cardinality(M) + y <= Cardinality(B)
  BY <1>2, <1>3, <1>4, <1>5, SMT
<1> QED
  BY <1>6, Zenon DEF Activates, B, M, y

\* A token that a table of credentials may show after a step: none, or one
\* that a row or a listed row of the same credential had.
Known(c, t) ==
    \/ t = 0 \/ t = row[c].token \/ t = rt[c].token
    \/ \E b \in Admins : t = req[b].list[c].token

LEMMA KnownMine ==
    ASSUME NEW o, Owns(o), NEW c \in Creds, NEW t, Known(c, t)
    PROVE  Mine(o, c, t)
BY DEF Mine, Known, Owns, RequestOwns

LEMMA TokensStep ==
    ASSUME TablesOK, TablesOK', TokenInv,
           ~disturbed' /\ ~repeated' =>
             /\ ~disturbed /\ ~repeated
             /\ valid' = valid /\ issued' = issued /\ refresher' = refresher
             /\ \A c \in Creds : row'[c].token \in {0, row[c].token} /\ Known(c, rt'[c].token)
             /\ \A b \in Admins :
                  /\ req'[b] = req[b] \/ Carries(req[b], req'[b])
                  /\ \A c \in Creds : Known(c, req'[b].list[c].token)
             /\ Captured' => session' = session
    PROVE  TokenInv'
<1> SUFFICES ASSUME ~disturbed', ~repeated'
             PROVE  TokensOK'
  BY Zenon DEF TokenInv
<1>1. TokensOK
  BY Zenon DEF TokenInv
<1>2. \A b \in Admins : Finalizes(req'[b]) => Finalizes(req[b])
  BY Zenon DEF Carries
<1>3. \A c \in Creds : Usable(c, row[c].token)' /\ (InFlight(c)' => refresher'[c].token \in valid')
  <2> SUFFICES ASSUME NEW c \in Creds
               PROVE  Usable(c, row[c].token)' /\ (InFlight(c)' => refresher'[c].token \in valid')
    OBVIOUS
  <2>1. Usable(c, row[c].token) /\ (InFlight(c) => refresher[c].token \in valid)
    BY <1>1, Zenon DEF TokensOK
  <2>2. CASE row'[c].token = 0
    BY <2>1, <2>2 DEF Usable, InFlight
  <2>3. CASE row'[c].token = row[c].token
    BY <2>1, <2>3, Zenon DEF Usable, InFlight
  <2> QED
    BY <2>2, <2>3, Zenon
<1>4. \A b \in Admins : Finalizes(req'[b]) => GoesBack(req[b])'
  <2> SUFFICES ASSUME NEW b \in Admins, Finalizes(req'[b])
               PROVE  GoesBack(req[b])'
    OBVIOUS
  <2>0. RequestOK(req'[b])
    BY Zenon DEF TablesOK
  <2>1. GoesBack(req[b]) /\ RequestOK(req[b]) /\ Finalizes(req[b])
    BY <1>1, <1>2, Zenon DEF TokensOK, TablesOK
  <2>2. \A c \in Creds : InFlight(c) => refresher[c].token > 0
    BY DEF TablesOK, RefresherOK, Refresher, InFlight
  <2>3. CASE req'[b].prev.token = 0 /\ req'[b].new.token = 0
    BY <2>0, <2>2, <2>3, RequestParts DEF InFlight, Usable, RequestOK, GoesBack
  <2>4. CASE /\ req'[b].prev.token = req[b].prev.token /\ req'[b].new.token = req[b].new.token
             /\ req'[b].cred = req[b].cred /\ (Holds(req'[b]) => Holds(req[b]))
    <3>1. \A c \in Creds : InFlight(c)' => refresher'[c].token # req'[b].new.token
      BY <2>1, <2>4, Zenon DEF GoesBack, InFlight
    <3> SUFFICES ASSUME Holds(req'[b]), NEW c \in req'[b].cred, row'[c].token = req'[b].new.token
                 PROVE  Usable(c, req[b].prev.token)'
      BY <3>1, Zenon DEF GoesBack
    <3>3. c \in Creds /\ Holds(req[b]) /\ Works(req[b])
      BY <2>0, <2>1, <2>4, RequestParts DEF Accounts, RequestOK, Works, Finalizes
    <3>4. req[b].new.token > 0
      BY <2>1, <3>3, Zenon DEF RequestOK, WorkOK, Finalizes
    <3>5. row'[c].token = row[c].token
      BY <2>4, <3>3, <3>4
    <3>6. Usable(c, req[b].prev.token)
      BY <2>1, <2>4, <3>3, <3>5, Zenon DEF GoesBack
    <3> QED
      BY <2>4, <3>6, Zenon DEF Usable, InFlight
  <2>5. CASE req'[b] = req[b]
    BY <2>4, <2>5, Zenon
  <2> QED
    BY <2>3, <2>4, <2>5, Zenon DEF Carries
<1>5. \A x, y \in Admins : Finalizes(req'[x]) /\ Finalizes(req'[y]) => x = y
  BY <1>1, <1>2, Zenon DEF TokensOK
<1>6. Captured' => /\ Captured /\ session' = session /\ session'.token \in valid'
                   /\ \A b \in Admins : Finalizes(req'[b]) => req'[b].new.token # session'.token
  <2> SUFFICES ASSUME Captured'
               PROVE  /\ Captured /\ session' = session /\ session'.token \in valid'
                      /\ \A b \in Admins : Finalizes(req'[b]) => req'[b].new.token # session'.token
    OBVIOUS
  <2>1. session' = session /\ Captured
    BY Zenon DEF Captured
  <2>2. /\ session.token \in valid
        /\ \A b \in Admins : Finalizes(req[b]) => req[b].new.token # session.token
    BY <1>1, <2>1, Zenon DEF TokensOK
  <2>3. session.token # 0
    BY <2>1 DEF TablesOK, SessionOK, Captured
  <2> QED
    BY <1>2, <2>1, <2>2, <2>3, Zenon DEF Carries
<1>7. PICK o \in [1..MaxToken -> SUBSET Creds] : Owns(o) /\ (Captured => o[session.token] = {})
  BY <1>1, Zenon DEF TokensOK
<1>8. Owns(o)'
  <2>1. \A t \in 1..MaxToken : t > issued' => o[t] = {}
    BY <1>7, Zenon DEF Owns
  <2>2. \A c \in Creds : /\ Mine(o, c, row'[c].token) /\ Mine(o, c, rt'[c].token)
                         /\ Mine(o, c, refresher'[c].token)
    <3> SUFFICES ASSUME NEW c \in Creds
                 PROVE  /\ Mine(o, c, row'[c].token) /\ Mine(o, c, rt'[c].token)
                        /\ Mine(o, c, refresher'[c].token)
      OBVIOUS
    <3>1. Known(c, row'[c].token) /\ Known(c, rt'[c].token)
      BY Zenon DEF Known
    <3> QED
      BY <1>7, <3>1, KnownMine, Zenon DEF Owns
  <2>3. \A b \in Admins : RequestOwns(o, req[b])'
    <3> SUFFICES ASSUME NEW b \in Admins
                 PROVE  RequestOwns(o, req[b])'
      OBVIOUS
    <3>1. \A c \in Creds : Mine(o, c, req'[b].list[c].token)
      BY <1>7, KnownMine, Zenon
    <3>2. RequestOwns(o, req[b])
      BY <1>7, Zenon DEF Owns
    <3>3. CASE req'[b] = req[b]
      BY <3>1, <3>2, <3>3, Zenon DEF RequestOwns
    <3>4. CASE Carries(req[b], req'[b])
      <4> SUFFICES ASSUME Finalizes(req'[b])
                   PROVE  /\ req'[b].pc # "save"
                          /\ \A c \in req'[b].cred : /\ Mine(o, c, req'[b].prev.token)
                                                     /\ Mine(o, c, req'[b].new.token)
        BY <3>1, Zenon DEF RequestOwns
      <4>1. ~(0 > 0)
        BY SMT
      <4> QED
        BY <3>2, <3>4, <4>1, Zenon DEF Carries, RequestOwns, Mine
    <3> QED
      BY <3>3, <3>4
  <2> QED
    BY <2>1, <2>2, <2>3, Zenon DEF Owns
<1>9. \E p \in [1..MaxToken -> SUBSET Creds] : Owns(p)' /\ (Captured' => p[session'.token] = {})
  BY <1>6, <1>7, <1>8, Zenon
<1> QED
  BY <1>3, <1>4, <1>5, <1>6, <1>9, Zenon DEF TokensOK

\* A step of one request that changes no table.
LEMMA Moved ==
    ASSUME CredentialsInv, NEW a \in Admins, NEW q, RequestOK(q), req' = [req EXCEPT ![a] = q],
           UNCHANGED <<row, rt, valid, issued, catalog, parents, session, refresher,
                       disturbed, repeated>>,
           diverged' \in BOOLEAN, unsynced' \in BOOLEAN,
           ~diverged' => ~diverged /\ (Stale(req[a]) => Stale(q)),
           ~unsynced' => ~unsynced /\ (Syncs(req[a]) => Syncs(q)),
           Continues(req[a], q), q.list \in {req[a].list, row, NoRows}
    PROVE  CredentialsInv'
<1>1. TablesOK /\ ServedInv /\ ParentsInv /\ ActivationInv /\ TokenInv
  BY Zenon DEF CredentialsInv
<1>2. /\ req' \in [Admins -> Request] /\ \A b \in Admins : RequestOK(req'[b])
      /\ req'[a] = q /\ \A b \in Admins \ {a} : req'[b] = req[b]
  BY <1>1, Turned, Zenon
<1>3. TablesOK'
  BY <1>1, <1>2, Zenon DEF TablesOK, SessionOK
<1>4. ServedInv'
  BY <1>1, <1>2, ServedStep, Zenon
<1>5. ParentsInv'
  BY <1>1, <1>2, ParentsStep, Zenon
<1>6. ActivationInv'
  BY <1>1, <1>2, ActivationStep DEF Continues
<1>7. TokenInv'
  <2>1. \A b \in Admins : req'[b] = req[b] \/ Carries(req[b], req'[b])
    BY <1>2, Zenon DEF Continues
  <2>2. \A b \in Admins, c \in Creds : Known(c, req'[b].list[c].token)
    <3> SUFFICES ASSUME NEW b \in Admins, NEW c \in Creds
                 PROVE  Known(c, req'[b].list[c].token)
      OBVIOUS
    <3>1. req'[b].list \in {req[b].list, row, NoRows}
      BY <1>2, Zenon
    <3>2. NoRows[c].token = 0
      BY Words, RowFacts, Zenon
    <3> QED
      BY <3>1, <3>2, Zenon DEF Known
  <2>3. \A c \in Creds : row'[c].token \in {0, row[c].token} /\ Known(c, rt'[c].token)
    BY Zenon DEF Known
  <2> QED
    BY <1>1, <1>3, <2>1, <2>2, <2>3, TokensStep, Zenon
<1> QED
  BY <1>3, <1>4, <1>5, <1>6, <1>7, Zenon DEF CredentialsInv

LEMMA IdleRequest ==
    ASSUME NEW r, RequestOK(r), r.pc \in {"new", "done"}
    PROVE  /\ r.op = "none" /\ r.list = NoRows /\ ~Finalizes(r) /\ ~Holds(r) /\ ~Stale(r) /\ ~Syncs(r)
           /\ \A c \in Creds : ~Adds(r, c) /\ ~Lends(r, c)
BY BlankRequest, DoneRequest DEF RequestOK, Finalizes, Holds, Stale, Syncs, Adds, Lends

LEMMA SavingRequest ==
    ASSUME NEW q \in Request, q.pc = "save", q.op \in Accounts, q.then # "end",
           \E c \in Creds : q.cred = {c}, WorkOK(q)
    PROVE  RequestOK(q) /\ ~Stale(q) /\ ~Syncs(q) /\ ~Holds(q)
BY DEF Stale, Syncs, Holds, Accounts, RequestOK

\* The two handlers that begin with a row of their own making.
LEMMA Begun ==
    ASSUME CredentialsInv, NEW a \in Admins, NEW c \in Creds, NEW o \in {"add", "update"},
           NEW prev \in Rows, NEW new \in Rows, NEW then \in {"discover", "validate", "sync"},
           Begin(a, o, {c}, prev, new, "save", then),
           new.there, prev.models > 0 => new.models > 0,
           o = "add" => ~prev.there /\ new.token = 0,
           o = "update" => prev.there /\ new.token = prev.token,
           ~prev.there /\ new.models = 0 => then = "discover",
           UNCHANGED <<row, rt, valid, issued, catalog, parents, session, refresher,
                       faults, disturbed, repeated, diverged, unsynced>>
    PROVE  CredentialsInv'
<1> DEFINE q == Started(o, {c}, "save", prev, new, then)
<1>1. req[a].pc = "new" /\ req' = [req EXCEPT ![a] = q]
  BY Zenon DEF Begin, Started
<1>2. /\ o \in Names /\ {c} \in SUBSET Creds /\ "save" \in Steps /\ then \in Thens
      /\ o \in Accounts /\ o # "oauth" /\ then # "end"
  BY SMT DEF Names, Steps, Thens, Accounts
<1>3. /\ q \in Request /\ q.op = o /\ q.cred = {c} /\ q.pc = "save" /\ q.prev = prev
      /\ q.new = new /\ q.list = NoRows /\ q.then = then
  <2> DEFINE save == "save"
             it == {c}
             p == Started(o, it, save, prev, new, then)
  <2>1. save \in Steps /\ o \in Names /\ it \in SUBSET Creds /\ then \in Thens
    BY <1>2, Zenon
  <2> HIDE DEF save, it
  <2>2. /\ p \in Request /\ p.op = o /\ p.cred = it /\ p.pc = save /\ p.prev = prev
        /\ p.new = new /\ p.list = NoRows /\ p.then = then
    BY <2>1, BlankRequest, Zenon DEF Started, Request
  <2> QED
    BY <2>2, Zenon DEF save, it
<1> HIDE DEF q
<1>4. WorkOK(q)
  BY <1>2, <1>3, Zenon DEF WorkOK
<1>5. RequestOK(q) /\ ~Stale(q) /\ ~Syncs(q) /\ ~Holds(q)
  BY <1>2, <1>3, <1>4, SavingRequest, Zenon
<1>6. TablesOK /\ RequestOK(req[a])
  BY Zenon DEF CredentialsInv, TablesOK
<1>7. ~Stale(req[a]) /\ ~Syncs(req[a]) /\ \A d \in Creds : ~Adds(req[a], d)
  BY <1>1, <1>6, IdleRequest, Zenon
<1>8. Continues(req[a], q)
  BY <1>2, <1>3, <1>5, <1>7, Zenon DEF Continues, Lends, Carries, Finalizes
<1>9. diverged \in BOOLEAN /\ unsynced \in BOOLEAN
  BY <1>6, Zenon DEF TablesOK
<1> QED
  BY <1>1, <1>3, <1>5, <1>7, <1>8, <1>9, Moved, Zenon

-----------------------------------------------------------------------------
(* The steps that change no table *)

LEMMA AccountsStep ==
    ASSUME CredentialsInv, NEW a \in Admins, NEW c \in Creds, nativeProviderAccounts(a, c)
    PROVE  CredentialsInv'
<1>1. PICK enabled \in BOOLEAN :
        Begin(a, "add", {c}, NoRow,
              [there |-> TRUE, enabled |-> enabled, models |-> 0, token |-> 0],
              "save", "discover")
  BY Zenon DEF nativeProviderAccounts
<1>2. UNCHANGED <<row, rt, valid, issued, catalog, parents, session, refresher,
                  faults, disturbed, repeated, diverged, unsynced>>
  BY Zenon DEF nativeProviderAccounts
<1> DEFINE new == [there |-> TRUE, enabled |-> enabled, models |-> 0, token |-> 0]
           o == "add"
           then == "discover"
<1>3. 0 \in 0..MaxCatalog /\ 0 \in 0..MaxToken /\ ~(0 > 0)
  BY Constants, SMT
<1>4. new \in Rows /\ new.there /\ new.models = 0 /\ new.token = 0
  BY <1>3, BuiltRow, Zenon
<1>5. /\ o \in {"add", "update"} /\ o # "update"
      /\ then \in {"discover", "validate", "sync"} /\ then = "discover"
  BY SMT
<1>6. NoRow \in Rows /\ ~NoRow.there /\ NoRow.models = 0
  BY RowFacts, Zenon
<1>7. Begin(a, o, {c}, NoRow, new, "save", then)
  BY <1>1, Zenon
<1>8. NoRow.models > 0 => new.models > 0
  BY <1>3, <1>6, Zenon
<1> HIDE DEF new, o, then
<1> QED
  BY <1>2, <1>4, <1>5, <1>6, <1>7, <1>8, Begun, Zenon

LEMMA UpdateStep ==
    ASSUME CredentialsInv, NEW a \in Admins, NEW c \in Creds, nativeProviderAccountUpdate(a, c)
    PROVE  CredentialsInv'
<1>1. /\ row[c].there
      /\ UNCHANGED <<row, rt, valid, issued, catalog, parents, session, refresher,
                     faults, disturbed, repeated, diverged, unsynced>>
  BY Zenon DEF nativeProviderAccountUpdate
<1>2. row[c] \in Rows
  BY Zenon DEF CredentialsInv, TablesOK
<1> DEFINE o == "update"
<1>3. o \in {"add", "update"} /\ o # "add" /\ o = "update"
  BY SMT
<1>4. ASSUME NEW enabled \in BOOLEAN,
             Begin(a, "update", {c}, row[c], [row[c] EXCEPT !.enabled = enabled], "save", "sync")
      PROVE  CredentialsInv'
  <2> DEFINE new == [row[c] EXCEPT !.enabled = enabled]
             then == "sync"
  <2>1. new \in Rows /\ new.there /\ new.models = row[c].models /\ new.token = row[c].token
    BY <1>1, <1>2, EnabledRow, Zenon
  <2>2. then \in {"discover", "validate", "sync"}
    BY SMT
  <2>3. Begin(a, o, {c}, row[c], new, "save", then)
    BY <1>4, Zenon
  <2> HIDE DEF new, o, then
  <2> QED
    BY <1>1, <1>2, <1>3, <2>1, <2>2, <2>3, Begun, Zenon
<1>5. ASSUME NEW v \in 1..MaxCatalog,
             Begin(a, "update", {c}, row[c], [row[c] EXCEPT !.models = v], "save", "validate")
      PROVE  CredentialsInv'
  <2> DEFINE new == [row[c] EXCEPT !.models = v]
             then == "validate"
  <2>1. v \in 0..MaxCatalog /\ v > 0
    BY Constants, SMT
  <2>2. new \in Rows /\ new.there /\ new.models = v /\ new.token = row[c].token
    BY <1>1, <1>2, <2>1, ModelsRow, Zenon
  <2>3. then \in {"discover", "validate", "sync"}
    BY SMT
  <2>4. Begin(a, o, {c}, row[c], new, "save", then)
    BY <1>5, Zenon
  <2> HIDE DEF new, o, then
  <2> QED
    BY <1>1, <1>2, <1>3, <2>1, <2>2, <2>3, <2>4, Begun, Zenon
<1> QED
  BY <1>4, <1>5, Zenon DEF nativeProviderAccountUpdate

LEMMA ListStep ==
    ASSUME CredentialsInv, NEW a \in Admins, ListUpstreamCredentials(a)
    PROVE  CredentialsInv'
<1> DEFINE r == req[a]
           q == [r EXCEPT !.pc = "replace", !.list = row]
<1>1. /\ r.pc = "list" /\ req' = [req EXCEPT ![a] = q]
      /\ UNCHANGED <<row, rt, valid, issued, catalog, parents, session, refresher,
                     faults, disturbed, repeated, diverged, unsynced>>
  BY Zenon DEF ListUpstreamCredentials
<1>2. /\ RequestOK(r) /\ r \in Request /\ row \in [Creds -> Rows]
      /\ diverged \in BOOLEAN /\ unsynced \in BOOLEAN
  BY Zenon DEF CredentialsInv, TablesOK, RequestOK
<1>3. "replace" \in Steps
  BY Words, Zenon
<1> HIDE DEF r
<1>4. /\ q \in Request /\ q.op = r.op /\ q.cred = r.cred /\ q.pc = "replace" /\ q.prev = r.prev
      /\ q.new = r.new /\ q.list = row /\ q.then = r.then
  BY <1>2, <1>3, Zenon DEF Request
<1> HIDE DEF q
<1>5. /\ r.pc \in {"list", "replace", "get", "put", "discover", "validate"}
      /\ q.pc \in {"replace", "get", "put", "discover", "validate", "undo"}
      /\ q.pc \notin {"discover", "validate"} /\ q.pc # "undo" /\ q.pc \notin {"get", "put"}
      /\ q.pc # "put" /\ Stale(q)
  BY <1>1, <1>4, SMT DEF Stale
<1>6. RequestOK(q) /\ Continues(r, q) /\ (Syncs(r) <=> Syncs(q))
  BY <1>2, <1>4, <1>5, Remembers, Zenon
<1> QED
  BY <1>1, <1>2, <1>4, <1>5, <1>6, Moved, Zenon DEF r

LEMMA ReloadFailsStep ==
    ASSUME CredentialsInv, NEW a \in Admins, ReloadFails(a)
    PROVE  CredentialsInv'
<1> DEFINE r == req[a]
           q == At(r, "undo")
<1>1. /\ r.pc \in {"list", "replace"} /\ Failed(a)
      /\ diverged' = TRUE /\ unsynced' = (unsynced \/ req'[a] = Done)
      /\ UNCHANGED <<row, rt, valid, issued, catalog, parents, session, refresher,
                     disturbed, repeated>>
  BY Zenon DEF ReloadFails
<1>2. /\ RequestOK(r) /\ r \in Request /\ req \in [Admins -> Request]
  BY Zenon DEF CredentialsInv, TablesOK, RequestOK
<1>3. CASE r.op \in Accounts /\ r.then # "end"
  <2>1. req' = [req EXCEPT ![a] = q]
    BY <1>1, <1>3, Zenon DEF Failed, Go, Accounts
  <2>2. /\ q \in Request /\ q.op = r.op /\ q.cred = r.cred /\ q.pc = "undo" /\ q.prev = r.prev
        /\ q.new = r.new /\ q.list = r.list /\ q.then = r.then
    <3>1. "undo" \in Steps /\ "undo" \notin {"sync", "expand", "end"}
      BY Words, SMT
    <3> QED
      BY <1>2, <3>1, AtRequest, Zenon
  <2> HIDE DEF r, q
  <2>3. /\ r.pc \in {"list", "replace", "get", "put", "discover", "validate"}
        /\ q.pc \in {"replace", "get", "put", "discover", "validate", "undo"}
        /\ q.pc \notin {"discover", "validate"} /\ q.pc \notin {"get", "put"}
        /\ q.pc # "put"
    BY <1>1, <2>2, SMT
  <2>4. RequestOK(q) /\ Continues(r, q) /\ (Syncs(r) <=> Syncs(q))
    BY <1>2, <1>3, <2>2, <2>3, Remembers, Zenon
  <2>5. diverged' \in BOOLEAN /\ unsynced' \in BOOLEAN /\ (~unsynced' => ~unsynced)
    BY <1>1, Zenon DEF CredentialsInv, TablesOK
  <2> QED
    BY <1>1, <2>1, <2>2, <2>4, <2>5, Moved, Zenon DEF r
<1>4. CASE ~(r.op \in Accounts /\ r.then # "end")
  <2>1. req' = [req EXCEPT ![a] = Done] /\ req'[a] = Done
    BY <1>1, <1>2, <1>4, Zenon DEF Failed, End, Accounts
  <2>2. \A c \in Creds : ~Adds(r, c) /\ ~Lends(Done, c)
    BY <1>4, DoneRequest DEF Holds, Adds, Lends
  <2>3. Continues(r, Done)
    BY <2>2, DoneRequest DEF Finalizes, Continues, Carries
  <2>4. diverged' \in BOOLEAN /\ unsynced' \in BOOLEAN /\ diverged' /\ unsynced'
    BY <1>1, <2>1, Zenon
  <2> HIDE DEF r
  <2> QED
    BY <1>1, <2>1, <2>3, <2>4, DoneRequest, IdleRequests, Moved, Zenon DEF r
<1> QED
  BY <1>3, <1>4

LEMMA HookGetStep ==
    ASSUME CredentialsInv, NEW a \in Admins, HookGet(a)
    PROVE  CredentialsInv'
<1> DEFINE r == req[a]
           c == CHOOSE d \in req[a].todo : TRUE
<1>1. /\ r.pc = "get"
      /\ row[c].there => req' = [req EXCEPT ![a] = [r EXCEPT !.pc = "put", !.seen = row[c]]]
      /\ ~row[c].there => req' = [req EXCEPT ![a] = Hooked(r, c)]
      /\ UNCHANGED <<row, rt, valid, issued, catalog, parents, session, refresher,
                     faults, disturbed, repeated, diverged, unsynced>>
  BY Zenon DEF HookGet
<1>2. /\ RequestOK(r) /\ r \in Request /\ row \in [Creds -> Rows]
      /\ diverged \in BOOLEAN /\ unsynced \in BOOLEAN
  BY Zenon DEF CredentialsInv, TablesOK, RequestOK
<1>3. r.todo # {} /\ ~Stale(r)
  BY <1>1, <1>2, SMT DEF RequestOK, Stale
<1>4. c \in r.todo
  BY <1>3, SMT
<1>5. c \in Creds /\ row[c] \in Rows
  BY <1>2, <1>4, RequestParts, Zenon
<1> HIDE DEF c, r
<1>6. CASE row[c].there
  <2> DEFINE q == [r EXCEPT !.pc = "put", !.seen = row[c]]
  <2>1. "put" \in Steps
    BY Words, Zenon
  <2>2. /\ q \in Request /\ q.op = r.op /\ q.cred = r.cred /\ q.pc = "put" /\ q.prev = r.prev
        /\ q.new = r.new /\ q.list = r.list /\ q.then = r.then /\ q.todo = r.todo /\ q.seen = row[c]
    BY <1>2, <1>5, <2>1, Zenon DEF Request
  <2>3. req' = [req EXCEPT ![a] = q]
    BY <1>1, <1>6, Zenon
  <2> HIDE DEF q
  <2>4. /\ r.pc \in {"list", "replace", "get", "put", "discover", "validate"}
        /\ q.pc \in {"replace", "get", "put", "discover", "validate", "undo"}
        /\ q.pc \notin {"discover", "validate"} /\ q.pc # "undo"
    BY <1>1, <2>2, SMT
  <2>5. RequestOK(q) /\ Continues(r, q) /\ (Syncs(r) <=> Syncs(q))
    BY <1>2, <1>3, <1>6, <2>2, <2>4, Remembers, Zenon
  <2> QED
    BY <1>1, <1>2, <1>3, <2>2, <2>3, <2>5, Moved, Zenon DEF r
<1>7. CASE ~row[c].there
  <2> DEFINE q == Hooked(r, c)
  <2>1. r.pc \in {"get", "put"}
    BY <1>1, SMT
  <2>2. RequestOK(q) /\ Continues(r, q) /\ (Syncs(r) => Syncs(q)) /\ q.list \in {r.list, NoRows}
    BY <1>2, <1>4, <2>1, HookedRequest, Zenon
  <2>3. req' = [req EXCEPT ![a] = q]
    BY <1>1, <1>7, Zenon
  <2> HIDE DEF q
  <2> QED
    BY <1>1, <1>2, <1>3, <2>2, <2>3, Moved, Zenon DEF r
<1> QED
  BY <1>6, <1>7

\* A request gives up its account and turns to the rollback.
LEMMA TurnsBack ==
    ASSUME NEW r, RequestOK(r), r.pc \in {"discover", "validate"}
    PROVE  LET q == At(r, "undo")
           IN /\ RequestOK(q) /\ Continues(r, q) /\ (Syncs(r) <=> Syncs(q)) /\ Stale(q)
              /\ q.list = r.list
<1> DEFINE q == At(r, "undo")
<1>1. r \in Request /\ r.op \in Accounts /\ r.then # "end"
  BY SMT DEF RequestOK
<1>2. /\ q \in Request /\ q.op = r.op /\ q.cred = r.cred /\ q.pc = "undo" /\ q.prev = r.prev
      /\ q.new = r.new /\ q.list = r.list /\ q.then = r.then
  <2>1. "undo" \in Steps /\ "undo" \notin {"sync", "expand", "end"}
    BY Words, SMT
  <2> QED
    BY <1>1, <2>1, AtRequest, Zenon
<1> HIDE DEF q
<1>3. /\ r.pc \in {"list", "replace", "get", "put", "discover", "validate"}
      /\ q.pc \in {"replace", "get", "put", "discover", "validate", "undo"}
      /\ q.pc \notin {"discover", "validate"} /\ q.pc \notin {"get", "put"}
      /\ q.pc # "put" /\ Stale(q)
  BY <1>2, SMT DEF Stale
<1>4. RequestOK(q) /\ Continues(r, q) /\ (Syncs(r) <=> Syncs(q))
  BY <1>1, <1>2, <1>3, Remembers, Zenon
<1> QED
  BY <1>2, <1>3, <1>4, Zenon DEF q

LEMMA DiscoverFailsStep ==
    ASSUME CredentialsInv, NEW a \in Admins, DiscoverFails(a)
    PROVE  CredentialsInv'
<1> DEFINE r == req[a]
           q == At(r, "undo")
<1>1. /\ r.pc = "discover" /\ req' = [req EXCEPT ![a] = q]
      /\ UNCHANGED <<row, rt, valid, issued, catalog, parents, session, refresher,
                     disturbed, repeated, diverged, unsynced>>
  BY Zenon DEF DiscoverFails, Go
<1>2. RequestOK(r) /\ diverged \in BOOLEAN /\ unsynced \in BOOLEAN
  BY Zenon DEF CredentialsInv, TablesOK
<1>3. r.pc \in {"discover", "validate"}
  BY <1>1, Zenon
<1>4. /\ RequestOK(q) /\ Continues(r, q) /\ (Syncs(r) <=> Syncs(q)) /\ Stale(q)
      /\ q.list = r.list
  BY <1>2, <1>3, TurnsBack, Zenon
<1> HIDE DEF q, r
<1> QED
  BY <1>1, <1>2, <1>4, Moved, Zenon DEF r

LEMMA ValidateStep ==
    ASSUME CredentialsInv, NEW a \in Admins, validateNativeCredentialModels(a)
    PROVE  CredentialsInv'
<1> DEFINE r == req[a]
           p == IF rt[Only(a)].there /\ req[a].new.models <= catalog THEN "sync" ELSE "undo"
           q == At(r, p)
<1>1. /\ r.pc = "validate" /\ req' = [req EXCEPT ![a] = q]
      /\ UNCHANGED <<row, rt, valid, issued, catalog, parents, session, refresher,
                     faults, disturbed, repeated, diverged, unsynced>>
  BY Zenon DEF validateNativeCredentialModels, Go
<1>2. RequestOK(r) /\ r \in Request /\ diverged \in BOOLEAN /\ unsynced \in BOOLEAN
  BY Zenon DEF CredentialsInv, TablesOK, RequestOK
<1>3. p \in {"sync", "undo"}
  BY Zenon
<1> HIDE DEF p, r
<1>4. ~Stale(r)
  BY <1>1, SMT DEF Stale
<1>5. /\ RequestOK(q) /\ Continues(r, q) /\ (Syncs(r) => Syncs(q))
      /\ q.list \in {r.list, NoRows}
  <2>1. CASE p = "undo"
    BY <1>1, <1>2, <2>1, TurnsBack
  <2>2. CASE p = "sync"
    <3>1. p \in Steps /\ p \in {"sync", "expand", "end"}
      BY <2>2, Words, Zenon
    <3>2. /\ q \in Request /\ q.op = r.op /\ q.cred = r.cred /\ q.pc = p
          /\ q.prev = NoRow /\ q.new = NoRow /\ q.list = NoRows /\ q.then = "end"
      BY <1>2, <3>1, AtRequest, Zenon
    <3>3. r.pc \notin {"new", "done", "save"} /\ r.then # "discover"
      BY <1>1, <1>2, SMT DEF RequestOK
    <3> HIDE DEF q
    <3>4. RequestOK(q) /\ Continues(r, q)
      BY <1>2, <3>1, <3>2, <3>3, Forgets, Zenon
    <3>5. Syncs(q)
      BY <2>2, <3>2, Zenon DEF Syncs
    <3> QED
      BY <3>2, <3>4, <3>5, Zenon
  <2> QED
    BY <1>3, <2>1, <2>2, Zenon
<1> HIDE DEF q
<1> QED
  BY <1>1, <1>2, <1>4, <1>5, Moved, Zenon DEF r

LEMMA FinishStep ==
    ASSUME CredentialsInv, NEW a \in Admins, Finish(a)
    PROVE  CredentialsInv'
<1> DEFINE r == req[a]
<1>1. /\ r.pc = "end" /\ req' = [req EXCEPT ![a] = Done]
      /\ UNCHANGED <<row, rt, valid, issued, catalog, parents, session, refresher,
                     faults, disturbed, repeated, diverged, unsynced>>
  BY Zenon DEF Finish, End
<1>2. RequestOK(r) /\ diverged \in BOOLEAN /\ unsynced \in BOOLEAN
  BY Zenon DEF CredentialsInv, TablesOK
<1> HIDE DEF r
<1>3. ~Stale(r) /\ ~Holds(r) /\ ~Syncs(r) /\ ~Holds(Done) /\ ~Finalizes(Done)
  BY <1>1, DoneRequest, SMT DEF Stale, Holds, Syncs, Finalizes
<1>4. Continues(r, Done)
  BY <1>3, Zenon DEF Continues, Adds, Lends, Carries
<1> QED
  BY <1>1, <1>2, <1>3, <1>4, DoneRequest, IdleRequests, Moved, Zenon DEF r

\* The rows are listed to expand or to synchronise.
LEMMA LaterList ==
    ASSUME CredentialsInv, NEW a \in Admins, NEW pc \in {"persist", "mark"},
           req[a].pc \in {"expand", "sync"},
           req' = [req EXCEPT ![a] = [req[a] EXCEPT !.pc = pc, !.list = row]],
           UNCHANGED <<row, rt, valid, issued, catalog, parents, session, refresher,
                       faults, disturbed, repeated, diverged, unsynced>>
    PROVE  CredentialsInv'
<1> DEFINE r == req[a]
           q == [r EXCEPT !.pc = pc, !.list = row]
<1>1. /\ RequestOK(r) /\ r \in Request /\ row \in [Creds -> Rows]
      /\ diverged \in BOOLEAN /\ unsynced \in BOOLEAN
  BY Zenon DEF CredentialsInv, TablesOK, RequestOK
<1>2. pc \in Steps
  BY Words, Zenon
<1>3. req' = [req EXCEPT ![a] = q]
  BY Zenon
<1> HIDE DEF r
<1>4. /\ q \in Request /\ q.op = r.op /\ q.cred = r.cred /\ q.pc = pc /\ q.prev = r.prev
      /\ q.new = r.new /\ q.list = row /\ q.then = r.then
  BY <1>1, <1>2, Zenon DEF Request
<1>5. r.pc \in {"expand", "sync"}
  BY Zenon DEF r
<1> HIDE DEF q
<1>6. /\ ~Stale(r) /\ ~Holds(r) /\ ~Holds(q) /\ ~Works(q) /\ Syncs(q)
      /\ r.pc # "save" /\ q.pc # "save"
  BY <1>4, <1>5, SMT DEF Stale, Holds, Works, Syncs
<1>7. RequestOK(q)
  BY <1>1, <1>4, <1>5, <1>6, SMT DEF RequestOK
<1>8. Continues(r, q)
  BY <1>4, <1>6, Zenon DEF Continues, Adds, Lends, Carries, Finalizes
<1> QED
  BY <1>1, <1>3, <1>4, <1>6, <1>7, <1>8, Moved, Zenon DEF r

LEMMA LaterListStep ==
    ASSUME CredentialsInv, NEW a \in Admins, ExpandList(a) \/ SyncList(a)
    PROVE  CredentialsInv'
<1>1. CASE ExpandList(a)
  <2> DEFINE pc == "persist"
  <2>1. /\ req[a].pc = "expand" /\ req' = [req EXCEPT ![a] = [req[a] EXCEPT !.pc = pc, !.list = row]]
        /\ UNCHANGED <<row, rt, valid, issued, catalog, parents, session, refresher,
                       faults, disturbed, repeated, diverged, unsynced>>
    BY <1>1, Zenon DEF ExpandList
  <2>2. pc \in {"persist", "mark"} /\ req[a].pc \in {"expand", "sync"}
    BY <2>1, Zenon
  <2> HIDE DEF pc
  <2> QED
    BY <2>1, <2>2, LaterList, Zenon
<1>2. CASE SyncList(a)
  <2> DEFINE pc == "mark"
  <2>1. /\ req[a].pc = "sync" /\ req' = [req EXCEPT ![a] = [req[a] EXCEPT !.pc = pc, !.list = row]]
        /\ UNCHANGED <<row, rt, valid, issued, catalog, parents, session, refresher,
                       faults, disturbed, repeated, diverged, unsynced>>
    BY <1>2, Zenon DEF SyncList
  <2>2. pc \in {"persist", "mark"} /\ req[a].pc \in {"expand", "sync"}
    BY <2>1, Zenon
  <2> HIDE DEF pc
  <2> QED
    BY <2>1, <2>2, LaterList, Zenon
<1> QED
  BY <1>1, <1>2

LEMMA DisconnectStep ==
    ASSUME CredentialsInv, NEW a \in Admins, Disconnect(a)
    PROVE  CredentialsInv'
BY IdleRequests, Turned DEF Disconnect, End, CredentialsInv, TablesOK, SessionOK, ServedInv,
   ParentsInv, ActivationInv, TokenInv

-----------------------------------------------------------------------------
(* The sessions, the deletion, the catalogue and the parents *)

LEMMA BlankSession ==
    /\ NoSession \in [st : {"none", "open", "captured"}, targets : SUBSET Creds,
                      token : 0..MaxToken, tried : SUBSET Admins]
    /\ NoSession.st = "none" /\ NoSession.token = 0 /\ NoSession.tried = {}
BY Constants DEF NoSession

\* A step that only changes the session, and leaves no captured document.
LEMMA SessionStep ==
    ASSUME CredentialsInv, SessionOK', ~Captured',
           UNCHANGED <<row, rt, valid, issued, catalog, parents, req, refresher,
                       disturbed, repeated, diverged, unsynced>>
    PROVE  CredentialsInv'
<1>1. TablesOK /\ ServedInv /\ ParentsInv /\ ActivationInv /\ TokenInv
  BY Zenon DEF CredentialsInv
<1>2. TablesOK'
  BY <1>1, Zenon DEF TablesOK
<1>3. ServedInv'
  BY <1>1, ServedStep, Zenon
<1>4. ParentsInv'
  BY <1>1, ParentsStep, Zenon
<1>5. ActivationInv'
  BY <1>1, ActivationStep, Zenon
<1>6. TokenInv'
  BY <1>1, <1>2, TokensStep DEF Known
<1> QED
  BY <1>2, <1>3, <1>4, <1>5, <1>6, Zenon DEF CredentialsInv

LEMMA OAuthStartStep ==
    ASSUME CredentialsInv, adminProviderOAuthStart
    PROVE  CredentialsInv'
<1> DEFINE targetable == {{}} \cup {{c} : c \in {d \in Creds : row[d].there /\ row[d].token > 0}}
<1>1. /\ UNCHANGED <<row, rt, valid, issued, catalog, parents, req, refresher,
                     faults, disturbed, repeated, diverged, unsynced>>
      /\ \E targets \in targetable : session' = [NoSession EXCEPT !.st = "open", !.targets = targets]
  BY Zenon DEF adminProviderOAuthStart
<1>2. PICK targets \in targetable : session' = [NoSession EXCEPT !.st = "open", !.targets = targets]
  BY <1>1, Zenon
<1>3. targets \in SUBSET Creds
  BY Zenon
<1>4. "open" \in {"none", "open", "captured"} /\ "open" # "captured"
  BY SMT
<1>5. /\ session' \in [st : {"none", "open", "captured"}, targets : SUBSET Creds,
                      token : 0..MaxToken, tried : SUBSET Admins]
      /\ session'.st = "open"
  BY <1>2, <1>3, <1>4, BlankSession, Zenon
<1>6. SessionOK' /\ ~Captured'
  BY <1>4, <1>5, Zenon DEF SessionOK, Captured
<1> QED
  BY <1>1, <1>6, SessionStep, Zenon

LEMMA OAuthCancelStep ==
    ASSUME CredentialsInv, adminProviderOAuthCancel
    PROVE  CredentialsInv'
BY BlankSession, SessionStep DEF adminProviderOAuthCancel, SessionOK, Captured

\* A handler that has nothing to save lists the rows at once.
LEMMA ListingRequest ==
    ASSUME NEW o \in {"delete", "catalog"}, NEW cred \in SUBSET Creds, NEW prev \in Rows,
           NEW then \in {"sync", "expand"},
           o = "catalog" => cred = {}, o = "delete" => \E c \in Creds : cred = {c}
    PROVE  LET q == Started(o, cred, "list", prev, NoRow, then)
           IN /\ RequestOK(q) /\ q.list = NoRows /\ Stale(q) /\ Syncs(q) /\ ~Finalizes(q)
              /\ \A c \in Creds : ~Lends(q, c)
<1> DEFINE q == Started(o, cred, "list", prev, NoRow, then)
<1>1. /\ o \in Names /\ "list" \in Steps /\ then \in Thens /\ NoRow \in Rows
  BY RowFacts, SMT DEF Names, Steps, Thens
<1>2. /\ q \in Request /\ q.op = o /\ q.cred = cred /\ q.pc = "list" /\ q.list = NoRows /\ q.then = then
  BY <1>1, BlankRequest, Zenon DEF Started, Request
<1> HIDE DEF q
<1>3. /\ Stale(q) /\ Syncs(q) /\ ~Finalizes(q) /\ ~Works(q) /\ q.op \notin Accounts
  BY <1>2, SMT DEF Stale, Syncs, Holds, Finalizes, Works, Accounts
<1>4. RequestOK(q)
  BY <1>2, <1>3, SMT DEF RequestOK
<1> QED
  BY <1>2, <1>3, <1>4, Zenon DEF q, Lends

\* Such a handler removes a row or finds a new catalogue.
LEMMA ListingStep ==
    ASSUME CredentialsInv, NEW a \in Admins, req[a].pc = "new",
           NEW q, RequestOK(q), q.list = NoRows, Stale(q), Syncs(q), ~Finalizes(q),
           \A c \in Creds : ~Lends(q, c),
           req' = [req EXCEPT ![a] = q],
           row' \in [Creds -> Rows], catalog' \in 1..MaxCatalog,
           \A c \in Creds : row'[c] \in {row[c], NoRow},
           UNCHANGED <<rt, valid, issued, parents, session, refresher,
                       faults, disturbed, repeated, diverged, unsynced>>
    PROVE  CredentialsInv'
<1>1. TablesOK /\ ServedInv /\ ParentsInv /\ ActivationInv /\ TokenInv
  BY Zenon DEF CredentialsInv
<1>2. /\ req' \in [Admins -> Request] /\ \A b \in Admins : RequestOK(req'[b])
      /\ req'[a] = q /\ \A b \in Admins \ {a} : req'[b] = req[b]
  BY <1>1, Turned, Zenon
<1>3. TablesOK'
  BY <1>1, <1>2, Zenon DEF TablesOK, SessionOK
<1>4. ServedInv' /\ ParentsInv'
  BY <1>2, Zenon DEF ServedInv, ParentsInv
<1>5. /\ ~Finalizes(req[a]) /\ \A c \in Creds : ~Adds(req[a], c) /\ ~Lends(req[a], c)
  BY <1>1, IdleRequest DEF TablesOK
<1>6. ActivationInv'
  BY <1>1, <1>2, <1>5, RowFacts, ActivationStep DEF Bare
<1>7. TokenInv'
  <2>1. \A c \in Creds : row'[c].token \in {0, row[c].token} /\ Known(c, rt'[c].token)
    BY RowFacts, Zenon DEF Known
  <2>2. \A b \in Admins, c \in Creds : Known(c, req'[b].list[c].token)
    <3> SUFFICES ASSUME NEW b \in Admins, NEW c \in Creds
                 PROVE  Known(c, req'[b].list[c].token)
      OBVIOUS
    <3>1. req'[b].list \in {req[b].list, NoRows} /\ NoRows[c].token = 0
      BY <1>2, Words, RowFacts, Zenon
    <3> QED
      BY <3>1, Zenon DEF Known
  <2>3. \A b \in Admins : req'[b] = req[b] \/ Carries(req[b], req'[b])
    BY <1>2, Zenon DEF Carries
  <2> QED
    BY <1>1, <1>3, <2>1, <2>2, <2>3, TokensStep, Zenon
<1> QED
  BY <1>3, <1>4, <1>6, <1>7, Zenon DEF CredentialsInv

LEMMA DeleteStep ==
    ASSUME CredentialsInv, NEW a \in Admins, NEW c \in Creds, nativeProviderAccountDelete(a, c)
    PROVE  CredentialsInv'
<1> DEFINE o == "delete"
           it == {c}
           prev == row[c]
           then == "sync"
           q == Started(o, it, "list", prev, NoRow, then)
<1>1. /\ req[a].pc = "new" /\ req' = [req EXCEPT ![a] = q] /\ row' = [row EXCEPT ![c] = NoRow]
      /\ UNCHANGED <<rt, valid, issued, catalog, parents, session, refresher,
                     faults, disturbed, repeated, diverged, unsynced>>
  BY Zenon DEF nativeProviderAccountDelete, Begin, Started
<1>2. row \in [Creds -> Rows] /\ catalog \in 1..MaxCatalog
  BY Zenon DEF CredentialsInv, TablesOK
<1>3. /\ row' \in [Creds -> Rows] /\ catalog' \in 1..MaxCatalog
      /\ \A d \in Creds : row'[d] \in {row[d], NoRow}
  BY <1>1, <1>2, RowFacts, Zenon
<1>4. /\ o \in {"delete", "catalog"} /\ then \in {"sync", "expand"} /\ o # "catalog"
      /\ it \in SUBSET Creds /\ prev \in Rows /\ \E d \in Creds : it = {d}
  BY <1>2, SMT
<1> HIDE DEF o, it, prev, then
<1>5. /\ RequestOK(q) /\ q.list = NoRows /\ Stale(q) /\ Syncs(q) /\ ~Finalizes(q)
      /\ \A d \in Creds : ~Lends(q, d)
  BY <1>4, ListingRequest, Zenon
<1> HIDE DEF q
<1> QED
  BY <1>1, <1>3, <1>5, ListingStep, Zenon

LEMMA CatalogStep ==
    ASSUME CredentialsInv, NEW a \in Admins, onEmbeddedModelCatalogUpdate(a)
    PROVE  CredentialsInv'
<1> DEFINE o == "catalog"
           it == {}
           then == "expand"
           q == Started(o, it, "list", NoRow, NoRow, then)
<1>1. /\ req[a].pc = "new" /\ req' = [req EXCEPT ![a] = q]
      /\ catalog < MaxCatalog /\ catalog' = catalog + 1
      /\ UNCHANGED <<row, rt, valid, issued, parents, session, refresher,
                     faults, disturbed, repeated, diverged, unsynced>>
  BY Zenon DEF onEmbeddedModelCatalogUpdate, Begin, Started
<1>2. row \in [Creds -> Rows] /\ catalog \in 1..MaxCatalog
  BY Zenon DEF CredentialsInv, TablesOK
<1>3. catalog' \in 1..MaxCatalog
  BY <1>1, <1>2, Constants, SMT
<1>4. row' \in [Creds -> Rows] /\ \A d \in Creds : row'[d] \in {row[d], NoRow}
  BY <1>1, <1>2, Zenon
<1>5. /\ o \in {"delete", "catalog"} /\ then \in {"sync", "expand"} /\ o # "delete"
      /\ it \in SUBSET Creds /\ it = {} /\ NoRow \in Rows
  BY RowFacts, SMT
<1> HIDE DEF o, it, then
<1>6. /\ RequestOK(q) /\ q.list = NoRows /\ Stale(q) /\ Syncs(q) /\ ~Finalizes(q)
      /\ \A d \in Creds : ~Lends(q, d)
  BY <1>5, ListingRequest, Zenon
<1> HIDE DEF q
<1> QED
  BY <1>1, <1>3, <1>4, <1>6, ListingStep, Zenon

LEMMA SyncedFacts ==
    ASSUME TablesOK, NEW list \in [Creds -> Rows]
    PROVE  /\ Synced(list) \in [Creds -> {"none", "available", "disabled", "missing"}]
           /\ \A c \in Creds : Shows(Synced(list)[c], list[c])
BY DEF Synced, Status, Shows

LEMMA MarkStep ==
    ASSUME CredentialsInv, NEW a \in Admins, syncNativeParentSubscriptionRows(a)
    PROVE  CredentialsInv'
<1> DEFINE r == req[a]
<1>1. /\ r.pc = "mark" /\ parents' = Synced(r.list) /\ unsynced' = (r.list # row)
      /\ session' = (IF a \in session.tried THEN NoSession ELSE session)
      /\ req' = [req EXCEPT ![a] = Done]
      /\ UNCHANGED <<row, rt, valid, issued, catalog, refresher, faults,
                     disturbed, repeated, diverged>>
  BY Zenon DEF syncNativeParentSubscriptionRows, End
<1>2. TablesOK /\ ServedInv /\ ParentsInv /\ ActivationInv /\ TokenInv
  BY Zenon DEF CredentialsInv
<1>3. RequestOK(r) /\ r.list \in [Creds -> Rows]
  BY <1>2, RequestParts, Zenon DEF TablesOK, RequestOK
<1>4. /\ req' \in [Admins -> Request] /\ \A b \in Admins : RequestOK(req'[b])
      /\ req'[a] = Done /\ \A b \in Admins \ {a} : req'[b] = req[b]
  BY <1>1, <1>2, IdleRequests, Turned, Zenon
<1>5. /\ parents' \in [Creds -> {"none", "available", "disabled", "missing"}]
      /\ \A c \in Creds : Shows(parents'[c], r.list[c])
  BY <1>1, <1>2, <1>3, SyncedFacts, Zenon
<1>6. SessionOK' /\ (Captured' => session' = session)
  <2>1. CASE session' = session
    BY <1>2, <2>1, Zenon DEF TablesOK, SessionOK
  <2>2. CASE session' = NoSession
    BY <2>2, BlankSession DEF SessionOK, Captured
  <2> QED
    BY <1>1, <2>1, <2>2, Zenon
<1>7. TablesOK'
  BY <1>1, <1>2, <1>4, <1>5, <1>6 DEF TablesOK
<1> HIDE DEF r
<1>8. ~Stale(r) /\ ~Holds(r) /\ ~Finalizes(Done) /\ ~Holds(Done)
  BY <1>1, DoneRequest, SMT DEF Stale, Holds, Finalizes
<1>9. ServedInv'
  BY <1>1, <1>2, <1>4, <1>8, ServedStep, Zenon DEF r
<1>10. ParentsInv'
  BY <1>1, <1>5, Zenon DEF ParentsInv
<1>11. ActivationInv'
  BY <1>1, <1>2, <1>4, <1>8, ActivationStep DEF Adds, Lends, r
<1>12. TokenInv'
  <2>1. \A c \in Creds : row'[c].token \in {0, row[c].token} /\ Known(c, rt'[c].token)
    BY <1>1, Zenon DEF Known
  <2>2. \A b \in Admins, c \in Creds : Known(c, req'[b].list[c].token)
    BY <1>4, DoneRequest, Words, RowFacts DEF Known
  <2>3. \A b \in Admins : req'[b] = req[b] \/ Carries(req[b], req'[b])
    BY <1>4, <1>8, Zenon DEF Carries
  <2> QED
    BY <1>1, <1>2, <1>6, <1>7, <2>1, <2>2, <2>3, TokensStep, Zenon
<1> QED
  BY <1>7, <1>9, <1>10, <1>11, <1>12, Zenon DEF CredentialsInv

-----------------------------------------------------------------------------
(* The replacement of the runtime's copy, and the expanded models *)

LEMMA ReplaceStep ==
    ASSUME CredentialsInv, NEW a \in Admins, ReplaceCredentials(a)
    PROVE  CredentialsInv'
<1> DEFINE r == req[a]
           kept == {c \in Creds : rt[c].there /\ rt'[c].there}
           late == \E c \in Creds : refresher[c].pc # "idle"
           q == IF kept = {} THEN Reloaded(r) ELSE [r EXCEPT !.pc = "get", !.todo = kept]
<1>1. /\ r.pc = "replace" /\ rt' = [c \in Creds |-> Installed(c, r.list[c], catalog)]
      /\ req' = [req EXCEPT ![a] = q]
      /\ diverged' = (r.list # row \/ late) /\ disturbed' = (disturbed \/ late)
      /\ UNCHANGED <<row, valid, issued, catalog, parents, session, refresher,
                     faults, repeated, unsynced>>
  BY Zenon DEF ReplaceCredentials
<1>2. TablesOK /\ ServedInv /\ ParentsInv /\ ActivationInv /\ TokenInv
  BY Zenon DEF CredentialsInv
<1>3. RequestOK(r) /\ r \in Request /\ r.list \in [Creds -> Rows]
  BY <1>2, RequestParts, Zenon DEF TablesOK, RequestOK
<1>4. kept \in SUBSET Creds
  BY Zenon
<1>5. \A c \in Creds : /\ rt'[c] = Installed(c, r.list[c], catalog) /\ rt'[c] \in Rows
                       /\ rt'[c].token \in {0, r.list[c].token}
  <2> SUFFICES ASSUME NEW c \in Creds
               PROVE  /\ rt'[c] = Installed(c, r.list[c], catalog) /\ rt'[c] \in Rows
                      /\ rt'[c].token \in {0, r.list[c].token}
    OBVIOUS
  <2>1. rt'[c] = Installed(c, r.list[c], catalog)
    BY <1>1, Zenon
  <2>2. r.list[c] \in Rows /\ catalog \in 1..MaxCatalog
    BY <1>2, <1>3, Zenon DEF TablesOK
  <2> QED
    BY <2>1, <2>2, InstalledRow, Zenon
<1>6. rt' \in [Creds -> Rows]
  BY <1>1, <1>5
<1> HIDE DEF r, kept
<1>7. RequestOK(q) /\ Continues(r, q) /\ (Syncs(r) => Syncs(q)) /\ q.list \in {r.list, NoRows}
  <2>1. CASE kept = {}
    BY <1>1, <1>3, <2>1, ReloadedRequest
  <2>2. CASE kept # {}
    <3> DEFINE p == [r EXCEPT !.pc = "get", !.todo = kept]
    <3>1. "get" \in Steps
      BY Words, Zenon
    <3>2. /\ p \in Request /\ p.op = r.op /\ p.cred = r.cred /\ p.pc = "get" /\ p.prev = r.prev
          /\ p.new = r.new /\ p.list = r.list /\ p.todo = kept /\ p.then = r.then
      BY <1>3, <1>4, <3>1, Zenon DEF Request
    <3> HIDE DEF p
    <3>3. /\ r.pc \in {"list", "replace", "get", "put", "discover", "validate"}
          /\ p.pc \in {"replace", "get", "put", "discover", "validate", "undo"}
          /\ p.pc \notin {"discover", "validate"} /\ p.pc # "undo" /\ p.pc # "put"
      BY <1>1, <3>2, SMT
    <3>4. RequestOK(p) /\ Continues(r, p) /\ (Syncs(r) <=> Syncs(p))
      BY <1>3, <2>2, <3>2, <3>3, Remembers, Zenon
    <3>5. q = p
      BY <2>2, Zenon DEF p
    <3> HIDE DEF q
    <3> QED
      BY <3>2, <3>4, <3>5, Zenon
  <2> QED
    BY <2>1, <2>2
<1> HIDE DEF q
<1>8. /\ req' \in [Admins -> Request] /\ \A b \in Admins : RequestOK(req'[b])
      /\ req'[a] = q /\ \A b \in Admins \ {a} : req'[b] = req[b]
  BY <1>1, <1>2, <1>7, Turned, Zenon
<1>9. TablesOK'
  BY <1>1, <1>2, <1>6, <1>8 DEF TablesOK, SessionOK
<1>10. ServedInv'
  BY <1>1, <1>5, Zenon DEF ServedInv, Serves
<1>11. ParentsInv'
  BY <1>1, <1>2, <1>7, <1>8, ParentsStep, Zenon DEF r
<1>12. ActivationInv'
  BY <1>1, <1>2, <1>7, <1>8, ActivationStep DEF Continues, r
<1>13. TokenInv'
  <2>1. \A c \in Creds : row'[c].token \in {0, row[c].token} /\ Known(c, rt'[c].token)
    BY <1>1, <1>5, Zenon DEF Known, r
  <2>2. \A b \in Admins, c \in Creds : Known(c, req'[b].list[c].token)
    BY <1>7, <1>8, Words, RowFacts DEF Known, r
  <2>3. \A b \in Admins : req'[b] = req[b] \/ Carries(req[b], req'[b])
    BY <1>7, <1>8, Zenon DEF Continues, r
  <2> QED
    BY <1>1, <1>2, <1>9, <2>1, <2>2, <2>3, TokensStep, Zenon
<1> QED
  BY <1>9, <1>10, <1>11, <1>12, <1>13, Zenon DEF CredentialsInv

LEMMA HookPutStep ==
    ASSUME CredentialsInv, NEW a \in Admins, HookPut(a)
    PROVE  CredentialsInv'
<1> DEFINE r == req[a]
           c == CHOOSE d \in req[a].todo : TRUE
           n == [r.seen EXCEPT !.token = r.list[c].token]
           late == row[c] # r.seen \/ row[c].token # r.list[c].token
           q == Hooked(r, c)
<1>1. /\ r.pc = "put" /\ row' = [row EXCEPT ![c] = n] /\ req' = [req EXCEPT ![a] = q]
      /\ disturbed' = (disturbed \/ late) /\ diverged' = (diverged \/ late)
      /\ UNCHANGED <<rt, valid, issued, catalog, parents, session, refresher,
                     faults, repeated, unsynced>>
  BY Zenon DEF HookPut
<1>2. TablesOK
  BY Zenon DEF CredentialsInv
<1>3. RequestOK(r) /\ r \in Request /\ row \in [Creds -> Rows]
  BY <1>2, Zenon DEF TablesOK, RequestOK
<1>4. r.todo # {} /\ r.seen.there /\ ~Stale(r) /\ r.pc \in {"get", "put"}
  BY <1>1, <1>3, SMT DEF RequestOK, Stale
<1>5. c \in r.todo
  BY <1>4, SMT
<1>6. c \in Creds /\ r.seen \in Rows /\ r.list[c] \in Rows /\ row[c] \in Rows
  BY <1>3, <1>5, RequestParts, Zenon
<1> HIDE DEF c, r
<1>7. n \in Rows /\ n.there /\ n.enabled = r.seen.enabled /\ n.models = r.seen.models
      /\ n.token = r.list[c].token
  <2> DEFINE s == r.seen
             t == r.list[c].token
  <2>1. s \in Rows /\ s.there /\ t \in 0..MaxToken
    BY <1>4, <1>6, RowFacts, Zenon
  <2> HIDE DEF s, t
  <2>2. LET m == [s EXCEPT !.token = t]
        IN m \in Rows /\ m.there /\ m.enabled = s.enabled /\ m.models = s.models /\ m.token = t
    BY <2>1, TokenRow, Zenon
  <2> QED
    BY <2>2, Zenon DEF s, t
<1>8. RequestOK(q) /\ Continues(r, q) /\ (Syncs(r) => Syncs(q)) /\ q.list \in {r.list, NoRows}
  BY <1>3, <1>4, <1>5, HookedRequest, Zenon
<1> HIDE DEF n, q
<1>9. CASE late
  BY <1>1, <1>2, <1>3, <1>7, <1>8, <1>9, Turned DEF TablesOK, SessionOK, CredentialsInv, ServedInv,
     ParentsInv, ActivationInv, TokenInv
<1>10. CASE ~late
  <2>1. n = row[c]
    BY <1>4, <1>6, <1>7, <1>10, SameRow
  <2>2. row' = row
    BY <1>1, <1>3, <2>1, Zenon
  <2>3. disturbed' = disturbed /\ diverged' = diverged /\ disturbed \in BOOLEAN
        /\ diverged \in BOOLEAN /\ unsynced \in BOOLEAN
    BY <1>1, <1>2, <1>10, Zenon DEF TablesOK
  <2> HIDE DEF late
  <2> QED
    BY <1>1, <1>4, <1>8, <2>2, <2>3, Moved, Zenon DEF r
<1> QED
  BY <1>9, <1>10

LEMMA ExpandedFacts ==
    ASSUME NEW list \in [Creds -> Rows], NEW live \in [Creds -> Rows], NEW c \in Creds
    PROVE  LET e == Expanded(list, live)[c]
           IN /\ e \in Rows /\ e.there = list[c].there /\ e.enabled = list[c].enabled
              /\ e.token = list[c].token /\ (Bare(e) => Bare(list[c]))
<1>1. list[c] \in Rows /\ live[c] \in Rows
  BY Zenon
<1>2. CASE list[c].there /\ live[c].models > 0
  <2> DEFINE r == list[c]
             m == live[c].models
             n == [r EXCEPT !.models = m]
  <2>1. Expanded(list, live)[c] = n
    BY <1>2, Zenon DEF Expanded
  <2>2. r \in Rows /\ r.there /\ m \in 0..MaxCatalog /\ m > 0 /\ m # 0
    BY <1>1, <1>2, RowFacts
  <2> HIDE DEF r, m
  <2>3. n \in Rows /\ n.there /\ n.enabled = r.enabled /\ n.models = m /\ n.token = r.token
    BY <2>2, ModelsRow, Zenon
  <2>4. n.there = r.there
    BY <2>2, <2>3, RowFacts, Zenon
  <2> HIDE DEF n
  <2> QED
    BY <2>1, <2>2, <2>3, <2>4, Zenon DEF Bare, r
<1>3. CASE ~(list[c].there /\ live[c].models > 0)
  BY <1>1, <1>3 DEF Expanded
<1> QED
  BY <1>2, <1>3

\* The rows with the runtime's model lists are served as they were.
LEMMA ExpandedServed ==
    ASSUME NEW list \in [Creds -> Rows], NEW live \in [Creds -> Rows], NEW c \in Creds,
           NEW v \in 1..MaxCatalog, live[c].models = Installed(c, list[c], v).models
    PROVE  Installed(c, Expanded(list, live)[c], v) = Installed(c, list[c], v)
<1>1. list[c] \in Rows
  BY Zenon
<1>2. CASE list[c].there /\ live[c].models > 0
  <2> DEFINE r == list[c]
             i == Installed(c, r, v)
  <2>1. Expanded(list, live)[c] = [r EXCEPT !.models = i.models]
    BY <1>2, Zenon DEF Expanded
  <2>2. i # NoRow
    BY <1>2, RowFacts
  <2>3. i.there
    BY <1>1, <2>2, InstalledRow, RowFacts
  <2> QED
    BY <1>1, <2>1, <2>3, InstalledModels, Zenon
<1>3. CASE ~(list[c].there /\ live[c].models > 0)
  BY <1>3 DEF Expanded
<1> QED
  BY <1>2, <1>3

LEMMA ExpandStep ==
    ASSUME CredentialsInv, NEW a \in Admins, persistExpandedCredentialModels(a)
    PROVE  CredentialsInv'
<1> DEFINE r == req[a]
           new == Expanded(r.list, rt)
           written == {c \in Creds : new[c] # r.list[c]}
           late == \E c \in written : row[c] # r.list[c]
           q == At(r, "sync")
<1>1. /\ r.pc = "persist" /\ req' = [req EXCEPT ![a] = q]
      /\ row' = [c \in Creds |-> IF c \in written THEN new[c] ELSE row[c]]
      /\ disturbed' = (disturbed \/ late) /\ diverged' = (diverged \/ late)
      /\ UNCHANGED <<rt, valid, issued, catalog, parents, session, refresher,
                     faults, repeated, unsynced>>
  BY Zenon DEF persistExpandedCredentialModels, Go
<1>2. TablesOK /\ ServedInv /\ ParentsInv /\ ActivationInv /\ TokenInv
  BY Zenon DEF CredentialsInv
<1>3. /\ RequestOK(r) /\ r \in Request /\ r.list \in [Creds -> Rows]
      /\ row \in [Creds -> Rows] /\ rt \in [Creds -> Rows]
  BY <1>2, RequestParts, Zenon DEF TablesOK, RequestOK
<1> HIDE DEF r
<1>4. \A c \in Creds : /\ new[c] \in Rows /\ new[c].there = r.list[c].there
                       /\ new[c].enabled = r.list[c].enabled /\ new[c].token = r.list[c].token
                       /\ Bare(new[c]) => Bare(r.list[c])
  BY <1>3, ExpandedFacts, Zenon
<1>5. RequestOK(q) /\ Continues(r, q) /\ Syncs(q) /\ q.list = NoRows /\ ~Stale(r)
  <2>1. "sync" \in Steps /\ "sync" \in {"sync", "expand", "end"}
    BY Words, Zenon
  <2>2. /\ q \in Request /\ q.op = r.op /\ q.cred = r.cred /\ q.pc = "sync"
        /\ q.prev = NoRow /\ q.new = NoRow /\ q.list = NoRows /\ q.then = "end"
    BY <1>3, <2>1, AtRequest, Zenon
  <2> HIDE DEF q
  <2>3. /\ r.pc \notin {"new", "done", "save"} /\ ~Holds(r) /\ ~Stale(r)
        /\ q.pc \in {"sync", "expand", "end"} /\ Syncs(q)
    BY <1>1, <2>2, SMT DEF Holds, Stale, Syncs
  <2> QED
    BY <1>3, <2>2, <2>3, Forgets, Zenon
<1> HIDE DEF q
<1>6. /\ req' \in [Admins -> Request] /\ \A b \in Admins : RequestOK(req'[b])
      /\ req'[a] = q /\ \A b \in Admins \ {a} : req'[b] = req[b]
  BY <1>1, <1>2, <1>5, Turned, Zenon
<1>7. TablesOK'
  BY <1>1, <1>2, <1>3, <1>4, <1>6 DEF TablesOK, SessionOK
<1>8. \A c \in Creds : ~late => row'[c] = row[c] \/ (row'[c] = new[c] /\ row[c] = r.list[c])
  BY <1>1, Zenon
<1>9. ServedInv'
  <2> SUFFICES ASSUME ~diverged', \A b \in Admins : ~Stale(req'[b]), NEW c \in Creds
               PROVE  Serves(c, rt'[c], row'[c], refresher'[c], catalog')
    BY Zenon DEF ServedInv
  <2>1. ~diverged /\ ~late /\ \A b \in Admins : ~Stale(req[b])
    BY <1>1, <1>5, <1>6, Zenon DEF r
  <2>2. Serves(c, rt[c], row[c], refresher[c], catalog)
    BY <1>2, <2>1, Zenon DEF ServedInv
  <2>3. CASE row'[c] = row[c]
    BY <1>1, <2>2, <2>3, Zenon
  <2>4. CASE row'[c] = new[c] /\ row[c] = r.list[c]
    <3> DEFINE i == Installed(c, row[c], catalog)
    <3>1. catalog \in 1..MaxCatalog /\ row[c] \in Rows
      BY <1>2, <1>3, Zenon DEF TablesOK
    <3>2. i \in Rows
      BY <3>1, InstalledRow, Zenon
    <3>3. rt[c].models = i.models
      <4>1. CASE refresher[c].pc = "idle"
        BY <2>2, <4>1, Zenon DEF Serves
      <4>2. CASE refresher[c].pc # "idle"
        <5> DEFINE t == refresher[c].token
        <5>1. i.there /\ rt[c] = [i EXCEPT !.token = t]
          BY <2>2, <4>2, Zenon DEF Serves
        <5>2. t \in 0..MaxToken
          BY <1>2, Zenon DEF TablesOK, Refresher
        <5> HIDE DEF i, t
        <5>3. [i EXCEPT !.token = t].models = i.models
          BY <3>2, <5>1, <5>2, TokenRow, Zenon
        <5> QED
          BY <5>1, <5>3, Zenon
      <4> QED
        BY <4>1, <4>2
    <3>4. Installed(c, new[c], catalog) = i
      BY <1>3, <2>4, <3>1, <3>3, ExpandedServed
    <3> QED
      BY <1>1, <2>2, <2>4, <3>4, Zenon DEF Serves
  <2> QED
    BY <1>8, <2>1, <2>3, <2>4, Zenon
<1>10. ParentsInv'
  BY <1>5, <1>6, Zenon DEF ParentsInv
<1>11. ActivationInv'
  BY <1>1, <1>2, <1>4, <1>5, <1>6, <1>8, ActivationStep DEF Continues, r
<1>12. TokenInv'
  <2>1. ~disturbed' => ~disturbed /\ \A c \in Creds : row'[c].token \in {0, row[c].token}
    BY <1>1, <1>4, <1>8, Zenon
  <2>2. \A c \in Creds : Known(c, rt'[c].token)
    BY <1>1, Zenon DEF Known
  <2>3. \A b \in Admins, c \in Creds : Known(c, req'[b].list[c].token)
    BY <1>5, <1>6, Words, RowFacts DEF Known
  <2>4. \A b \in Admins : req'[b] = req[b] \/ Carries(req[b], req'[b])
    BY <1>5, <1>6, Zenon DEF Continues, r
  <2> HIDE DEF late
  <2> QED
    BY <1>1, <1>2, <1>7, <2>1, <2>2, <2>3, <2>4, TokensStep, Zenon
<1> QED
  BY <1>7, <1>9, <1>10, <1>11, <1>12, Zenon DEF CredentialsInv

-----------------------------------------------------------------------------
(* The documents: captured, refreshed, and stored by the update hook *)

LEMMA HookRows ==
    ASSUME TablesOK, NEW c \in Creds
    PROVE  /\ refresher[c] \in Refresher /\ refresher[c].pc \in {"idle", "get", "put"}
           /\ refresher[c].seen \in Rows /\ refresher[c].token \in 0..MaxToken
           /\ RefresherOK(refresher[c]) /\ row[c] \in Rows /\ rt[c] \in Rows
           /\ InFlight(c) => refresher[c].token > 0
BY DEF TablesOK, Refresher, RefresherOK, InFlight

LEMMA IdleHook ==
    /\ NoHook \in Refresher /\ NoHook.pc = "idle" /\ NoHook.seen = NoRow /\ NoHook.token = 0
    /\ RefresherOK(NoHook)
BY Constants, RowFacts DEF NoHook, Refresher, RefresherOK

\* A finalize works with a token that was issued.
LEMMA FinalizedToken ==
    ASSUME TablesOK, NEW o, Owns(o), NEW b \in Admins, Finalizes(req[b]),
           NEW n \in 1..MaxToken, n > issued
    PROVE  req[b].new.token # n
<1>1. RequestOK(req[b]) /\ RequestOwns(o, req[b])
  BY Zenon DEF TablesOK, Owns
<1>2. o[n] = {}
  BY Zenon DEF Owns
<1>3. CASE req[b].pc = "save"
  BY <1>1, <1>3 DEF RequestOwns, TablesOK
<1>4. CASE req[b].pc # "save"
  BY <1>1, <1>2, <1>4 DEF RequestOK, Finalizes, RequestOwns, Mine
<1> QED
  BY <1>3, <1>4

\* A token that nobody owned gets an owner.
LEMMA NewOwner ==
    ASSUME NEW o \in [1..MaxToken -> SUBSET Creds], NEW n \in 1..MaxToken, o[n] = {},
           NEW c \in Creds
    PROVE  LET p == [o EXCEPT ![n] = {c}]
           IN /\ p \in [1..MaxToken -> SUBSET Creds] /\ p[n] = {c}
              /\ \A t \in 1..MaxToken : t # n => p[t] = o[t]
              /\ \A d \in Creds, t \in 0..MaxToken : Mine(o, d, t) => Mine(p, d, t)
<1> DEFINE p == [o EXCEPT ![n] = {c}]
<1>1. {c} \in SUBSET Creds
  BY Zenon
<1>2. /\ p \in [1..MaxToken -> SUBSET Creds] /\ p[n] = {c}
      /\ \A t \in 1..MaxToken : t # n => p[t] = o[t]
  BY <1>1, Zenon
<1> HIDE DEF p
<1>3. \A d \in Creds, t \in 0..MaxToken : Mine(o, d, t) => Mine(p, d, t)
  <2> SUFFICES ASSUME NEW d \in Creds, NEW t \in 0..MaxToken, t > 0, o[t] = {d}
               PROVE  p[t] = {d}
    BY Zenon DEF Mine
  <2>1. t \in 1..MaxToken
    BY Constants, SMT
  <2> QED
    BY <1>2, <2>1, Zenon
<1> QED
  BY <1>2, <1>3, Zenon DEF p

LEMMA CaptureStep ==
    ASSUME CredentialsInv, capture
    PROVE  CredentialsInv'
<1> DEFINE n == issued + 1
<1>1. /\ session.st = "open" /\ issued < MaxToken
      /\ issued' = n /\ valid' = valid \cup {n}
      /\ session' = [session EXCEPT !.st = "captured", !.token = n]
      /\ UNCHANGED <<row, rt, catalog, parents, req, refresher,
                     faults, disturbed, repeated, diverged, unsynced>>
  BY Zenon DEF capture
<1>2. TablesOK /\ ServedInv /\ ParentsInv /\ ActivationInv /\ TokenInv
  BY Zenon DEF CredentialsInv
<1>3. /\ n \in 1..MaxToken /\ n \in 0..MaxToken /\ n > issued /\ n > 0
      /\ valid \cup {n} \subseteq 1..n
  BY <1>1, <1>2, Constants, SMT DEF TablesOK
<1> HIDE DEF n
<1>4. /\ session' \in [st : {"none", "open", "captured"}, targets : SUBSET Creds,
                       token : 0..MaxToken, tried : SUBSET Admins]
      /\ session'.token = n
  BY <1>1, <1>2, <1>3 DEF TablesOK, SessionOK
<1>5. TablesOK'
  BY <1>1, <1>2, <1>3, <1>4, Zenon DEF TablesOK, SessionOK
<1>6. ServedInv'
  BY <1>1, <1>2, ServedStep, Zenon
<1>7. ParentsInv'
  BY <1>1, <1>2, ParentsStep, Zenon
<1>8. ActivationInv'
  BY <1>1, <1>2, ActivationStep, Zenon
<1>9. TokenInv'
  <2> SUFFICES ASSUME ~disturbed', ~repeated'
               PROVE  TokensOK'
    BY Zenon DEF TokenInv
  <2>1. TokensOK
    BY <1>1, <1>2, Zenon DEF TokenInv
  <2>2. PICK o \in [1..MaxToken -> SUBSET Creds] : Owns(o)
    BY <2>1, Zenon DEF TokensOK
  <2>3. \A c \in Creds : Usable(c, row[c].token)' /\ (InFlight(c)' => refresher'[c].token \in valid')
    BY <1>1, <2>1, Zenon DEF TokensOK, Usable, InFlight
  <2>4. \A b \in Admins : Finalizes(req'[b]) => GoesBack(req[b])'
    BY <1>1, <2>1, Zenon DEF TokensOK, GoesBack, Usable, InFlight
  <2>5. \A a, b \in Admins : Finalizes(req'[a]) /\ Finalizes(req'[b]) => a = b
    BY <1>1, <2>1, Zenon DEF TokensOK
  <2>6. /\ session'.token \in valid'
        /\ \A b \in Admins : Finalizes(req'[b]) => req'[b].new.token # session'.token
    BY <1>1, <1>2, <1>3, <1>4, <2>2, FinalizedToken, Zenon
  <2>7. o[session'.token] = {}
    BY <1>3, <1>4, <2>2, Zenon DEF Owns
  <2>8. Owns(o)'
    <3>1. \A t \in 1..MaxToken : t > issued' => t > issued
      BY <1>1, <1>2, <1>3, SMT DEF TablesOK
    <3> QED
      BY <1>1, <2>2, <3>1, Zenon DEF Owns, RequestOwns
  <2> QED
    BY <2>2, <2>3, <2>4, <2>5, <2>6, <2>7, <2>8, Zenon DEF TokensOK
<1> QED
  BY <1>5, <1>6, <1>7, <1>8, <1>9, Zenon DEF CredentialsInv

\* The provider spends one token of c and issues the next.
LEMMA RefreshedTokens ==
    ASSUME TablesOK, TokensOK, NEW c \in Creds, NEW n \in 1..MaxToken, n = issued + 1,
           rt[c].token \in valid,
           issued' = n, valid' = (valid \ {rt[c].token}) \cup {n},
           rt'[c].token = n, refresher'[c].token = n, InFlight(c)',
           \A d \in Creds \ {c} : rt'[d] = rt[d] /\ refresher'[d] = refresher[d],
           UNCHANGED <<row, session, req>>
    PROVE  TokensOK'
<1> DEFINE s == rt[c].token
<1>1. PICK o \in [1..MaxToken -> SUBSET Creds] : Owns(o) /\ (Captured => o[session.token] = {})
  BY Zenon DEF TokensOK
<1>2. /\ n > issued /\ valid \subseteq 1..issued /\ s \in 1..issued /\ s > 0 /\ n > 0
      /\ \A t \in 1..issued : t \in 1..MaxToken /\ t # n
  <2>1. valid \subseteq 1..issued /\ issued \in 1..MaxToken /\ s \in valid
    BY Zenon DEF TablesOK
  <2> HIDE DEF s
  <2> QED
    BY <2>1, Constants, SMT
<1>3. o[s] = {c} /\ o[n] = {}
  BY <1>1, <1>2 DEF Owns, Mine
\* What another credential owns, or nobody does, is not spent.
<1>4. \A d \in Creds, t \in valid : d # c /\ Mine(o, d, t) => t \in valid'
  <2> SUFFICES ASSUME NEW d \in Creds, NEW t \in valid, d # c, Mine(o, d, t)
               PROVE  t \in valid'
    OBVIOUS
  <2>1. t > 0
    BY <1>2, SMT
  <2>2. o[t] = {d} /\ {d} # {c}
    BY <2>1, Zenon DEF Mine
  <2> QED
    BY <1>3, <2>2, Zenon
<1>5. \A t \in valid : o[t] = {} => t \in valid'
  BY <1>3, Zenon
<1>6. \A d \in Creds : InFlight(d) => InFlight(d)'
  BY Zenon DEF InFlight
<1>7. \A d \in Creds : \A t : Mine(o, d, t) /\ Usable(d, t) => Usable(d, t)'
  BY <1>4, <1>6, Zenon DEF Usable
<1>8. \A d \in Creds : Usable(d, row[d].token)' /\ (InFlight(d)' => refresher'[d].token \in valid')
  <2> SUFFICES ASSUME NEW d \in Creds
               PROVE  Usable(d, row[d].token)' /\ (InFlight(d)' => refresher'[d].token \in valid')
    OBVIOUS
  <2>1. Usable(d, row[d].token) /\ (InFlight(d) => refresher[d].token \in valid)
    BY Zenon DEF TokensOK
  <2>2. Mine(o, d, row[d].token) /\ Mine(o, d, refresher[d].token)
    BY <1>1, Zenon DEF Owns
  <2>3. row[d].token > 0 => row[d].token \in valid' \/ InFlight(d)'
    BY <1>7, <2>1, <2>2, Zenon DEF Usable
  <2>4. InFlight(d)' => refresher'[d].token \in valid'
    BY <1>4, <2>1, <2>2 DEF InFlight
  <2> QED
    BY <2>3, <2>4, Zenon DEF Usable
<1>9. \A b \in Admins : Finalizes(req[b]) => req[b].new.token # n
  BY <1>1, <1>2, FinalizedToken, Zenon
<1>10. \A b \in Admins : Finalizes(req'[b]) => GoesBack(req[b])'
  <2> SUFFICES ASSUME NEW b \in Admins, Finalizes(req[b])
               PROVE  GoesBack(req[b])'
    BY Zenon
  <2>1. GoesBack(req[b]) /\ RequestOwns(o, req[b]) /\ req[b].cred \subseteq Creds
    BY <1>1, RequestParts, Zenon DEF TokensOK, Owns, TablesOK
  <2>2. \A d \in Creds : InFlight(d)' => refresher'[d].token # req'[b].new.token
    BY <1>9, <2>1, Zenon DEF GoesBack, InFlight
  <2>3. \A d \in req[b].cred : Usable(d, req[b].prev.token) => Usable(d, req[b].prev.token)'
    BY <1>4, <1>6, <2>1, Zenon DEF Usable, RequestOwns
  <2> QED
    BY <2>1, <2>2, <2>3, Zenon DEF GoesBack
<1>11. \A a, b \in Admins : Finalizes(req'[a]) /\ Finalizes(req'[b]) => a = b
  BY Zenon DEF TokensOK
<1>12. Captured' => /\ session'.token \in valid'
                    /\ \A b \in Admins : Finalizes(req'[b]) => req'[b].new.token # session'.token
  BY <1>1, <1>5, Zenon DEF TokensOK, Captured
<1> DEFINE p == [o EXCEPT ![n] = {c}]
<1>13. /\ p \in [1..MaxToken -> SUBSET Creds] /\ p[n] = {c}
       /\ \A t \in 1..MaxToken : t # n => p[t] = o[t]
       /\ \A d \in Creds, t \in 0..MaxToken : Mine(o, d, t) => Mine(p, d, t)
  BY <1>3, NewOwner, Zenon
<1> HIDE DEF p, s
<1>14. Captured' => p[session'.token] = {}
  BY <1>1, <1>2, <1>13, Zenon DEF Captured, TokensOK
<1>15. Owns(p)'
  <2>1. \A t \in 1..MaxToken : t > issued' => p[t] = {}
    BY <1>1, <1>2, <1>13 DEF TablesOK, Owns
  <2>2. \A d \in Creds : /\ Mine(p, d, row'[d].token) /\ Mine(p, d, rt'[d].token)
                         /\ Mine(p, d, refresher'[d].token)
    <3> SUFFICES ASSUME NEW d \in Creds
                 PROVE  /\ Mine(p, d, row'[d].token) /\ Mine(p, d, rt'[d].token)
                        /\ Mine(p, d, refresher'[d].token)
      OBVIOUS
    <3>1. /\ Mine(o, d, row[d].token) /\ Mine(o, d, rt[d].token) /\ Mine(o, d, refresher[d].token)
          /\ row[d].token \in 0..MaxToken /\ rt[d].token \in 0..MaxToken
          /\ refresher[d].token \in 0..MaxToken
      BY <1>1, HookRows, RowFacts, Zenon DEF Owns
    <3>2. /\ Mine(p, d, row[d].token) /\ Mine(p, d, rt[d].token) /\ Mine(p, d, refresher[d].token)
      BY <1>13, <3>1, Zenon
    <3>3. Mine(p, c, n)
      BY <1>13, Zenon DEF Mine
    <3>4. CASE d = c
      BY <3>2, <3>3, <3>4, Zenon
    <3>5. CASE d # c
      BY <3>2, <3>5, Zenon
    <3> QED
      BY <3>4, <3>5
  <2>3. \A b \in Admins : RequestOwns(p, req[b])'
    <3> SUFFICES ASSUME NEW b \in Admins
                 PROVE  RequestOwns(p, req[b])'
      OBVIOUS
    <3>1. RequestOwns(o, req[b]) /\ req[b] \in Request
      BY <1>1, Zenon DEF Owns, TablesOK
    <3>2. /\ req[b].prev.token \in 0..MaxToken /\ req[b].new.token \in 0..MaxToken
          /\ req[b].cred \subseteq Creds /\ \A d \in Creds : req[b].list[d].token \in 0..MaxToken
      BY <3>1, RequestParts, RowFacts, Zenon
    <3>3. \A d \in Creds : Mine(p, d, req[b].list[d].token)
      BY <1>13, <3>1, <3>2, Zenon DEF RequestOwns
    <3>4. Finalizes(req[b]) => \A d \in req[b].cred :
            Mine(p, d, req[b].prev.token) /\ (req[b].pc # "save" => Mine(p, d, req[b].new.token))
      BY <1>13, <3>1, <3>2, Zenon DEF RequestOwns
    <3>5. Finalizes(req[b]) /\ req[b].pc = "save" =>
            req[b].new.token \in valid' /\ p[req[b].new.token] = {}
      BY <1>2, <1>5, <1>13, <3>1, Zenon DEF RequestOwns
    <3> QED
      BY <3>3, <3>4, <3>5, Zenon DEF RequestOwns
  <2> QED
    BY <2>1, <2>2, <2>3, Zenon DEF Owns
<1> QED
  BY <1>8, <1>10, <1>11, <1>12, <1>13, <1>14, <1>15, Zenon DEF TokensOK

LEMMA RefreshStep ==
    ASSUME CredentialsInv, NEW c \in Creds, RefreshCredential(c)
    PROVE  CredentialsInv'
<1> DEFINE n == issued + 1
           has == [rt[c] EXCEPT !.token = n]
           hook == [pc |-> "get", seen |-> NoRow, token |-> n]
<1>1. /\ rt[c].there /\ rt[c].token \in valid /\ issued < MaxToken /\ refresher[c].pc = "idle"
      /\ issued' = n /\ valid' = (valid \ {rt[c].token}) \cup {n}
      /\ rt' = [rt EXCEPT ![c] = has] /\ refresher' = [refresher EXCEPT ![c] = hook]
      /\ UNCHANGED <<row, catalog, parents, session, req, faults,
                     disturbed, repeated, diverged, unsynced>>
  BY Zenon DEF RefreshCredential
<1>2. TablesOK /\ ServedInv /\ ParentsInv /\ ActivationInv /\ TokenInv
  BY Zenon DEF CredentialsInv
<1>3. /\ row \in [Creds -> Rows] /\ rt \in [Creds -> Rows] /\ refresher \in [Creds -> Refresher]
      /\ issued \in 1..MaxToken /\ valid \subseteq 1..issued
  BY <1>2, Zenon DEF TablesOK
<1>4. /\ n \in 1..MaxToken /\ n \in 0..MaxToken /\ n > 0 /\ n = issued + 1
      /\ (valid \ {rt[c].token}) \cup {n} \subseteq 1..n
  BY <1>1, <1>3, Constants, SMT
<1> HIDE DEF n
<1>5. has \in Rows /\ has.there /\ has.token = n
  <2> DEFINE r == rt[c]
  <2>1. r \in Rows /\ r.there
    BY <1>1, <1>3, Zenon
  <2> HIDE DEF r
  <2>2. [r EXCEPT !.token = n] \in Rows /\ [r EXCEPT !.token = n].there
        /\ [r EXCEPT !.token = n].token = n
    BY <1>4, <2>1, TokenRow, Zenon
  <2> QED
    BY <2>2, Zenon DEF r
<1>6. hook \in Refresher /\ hook.pc = "get" /\ hook.token = n /\ hook.pc # "idle" /\ RefresherOK(hook)
  BY <1>4, RowFacts DEF Refresher, RefresherOK
<1> HIDE DEF has, hook
<1>7. /\ rt' \in [Creds -> Rows] /\ refresher' \in [Creds -> Refresher]
      /\ rt'[c] = has /\ refresher'[c] = hook
      /\ \A d \in Creds \ {c} : rt'[d] = rt[d] /\ refresher'[d] = refresher[d]
  BY <1>1, <1>3, <1>5, <1>6, Zenon
<1>8. TablesOK'
  BY <1>1, <1>2, <1>4, <1>6, <1>7 DEF TablesOK, SessionOK
<1>9. ServedInv'
  <2> SUFFICES ASSUME ~diverged', \A b \in Admins : ~Stale(req'[b]), NEW d \in Creds
               PROVE  Serves(d, rt'[d], row'[d], refresher'[d], catalog')
    BY Zenon DEF ServedInv
  <2>1. Serves(d, rt[d], row[d], refresher[d], catalog)
    BY <1>1, <1>2, Zenon DEF ServedInv
  <2>2. CASE d # c
    BY <1>1, <1>7, <2>1, <2>2, Zenon
  <2>3. CASE d = c
    BY <1>1, <1>6, <1>7, <2>1, <2>3 DEF Serves, has
  <2> QED
    BY <2>2, <2>3
<1>10. ParentsInv'
  BY <1>1, <1>2, ParentsStep, Zenon
<1>11. ActivationInv'
  BY <1>1, <1>2, ActivationStep, Zenon
<1>12. TokenInv'
  <2> SUFFICES ASSUME ~disturbed', ~repeated'
               PROVE  TokensOK'
    BY Zenon DEF TokenInv
  <2>1. TokensOK
    BY <1>1, <1>2, Zenon DEF TokenInv
  <2>2. InFlight(c)' /\ rt'[c].token = n /\ refresher'[c].token = n
    BY <1>5, <1>6, <1>7, Zenon DEF InFlight
  <2>3. UNCHANGED <<row, session, req>>
    BY <1>1, Zenon
  <2> QED
    BY <1>1, <1>2, <1>4, <1>7, <2>1, <2>2, <2>3, RefreshedTokens, Zenon
<1> QED
  BY <1>8, <1>9, <1>10, <1>11, <1>12, Zenon DEF CredentialsInv

\* The update hook of c goes on, or ends with the document stored or the row gone.
LEMMA HookTokens ==
    ASSUME TablesOK, TokensOK, NEW c \in Creds, InFlight(c),
           \A d \in Creds \ {c} : row'[d] = row[d] /\ refresher'[d] = refresher[d],
           \/ row'[c] = row[c] /\ refresher'[c].token = refresher[c].token /\ InFlight(c)'
           \/ row'[c].token \in {0, refresher[c].token} /\ refresher'[c] = NoHook,
           UNCHANGED <<rt, valid, issued, session, req>>
    PROVE  TokensOK'
<1>1. PICK o \in [1..MaxToken -> SUBSET Creds] : Owns(o) /\ (Captured => o[session.token] = {})
  BY Zenon DEF TokensOK
<1>2. ~(0 > 0)
  BY SMT
<1>3. \A d \in Creds : Usable(d, row[d].token) /\ (InFlight(d) => refresher[d].token \in valid)
  BY Zenon DEF TokensOK
<1>4. \A d \in Creds \ {c} : InFlight(d)' <=> InFlight(d)
  BY Zenon DEF InFlight
<1>5. refresher'[c] = NoHook => ~InFlight(c)'
  BY IdleHook, Zenon DEF InFlight
<1>6. \A d \in Creds : Usable(d, row[d].token)' /\ (InFlight(d)' => refresher'[d].token \in valid')
  <2> SUFFICES ASSUME NEW d \in Creds
               PROVE  Usable(d, row[d].token)' /\ (InFlight(d)' => refresher'[d].token \in valid')
    OBVIOUS
  <2>1. CASE d # c
    BY <1>3, <1>4, <2>1, Zenon DEF Usable
  <2>2. CASE d = c /\ row'[c] = row[c] /\ refresher'[c].token = refresher[c].token /\ InFlight(c)'
    BY <1>3, <2>2, Zenon DEF Usable
  <2>3. CASE d = c /\ row'[c].token \in {0, refresher[c].token} /\ refresher'[c] = NoHook
    BY <1>2, <1>3, <1>5, <2>3, Zenon DEF Usable
  <2> QED
    BY <2>1, <2>2, <2>3, Zenon
<1>7. \A b \in Admins : Finalizes(req'[b]) => GoesBack(req[b])'
  <2> SUFFICES ASSUME NEW b \in Admins, Finalizes(req[b])
               PROVE  GoesBack(req[b])'
    BY Zenon
  <2>1. GoesBack(req[b]) /\ RequestOK(req[b]) /\ req[b].cred \subseteq Creds
    BY RequestParts, Zenon DEF TokensOK, TablesOK
  <2>2. \A d \in Creds : InFlight(d)' => refresher'[d].token # req'[b].new.token
    BY <1>4, <1>5, <2>1, Zenon DEF GoesBack
  <2> SUFFICES ASSUME Holds(req[b]), NEW d \in req[b].cred, row'[d].token = req[b].new.token
               PROVE  req[b].prev.token > 0 => req[b].prev.token \in valid' \/ InFlight(d)'
    BY <2>2, Zenon DEF GoesBack, Usable
  <2>3. d \in Creds
    BY <2>1, Zenon
  <2>4. CASE row'[d] = row[d] /\ (InFlight(d) => InFlight(d)')
    BY <2>1, <2>4, Zenon DEF GoesBack, Usable
  <2>5. CASE d = c /\ row'[c].token = refresher[c].token
    BY <2>1, <2>3, <2>5, Zenon DEF GoesBack
  <2>6. CASE row'[d].token = 0
    BY <1>2, <2>1, <2>6 DEF Accounts, RequestOK, Works, WorkOK, Finalizes
  <2> QED
    BY <1>4, <2>3, <2>4, <2>5, <2>6, Zenon
<1>8. \A a, b \in Admins : Finalizes(req'[a]) /\ Finalizes(req'[b]) => a = b
  BY Zenon DEF TokensOK
<1>9. /\ Captured' => /\ session'.token \in valid' /\ o[session'.token] = {}
                      /\ \A b \in Admins : Finalizes(req'[b]) => req'[b].new.token # session'.token
  BY <1>1, Zenon DEF TokensOK, Captured
<1>10. Owns(o)'
  <2>1. \A d \in Creds : Mine(o, d, row'[d].token) /\ Mine(o, d, refresher'[d].token)
    <3> SUFFICES ASSUME NEW d \in Creds
                 PROVE  Mine(o, d, row'[d].token) /\ Mine(o, d, refresher'[d].token)
      OBVIOUS
    <3>1. Mine(o, d, row[d].token) /\ Mine(o, d, refresher[d].token) /\ Mine(o, d, 0)
      BY <1>1, <1>2, Zenon DEF Owns, Mine
    <3>2. row'[d].token \in {0, row[d].token, refresher[d].token}
      BY Zenon
    <3>3. refresher'[d].token \in {0, refresher[d].token}
      BY IdleHook, Zenon
    <3> QED
      BY <3>1, <3>2, <3>3, Zenon
  <2> QED
    BY <1>1, <2>1, Zenon DEF Owns, RequestOwns
<1> QED
  BY <1>1, <1>6, <1>7, <1>8, <1>9, <1>10, Zenon DEF TokensOK

LEMMA PersistGetStep ==
    ASSUME CredentialsInv, NEW c \in Creds, PersistGet(c)
    PROVE  CredentialsInv'
<1> DEFINE f == refresher[c]
           q == IF row[c].there THEN [f EXCEPT !.pc = "put", !.seen = row[c]] ELSE NoHook
<1>1. /\ f.pc = "get" /\ refresher' = [refresher EXCEPT ![c] = q]
      /\ UNCHANGED <<row, rt, valid, issued, catalog, parents, session, req,
                     faults, disturbed, repeated, diverged, unsynced>>
  BY Zenon DEF PersistGet, NoHook
<1>2. TablesOK /\ ServedInv /\ ParentsInv /\ ActivationInv /\ TokenInv
  BY Zenon DEF CredentialsInv
<1>3. /\ f \in Refresher /\ RefresherOK(f) /\ row[c] \in Rows /\ f.pc # "idle" /\ InFlight(c)
      /\ refresher \in [Creds -> Refresher]
  BY <1>1, <1>2, HookRows DEF TablesOK, InFlight
<1> HIDE DEF f
<1>4. row[c].there => /\ q \in Refresher /\ q.pc = "put" /\ q.seen = row[c] /\ q.token = f.token
                      /\ q.pc # "idle" /\ RefresherOK(q)
  <2> SUFFICES ASSUME row[c].there
               PROVE  /\ q \in Refresher /\ q.pc = "put" /\ q.seen = row[c] /\ q.token = f.token
                      /\ q.pc # "idle" /\ RefresherOK(q)
    OBVIOUS
  <2>1. "put" \in {"idle", "get", "put"} /\ "put" # "idle"
    BY SMT
  <2>2. q = [f EXCEPT !.pc = "put", !.seen = row[c]]
    BY Zenon
  <2>3. [f EXCEPT !.pc = "put", !.seen = row[c]] \in Refresher
    BY <1>3, <2>1, Zenon DEF Refresher
  <2>4. q.pc = "put" /\ q.seen = row[c] /\ q.token = f.token
    BY <1>3, <2>2, Zenon DEF Refresher
  <2> HIDE DEF q
  <2>5. q \in Refresher
    BY <2>2, <2>3, Zenon
  <2> QED
    BY <1>3, <2>1, <2>4, <2>5, Zenon DEF RefresherOK
<1>5. ~row[c].there => q = NoHook
  BY Zenon
<1> HIDE DEF q
<1>6. q \in Refresher /\ RefresherOK(q)
  BY <1>4, <1>5, IdleHook, Zenon
<1>7. /\ refresher' \in [Creds -> Refresher] /\ refresher'[c] = q
      /\ \A d \in Creds \ {c} : refresher'[d] = refresher[d]
  BY <1>1, <1>3, <1>6, Zenon
<1>8. TablesOK'
  BY <1>1, <1>2, <1>6, <1>7 DEF TablesOK, SessionOK
<1>9. ServedInv'
  <2> SUFFICES ASSUME ~diverged', \A b \in Admins : ~Stale(req'[b]), NEW d \in Creds
               PROVE  Serves(d, rt'[d], row'[d], refresher'[d], catalog')
    BY Zenon DEF ServedInv
  <2>1. Serves(d, rt[d], row[d], refresher[d], catalog)
    BY <1>1, <1>2, Zenon DEF ServedInv
  <2>2. CASE d # c
    BY <1>1, <1>7, <2>1, <2>2, Zenon
  <2>3. CASE d = c
    BY <1>1, <1>3, <1>4, <1>7, <2>1, <2>3, RowFacts DEF Serves, f, Installed
  <2> QED
    BY <2>2, <2>3
<1>10. ParentsInv'
  BY <1>1, <1>2, ParentsStep, Zenon
<1>11. ActivationInv'
  BY <1>1, <1>2, ActivationStep, Zenon
<1>12. TokenInv'
  <2> SUFFICES ASSUME ~disturbed', ~repeated'
               PROVE  TokensOK'
    BY Zenon DEF TokenInv
  <2>1. TokensOK
    BY <1>1, <1>2, Zenon DEF TokenInv
  <2>2. \/ row'[c] = row[c] /\ refresher'[c].token = refresher[c].token /\ InFlight(c)'
        \/ row'[c].token \in {0, refresher[c].token} /\ refresher'[c] = NoHook
    <3>1. CASE row[c].there
      BY <1>1, <1>4, <1>7, <3>1, Zenon DEF InFlight, f
    <3>2. CASE ~row[c].there
      BY <1>1, <1>3, <1>5, <1>7, <3>2, RowFacts
    <3> QED
      BY <3>1, <3>2
  <2>3. /\ \A d \in Creds \ {c} : row'[d] = row[d] /\ refresher'[d] = refresher[d]
        /\ UNCHANGED <<rt, valid, issued, session, req>>
    BY <1>1, <1>7, Zenon
  <2> QED
    BY <1>2, <1>3, <2>1, <2>2, <2>3, HookTokens, Zenon
<1> QED
  BY <1>8, <1>9, <1>10, <1>11, <1>12, Zenon DEF CredentialsInv

LEMMA PersistPutStep ==
    ASSUME CredentialsInv, NEW c \in Creds, PersistPut(c)
    PROVE  CredentialsInv'
<1> DEFINE f == refresher[c]
           n == [f.seen EXCEPT !.token = f.token]
           late == row[c] # f.seen
<1>1. /\ f.pc = "put" /\ row' = [row EXCEPT ![c] = n] /\ refresher' = [refresher EXCEPT ![c] = NoHook]
      /\ disturbed' = (disturbed \/ late) /\ diverged' = (diverged \/ late)
      /\ UNCHANGED <<rt, valid, issued, catalog, parents, session, req, faults, repeated, unsynced>>
  BY Zenon DEF PersistPut, UpsertUpstreamCredential, NoHook
<1>2. TablesOK /\ ServedInv /\ ParentsInv /\ ActivationInv /\ TokenInv
  BY Zenon DEF CredentialsInv
<1>3. /\ f \in Refresher /\ RefresherOK(f) /\ row[c] \in Rows /\ f.pc # "idle" /\ InFlight(c)
      /\ refresher \in [Creds -> Refresher] /\ row \in [Creds -> Rows]
      /\ f.seen \in Rows /\ f.token \in 0..MaxToken
  BY <1>1, <1>2, HookRows DEF TablesOK, InFlight
<1>4. f.seen.there
  BY <1>1, <1>3, Zenon DEF RefresherOK
<1>5. /\ n \in Rows /\ n.there /\ n.enabled = f.seen.enabled /\ n.models = f.seen.models
      /\ n.token = f.token
  <2> DEFINE s == f.seen
             t == f.token
  <2>1. s \in Rows /\ s.there /\ t \in 0..MaxToken
    BY <1>3, <1>4, Zenon
  <2> HIDE DEF s, t
  <2>2. LET m == [s EXCEPT !.token = t]
        IN m \in Rows /\ m.there /\ m.enabled = s.enabled /\ m.models = s.models /\ m.token = t
    BY <2>1, TokenRow, Zenon
  <2> QED
    BY <2>2, Zenon DEF s, t
<1> HIDE DEF f, n
<1>6. /\ refresher' \in [Creds -> Refresher] /\ refresher'[c] = NoHook
      /\ row' \in [Creds -> Rows] /\ row'[c] = n
      /\ \A d \in Creds \ {c} : row'[d] = row[d] /\ refresher'[d] = refresher[d]
  BY <1>1, <1>3, <1>5, IdleHook, Zenon
<1>7. TablesOK'
  BY <1>1, <1>2, <1>6, IdleHook DEF TablesOK, SessionOK
<1>8. ServedInv'
  <2> SUFFICES ASSUME ~diverged', \A b \in Admins : ~Stale(req'[b]), NEW d \in Creds
               PROVE  Serves(d, rt'[d], row'[d], refresher'[d], catalog')
    BY Zenon DEF ServedInv
  <2>1. Serves(d, rt[d], row[d], refresher[d], catalog) /\ ~late
    BY <1>1, <1>2, Zenon DEF ServedInv
  <2>2. CASE d # c
    BY <1>1, <1>6, <2>1, <2>2, Zenon
  <2>3. CASE d = c
    <3>1. /\ Installed(c, row[c], catalog).there
          /\ rt[c] = [Installed(c, row[c], catalog) EXCEPT !.token = f.token]
      BY <1>3, <2>1, <2>3, Zenon DEF Serves, f
    <3>2. row'[c] = [row[c] EXCEPT !.token = f.token]
      BY <1>6, <2>1, Zenon DEF n
    <3>3. catalog \in 1..MaxCatalog
      BY <1>2, Zenon DEF TablesOK
    <3>4. Installed(c, [row[c] EXCEPT !.token = f.token], catalog)
            = [Installed(c, row[c], catalog) EXCEPT !.token = f.token]
      <4> DEFINE t == f.token
                 r == row[c]
                 v == catalog
      <4>1. t \in 0..MaxToken /\ r \in Rows /\ v \in 1..MaxCatalog /\ Installed(c, r, v).there
        BY <1>3, <3>1, <3>3, Zenon
      <4> HIDE DEF t, r, v
      <4>2. Installed(c, [r EXCEPT !.token = t], v) = [Installed(c, r, v) EXCEPT !.token = t]
        BY <4>1, InstalledToken, SMT
      <4> QED
        BY <4>2, Zenon DEF t, r, v
    <3> QED
      BY <1>1, <1>6, <2>3, <3>1, <3>2, <3>4, IdleHook, Zenon DEF Serves
  <2> QED
    BY <2>2, <2>3
<1>9. ~disturbed' => /\ ~disturbed
                     /\ n.there = row[c].there /\ n.enabled = row[c].enabled
                     /\ n.models = row[c].models
  BY <1>1, <1>3, <1>4, <1>5, RowFacts, Zenon
<1>10. ParentsInv'
  BY <1>1, <1>2, <1>6, <1>9, ParentsStep
<1>11. ActivationInv'
  BY <1>1, <1>2, <1>6, <1>9, ActivationStep DEF Bare
<1>12. TokenInv'
  <2> SUFFICES ASSUME ~disturbed', ~repeated'
               PROVE  TokensOK'
    BY Zenon DEF TokenInv
  <2>1. TokensOK
    BY <1>1, <1>2, <1>9, Zenon DEF TokenInv
  <2>2. /\ \A d \in Creds \ {c} : row'[d] = row[d] /\ refresher'[d] = refresher[d]
        /\ row'[c].token \in {0, refresher[c].token} /\ refresher'[c] = NoHook
        /\ UNCHANGED <<rt, valid, issued, session, req>>
    BY <1>1, <1>5, <1>6, Zenon DEF f
  <2> QED
    BY <1>2, <1>3, <2>1, <2>2, HookTokens, Zenon
<1> QED
  BY <1>7, <1>8, <1>10, <1>11, <1>12, Zenon DEF CredentialsInv

LEMMA RestartStep ==
    ASSUME CredentialsInv, Restart
    PROVE  CredentialsInv'
<1> DEFINE live == [c \in Creds |-> Installed(c, row[c], catalog)]
           rows == Expanded(row, live)
<1>1. /\ row' = rows /\ rt' = live /\ parents' = Synced(rows)
      /\ req' = [a \in Admins |-> IF req[a].pc = "new" THEN NoReq ELSE Done]
      /\ refresher' = [c \in Creds |-> NoHook] /\ session' = NoSession
      /\ disturbed' = (disturbed \/ (\E a \in Admins : ~Idle(a))
                                 \/ (\E c \in Creds : refresher[c].pc # "idle"))
      /\ diverged' = FALSE /\ unsynced' = FALSE
      /\ UNCHANGED <<valid, issued, catalog, repeated>>
  BY Zenon DEF Restart, NoHook
<1>2. TablesOK /\ ServedInv /\ ParentsInv /\ ActivationInv /\ TokenInv
  BY Zenon DEF CredentialsInv
<1>3. row \in [Creds -> Rows] /\ catalog \in 1..MaxCatalog
  BY <1>2, Zenon DEF TablesOK
<1>4. \A c \in Creds : /\ live[c] = Installed(c, row[c], catalog) /\ live[c] \in Rows
                       /\ live[c].token \in {0, row[c].token}
  <2>1. \A c \in Creds : row[c] \in Rows /\ live[c] = Installed(c, row[c], catalog)
    BY <1>3, Zenon
  <2> HIDE DEF live
  <2> QED
    BY <1>3, <2>1, InstalledRow, Zenon
<1>5. live \in [Creds -> Rows]
  BY <1>4, Zenon
<1> HIDE DEF live
<1>6. \A c \in Creds : /\ rows[c] \in Rows /\ rows[c].there = row[c].there
                       /\ rows[c].enabled = row[c].enabled /\ rows[c].token = row[c].token
                       /\ Bare(rows[c]) => Bare(row[c])
  BY <1>3, <1>5, ExpandedFacts, Zenon
<1>7. \A c \in Creds : Installed(c, rows[c], catalog) = live[c]
  BY <1>3, <1>4, <1>5, ExpandedServed, Zenon
<1>8. rows \in [Creds -> Rows]
  <2>1. rows = [c \in Creds |-> rows[c]]
    BY Zenon DEF Expanded
  <2> HIDE DEF rows
  <2> QED
    BY <1>6, <2>1, Zenon
<1> HIDE DEF rows
<1>9. /\ parents' \in [Creds -> {"none", "available", "disabled", "missing"}]
      /\ \A c \in Creds : Shows(parents'[c], rows[c])
  BY <1>1, <1>2, <1>8, SyncedFacts, Zenon
<1>10. /\ req' \in [Admins -> Request]
       /\ \A a \in Admins : req'[a] \in {NoReq, Done} /\ RequestOK(req'[a])
  BY <1>1, IdleRequests, BlankRequest, DoneRequest, Zenon
<1>11. /\ refresher' \in [Creds -> Refresher]
       /\ \A c \in Creds : refresher'[c] = NoHook /\ RefresherOK(refresher'[c])
  BY <1>1, IdleHook, Zenon
<1>12. SessionOK' /\ ~Captured'
  BY <1>1, BlankSession DEF SessionOK, Captured
<1>13. disturbed' \in BOOLEAN /\ diverged' \in BOOLEAN /\ unsynced' \in BOOLEAN
  BY <1>1, Zenon
<1>14. TablesOK'
  BY <1>1, <1>2, <1>5, <1>8, <1>9, <1>10, <1>11, <1>12, <1>13, Zenon DEF TablesOK
<1>15. ServedInv'
  BY <1>1, <1>7, <1>11, IdleHook, Zenon DEF ServedInv, Serves
<1>16. ParentsInv'
  BY <1>1, <1>9, Zenon DEF ParentsInv
<1>17. \A a \in Admins : /\ ~Finalizes(req'[a]) /\ req'[a].list = NoRows
                         /\ \A c \in Creds : ~Lends(req'[a], c)
  BY <1>10, BlankRequest, DoneRequest, IdleRequest
<1>18. ActivationInv'
  BY <1>1, <1>2, <1>6, <1>17, IdleRequest, ActivationStep DEF Idle, TablesOK
<1>19. TokenInv'
  <2>1. ~disturbed' => ~disturbed /\ refresher' = refresher
    <3> SUFFICES ASSUME ~disturbed'
                 PROVE  ~disturbed /\ refresher' = refresher
      OBVIOUS
    <3>1. ~disturbed /\ \A c \in Creds : refresher[c].pc = "idle"
      BY <1>1, Zenon
    <3>2. \A c \in Creds : refresher[c] = NoHook
      BY <1>2, <3>1, HookRows, Zenon DEF RefresherOK
    <3>3. refresher \in [Creds -> Refresher]
      BY <1>2, Zenon DEF TablesOK
    <3> QED
      BY <1>1, <3>1, <3>2, <3>3, Zenon
  <2>2. \A c \in Creds : row'[c].token \in {0, row[c].token} /\ Known(c, rt'[c].token)
    BY <1>1, <1>4, <1>6, Zenon DEF Known
  <2>3. \A b \in Admins, c \in Creds : Known(c, req'[b].list[c].token)
    BY <1>17, Words, RowFacts DEF Known
  <2>4. \A b \in Admins : Carries(req[b], req'[b])
    BY <1>17, Zenon DEF Carries
  <2> QED
    BY <1>1, <1>2, <1>12, <1>14, <2>1, <2>2, <2>3, <2>4, TokensStep, Zenon
<1> QED
  BY <1>14, <1>15, <1>16, <1>18, <1>19, Zenon DEF CredentialsInv

-----------------------------------------------------------------------------
(* The writes of the handlers *)

LEMMA Finalized ==
    ASSUME CredentialsInv, NEW a \in Admins, NEW c \in Creds,
           NEW prev \in {NoRow, row[c]}, NEW new \in Rows, NEW then \in {"discover", "sync"},
           session.st = "captured", req[a].pc = "new",
           req' = [req EXCEPT ![a] = Started("oauth", {c}, "save", prev, new, then)],
           new.there, new.token = session.token, prev.models > 0 => new.models > 0,
           ~prev.there /\ new.models = 0 => then = "discover",
           session' = [session EXCEPT !.tried = session.tried \cup {a}],
           repeated' = (repeated \/ session.tried # {} \/ (\E b \in Admins : req[b].op = "oauth")),
           UNCHANGED <<row, rt, valid, issued, catalog, parents, refresher,
                       faults, disturbed, diverged, unsynced>>
    PROVE  CredentialsInv'
<1> DEFINE q == Started("oauth", {c}, "save", prev, new, then)
<1>1. TablesOK /\ ServedInv /\ ParentsInv /\ ActivationInv /\ TokenInv
  BY Zenon DEF CredentialsInv
<1>2. row[c] \in Rows /\ prev \in Rows /\ SessionOK /\ session.token > 0
  BY <1>1, RowFacts, Zenon DEF TablesOK, SessionOK
<1>3. /\ "oauth" \in Names /\ {c} \in SUBSET Creds /\ "save" \in Steps /\ then \in Thens
      /\ "oauth" \in Accounts /\ then # "end" /\ "oauth" # "add" /\ "oauth" # "update"
  BY SMT DEF Names, Steps, Thens, Accounts
<1>4. /\ q \in Request /\ q.op = "oauth" /\ q.cred = {c} /\ q.pc = "save" /\ q.prev = prev
      /\ q.new = new /\ q.list = NoRows /\ q.then = then
  BY <1>2, <1>3, BlankRequest, Zenon DEF Started, Request
<1>5. req' = [req EXCEPT ![a] = q]
  BY Zenon
<1> HIDE DEF q
<1>6. WorkOK(q)
  BY <1>2, <1>3, <1>4, Zenon DEF WorkOK
<1>7. RequestOK(q) /\ ~Stale(q) /\ ~Syncs(q) /\ ~Holds(q)
  BY <1>3, <1>4, <1>6, SavingRequest, Zenon
<1>8. /\ req' \in [Admins -> Request] /\ \A b \in Admins : RequestOK(req'[b])
      /\ req'[a] = q /\ \A b \in Admins \ {a} : req'[b] = req[b]
  BY <1>1, <1>5, <1>7, Turned, Zenon
<1>9. SessionOK' /\ ~Captured'
  BY <1>2 DEF SessionOK, Captured
<1>10. TablesOK'
  BY <1>1, <1>8, <1>9 DEF TablesOK
<1>11. /\ ~Finalizes(req[a]) /\ ~Stale(req[a]) /\ ~Syncs(req[a])
       /\ \A d \in Creds : ~Adds(req[a], d) /\ ~Lends(req[a], d)
  BY <1>1, IdleRequest DEF TablesOK
<1>12. ServedInv'
  BY <1>1, <1>8, <1>11, ServedStep, Zenon
<1>13. ParentsInv'
  BY <1>1, <1>8, <1>11, ParentsStep, Zenon
<1>14. ActivationInv'
  BY <1>1, <1>7, <1>8, <1>11, ActivationStep DEF Lends
<1>15. TokenInv'
  <2> SUFFICES ASSUME ~disturbed', ~repeated'
               PROVE  TokensOK'
    BY Zenon DEF TokenInv
  <2>1. TokensOK /\ Captured /\ \A b \in Admins : ~Finalizes(req[b])
    BY <1>1, Zenon DEF TokenInv, Captured, Finalizes
  <2>2. PICK o \in [1..MaxToken -> SUBSET Creds] : Owns(o) /\ o[session.token] = {}
    BY <2>1, Zenon DEF TokensOK
  <2>3. \A d \in Creds : Usable(d, row[d].token)' /\ (InFlight(d)' => refresher'[d].token \in valid')
    BY <2>1, Zenon DEF TokensOK, Usable, InFlight
  <2>4. \A b \in Admins : Finalizes(req'[b]) => b = a
    BY <1>8, <2>1, Zenon
  <2>5. \A d \in Creds : InFlight(d) => refresher[d].token # session.token
    <3> SUFFICES ASSUME NEW d \in Creds, InFlight(d)
                 PROVE  refresher[d].token # session.token
      OBVIOUS
    <3>1. Mine(o, d, refresher[d].token) /\ refresher[d].token > 0
      BY <1>1, <2>2, HookRows, Zenon DEF Owns
    <3> QED
      BY <2>2, <3>1, Zenon DEF Mine
  <2>0. /\ req'[a].pc = "save" /\ req'[a].new.token = session.token /\ ~Holds(req'[a])
        /\ req'[a].cred = {c} /\ req'[a].prev = prev /\ req'[a].list = NoRows
    BY <1>4, <1>7, <1>8, Zenon
  <2>6. GoesBack(req[a])'
    BY <2>0, <2>5 DEF InFlight, GoesBack
  <2>7. Owns(o)'
    <3>1. \A b \in Admins \ {a} : RequestOwns(o, req[b])'
      BY <1>8, <2>2, Zenon DEF Owns, RequestOwns
    <3>2. RequestOwns(o, req[a])'
      <4>1. ~(0 > 0)
        BY SMT
      <4>2. \A d \in Creds : Mine(o, d, req'[a].list[d].token)
        BY <2>0, <4>1, Words, RowFacts DEF Mine
      <4>3. Mine(o, c, prev.token)
        <5>1. CASE prev = NoRow
          BY <4>1, <5>1, RowFacts DEF Mine
        <5>2. CASE prev = row[c]
          BY <2>2, <5>2, Zenon DEF Owns
        <5> QED
          BY <5>1, <5>2, Zenon
      <4>4. session.token \in valid
        BY <2>1, Zenon DEF TokensOK
      <4>5. \A d \in req'[a].cred : Mine(o, d, req'[a].prev.token)
        BY <2>0, <4>3, Zenon
      <4>6. req'[a].new.token \in valid' /\ o[req'[a].new.token] = {}
        <5>1. req'[a].new.token = session.token /\ valid' = valid
          BY <2>0, Zenon
        <5> QED
          BY <2>2, <4>4, <5>1, Zenon
      <4> QED
        BY <2>0, <4>2, <4>5, <4>6, Zenon DEF RequestOwns
    <3> QED
      BY <2>2, <3>1, <3>2, Zenon DEF Owns
  <2> QED
    BY <1>9, <2>2, <2>3, <2>4, <2>6, <2>7, Zenon DEF TokensOK
<1> QED
  BY <1>10, <1>12, <1>13, <1>14, <1>15, Zenon DEF CredentialsInv

LEMMA FinalizeStep ==
    ASSUME CredentialsInv, NEW a \in Admins, adminProviderOAuthFinalize(a)
    PROVE  CredentialsInv'
<1>1. /\ session.st = "captured"
      /\ session' = [session EXCEPT !.tried = session.tried \cup {a}]
      /\ repeated' = (repeated \/ session.tried # {} \/ (\E b \in Admins : req[b].op = "oauth"))
      /\ UNCHANGED <<row, rt, valid, issued, catalog, parents, refresher,
                     faults, disturbed, diverged, unsynced>>
  BY Zenon DEF adminProviderOAuthFinalize
<1>2. row \in [Creds -> Rows] /\ SessionOK
  BY Zenon DEF CredentialsInv, TablesOK
<1>3. session.token \in 0..MaxToken /\ session.targets \subseteq Creds
  BY <1>2, Zenon DEF SessionOK
<1>4. ASSUME NEW c \in Creds,
             Begin(a, "oauth", {c}, NoRow,
                   [there |-> TRUE, enabled |-> TRUE, models |-> 0, token |-> session.token],
                   "save", "discover")
      PROVE  CredentialsInv'
  <2> DEFINE t == session.token
             new == [there |-> TRUE, enabled |-> TRUE, models |-> 0, token |-> t]
             prev == NoRow
             then == "discover"
  <2>1. 0 \in 0..MaxCatalog /\ TRUE \in BOOLEAN /\ ~(0 > 0) /\ t \in 0..MaxToken
    BY <1>3, Constants
  <2>2. req[a].pc = "new" /\ req' = [req EXCEPT ![a] = Started("oauth", {c}, "save", prev, new, then)]
    BY <1>4, Zenon DEF Begin, Started
  <2>3. new \in Rows /\ new.there /\ new.token = session.token
    <3>1. LET n == [there |-> TRUE, enabled |-> TRUE, models |-> 0, token |-> t]
          IN n \in Rows /\ n.there /\ n.token = t
      <4> HIDE DEF t
      <4> QED
        BY <2>1, BuiltRow, Zenon
    <3> QED
      BY <3>1, Zenon
  <2>4. prev \in {NoRow, row[c]} /\ then \in {"discover", "sync"} /\ then = "discover"
        /\ ~(prev.models > 0)
    BY <2>1, RowFacts, Zenon
  <2> HIDE DEF new, prev, then
  <2> QED
    BY <1>1, <2>2, <2>3, <2>4, Finalized, Zenon
<1>5. ASSUME NEW c \in session.targets, row[c].there,
             Begin(a, "oauth", {c}, row[c], [row[c] EXCEPT !.token = session.token], "save",
                   IF row[c].models = 0 THEN "discover" ELSE "sync")
      PROVE  CredentialsInv'
  <2> DEFINE r == row[c]
             t == session.token
             new == [r EXCEPT !.token = t]
             then == IF row[c].models = 0 THEN "discover" ELSE "sync"
  <2>1. c \in Creds /\ r \in Rows /\ r.there /\ t \in 0..MaxToken
    BY <1>2, <1>3, <1>5, Zenon
  <2>2. req[a].pc = "new" /\ req' = [req EXCEPT ![a] = Started("oauth", {c}, "save", r, new, then)]
    BY <1>5, Zenon DEF Begin, Started
  <2>3. then \in {"discover", "sync"} /\ r \in {NoRow, row[c]} /\ t = session.token
    BY Zenon
  <2> HIDE DEF r, t, then
  <2>4. new \in Rows /\ new.there /\ new.models = r.models /\ new.token = t
    BY <2>1, TokenRow, Zenon
  <2> HIDE DEF new
  <2> QED
    BY <1>1, <2>1, <2>2, <2>3, <2>4, Finalized, Zenon
<1> QED
  BY <1>4, <1>5, Zenon DEF adminProviderOAuthFinalize

LEMMA OnlyOne ==
    ASSUME NEW a, NEW c, req[a].cred = {c}
    PROVE  Only(a) = c
  BY SMT DEF Only

LEMMA Counted ==
    ASSUME NEW S \in SUBSET Admins, NEW T \in SUBSET Admins, NEW a \in Admins, S \ {a} = T \ {a}
    PROVE  Cardinality(T) + (IF a \in S THEN 1 ELSE 0) = Cardinality(S) + (IF a \in T THEN 1 ELSE 0)
<1>1. IsFiniteSet(S) /\ IsFiniteSet(T)
  BY Constants, FS_Subset, Zenon
<1>2. Cardinality(S) \in Nat /\ Cardinality(T) \in Nat
  BY <1>1, FS_CardinalityType, Zenon
<1>3. /\ Cardinality(S \ {a}) = IF a \in S THEN Cardinality(S) - 1 ELSE Cardinality(S)
      /\ Cardinality(T \ {a}) = IF a \in T THEN Cardinality(T) - 1 ELSE Cardinality(T)
  BY <1>1, FS_RemoveElement, Zenon
<1>4. Cardinality(S \ {a}) = Cardinality(T \ {a})
  BY Zenon
<1> HIDE DEF IsFiniteSet
<1> QED
  BY <1>2, <1>3, <1>4, SMT

\* A request writes the row of its account: what it adds, lends, or gives back
\* balances what becomes of the row.
One(p) == IF p THEN 1 ELSE 0

LEMMA ActivationWrite ==
    ASSUME ActivationInv, NEW a \in Admins, NEW c \in Creds,
           \A b \in Admins \ {a} : req'[b] = req[b], req[a].cred = {c}, req'[a].cred = {c},
           \A d \in Creds \ {c} : row'[d] = row[d],
           ~disturbed' =>
             /\ ~disturbed
             /\ One(Lends(req'[a], c)) + One(Bare(row'[c])) + One(Adds(req[a], c))
                  <= One(Adds(req'[a], c)) + One(Bare(row[c])) + One(Lends(req[a], c))
    PROVE  ActivationInv'
<1> SUFFICES ASSUME ~disturbed', NEW d \in Creds
             PROVE  Activates(d, req', row'[d])
  BY Zenon DEF ActivationInv
<1>1. Activates(d, req, row[d])
  BY Zenon DEF ActivationInv
<1>2. CASE d # c
  <2>1. \A b \in Admins : (Adds(req'[b], d) <=> Adds(req[b], d)) /\ (Lends(req'[b], d) <=> Lends(req[b], d))
    BY <1>2 DEF Adds, Lends
  <2>2. Adders(d, req') = Adders(d, req) /\ Lenders(d, req') = Lenders(d, req)
    BY <2>1, Zenon DEF Adders, Lenders
  <2> QED
    BY <1>1, <1>2, <2>2, Zenon DEF Activates
<1>3. CASE d = c
  <2> DEFINE A == Adders(c, req)
             B == Adders(c, req')
             L == Lenders(c, req)
             M == Lenders(c, req')
             x == One(Bare(row[c]))
             y == One(Bare(row'[c]))
  <2>1. /\ A \in SUBSET Admins /\ B \in SUBSET Admins /\ L \in SUBSET Admins /\ M \in SUBSET Admins
        /\ A \ {a} = B \ {a} /\ L \ {a} = M \ {a}
    BY Zenon DEF Adders, Lenders
  <2>2. /\ (IF a \in A THEN 1 ELSE 0) = One(Adds(req[a], c))
        /\ (IF a \in B THEN 1 ELSE 0) = One(Adds(req'[a], c))
        /\ (IF a \in L THEN 1 ELSE 0) = One(Lends(req[a], c))
        /\ (IF a \in M THEN 1 ELSE 0) = One(Lends(req'[a], c))
    BY Zenon DEF Adders, Lenders, One
  <2>3. /\ Cardinality(A) \in Nat /\ Cardinality(B) \in Nat
        /\ Cardinality(L) \in Nat /\ Cardinality(M) \in Nat
    BY CountedSets, Zenon
  <2>4. Cardinality(L) + x <= Cardinality(A)
    BY <1>1, <1>3, Zenon DEF Activates, One
  <2> HIDE DEF A, B, L, M
  <2>5. Cardinality(B) + One(Adds(req[a], c)) = Cardinality(A) + One(Adds(req'[a], c))
    BY <2>1, <2>2, Counted
  <2>6. Cardinality(M) + One(Lends(req[a], c)) = Cardinality(L) + One(Lends(req'[a], c))
    BY <2>1, <2>2, Counted
  <2> DEFINE i == One(Adds(req[a], c))
             j == One(Adds(req'[a], c))
             k == One(Lends(req[a], c))
             l == One(Lends(req'[a], c))
  <2>7. /\ i \in Nat /\ j \in Nat /\ k \in Nat /\ l \in Nat /\ x \in Nat /\ y \in Nat
        /\ l + y + i <= j + x + k
    BY DEF One
  <2>8. Cardinality(M) + y <= Cardinality(B)
    <3> HIDE DEF i, j, k, l, x, y
    <3>1. /\ Cardinality(B) + i = Cardinality(A) + j /\ Cardinality(M) + k = Cardinality(L) + l
      BY <2>5, <2>6, Zenon DEF i, j, k, l
    <3> QED
      BY <2>3, <2>4, <2>7, <3>1, SMT
  <2> QED
    BY <1>3, <2>8, Zenon DEF Activates, B, M, One
<1> QED
  BY <1>2, <1>3

\* The sums of ActivationWrite for a save, a discovery and a rollback.
LEMMA Balance ==
    ASSUME NEW r, NEW q, NEW c, NEW old, NEW row1,
           r.cred = {c}, q.cred = {c}, r.op \in Accounts, q.op \in Accounts,
           r.prev \in Rows, r.new \in Rows, q.new \in Rows, q.prev = r.prev,
           r.new.there, q.new.there, r.prev.models > 0 => r.new.models > 0,
           \/ ~Holds(r) /\ Holds(q) /\ q.new = r.new /\ old = r.prev /\ row1 = r.new
           \/ Holds(r) /\ Holds(q) /\ q.new.models > 0 /\ old = r.new /\ row1 = q.new
           \/ Holds(r) /\ ~Holds(q) /\ old = r.new /\ row1 = r.prev
    PROVE  One(Lends(q, c)) + One(Bare(row1)) + One(Adds(r, c))
             <= One(Adds(q, c)) + One(Bare(old)) + One(Lends(r, c))
<1>1. /\ Adds(r, c) <=> Holds(r) /\ ~r.prev.there /\ r.new.models = 0
      /\ Adds(q, c) <=> Holds(q) /\ ~r.prev.there /\ q.new.models = 0
      /\ Lends(r, c) <=> Holds(r) /\ Bare(r.prev) /\ r.new.models > 0
      /\ Lends(q, c) <=> Holds(q) /\ Bare(r.prev) /\ q.new.models > 0
  BY Zenon DEF Adds, Lends
<1>2. /\ r.prev.models \in Nat /\ r.new.models \in Nat /\ q.new.models \in Nat
      /\ r.prev.there \in BOOLEAN
  BY RowFacts
<1>3. /\ Bare(r.prev) <=> r.prev.there /\ r.prev.models = 0
      /\ Bare(r.new) <=> r.new.models = 0
      /\ Bare(q.new) <=> q.new.models = 0
  BY Zenon DEF Bare
<1>4. CASE ~Holds(r) /\ Holds(q) /\ q.new = r.new /\ old = r.prev /\ row1 = r.new
  BY <1>1, <1>2, <1>3, <1>4, SMT DEF One
<1>5. CASE Holds(r) /\ Holds(q) /\ q.new.models > 0 /\ old = r.new /\ row1 = q.new
  BY <1>1, <1>2, <1>3, <1>5, SMT DEF One
<1>6. CASE Holds(r) /\ ~Holds(q) /\ old = r.new /\ row1 = r.prev
  BY <1>1, <1>2, <1>3, <1>6, SMT DEF One
<1> QED
  BY <1>4, <1>5, <1>6

\* A finalize stores its document: the token gets its owner.
LEMMA SavedTokens ==
    ASSUME TablesOK, TokensOK, NEW a \in Admins, NEW c \in Creds, Finalizes(req[a]),
           req[a].pc = "save", req[a].cred = {c}, row[c] = req[a].prev, row'[c] = req[a].new,
           \A d \in Creds \ {c} : row'[d] = row[d],
           \A b \in Admins \ {a} : req'[b] = req[b],
           req'[a].op = req[a].op, req'[a].cred = {c}, req'[a].prev = req[a].prev,
           req'[a].new = req[a].new, req'[a].list = req[a].list, req'[a].pc # "save",
           UNCHANGED <<rt, valid, issued, session, refresher>>
    PROVE  TokensOK'
<1>0. PICK t : t = req[a].new.token
  OBVIOUS
<1>1. PICK o \in [1..MaxToken -> SUBSET Creds] : Owns(o) /\ (Captured => o[session.token] = {})
  BY Zenon DEF TokensOK
<1>2. t \in valid /\ o[t] = {} /\ RequestOwns(o, req[a]) /\ Mine(o, c, req[a].prev.token)
  BY <1>0, <1>1, Zenon DEF Owns, RequestOwns
<1>3. valid \subseteq 1..issued /\ issued \in 1..MaxToken
  BY Zenon DEF TablesOK
<1>4. t \in 1..MaxToken /\ t <= issued /\ issued \in Nat
  BY <1>2, <1>3, Constants
<1>5. \A b \in Admins : Finalizes(req'[b]) <=> b = a
  BY DEF TokensOK, Finalizes
<1> DEFINE p == [o EXCEPT ![t] = {c}]
<1>6. /\ p \in [1..MaxToken -> SUBSET Creds] /\ p[t] = {c}
      /\ \A u \in 1..MaxToken : u # t => p[u] = o[u]
      /\ \A d \in Creds, u \in 0..MaxToken : Mine(o, d, u) => Mine(p, d, u)
  BY <1>2, <1>4, NewOwner, Zenon
<1>7. \A d \in Creds : Usable(d, row[d].token) /\ (InFlight(d) => refresher[d].token \in valid)
  BY Zenon DEF TokensOK
<1> HIDE DEF p
<1>8. \A d \in Creds : Usable(d, row[d].token)' /\ (InFlight(d)' => refresher'[d].token \in valid')
  <2> SUFFICES ASSUME NEW d \in Creds
               PROVE  Usable(d, row[d].token)' /\ (InFlight(d)' => refresher'[d].token \in valid')
    OBVIOUS
  <2>1. CASE d # c
    BY <1>7, <2>1, Zenon DEF Usable, InFlight
  <2>2. CASE d = c
    BY <1>0, <1>2, <1>7, <2>2, Zenon DEF Usable, InFlight
  <2> QED
    BY <2>1, <2>2
<1>9. GoesBack(req[a])'
  BY <1>7 DEF TokensOK, GoesBack, InFlight, Usable
<1>10. Captured' => /\ session'.token \in valid' /\ p[session'.token] = {}
                    /\ \A b \in Admins : Finalizes(req'[b]) => req'[b].new.token # session'.token
  <2> SUFFICES ASSUME Captured
               PROVE  /\ session.token \in valid /\ p[session.token] = {}
                      /\ \A b \in Admins : Finalizes(req'[b]) => req'[b].new.token # session.token
    BY Zenon DEF Captured
  <2>1. session.token \in valid /\ t # session.token
    BY <1>0, Zenon DEF TokensOK
  <2>2. session.token \in 1..MaxToken
    <3>1. session.token \in 1..issued
      BY <1>3, <2>1, Zenon
    <3> QED
      BY <1>3, <3>1, Constants, SMT
  <2>3. p[session.token] = {}
    BY <1>1, <1>6, <2>1, <2>2, Zenon
  <2> QED
    BY <1>0, <1>5, <2>1, <2>3, Zenon
<1>11. Owns(p)'
  <2>1. \A u \in 1..MaxToken : u > issued' => p[u] = {}
    BY <1>1, <1>4, <1>6 DEF Owns
  <2>2. \A d \in Creds : /\ Mine(p, d, row'[d].token) /\ Mine(p, d, rt'[d].token)
                         /\ Mine(p, d, refresher'[d].token)
    <3> SUFFICES ASSUME NEW d \in Creds
                 PROVE  /\ Mine(p, d, row'[d].token) /\ Mine(p, d, rt'[d].token)
                        /\ Mine(p, d, refresher'[d].token)
      OBVIOUS
    <3>1. /\ Mine(o, d, row[d].token) /\ Mine(o, d, rt[d].token) /\ Mine(o, d, refresher[d].token)
          /\ row[d].token \in 0..MaxToken /\ rt[d].token \in 0..MaxToken
          /\ refresher[d].token \in 0..MaxToken
      BY <1>1, HookRows, RowFacts, Zenon DEF Owns
    <3>2. /\ Mine(p, d, row[d].token) /\ Mine(p, d, rt[d].token) /\ Mine(p, d, refresher[d].token)
      BY <1>6, <3>1, Zenon
    <3>3. Mine(p, c, t)
      BY <1>6, Zenon DEF Mine
    <3>4. CASE d = c
      BY <1>0, <3>2, <3>3, <3>4, Zenon
    <3>5. CASE d # c
      BY <3>2, <3>5, Zenon
    <3> QED
      BY <3>4, <3>5
  <2>3. \A b \in Admins : \A d \in Creds : Mine(p, d, req'[b].list[d].token)
    <3> SUFFICES ASSUME NEW b \in Admins, NEW d \in Creds
                 PROVE  Mine(p, d, req'[b].list[d].token)
      OBVIOUS
    <3>1. req'[b].list = req[b].list /\ req[b] \in Request
      BY Zenon DEF TablesOK
    <3>2. Mine(o, d, req[b].list[d].token) /\ req[b].list[d].token \in 0..MaxToken
      BY <1>1, <3>1, RequestParts, RowFacts, Zenon DEF Owns, RequestOwns
    <3> QED
      BY <1>6, <3>1, <3>2, Zenon
  <2>4. Mine(p, c, req'[a].prev.token) /\ Mine(p, c, req'[a].new.token)
    <3>1. row[c] \in Rows
      BY Zenon DEF TablesOK
    <3>2. req[a].prev.token \in 0..MaxToken
      BY <3>1, RowFacts, Zenon
    <3>3. Mine(p, c, req[a].prev.token)
      BY <1>2, <1>6, <3>2, Zenon
    <3>4. Mine(p, c, t)
      BY <1>6, Zenon DEF Mine
    <3> QED
      BY <1>0, <3>3, <3>4, Zenon
  <2>5. \A b \in Admins : RequestOwns(p, req[b])'
    <3> SUFFICES ASSUME NEW b \in Admins
                 PROVE  RequestOwns(p, req[b])'
      OBVIOUS
    <3>1. CASE b = a
      BY <2>3, <2>4, <3>1 DEF RequestOwns
    <3>2. CASE b # a
      BY <1>5, <2>3, <3>2 DEF RequestOwns
    <3> QED
      BY <3>1, <3>2
  <2> QED
    BY <2>1, <2>2, <2>5, Zenon DEF Owns
<1>12. \A b \in Admins : Finalizes(req'[b]) => GoesBack(req[b])'
  BY <1>5, <1>9, Zenon
<1> QED
  BY <1>5, <1>6, <1>8, <1>10, <1>11, <1>12, Zenon DEF TokensOK

\* A finalize restores the row it had read.
LEMMA RolledBackTokens ==
    ASSUME TablesOK, TokensOK, NEW a \in Admins, NEW c \in Creds, Finalizes(req[a]),
           req[a].pc # "save", req[a].cred = {c}, Holds(req[a]),
           row[c] = req[a].new, row'[c] = req[a].prev,
           \A d \in Creds \ {c} : row'[d] = row[d],
           \A b \in Admins \ {a} : req'[b] = req[b],
           req'[a].op = req[a].op, req'[a].cred = {c}, req'[a].prev = req[a].prev,
           req'[a].new = req[a].new, req'[a].list = req[a].list, req'[a].pc # "save",
           ~Holds(req'[a]),
           UNCHANGED <<rt, valid, issued, session, refresher>>
    PROVE  TokensOK'
<1>1. PICK o \in [1..MaxToken -> SUBSET Creds] : Owns(o) /\ (Captured => o[session.token] = {})
  BY Zenon DEF TokensOK
<1>2. GoesBack(req[a]) /\ RequestOwns(o, req[a])
  BY <1>1, Zenon DEF TokensOK, Owns
<1>3. Usable(c, req[a].prev.token) /\ Mine(o, c, req[a].prev.token) /\ Mine(o, c, req[a].new.token)
  BY <1>2, Zenon DEF GoesBack, RequestOwns
<1>4. \A b \in Admins : Finalizes(req'[b]) <=> b = a
  BY DEF TokensOK, Finalizes
<1>5. \A d \in Creds : Usable(d, row[d].token)' /\ (InFlight(d)' => refresher'[d].token \in valid')
  <2> SUFFICES ASSUME NEW d \in Creds
               PROVE  Usable(d, row[d].token)' /\ (InFlight(d)' => refresher'[d].token \in valid')
    OBVIOUS
  <2>1. Usable(d, row[d].token) /\ (InFlight(d) => refresher[d].token \in valid)
    BY Zenon DEF TokensOK
  <2>2. CASE d # c
    BY <2>1, <2>2, Zenon DEF Usable, InFlight
  <2>3. CASE d = c
    BY <1>3, <2>1, <2>3, Zenon DEF Usable, InFlight
  <2> QED
    BY <2>2, <2>3
<1>6. GoesBack(req[a])'
  BY <1>2, Zenon DEF GoesBack, InFlight
<1>7. Captured' => /\ session'.token \in valid' /\ o[session'.token] = {}
                   /\ \A b \in Admins : Finalizes(req'[b]) => req'[b].new.token # session'.token
  <2> SUFFICES ASSUME Captured
               PROVE  /\ session.token \in valid /\ o[session.token] = {}
                      /\ \A b \in Admins : Finalizes(req'[b]) => req'[b].new.token # session.token
    BY Zenon DEF Captured
  <2>1. session.token \in valid /\ req[a].new.token # session.token
    BY Zenon DEF TokensOK
  <2> QED
    BY <1>1, <1>4, <2>1, Zenon
<1>8. Owns(o)'
  <2>1. \A d \in Creds : Mine(o, d, row'[d].token)
    BY <1>1, <1>3, Zenon DEF Owns
  <2>2. \A b \in Admins : RequestOwns(o, req[b])'
    <3> SUFFICES ASSUME NEW b \in Admins
                 PROVE  RequestOwns(o, req[b])'
      OBVIOUS
    <3>1. \A d \in Creds : Mine(o, d, req'[b].list[d].token)
      BY <1>1, Zenon DEF Owns, RequestOwns
    <3>2. CASE b = a
      BY <1>3, <3>1, <3>2, Zenon DEF RequestOwns
    <3>3. CASE b # a
      BY <1>4, <3>1, <3>3, Zenon DEF RequestOwns
    <3> QED
      BY <3>2, <3>3
  <2> QED
    BY <1>1, <2>1, <2>2, Zenon DEF Owns
<1> QED
  BY <1>1, <1>4, <1>5, <1>6, <1>7, <1>8, Zenon DEF TokensOK

\* A save, a discovery and a rollback: the row of the account is written over
\* the row the request knew, and a reload follows.
Writes(a, c, old, new, q) ==
    /\ row' = [row EXCEPT ![c] = new] /\ disturbed' = (disturbed \/ row[c] # old)
    /\ req' = [req EXCEPT ![a] = q]
    /\ UNCHANGED <<rt, valid, issued, catalog, parents, session, refresher, repeated, diverged>>

LEMMA Written ==
    ASSUME CredentialsInv, NEW a \in Admins, NEW c \in Creds, NEW old, NEW new \in Rows, NEW q,
           Writes(a, c, old, new, q),
           RequestOK(q), Stale(q), q.cred = {c}, q.op = req[a].op, q.prev = req[a].prev,
           q.new.there, req[a].cred = {c}, Works(req[a]),
           unsynced' \in BOOLEAN,
           ~unsynced' => ~unsynced /\ (Syncs(q) \/ \A d \in Creds : Shows(parents[d], row'[d])),
           \/ ~Holds(req[a]) /\ Holds(q) /\ q.new = req[a].new /\ old = req[a].prev /\ new = req[a].new
           \/ Holds(req[a]) /\ Holds(q) /\ q.new.models > 0 /\ old = req[a].new /\ new = q.new
           \/ Holds(req[a]) /\ ~Holds(q) /\ old = req[a].new /\ new = req[a].prev
    PROVE  /\ TablesOK' /\ ServedInv' /\ ParentsInv' /\ ActivationInv'
           /\ row'[c] = new /\ \A d \in Creds \ {c} : row'[d] = row[d]
           /\ req'[a] = q /\ \A b \in Admins \ {a} : req'[b] = req[b]
<1>1. /\ row' = [row EXCEPT ![c] = new] /\ disturbed' = (disturbed \/ row[c] # old)
      /\ req' = [req EXCEPT ![a] = q]
      /\ UNCHANGED <<rt, valid, issued, catalog, parents, session, refresher, repeated, diverged>>
  BY Zenon DEF Writes
<1>2. TablesOK /\ ServedInv /\ ParentsInv /\ ActivationInv
  BY Zenon DEF CredentialsInv
<1>3. /\ req' \in [Admins -> Request] /\ \A b \in Admins : RequestOK(req'[b])
      /\ req'[a] = q /\ \A b \in Admins \ {a} : req'[b] = req[b]
  BY <1>1, <1>2, Turned, Zenon
<1>4. row \in [Creds -> Rows] /\ disturbed \in BOOLEAN
  BY <1>2, Zenon DEF TablesOK
<1>5. row' \in [Creds -> Rows] /\ row'[c] = new /\ \A d \in Creds \ {c} : row'[d] = row[d]
  BY <1>1, <1>4, Zenon
<1>6. disturbed' \in BOOLEAN
  BY <1>1, <1>4, Zenon
<1>7. TablesOK'
  BY <1>1, <1>2, <1>3, <1>5, <1>6, Zenon DEF TablesOK, SessionOK
<1>8. ServedInv'
  BY <1>3, Zenon DEF ServedInv
<1>9. ParentsInv'
  BY <1>1, <1>3, Zenon DEF ParentsInv
<1>10. /\ req[a].op \in Accounts /\ req[a].prev \in Rows /\ req[a].new \in Rows /\ q.new \in Rows
       /\ req[a].new.there /\ (req[a].prev.models > 0 => req[a].new.models > 0)
  BY <1>2, RequestParts DEF TablesOK, RequestOK, Works, WorkOK
<1>11. One(Lends(q, c)) + One(Bare(new)) + One(Adds(req[a], c))
         <= One(Adds(q, c)) + One(Bare(old)) + One(Lends(req[a], c))
  <2> DEFINE r == req[a]
  <2>1. /\ r.cred = {c} /\ q.cred = {c} /\ r.op \in Accounts /\ q.op \in Accounts
        /\ r.prev \in Rows /\ r.new \in Rows /\ q.new \in Rows /\ q.prev = r.prev
        /\ r.new.there /\ q.new.there /\ (r.prev.models > 0 => r.new.models > 0)
        /\ \/ ~Holds(r) /\ Holds(q) /\ q.new = r.new /\ old = r.prev /\ new = r.new
           \/ Holds(r) /\ Holds(q) /\ q.new.models > 0 /\ old = r.new /\ new = q.new
           \/ Holds(r) /\ ~Holds(q) /\ old = r.new /\ new = r.prev
    BY <1>10, Zenon
  <2> HIDE DEF r
  <2>2. One(Lends(q, c)) + One(Bare(new)) + One(Adds(r, c))
          <= One(Adds(q, c)) + One(Bare(old)) + One(Lends(r, c))
    BY <2>1, Balance, Zenon
  <2> QED
    BY <2>2, Zenon DEF r
<1>12. ActivationInv'
  BY <1>1, <1>2, <1>3, <1>5, <1>11, ActivationWrite
<1> QED
  BY <1>3, <1>5, <1>7, <1>8, <1>9, <1>12, Zenon

\* The document stays as it is, or goes with the row.
LEMMA WrittenTokens ==
    ASSUME CredentialsInv, TablesOK', NEW a \in Admins, NEW c \in Creds, NEW old, NEW new, NEW q,
           Writes(a, c, old, new, q), Carries(req[a], q), q.list = req[a].list,
           new.token \in {0, old.token},
           row'[c] = new, \A d \in Creds \ {c} : row'[d] = row[d],
           req'[a] = q, \A b \in Admins \ {a} : req'[b] = req[b]
    PROVE  TokenInv'
<1>1. /\ disturbed' = (disturbed \/ row[c] # old)
      /\ UNCHANGED <<rt, valid, issued, session, refresher, repeated>>
  BY Zenon DEF Writes
<1>2. TablesOK /\ TokenInv
  BY Zenon DEF CredentialsInv
<1>3. \A b \in Admins : /\ req'[b] = req[b] \/ Carries(req[b], req'[b])
                        /\ \A d \in Creds : Known(d, req'[b].list[d].token)
  BY DEF Known
<1>4. \A d \in Creds : Known(d, rt'[d].token)
  BY <1>1, Zenon DEF Known
<1>5. ~disturbed' => ~disturbed /\ \A d \in Creds : row'[d].token \in {0, row[d].token}
  BY <1>1, Zenon
<1> QED
  BY <1>1, <1>2, <1>3, <1>4, <1>5, TokensStep, Zenon

LEMMA SaveStep ==
    ASSUME CredentialsInv, NEW a \in Admins, Save(a)
    PROVE  CredentialsInv'
<1> DEFINE r == req[a]
           q == At(r, "list")
<1>1. TablesOK /\ TokenInv
  BY Zenon DEF CredentialsInv
<1>2. RequestOK(r) /\ r \in Request /\ unsynced \in BOOLEAN
  BY <1>1, Zenon DEF TablesOK, RequestOK
<1>3. r.pc = "save" /\ unsynced' = unsynced
  BY Zenon DEF Save
<1>4. /\ r.op \in Accounts /\ r.then # "end" /\ Works(r) /\ ~Holds(r)
      /\ r.op \notin {"none", "catalog"}
  <2> HIDE DEF r
  <2>1. r.pc \in {"save", "discover", "validate", "undo"}
        /\ r.pc \notin {"list", "replace", "get", "put", "discover", "validate", "undo"}
    BY <1>3, SMT
  <2>2. r.op \in Accounts /\ r.then # "end"
    BY <1>2, <2>1, Zenon DEF RequestOK
  <2>3. r.op \notin {"none", "catalog"}
    BY <2>2, SMT DEF Accounts
  <2> QED
    BY <1>3, <2>1, <2>2, <2>3, Zenon DEF Works, Holds
<1>5. WorkOK(r)
  BY <1>2, <1>4, Zenon DEF RequestOK
<1>6. PICK c \in Creds : r.cred = {c}
  BY <1>2, <1>4, Zenon DEF RequestOK
<1>7. Only(a) = c
  BY <1>6, OnlyOne, Zenon
<1>8. Writes(a, c, r.prev, r.new, q)
  BY <1>7, Zenon DEF Save, UpsertUpstreamCredential, Go, Writes
<1>9. /\ q \in Request /\ q.op = r.op /\ q.cred = r.cred /\ q.pc = "list" /\ q.prev = r.prev
      /\ q.new = r.new /\ q.list = r.list /\ q.then = r.then
  <2>1. "list" \in Steps /\ "list" \notin {"sync", "expand", "end"}
    BY Words, SMT
  <2> QED
    BY <1>2, <2>1, AtRequest, Zenon
<1> HIDE DEF q
<1>10. RequestOK(q) /\ Stale(q) /\ Holds(q) /\ Syncs(q) /\ q.pc # "save"
  <2> HIDE DEF r
  <2>1. /\ q.pc \notin {"new", "done"} /\ q.pc \notin {"save", "discover", "validate", "undo"}
        /\ q.pc \notin {"discover", "validate"} /\ q.pc \notin {"get", "put"} /\ q.pc # "put"
        /\ q.pc # "save" /\ q.pc # "new" /\ q.pc # "done"
        /\ q.pc \in {"list", "replace", "undo", "discover"}
        /\ q.pc \in {"list", "replace", "get", "put", "discover", "validate", "undo"}
    BY <1>9, SMT
  <2>2. r.op # "none" /\ r.op \in Accounts
    BY <1>4, Zenon
  <2>3. WorkOK(q)
    BY <1>5, <1>9, Zenon DEF WorkOK
  <2>4. Holds(q) /\ Stale(q)
    BY <1>4, <1>9, <2>1, Zenon DEF Holds, Stale
  <2>5. r.op \notin {"none", "catalog"} => \E d \in Creds : q.cred = {d}
    BY <1>6, <1>9, Zenon
  <2>6. q.op \notin {"none", "catalog"} /\ q.op \in Accounts /\ q.op # "none"
    BY <1>4, <1>9, <2>2, Zenon
  <2> QED
    BY <1>9, <2>1, <2>3, <2>4, <2>5, <2>6, Zenon DEF RequestOK, Syncs
<1>11. r.prev \in Rows /\ r.new \in Rows /\ r.new.there
  BY <1>2, <1>5, RequestParts, Zenon DEF WorkOK
<1>12. /\ TablesOK' /\ ServedInv' /\ ParentsInv' /\ ActivationInv'
       /\ row'[c] = r.new /\ \A d \in Creds \ {c} : row'[d] = row[d]
       /\ req'[a] = q /\ \A b \in Admins \ {a} : req'[b] = req[b]
  <2> DEFINE old == r.prev
             new == r.new
  <2>1. Writes(a, c, old, new, q) /\ new \in Rows /\ unsynced' \in BOOLEAN /\ q.new = new
        /\ q.new.there /\ old = r.prev /\ new = r.new
    BY <1>2, <1>3, <1>8, <1>9, <1>11, Zenon
  <2> HIDE DEF old, new
  <2>2. /\ TablesOK' /\ ServedInv' /\ ParentsInv' /\ ActivationInv'
        /\ row'[c] = new /\ \A d \in Creds \ {c} : row'[d] = row[d]
        /\ req'[a] = q /\ \A b \in Admins \ {a} : req'[b] = req[b]
    BY <1>3, <1>4, <1>6, <1>9, <1>10, <2>1, Written, Zenon
  <2> QED
    BY <2>1, <2>2, Zenon
<1>13. TokenInv'
  <2>1. CASE Finalizes(r)
    <3> SUFFICES ASSUME ~disturbed', ~repeated'
                 PROVE  TokensOK'
      BY Zenon DEF TokenInv
    <3>1. /\ ~disturbed /\ ~repeated /\ row[c] = r.prev
          /\ UNCHANGED <<rt, valid, issued, session, refresher>>
      BY <1>8, Zenon DEF Writes
    <3>2. TokensOK
      BY <1>1, <3>1, Zenon DEF TokenInv
    <3>3. /\ req'[a].op = req[a].op /\ req'[a].cred = {c} /\ req'[a].prev = req[a].prev
          /\ req'[a].new = req[a].new /\ req'[a].list = req[a].list /\ req'[a].pc # "save"
      BY <1>6, <1>9, <1>10, <1>12, Zenon
    <3> QED
      BY <1>1, <1>3, <1>6, <1>12, <2>1, <3>1, <3>2, <3>3, SavedTokens, Zenon
  <2>2. CASE ~Finalizes(r)
    <3>1. Carries(r, q)
      BY <1>9, <2>2, Zenon DEF Carries, Finalizes
    <3>2. r.new.token \in {0, r.prev.token}
      BY <1>4, <1>5, <2>2 DEF Accounts, Finalizes, WorkOK
    <3> DEFINE old == r.prev
               new == r.new
    <3>3. Writes(a, c, old, new, q) /\ new.token \in {0, old.token} /\ row'[c] = new
      BY <1>8, <1>12, <3>2, Zenon
    <3> HIDE DEF old, new
    <3> QED
      BY <1>9, <1>12, <3>1, <3>3, WrittenTokens, Zenon
  <2> QED
    BY <2>1, <2>2
<1> QED
  BY <1>12, <1>13, Zenon DEF CredentialsInv

\* The requests that write over what they wrote.
LEMMA Rewrites ==
    ASSUME NEW r, RequestOK(r), r.pc \in {"discover", "undo"}
    PROVE  /\ r \in Request /\ r.op \in Accounts /\ Holds(r) /\ Works(r) /\ WorkOK(r)
           /\ r.op \notin {"none", "catalog"} /\ r.op # "none" /\ r.pc # "save"
           /\ r.prev \in Rows /\ r.new \in Rows /\ r.new.there
           /\ \E c \in Creds : r.cred = {c}
BY RequestParts DEF RequestOK, Holds, Works, Accounts, WorkOK

\* Such a request, on its way to reload.
LEMMA Reloads ==
    ASSUME NEW r, RequestOK(r), r.pc \in {"discover", "undo"}, NEW new \in Rows, new.there,
           NEW then \in {"sync", "end"},
           then = "sync" => new.models > 0 /\ new.token = r.new.token,
           NEW q \in Request, q.op = r.op, q.cred = r.cred, q.pc = "list", q.prev = r.prev,
           q.new = new, q.then = then
    PROVE  /\ RequestOK(q) /\ Stale(q) /\ q.pc # "save"
           /\ then = "sync" => Holds(q) /\ Syncs(q)
           /\ then = "end" => ~Holds(q)
<1>1. /\ r \in Request /\ r.op \in Accounts /\ Holds(r) /\ WorkOK(r)
      /\ r.op \notin {"none", "catalog"} /\ r.op # "none" /\ \E c \in Creds : r.cred = {c}
  BY Rewrites, Zenon
<1>2. /\ q.pc \notin {"new", "done"} /\ q.pc \notin {"save", "discover", "validate", "undo"}
      /\ q.pc \notin {"discover", "validate"} /\ q.pc \notin {"get", "put"} /\ q.pc # "put"
      /\ q.pc # "save" /\ q.pc # "new" /\ q.pc # "done"
      /\ q.pc \in {"list", "replace", "undo", "discover"}
      /\ q.pc \in {"list", "replace", "get", "put", "discover", "validate", "undo"}
      /\ (then = "sync" => q.then # "end") /\ q.then \notin {"discover", "validate"}
  BY SMT
<1>3. Works(q) => WorkOK(q)
  <2> SUFFICES ASSUME Works(q)
               PROVE  WorkOK(q)
    OBVIOUS
  <2>1. then = "sync"
    BY <1>2, Zenon DEF Works, Holds
  <2>2. new.models > 0 /\ new.token = r.new.token
    BY <2>1, Zenon
  <2>3. new.models # 0
    BY <2>2, RowFacts
  <2> QED
    BY <1>1, <2>2, <2>3, Zenon DEF WorkOK
<1>4. Stale(q) /\ (then = "sync" => Holds(q) /\ Syncs(q)) /\ (then = "end" => ~Holds(q))
  BY <1>2, Zenon DEF Stale, Holds, Syncs
<1>5. /\ q.op \in Accounts /\ q.op \notin {"none", "catalog"} /\ q.op # "none"
      /\ \E c \in Creds : q.cred = {c}
  BY <1>1, Zenon
<1>6. RequestOK(q)
  BY <1>2, <1>3, <1>5, Zenon DEF RequestOK
<1> QED
  BY <1>2, <1>4, <1>6, Zenon

LEMMA DiscoverStep ==
    ASSUME CredentialsInv, NEW a \in Admins, Discover(a)
    PROVE  CredentialsInv'
<1> DEFINE r == req[a]
           found == [r.new EXCEPT !.models = catalog]
           q == [r EXCEPT !.pc = "list", !.then = "sync", !.new = found]
<1>1. TablesOK
  BY Zenon DEF CredentialsInv
<1>2. RequestOK(r) /\ unsynced \in BOOLEAN /\ catalog \in 1..MaxCatalog
  BY <1>1, Zenon DEF TablesOK
<1>3. r.pc = "discover" /\ unsynced' = unsynced /\ r.pc \in {"discover", "undo"}
  BY Zenon DEF Discover
<1>4. /\ r.op \in Accounts /\ Holds(r) /\ Works(r) /\ WorkOK(r) /\ r.pc # "save"
      /\ r.prev \in Rows /\ r.new \in Rows /\ r.new.there
  BY <1>2, <1>3, Rewrites, Zenon
<1>5. PICK c \in Creds : r.cred = {c}
  BY <1>2, <1>3, Rewrites, Zenon
<1>6. Writes(a, c, r.new, found, q)
  BY <1>5, OnlyOne DEF Discover, UpsertUpstreamCredential, Writes
<1>7. found \in Rows /\ found.there /\ found.models > 0 /\ found.token = r.new.token
  <2> DEFINE n == r.new
             m == catalog
  <2>1. n \in Rows /\ n.there /\ m \in 0..MaxCatalog /\ m > 0
    BY <1>2, <1>4, Constants
  <2> HIDE DEF n, m
  <2>2. LET k == [n EXCEPT !.models = m]
        IN k \in Rows /\ k.there /\ k.models = m /\ k.token = n.token
    BY <2>1, ModelsRow, Zenon
  <2> QED
    BY <2>1, <2>2, Zenon DEF n, m
<1> HIDE DEF r, found
<1>8. /\ RequestOK(q) /\ Stale(q) /\ q.op = r.op /\ q.cred = r.cred /\ q.prev = r.prev
      /\ q.new = found /\ q.list = r.list /\ q.pc # "save" /\ Holds(q) /\ Syncs(q)
  <2>1. "list" \in Steps /\ "sync" \in Thens /\ r \in Request
    BY <1>2, Words, Zenon DEF RequestOK
  <2>2. /\ q \in Request /\ q.op = r.op /\ q.cred = r.cred /\ q.pc = "list" /\ q.prev = r.prev
        /\ q.new = found /\ q.list = r.list /\ q.then = "sync"
    BY <1>7, <2>1, Zenon DEF Request
  <2> DEFINE then == "sync"
  <2>3. then \in {"sync", "end"} /\ then = "sync" /\ q.then = then
    BY <2>2, Zenon
  <2> HIDE DEF then, q
  <2>4. RequestOK(q) /\ Stale(q) /\ q.pc # "save" /\ Holds(q) /\ Syncs(q)
    BY <1>2, <1>3, <1>7, <2>2, <2>3, Reloads, Zenon
  <2> QED
    BY <2>2, <2>4, Zenon
<1> HIDE DEF q
<1>9. /\ TablesOK' /\ ServedInv' /\ ParentsInv' /\ ActivationInv'
      /\ row'[c] = found /\ \A d \in Creds \ {c} : row'[d] = row[d]
      /\ req'[a] = q /\ \A b \in Admins \ {a} : req'[b] = req[b]
  <2> DEFINE old == r.new
  <2>1. Writes(a, c, old, found, q) /\ unsynced' \in BOOLEAN /\ q.new.there /\ old = r.new
        /\ q.new.models > 0 /\ q.cred = {c}
    BY <1>2, <1>3, <1>5, <1>6, <1>7, <1>8, Zenon
  <2> HIDE DEF old
  <2>2. /\ Holds(req[a]) /\ Holds(q) /\ q.new.models > 0 /\ old = req[a].new /\ found = q.new
        /\ Works(req[a]) /\ req[a].cred = {c} /\ q.op = req[a].op /\ q.prev = req[a].prev
    BY <1>4, <1>5, <1>8, <2>1, Zenon DEF r
  <2> QED
    BY <1>3, <1>7, <1>8, <2>1, <2>2, Written, Zenon
<1>10. TokenInv'
  <2> DEFINE old == r.new
  <2>1. Carries(r, q)
    BY <1>4, <1>7, <1>8, Zenon DEF Carries, Finalizes
  <2>2. Writes(a, c, old, found, q) /\ found.token \in {0, old.token}
    BY <1>6, <1>7, Zenon
  <2> HIDE DEF old
  <2> QED
    BY <1>8, <1>9, <2>1, <2>2, WrittenTokens, Zenon DEF r
<1> QED
  BY <1>9, <1>10, Zenon DEF CredentialsInv

LEMMA RollbackStep ==
    ASSUME CredentialsInv, NEW a \in Admins, Rollback(a)
    PROVE  CredentialsInv'
<1> DEFINE r == req[a]
           q == [r EXCEPT !.pc = "list", !.then = "end"]
<1>1. TablesOK /\ TokenInv
  BY Zenon DEF CredentialsInv
<1>2. RequestOK(r) /\ unsynced \in BOOLEAN /\ row \in [Creds -> Rows]
  BY <1>1, Zenon DEF TablesOK
<1>3. /\ r.pc = "undo" /\ r.pc \in {"discover", "undo"}
      /\ unsynced' = (unsynced \/ Synced(row') # parents)
  BY Zenon DEF Rollback
<1>4. /\ r.op \in Accounts /\ Holds(r) /\ Works(r) /\ WorkOK(r) /\ r.pc # "save"
      /\ r.prev \in Rows /\ r.new \in Rows /\ r.new.there /\ r \in Request
  BY <1>2, <1>3, Rewrites, Zenon
<1>5. PICK c \in Creds : r.cred = {c}
  BY <1>2, <1>3, Rewrites, Zenon
<1>6. Writes(a, c, r.new, r.prev, q)
  <2>1. Only(a) = c
    BY <1>5, OnlyOne, Zenon
  <2>2. ~r.prev.there => r.prev = NoRow
    BY <1>4, RowFacts, Zenon
  <2>3. row' = [row EXCEPT ![c] = r.prev] /\ disturbed' = (disturbed \/ row[c] # r.new)
    BY <2>1, <2>2 DEF Rollback, UpsertUpstreamCredential, RemoveRow
  <2>4. req' = [req EXCEPT ![a] = q]
    BY Zenon DEF Rollback, Reload
  <2> QED
    BY <2>3, <2>4, Zenon DEF Rollback, Writes
<1> HIDE DEF r, q
<1>7. /\ RequestOK(q) /\ Stale(q) /\ q.op = r.op /\ q.cred = r.cred /\ q.prev = r.prev
      /\ q.new = r.new /\ q.list = r.list /\ q.pc # "save" /\ ~Holds(q)
  <2>1. "list" \in Steps /\ "end" \in Thens
    BY Words, Zenon
  <2>2. /\ q \in Request /\ q.op = r.op /\ q.cred = r.cred /\ q.pc = "list" /\ q.prev = r.prev
        /\ q.new = r.new /\ q.list = r.list /\ q.then = "end"
    BY <1>4, <2>1, Zenon DEF Request, q
  <2> DEFINE then == "end"
             new == r.new
  <2>3. /\ then \in {"sync", "end"} /\ then = "end" /\ q.then = then
        /\ new \in Rows /\ new.there /\ q.new = new
    BY <1>4, <2>2, Zenon
  <2>4. then # "sync"
    BY SMT
  <2> HIDE DEF then, new
  <2>5. RequestOK(q) /\ Stale(q) /\ q.pc # "save" /\ ~Holds(q)
    BY <1>2, <1>3, <2>2, <2>3, <2>4, Reloads, Zenon
  <2> QED
    BY <2>2, <2>5, Zenon
<1>8. ~unsynced' => ~unsynced /\ \A d \in Creds : Shows(parents[d], row'[d])
  <2>1. row' \in [Creds -> Rows]
    BY <1>2, <1>4, <1>6 DEF Writes
  <2>2. \A d \in Creds : Shows(Synced(row')[d], row'[d])
    BY <1>1, <2>1, SyncedFacts, Zenon
  <2>3. ~unsynced' => ~unsynced /\ Synced(row') = parents
    BY <1>3, Zenon
  <2> QED
    BY <2>2, <2>3, Zenon
<1>9. /\ TablesOK' /\ ServedInv' /\ ParentsInv' /\ ActivationInv'
      /\ row'[c] = r.prev /\ \A d \in Creds \ {c} : row'[d] = row[d]
      /\ req'[a] = q /\ \A b \in Admins \ {a} : req'[b] = req[b]
  <2> DEFINE old == r.new
             new == r.prev
  <2>1. Writes(a, c, old, new, q) /\ unsynced' \in BOOLEAN /\ q.new.there /\ old = r.new
        /\ new = r.prev /\ new \in Rows /\ q.cred = {c}
    BY <1>2, <1>3, <1>4, <1>5, <1>6, <1>7, Zenon
  <2> HIDE DEF old, new
  <2>2. /\ Holds(req[a]) /\ ~Holds(q) /\ old = req[a].new /\ new = req[a].prev
        /\ Works(req[a]) /\ req[a].cred = {c} /\ q.op = req[a].op /\ q.prev = req[a].prev
    BY <1>4, <1>5, <1>7, <2>1, Zenon DEF r
  <2>3. /\ TablesOK' /\ ServedInv' /\ ParentsInv' /\ ActivationInv'
        /\ row'[c] = new /\ \A d \in Creds \ {c} : row'[d] = row[d]
        /\ req'[a] = q /\ \A b \in Admins \ {a} : req'[b] = req[b]
    BY <1>7, <1>8, <2>1, <2>2, Written, Zenon
  <2> QED
    BY <2>1, <2>3, Zenon
<1>10. TokenInv'
  <2>0. r = req[a]
    BY Zenon DEF r
  <2>1. CASE Finalizes(r)
    <3> SUFFICES ASSUME ~disturbed', ~repeated'
                 PROVE  TokensOK'
      BY Zenon DEF TokenInv
    <3>1. /\ ~disturbed /\ ~repeated /\ row[c] = r.new
          /\ UNCHANGED <<rt, valid, issued, session, refresher>>
      BY <1>6, Zenon DEF Writes
    <3>2. TokensOK
      BY <1>1, <3>1, Zenon DEF TokenInv
    <3>3. /\ req'[a].op = req[a].op /\ req'[a].cred = {c} /\ req'[a].prev = req[a].prev
          /\ req'[a].new = req[a].new /\ req'[a].list = req[a].list /\ req'[a].pc # "save"
          /\ ~Holds(req'[a])
      BY <1>5, <1>7, <1>9, <2>0, Zenon
    <3>4. /\ Finalizes(req[a]) /\ req[a].pc # "save" /\ req[a].cred = {c} /\ Holds(req[a])
          /\ row[c] = req[a].new /\ row'[c] = req[a].prev
      BY <1>4, <1>5, <1>9, <2>0, <2>1, <3>1, Zenon
    <3> QED
      BY <1>1, <1>9, <3>1, <3>2, <3>3, <3>4, RolledBackTokens, Zenon
  <2>2. CASE ~Finalizes(r)
    <3>1. Carries(r, q)
      BY <1>7, <2>2, Zenon DEF Carries, Finalizes
    <3>2. r.prev.token \in {0, r.new.token}
      BY <1>4, <2>2, RowFacts DEF Accounts, Finalizes, WorkOK
    <3> DEFINE old == r.new
               new == r.prev
    <3>3. Writes(a, c, old, new, q) /\ new.token \in {0, old.token} /\ row'[c] = new
      BY <1>6, <1>9, <3>2, Zenon
    <3> HIDE DEF old, new
    <3>4. Carries(req[a], q) /\ q.list = req[a].list
      BY <1>7, <2>0, <3>1, Zenon
    <3> QED
      BY <1>9, <3>3, <3>4, WrittenTokens, Zenon
  <2> QED
    BY <2>1, <2>2
<1> QED
  BY <1>9, <1>10, Zenon DEF CredentialsInv

-----------------------------------------------------------------------------
(* The initial states *)

LEMMA OneStored ==
    ASSUME NEW c \in Stored
    PROVE  Stored = {c}
<1>1. IsFiniteSet(Stored) /\ Cardinality(Stored) <= 1
  BY CredentialsAssumption, FS_Subset, Zenon
<1>2. Cardinality(Stored) \in Nat /\ Cardinality(Stored \ {c}) = Cardinality(Stored) - 1
      /\ IsFiniteSet(Stored \ {c}) /\ Cardinality(Stored \ {c}) \in Nat
  BY <1>1, FS_RemoveElement, FS_CardinalityType, Zenon
<1>3. Cardinality(Stored \ {c}) = 0
  BY <1>1, <1>2, SMT
<1>4. Stored \ {c} = {}
  BY <1>2, <1>3, FS_EmptySet, Zenon
<1> QED
  BY <1>4, Zenon

LEMMA InitLemma ==
    ASSUME CredentialsInit
    PROVE  CredentialsInv
<1> DEFINE first == [there |-> TRUE, enabled |-> TRUE, models |-> 1, token |-> 1]
<1>1. /\ row = [c \in Creds |-> IF c \in Stored THEN first ELSE NoRow] /\ rt = row
      /\ valid = {1} /\ issued = 1 /\ catalog = 1
      /\ parents = [c \in Creds |-> IF row[c].there THEN "available" ELSE "none"]
      /\ session = NoSession /\ req = [a \in Admins |-> NoReq]
      /\ refresher = [c \in Creds |-> NoHook]
      /\ disturbed = FALSE /\ repeated = FALSE /\ diverged = FALSE /\ unsynced = FALSE
  BY Zenon DEF CredentialsInit, NoHook
<1>2. /\ 1 \in 0..MaxCatalog /\ 1 \in 0..MaxToken /\ 1 \in 1..MaxCatalog /\ 1 \in 1..MaxToken
      /\ 1 \in 1..1 /\ 1 > 0 /\ ~(1 > 1) /\ 1 # 0
  BY Constants, SMT
<1>3. first \in Rows /\ first.there /\ first.enabled = TRUE /\ first.models = 1 /\ first.token = 1
  <2> DEFINE k == 1
             e == TRUE
  <2>1. k \in 0..MaxCatalog /\ k \in 0..MaxToken /\ e \in BOOLEAN /\ k = 1 /\ e = TRUE
    BY <1>2, Zenon
  <2> HIDE DEF k, e
  <2>2. LET n == [there |-> TRUE, enabled |-> e, models |-> k, token |-> k]
        IN n \in Rows /\ n.there /\ n.enabled = e /\ n.models = k /\ n.token = k
    BY <2>1, BuiltRow, Zenon
  <2> QED
    BY <2>1, <2>2, Zenon
<1> HIDE DEF first
<1>4. /\ row \in [Creds -> Rows] /\ rt \in [Creds -> Rows]
      /\ \A c \in Creds : /\ row[c] = (IF c \in Stored THEN first ELSE NoRow) /\ rt[c] = row[c]
                          /\ refresher[c] = NoHook
                          /\ parents[c] = IF row[c].there THEN "available" ELSE "none"
      /\ \A a \in Admins : req[a] = NoReq
  BY <1>1, <1>3, RowFacts, Zenon
<1>5. TablesOK
  <2>1. SessionOK
    BY <1>1, BlankSession DEF SessionOK
  <2>2. req \in [Admins -> Request] /\ \A a \in Admins : RequestOK(req[a])
    BY <1>1, <1>4, BlankRequest, IdleRequests, Zenon
  <2>3. refresher \in [Creds -> Refresher] /\ \A c \in Creds : RefresherOK(refresher[c])
    BY <1>1, <1>4, IdleHook, Zenon
  <2>4. parents \in [Creds -> {"none", "available", "disabled", "missing"}]
    BY <1>1, Zenon
  <2>5. issued \in 1..MaxToken /\ valid \subseteq 1..issued /\ catalog \in 1..MaxCatalog
    BY <1>1, <1>2, Zenon
  <2>6. {disturbed, repeated, diverged, unsynced} \subseteq BOOLEAN
    BY <1>1, Zenon
  <2> QED
    BY <1>4, <2>1, <2>2, <2>3, <2>4, <2>5, <2>6, Zenon DEF TablesOK
<1>6. ServedInv
  <2> SUFFICES ASSUME NEW c \in Creds
               PROVE  Serves(c, rt[c], row[c], refresher[c], catalog)
    BY Zenon DEF ServedInv
  <2> DEFINE s == row[c]
             v == catalog
             i == Installed(c, s, v)
  <2>1. v \in 1..MaxCatalog /\ v = 1 /\ s \in Rows
    BY <1>1, <1>2, <1>4, Zenon
  <2>2. i = s
    <3>1. CASE c \in Stored
      <4>1. s = first
        BY <1>4, <3>1, Zenon
      <4>2. s.there /\ s.enabled = TRUE /\ s.models = 1 /\ s.token = 1
        BY <1>3, <4>1, Zenon
      <4> HIDE DEF s, v
      <4>3. /\ i \in Rows /\ i.there /\ i.enabled /\ i.token = s.token
            /\ i.models = IF c \in Compatible \/ s.models > v THEN s.models ELSE v
        BY <2>1, <4>2, InstalledFacts, Zenon
      <4> HIDE DEF i
      <4>4. i.there \in BOOLEAN /\ i.enabled \in BOOLEAN /\ s.there \in BOOLEAN
        BY <2>1, <4>3, RowFacts, Zenon
      <4>5. i.there = s.there /\ i.enabled = s.enabled
        BY <4>2, <4>3, <4>4, Zenon
      <4>6. i.models = s.models
        BY <2>1, <4>2, <4>3, Zenon
      <4> QED
        BY <2>1, <4>3, <4>5, <4>6, SameRow, Zenon
    <3>2. CASE c \notin Stored
      BY <1>4, <3>2, RowFacts DEF Installed
    <3> QED
      BY <3>1, <3>2
  <2> QED
    BY <1>4, <2>2, IdleHook, Zenon DEF Serves
<1>7. ParentsInv
  BY <1>3, <1>4, RowFacts DEF Status, Shows, ParentsInv
<1>8. ActivationInv
  <2> SUFFICES ASSUME NEW c \in Creds
               PROVE  Activates(c, req, row[c])
    BY Zenon DEF ActivationInv
  <2>1. ~Bare(row[c])
    BY <1>2, <1>3, <1>4, RowFacts, Zenon DEF Bare
  <2>2. Lenders(c, req) = {}
    <3>1. ~Lends(NoReq, c)
      BY BlankRequest, IdleRequest, IdleRequests
    <3> QED
      BY <1>4, <3>1, Zenon DEF Lenders
  <2>3. Cardinality(Lenders(c, req)) = 0 /\ Cardinality(Adders(c, req)) \in Nat
    BY <2>2, CountedSets, FS_EmptySet, Zenon
  <2> DEFINE x == Cardinality(Lenders(c, req))
             y == Cardinality(Adders(c, req))
             z == IF Bare(row[c]) THEN 1 ELSE 0
  <2>4. z = 0
    BY <2>1, Zenon
  <2>5. x + z <= y
    <3>1. x = 0 /\ y \in Nat
      BY <2>3, Zenon
    <3> HIDE DEF x, y, z
    <3> QED
      BY <2>4, <3>1, SMT
  <2> QED
    BY <2>5, Zenon DEF Activates
<1>9. TokensOK
  <2> DEFINE o == [t \in 1..MaxToken |-> IF t = 1 THEN Stored ELSE {}]
  <2>1. o \in [1..MaxToken -> SUBSET Creds] /\ o[1] = Stored
        /\ \A t \in 1..MaxToken : t # 1 => o[t] = {}
    BY <1>2, CredentialsAssumption
  <2> HIDE DEF o
  <2>2. ~Captured /\ ~Finalizes(NoReq)
    BY <1>1, BlankSession, BlankRequest, SMT DEF Captured, Finalizes
  <2>3. ~(0 > 0)
    BY SMT
  <2>4. \A c \in Creds : ~InFlight(c) /\ refresher[c].token = 0
    BY <1>4, IdleHook, Zenon DEF InFlight
  <2>5. \A c \in Creds : Usable(c, row[c].token) /\ (InFlight(c) => refresher[c].token \in valid)
    BY <1>1, <1>3, <1>4, <2>3, <2>4, RowFacts DEF Usable
  <2>6. \A c \in Creds : Mine(o, c, row[c].token) /\ Mine(o, c, rt[c].token) /\ Mine(o, c, refresher[c].token)
    <3> SUFFICES ASSUME NEW c \in Creds
                 PROVE  Mine(o, c, row[c].token) /\ Mine(o, c, rt[c].token) /\ Mine(o, c, refresher[c].token)
      OBVIOUS
    <3>1. Mine(o, c, 0)
      BY <2>3, Zenon DEF Mine
    <3>2. Mine(o, c, row[c].token)
      <4>1. CASE c \in Stored
        BY <1>3, <1>4, <2>1, <4>1, OneStored DEF Mine
      <4>2. CASE c \notin Stored
        BY <1>4, <3>1, <4>2, RowFacts, Zenon
      <4> QED
        BY <4>1, <4>2
    <3> QED
      BY <1>4, <2>4, <3>1, <3>2, Zenon
  <2>7. \A a \in Admins : RequestOwns(o, req[a])
    BY <1>4, <2>2, <2>3, BlankRequest, Words, RowFacts DEF RequestOwns, Mine
  <2>8. \A t \in 1..MaxToken : t > issued => o[t] = {}
    BY <1>1, <1>2, <2>1, Zenon
  <2>9. Owns(o)
    BY <2>6, <2>7, <2>8, Zenon DEF Owns
  <2> QED
    BY <1>4, <2>1, <2>2, <2>5, <2>9, Zenon DEF TokensOK
<1> QED
  BY <1>5, <1>6, <1>7, <1>8, <1>9, Zenon DEF CredentialsInv, TokenInv

LEMMA NextLemma ==
    ASSUME CredentialsInv, [CredentialsNext]_vars
    PROVE  CredentialsInv'
<1>1. CASE UNCHANGED vars
  <2>1. UNCHANGED <<row, rt, valid, issued, catalog, parents, session, req, refresher,
                    disturbed, repeated, diverged, unsynced>>
    BY <1>1, Zenon DEF vars
  <2>2. SessionOK' /\ TablesOK' /\ ServedInv' /\ ParentsInv' /\ ActivationInv'
    BY <2>1, Zenon DEF CredentialsInv, SessionOK, TablesOK, ServedInv, ParentsInv, ActivationInv
  <2>3. TokenInv'
    BY <2>1, <2>2, TokensStep DEF Known, CredentialsInv
  <2> QED
    BY <2>2, <2>3, Zenon DEF CredentialsInv
<1>2. ASSUME NEW a \in Admins, NEW c \in Creds,
             \/ nativeProviderAccounts(a, c) \/ nativeProviderAccountUpdate(a, c)
             \/ nativeProviderAccountDelete(a, c)
      PROVE  CredentialsInv'
  BY <1>2, AccountsStep, UpdateStep, DeleteStep, Zenon
<1>3. ASSUME NEW a \in Admins,
             \/ onEmbeddedModelCatalogUpdate(a) \/ adminProviderOAuthFinalize(a)
             \/ Save(a) \/ ListUpstreamCredentials(a) \/ ReloadFails(a) \/ ReplaceCredentials(a)
             \/ HookGet(a) \/ HookPut(a)
      PROVE  CredentialsInv'
  BY <1>3, CatalogStep, FinalizeStep, SaveStep, ListStep, ReloadFailsStep, ReplaceStep,
     HookGetStep, HookPutStep, Zenon
<1>4. ASSUME NEW a \in Admins,
             \/ Discover(a) \/ DiscoverFails(a) \/ validateNativeCredentialModels(a)
             \/ Rollback(a) \/ Finish(a) \/ ExpandList(a) \/ persistExpandedCredentialModels(a)
             \/ SyncList(a) \/ syncNativeParentSubscriptionRows(a) \/ Disconnect(a)
      PROVE  CredentialsInv'
  BY <1>4, DiscoverStep, DiscoverFailsStep, ValidateStep, RollbackStep, FinishStep,
     LaterListStep, ExpandStep, MarkStep, DisconnectStep, Zenon
<1>5. ASSUME adminProviderOAuthStart \/ capture \/ adminProviderOAuthCancel \/ Restart
      PROVE  CredentialsInv'
  BY <1>5, OAuthStartStep, CaptureStep, OAuthCancelStep, RestartStep, Zenon
<1>6. ASSUME NEW c \in Creds, RefreshCredential(c) \/ PersistGet(c) \/ PersistPut(c)
      PROVE  CredentialsInv'
  BY <1>6, RefreshStep, PersistGetStep, PersistPutStep, Zenon
<1> QED
  BY <1>1, <1>2, <1>3, <1>4, <1>5, <1>6, Zenon DEF CredentialsNext

-----------------------------------------------------------------------------
(* The theorems *)

\* The handlers, the reloads with their hooks, the runtime's refreshes and the
\* restarts keep the inductive invariant, whatever statement of theirs fails.
THEOREM CredentialsInvariant == Credentials => []CredentialsInv
<1>1. CredentialsInit => CredentialsInv
  BY InitLemma, Zenon
<1>2. CredentialsInv /\ [CredentialsNext]_vars => CredentialsInv'
  BY NextLemma, Zenon
<1> QED
  BY <1>1, <1>2, PTL DEF Credentials

\* Refreshes, reloads, reauthorisations and rollbacks never store a refresh
\* token the provider has already replaced, unless two writers overlapped on a
\* row (UpsertUpstreamCredential writes all columns) or a captured document was
\* finalized twice.
THEOREM TokensUsable == Credentials => []StoredTokenUsable
<1>1. CredentialsInv => StoredTokenUsable
  BY Zenon DEF CredentialsInv, TokenInv, TokensOK, Usable, InFlight, StoredTokenUsable
<1> QED
  BY <1>1, CredentialsInvariant, PTL

\* Once no request and no hook is under way, the runtime serves the enabled
\* rows as they are stored (reloadNativeCredentials) and no row is left that
\* activateNativeCredential did not complete, whichever step failed.
THEOREM RowsServed == Credentials => []RuntimeAndRowsAgree
<1>1. CredentialsInv => CredentialsTypeOK
  <2> SUFFICES ASSUME CredentialsInv
               PROVE  CredentialsTypeOK
    OBVIOUS
  <2>1. TablesOK
    BY Zenon DEF CredentialsInv
  <2>2. \A r \in Rows : r \in RowType
    BY RowFacts, Zenon
  <2>3. row \in [Creds -> RowType] /\ rt \in [Creds -> RowType]
    BY <2>1, <2>2, Zenon DEF TablesOK
  <2>4. valid \subseteq 1..MaxToken
    BY <2>1, Constants DEF TablesOK
  <2>5. session.st \in {"none", "open", "captured"} /\ session.targets \subseteq Creds
    BY <2>1, Zenon DEF TablesOK, SessionOK
  <2>6. \A c \in Creds : refresher[c].pc \in {"idle", "get", "put"}
    BY <2>1, HookRows, Zenon
  <2>7. ASSUME NEW a \in Admins
        PROVE  /\ req[a].prev \in RowType /\ req[a].new \in RowType
               /\ Cardinality(req[a].cred) <= 1
               /\ ~Idle(a) /\ req[a].op # "catalog" => req[a].cred # {}
    <3> DEFINE r == req[a]
    <3>1. RequestOK(r) /\ r \in Request
      BY <2>1, Zenon DEF TablesOK, RequestOK
    <3>2. r.prev \in RowType /\ r.new \in RowType
      BY <2>2, <3>1, RequestParts, Zenon
    <3>3. r.cred = {} \/ \E c \in Creds : r.cred = {c}
      BY <3>1, Zenon DEF RequestOK
    <3>4. 0 <= 1 /\ 1 <= 1
      BY SMT
    <3>5. Cardinality(r.cred) <= 1
      BY <3>3, <3>4, FS_EmptySet, FS_Singleton, Zenon
    <3>6. r.pc \notin {"new", "done"} /\ r.op # "catalog" => r.cred # {}
      BY <3>1, Zenon DEF RequestOK
    <3> QED
      BY <3>2, <3>5, <3>6, Zenon DEF Idle
  <2> QED
    BY <2>1, <2>3, <2>4, <2>5, <2>6, <2>7, Zenon DEF CredentialsTypeOK, TablesOK
<1>2. CredentialsInv => RuntimeFollowsStore
  <2> SUFFICES ASSUME CredentialsInv, Quiet, ~diverged, NEW c \in Creds
               PROVE  rt[c] = Installed(c, row[c], catalog)
    BY Zenon DEF RuntimeFollowsStore
  <2>1. \A a \in Admins : ~Stale(req[a])
    BY IdleRequest, Zenon DEF Quiet, Idle, CredentialsInv, TablesOK
  <2>2. Serves(c, rt[c], row[c], refresher[c], catalog)
    BY <2>1, Zenon DEF CredentialsInv, ServedInv
  <2> QED
    BY <2>2, Zenon DEF Serves, Quiet
<1>3. CredentialsInv => ActivatedOrGone
  <2> SUFFICES ASSUME CredentialsInv, Quiet, ~disturbed, NEW c \in Creds, row[c].there
               PROVE  row[c].models > 0
    BY Zenon DEF ActivatedOrGone
  <2>1. \A a \in Admins : ~Adds(req[a], c)
    BY IdleRequest, Zenon DEF Quiet, Idle, CredentialsInv, TablesOK
  <2>2. Adders(c, req) = {}
    BY <2>1, Zenon DEF Adders
  <2>3. Cardinality(Adders(c, req)) = 0 /\ Cardinality(Lenders(c, req)) \in Nat
    BY <2>2, CountedSets, FS_EmptySet, Zenon
  <2>4. Cardinality(Lenders(c, req)) + (IF Bare(row[c]) THEN 1 ELSE 0) <= Cardinality(Adders(c, req))
    BY Zenon DEF CredentialsInv, ActivationInv, Activates
  <2>5. ~Bare(row[c])
    <3> DEFINE x == Cardinality(Lenders(c, req))
               y == Cardinality(Adders(c, req))
    <3>1. y = 0 /\ x \in Nat
      BY <2>3, Zenon
    <3>2. Bare(row[c]) => x + 1 <= y
      BY <2>4, Zenon
    <3> HIDE DEF x, y
    <3>3. ~(x + 1 <= y)
      BY <3>1, SMT
    <3> QED
      BY <3>2, <3>3, Zenon
  <2>6. row[c].models # 0
    BY <2>5, Zenon DEF Bare
  <2>7. row[c].models \in 0..MaxCatalog
    BY RowFacts, Zenon DEF CredentialsInv, TablesOK
  <2> QED
    BY <2>6, <2>7, Constants, SMT
<1>4. CredentialsInv => RuntimeAndRowsAgree
  BY <1>1, <1>2, <1>3, Zenon DEF RuntimeAndRowsAgree
<1> QED
  BY <1>4, CredentialsInvariant, PTL

\* Once everything is quiet the parent subscriptions show the credentials as
\* syncNativeParentSubscriptionRows would set them, whatever order the
\* synchronisations came in.
THEOREM ParentsFollow == Credentials => []ParentsFollowCredentials
<1>1. CredentialsInv => ParentsFollowCredentials
  <2> SUFFICES ASSUME CredentialsInv, Quiet, ~unsynced, ~disturbed
               PROVE  \A c \in Creds : Shows(parents[c], row[c])
    BY Zenon DEF ParentsFollowCredentials, Shows
  <2>1. \A a \in Admins : ~Syncs(req[a])
    BY IdleRequest, Zenon DEF Quiet, Idle, CredentialsInv, TablesOK
  <2> QED
    BY <2>1, Zenon DEF CredentialsInv, ParentsInv
<1> QED
  BY <1>1, CredentialsInvariant, PTL

=============================================================================
