------------------------- MODULE ClientConfigProofs -------------------------
(***************************************************************************)
(* The configuration files of a client, for any number of commands, edits, *)
(* failed writes and killed commands, any versions and any contents of the *)
(* files at first: what rai was lent it gives back, and an endpoint of the *)
(* user's never meets the credential that was there before rai.            *)
(***************************************************************************)
EXTENDS ClientConfig, FiniteSetTheorems, TLAPS

-----------------------------------------------------------------------------
(* Contents and records *)

Doc(x) == decodeClientConfig(x)

\* A document in which no endpoint of rai's has the user's first credential.
Document == {d \in Documents : d["auth"] = "u" => d["url"] \notin Versions}
Content == Document \cup {Absent}

\* A record installs one version in every managed field and nothing else.
Version(r) == r.after["url"]
Records ==
    {r \in [before: Content, after: Document] :
        /\ Version(r) \in Versions
        /\ r.after["auth"] = Version(r) /\ r.after["model"] = Version(r)
        /\ r.after["rest"] = Doc(r.before)["rest"]}
Kept == Records \cup {None}

\* The document y is what the record r makes of the document x, field by field.
Back(x, r, y) ==
    /\ y["rest"] = x["rest"]
    /\ y["model"] = IF x["model"] = Version(r) THEN Doc(r.before)["model"] ELSE x["model"]
    /\ y["url"] = IF x["url"] = Version(r) /\ x["auth"] = Version(r) THEN Doc(r.before)["url"] ELSE x["url"]
    /\ y["auth"] = IF x["url"] = Version(r) /\ x["auth"] = Version(r) THEN Doc(r.before)["auth"] ELSE x["auth"]

\* What the assumption says of the constants.
LEMMA VersionFacts ==
    /\ "-" \notin Versions /\ "u" \notin Versions /\ "e" \notin Versions
    /\ Originals \subseteq [Fields -> {"-", "u"}] /\ Clients \subseteq {"agent", "codex"}
BY ClientConfigAssumption

LEMMA FieldFacts ==
    Fields = {"url", "auth", "model", "rest"} /\ Managed = {"url", "auth", "model"} /\ Group = {"url", "auth"}
BY DEF Fields, Managed, Group

LEMMA EmptyDocument ==
    Empty \in Document /\ \A k \in Fields : Empty[k] = "-"
<1>1. Empty \in Documents /\ \A k \in Fields : Empty[k] = "-"
  BY DEF Empty, Documents, Values
<1>2. Empty["auth"] = "-"
  BY <1>1, FieldFacts
<1>3. "-" # "u"
  OBVIOUS
<1> QED
  BY <1>1, <1>2, <1>3 DEF Document

\* No document is the absent file, and no record is missing.
LEMMA AbsentFacts ==
    Absent \notin Documents /\ None \notin Records
<1>1. DOMAIN Absent = {"absent"} /\ DOMAIN None = {"absent"}
  BY DEF Absent, None
<1>2. Absent \notin Documents
  <2> SUFFICES ASSUME Absent \in Documents PROVE FALSE
    OBVIOUS
  <2>1. DOMAIN Absent = Fields
    BY DEF Documents
  <2>2. "url" \in Fields /\ "url" \notin {"absent"}
    BY FieldFacts
  <2> QED
    BY <1>1, <2>1, <2>2, Zenon
<1>3. None \notin Records
  <2> SUFFICES ASSUME None \in Records PROVE FALSE
    OBVIOUS
  <2>1. None \in [before: Content, after: Document]
    BY Zenon DEF Records
  <2>2. DOMAIN None = {"before", "after"}
    BY <2>1
  <2>3. "before" \notin {"absent"}
    OBVIOUS
  <2> QED
    BY <1>1, <2>2, <2>3, Zenon
<1> QED
  BY <1>2, <1>3

LEMMA DocFacts ==
    ASSUME NEW x \in Content
    PROVE  /\ Doc(x) \in Document /\ Doc(x) \in Documents
           /\ x # Absent => x \in Documents /\ Doc(x) = x
           /\ x = Absent => \A k \in Fields : Doc(x)[k] = "-"
           /\ \A k \in Fields : Doc(x)[k] \in Values
BY AbsentFacts, EmptyDocument DEF Doc, decodeClientConfig, Content, Document, Documents

LEMMA DocOfDocument ==
    ASSUME NEW d \in Documents
    PROVE  Doc(d) = d
BY AbsentFacts DEF Doc, decodeClientConfig

LEMMA SameFields ==
    ASSUME NEW d \in Documents, NEW h \in Documents,
           d["url"] = h["url"], d["auth"] = h["auth"], d["model"] = h["model"], d["rest"] = h["rest"]
    PROVE  d = h
<1>1. \A k \in Fields : d[k] = h[k]
  BY FieldFacts
<1> QED
  BY <1>1 DEF Documents

-----------------------------------------------------------------------------
(* What restoration does, field by field *)

LEMMA RecordFacts ==
    ASSUME NEW r \in Records
    PROVE  /\ r # None /\ r.before \in Content /\ r.after \in Document /\ r.after \in Documents
           /\ Doc(r.after) = r.after /\ r.after \in Content /\ r.after # Absent
           /\ Version(r) \in Versions /\ r.after["url"] = Version(r)
           /\ r.after["auth"] = Version(r) /\ r.after["model"] = Version(r)
           /\ r.after["rest"] = Doc(r.before)["rest"]
<1>1. r \in [before: Content, after: Document] /\ Version(r) \in Versions
      /\ r.after["auth"] = Version(r) /\ r.after["model"] = Version(r)
      /\ r.after["rest"] = Doc(r.before)["rest"]
  BY Zenon DEF Records
<1>2. r.before \in Content /\ r.after \in Document
  BY <1>1
<1>3. r.after \in Documents /\ r.after \in Content
  BY <1>2 DEF Document, Content
<1>4. Doc(r.after) = r.after /\ r.after # Absent /\ r # None
  BY <1>3, DocOfDocument, AbsentFacts
<1> QED
  BY <1>1, <1>2, <1>3, <1>4 DEF Version

LEMMA RestoredFields ==
    ASSUME NEW d \in Document, NEW r \in Records
    PROVE  LET y == restoreConfiguredClient(d, Doc(r.before), Doc(r.after)) IN
           y \in Document /\ Back(d, r, y)
<1> DEFINE b == Doc(r.before)
           h == r.after
           v == Version(r)
           y == restoreConfiguredClient(d, b, h)
<1>1. /\ b \in Document /\ b \in Documents /\ d \in Documents /\ v \in Versions
      /\ h["url"] = v /\ h["auth"] = v /\ h["model"] = v /\ h["rest"] = b["rest"] /\ Doc(r.after) = h
  BY RecordFacts, DocFacts DEF Document
<1>2. y = [k \in Fields |-> IF /\ b[k] # h[k] /\ d[k] = h[k]
                               /\ k \in Group => \A g \in Group : d[g] = h[g]
                            THEN b[k] ELSE d[k]]
  BY Zenon DEF restoreConfiguredClient
<1> HIDE DEF b, h, v, y
<1>3. y \in Documents
  BY <1>1, <1>2 DEF Documents
<1>4. y["rest"] = d["rest"]
  BY <1>1, <1>2, FieldFacts
<1>5. y["model"] = IF d["model"] = v THEN b["model"] ELSE d["model"]
  BY <1>1, <1>2, FieldFacts
<1>6. y["url"] = IF d["url"] = v /\ d["auth"] = v THEN b["url"] ELSE d["url"]
  BY <1>1, <1>2, FieldFacts
<1>7. y["auth"] = IF d["url"] = v /\ d["auth"] = v THEN b["auth"] ELSE d["auth"]
  BY <1>1, <1>2, FieldFacts
<1>8. y \in Document
  BY <1>1, <1>3, <1>6, <1>7 DEF Document
<1>9. Back(d, r, y)
  BY <1>4, <1>5, <1>6, <1>7 DEF Back, b, v
<1> QED
  BY <1>1, <1>8, <1>9 DEF y, b

\* Baseline is what Restored gives, and the file itself without a record.
LEMMA BaselineFields ==
    ASSUME NEW x \in Content, NEW r \in Records
    PROVE  /\ Baseline(x, r) \in Content
           /\ Back(Doc(x), r, Doc(Baseline(x, r)))
           /\ Baseline(x, r) = Restored(x, r)
<1> DEFINE y == restoreConfiguredClient(Doc(x), Doc(r.before), Doc(r.after))
<1>1. /\ r # None /\ r.before \in Content /\ Doc(r.after) = r.after
      /\ Doc(x) \in Document /\ Doc(x) \in Documents
  BY RecordFacts, DocFacts
<1>2. y \in Document /\ Back(Doc(x), r, y)
  BY <1>1, RestoredFields
<1>3. Baseline(x, r) = IF x = r.after THEN r.before ELSE render(x, y)
  BY <1>1 DEF Baseline, ThreeWay, Doc
<1>4. Baseline(x, r) = Restored(x, r)
  BY <1>1 DEF Baseline, Restored
<1> HIDE DEF y
<1>5. CASE x = r.after
  <2>1. Baseline(x, r) = r.before /\ Doc(x) = r.after
    BY <1>1, <1>3, <1>5
  <2>2. Back(r.after, r, Doc(r.before))
    BY RecordFacts DEF Back
  <2> QED
    BY <1>1, <1>4, <2>1, <2>2
<1>6. CASE x # r.after
  <2>1. Baseline(x, r) = IF Doc(x) = y THEN x ELSE y
    BY <1>3, <1>6 DEF render, Doc
  <2>2. Doc(Baseline(x, r)) = y /\ Baseline(x, r) \in Content
    BY <1>2, <2>1, DocOfDocument DEF Content, Document
  <2> QED
    BY <1>2, <1>4, <2>2
<1> QED
  BY <1>5, <1>6

LEMMA BaselineNone ==
    ASSUME NEW x
    PROVE  Baseline(x, None) = x
BY DEF Baseline

LEMMA BaselineContent ==
    ASSUME NEW x \in Content, NEW r \in Kept
    PROVE  Baseline(x, r) \in Content
BY BaselineFields, BaselineNone DEF Kept

\* An absent file stays absent, and what was installed goes back exactly.
LEMMA BaselineExact ==
    ASSUME NEW r \in Records
    PROVE  Baseline(Absent, r) = Absent /\ Baseline(r.after, r) = r.before
<1>1. r # None /\ r.after # Absent /\ Version(r) \in Versions
  BY RecordFacts
<1>2. Baseline(r.after, r) = r.before
  BY <1>1 DEF Baseline
<1>3. Baseline(Absent, r) = Absent
  <2> DEFINE y == restoreConfiguredClient(Doc(Absent), Doc(r.before), Doc(r.after))
  <2>1. Absent \in Content /\ Doc(Absent) = Empty /\ Empty \in Document /\ Empty \in Documents
    BY EmptyDocument DEF Content, Doc, decodeClientConfig, Document
  <2>2. Empty["url"] = "-" /\ Empty["auth"] = "-" /\ Empty["model"] = "-" /\ Empty["rest"] = "-"
    BY EmptyDocument, FieldFacts
  <2>3. y \in Documents /\ Back(Empty, r, y)
    BY <2>1, RestoredFields DEF Document
  <2>4. "-" # Version(r)
    BY <1>1, VersionFacts
  <2>5. y["url"] = "-" /\ y["auth"] = "-" /\ y["model"] = "-" /\ y["rest"] = "-"
    BY <2>2, <2>3, <2>4 DEF Back
  <2>6. y = Empty
    BY <2>1, <2>2, <2>3, <2>5, SameFields
  <2>7. Baseline(Absent, r) = render(Absent, y)
    BY <1>1 DEF Baseline, ThreeWay, Doc
  <2> QED
    BY <2>1, <2>6, <2>7 DEF render, Doc
<1> QED
  BY <1>2, <1>3

-----------------------------------------------------------------------------
(* What a file will be when its records are gone *)

\* The content x with the record r, on top of the record j.
Through(x, r, j) == Baseline(Baseline(x, r), j)

\* The content y is what the user alone would have: exactly, if the file would
\* not be there and the client is not Codex; apart from the endpoint and the
\* credential, if the user took them apart, when the credential is another one.
Good(y, f, ap, o, t, c) ==
    /\ f \in ap => Doc(y)["auth"] # "u"
    /\ t = FALSE => /\ Doc(y)["model"] = Doc(o)["model"] /\ Doc(y)["rest"] = Doc(o)["rest"]
                    /\ f \in ap \/ (Doc(y)["url"] = Doc(o)["url"] /\ Doc(y)["auth"] = Doc(o)["auth"])
    /\ t = FALSE /\ c = "agent" /\ o = Absent => y = Absent

\* The content x is z but for the user's edits.
From(x, z, o, t, c) ==
    /\ Doc(x)["model"] \in Versions => Doc(z)["model"] = Doc(x)["model"]
    /\ Doc(x)["url"] \in Versions => Doc(z)["url"] = Doc(x)["url"]
    /\ Doc(x)["auth"] \in Versions => Doc(z)["auth"] = Doc(x)["auth"]
    /\ t = FALSE /\ c = "agent" /\ o = Absent => x = z

LEMMA BaselineKeeps ==
    ASSUME NEW x \in Content, NEW r \in Kept
    PROVE  LET d == Doc(x)
               y == Doc(Baseline(x, r)) IN
           /\ y["rest"] = d["rest"]
           /\ d["model"] \notin Versions => y["model"] = d["model"]
           /\ d["url"] \notin Versions \/ d["auth"] \notin Versions => y["url"] = d["url"] /\ y["auth"] = d["auth"]
<1>1. CASE r \in Records
  <2>1. Back(Doc(x), r, Doc(Baseline(x, r))) /\ Version(r) \in Versions
    BY <1>1, BaselineFields, RecordFacts
  <2> QED
    BY <2>1 DEF Back
<1>2. CASE r = None
  BY <1>2, BaselineNone
<1> QED
  BY <1>1, <1>2 DEF Kept

LEMMA BaselineDepends ==
    ASSUME NEW x \in Content, NEW z \in Content, NEW r \in Kept
    PROVE  /\ Doc(x)["model"] = Doc(z)["model"] => Doc(Baseline(x, r))["model"] = Doc(Baseline(z, r))["model"]
           /\ Doc(x)["url"] = Doc(z)["url"] /\ Doc(x)["auth"] = Doc(z)["auth"]
                => /\ Doc(Baseline(x, r))["url"] = Doc(Baseline(z, r))["url"]
                   /\ Doc(Baseline(x, r))["auth"] = Doc(Baseline(z, r))["auth"]
<1>1. CASE r \in Records
  <2>1. Back(Doc(x), r, Doc(Baseline(x, r))) /\ Back(Doc(z), r, Doc(Baseline(z, r)))
    BY <1>1, BaselineFields
  <2> QED
    BY <2>1 DEF Back
<1>2. CASE r = None
  BY <1>2, BaselineNone
<1> QED
  BY <1>1, <1>2 DEF Kept

LEMMA ThroughKeeps ==
    ASSUME NEW x \in Content, NEW r \in Kept, NEW j \in Kept
    PROVE  LET d == Doc(x)
               y == Doc(Through(x, r, j)) IN
           /\ Through(x, r, j) \in Content
           /\ y["rest"] = d["rest"]
           /\ d["model"] \notin Versions => y["model"] = d["model"]
           /\ d["url"] \notin Versions \/ d["auth"] \notin Versions => y["url"] = d["url"] /\ y["auth"] = d["auth"]
<1> DEFINE m == Baseline(x, r)
<1>1. m \in Content /\ Baseline(m, j) \in Content
  BY BaselineContent
<1>2. /\ Doc(m)["rest"] = Doc(x)["rest"]
      /\ Doc(x)["model"] \notin Versions => Doc(m)["model"] = Doc(x)["model"]
      /\ Doc(x)["url"] \notin Versions \/ Doc(x)["auth"] \notin Versions
           => Doc(m)["url"] = Doc(x)["url"] /\ Doc(m)["auth"] = Doc(x)["auth"]
  BY BaselineKeeps
<1> HIDE DEF m
<1>3. /\ Doc(Baseline(m, j))["rest"] = Doc(m)["rest"]
      /\ Doc(m)["model"] \notin Versions => Doc(Baseline(m, j))["model"] = Doc(m)["model"]
      /\ Doc(m)["url"] \notin Versions \/ Doc(m)["auth"] \notin Versions
           => Doc(Baseline(m, j))["url"] = Doc(m)["url"] /\ Doc(Baseline(m, j))["auth"] = Doc(m)["auth"]
  BY <1>1, BaselineKeeps
<1>4. Through(x, r, j) = Baseline(m, j)
  BY DEF Through, m
<1> QED
  BY <1>1, <1>2, <1>3, <1>4

LEMMA ThroughDepends ==
    ASSUME NEW x \in Content, NEW z \in Content, NEW r \in Kept, NEW j \in Kept
    PROVE  /\ Doc(x)["model"] = Doc(z)["model"] => Doc(Through(x, r, j))["model"] = Doc(Through(z, r, j))["model"]
           /\ Doc(x)["url"] = Doc(z)["url"] /\ Doc(x)["auth"] = Doc(z)["auth"]
                => /\ Doc(Through(x, r, j))["url"] = Doc(Through(z, r, j))["url"]
                   /\ Doc(Through(x, r, j))["auth"] = Doc(Through(z, r, j))["auth"]
<1> DEFINE m == Baseline(x, r)
           n == Baseline(z, r)
<1>1. m \in Content /\ n \in Content
  BY BaselineContent
<1>2. /\ Doc(x)["model"] = Doc(z)["model"] => Doc(m)["model"] = Doc(n)["model"]
      /\ Doc(x)["url"] = Doc(z)["url"] /\ Doc(x)["auth"] = Doc(z)["auth"]
           => Doc(m)["url"] = Doc(n)["url"] /\ Doc(m)["auth"] = Doc(n)["auth"]
  BY BaselineDepends
<1> HIDE DEF m, n
<1>3. /\ Doc(m)["model"] = Doc(n)["model"] => Doc(Baseline(m, j))["model"] = Doc(Baseline(n, j))["model"]
      /\ Doc(m)["url"] = Doc(n)["url"] /\ Doc(m)["auth"] = Doc(n)["auth"]
           => /\ Doc(Baseline(m, j))["url"] = Doc(Baseline(n, j))["url"]
              /\ Doc(Baseline(m, j))["auth"] = Doc(Baseline(n, j))["auth"]
  BY <1>1, BaselineDepends
<1>4. Through(x, r, j) = Baseline(m, j) /\ Through(z, r, j) = Baseline(n, j)
  BY DEF Through, m, n
<1> QED
  BY <1>2, <1>3, <1>4

-----------------------------------------------------------------------------
(* The user's edits *)

UserValues == {"-", "e"}
Edited(x, k, w) == [Doc(x) EXCEPT ![k] = w]
Differs(d, y, k, w) == \A i \in Fields : y[i] = IF i = k THEN w ELSE d[i]

LEMMA EditedContent ==
    ASSUME NEW x \in Content, NEW k \in Fields, NEW w \in UserValues
    PROVE  /\ Edited(x, k, w) \in Content /\ Doc(Edited(x, k, w)) = Edited(x, k, w) /\ Edited(x, k, w) # Absent
           /\ w \notin Versions /\ w # "u"
           /\ Differs(Doc(x), Edited(x, k, w), k, w)
<1> DEFINE y == Edited(x, k, w)
<1>1. Doc(x) \in Documents /\ Doc(x) \in Document
  BY DocFacts
<1>2. w \in Values /\ w \notin Versions /\ w # "u"
  BY VersionFacts DEF Values, UserValues
<1>3. y \in Documents /\ Differs(Doc(x), y, k, w)
  BY <1>1, <1>2 DEF Edited, Documents, Differs
<1> HIDE DEF y
<1>4. y["auth"] = "u" => y["url"] \notin Versions
  BY <1>1, <1>2, <1>3, FieldFacts DEF Document, Differs
<1>5. y \in Document /\ y \in Content /\ Doc(y) = y /\ y # Absent
  BY <1>3, <1>4, DocOfDocument, AbsentFacts DEF Document, Content
<1> QED
  BY <1>2, <1>3, <1>5 DEF y

LEMMA GoodEdited ==
    ASSUME NEW x \in Content, NEW o \in Content, NEW r \in Kept, NEW j \in Kept,
           NEW k \in Fields, NEW w \in UserValues, NEW f, NEW ap, NEW ap2, NEW t, NEW c,
           f \in ap2 <=> (f \in ap \/ (k \in Group /\ (Doc(x)["url"] \in Versions \/ Doc(x)["auth"] \in Versions))),
           Good(Through(x, r, j), f, ap, o, t, c)
    PROVE  Good(Through(Edited(x, k, w), r, j), f, ap2, Edited(o, k, w), t, c)
<1>1. PICK z, p : z = Edited(x, k, w) /\ p = Edited(o, k, w)
  OBVIOUS
<1>2. PICK y, y2 : y = Through(x, r, j) /\ y2 = Through(z, r, j)
  OBVIOUS
<1>3. /\ z \in Content /\ Doc(z) = z /\ Doc(p) = p /\ p # Absent /\ w \notin Versions /\ w # "u"
      /\ Differs(Doc(x), z, k, w)
      /\ Differs(Doc(o), p, k, w)
  <2>1. /\ Edited(x, k, w) \in Content /\ Doc(Edited(x, k, w)) = Edited(x, k, w)
        /\ w \notin Versions /\ w # "u"
        /\ Differs(Doc(x), Edited(x, k, w), k, w)
    BY EditedContent, Zenon
  <2>2. /\ Doc(Edited(o, k, w)) = Edited(o, k, w) /\ Edited(o, k, w) # Absent
        /\ Differs(Doc(o), Edited(o, k, w), k, w)
    BY EditedContent, Zenon
  <2> QED
    BY <1>1, <2>1, <2>2, Zenon
<1>4. /\ Doc(y)["rest"] = Doc(x)["rest"]
      /\ Doc(x)["model"] \notin Versions => Doc(y)["model"] = Doc(x)["model"]
      /\ Doc(x)["url"] \notin Versions \/ Doc(x)["auth"] \notin Versions
           => Doc(y)["url"] = Doc(x)["url"] /\ Doc(y)["auth"] = Doc(x)["auth"]
  BY <1>2, ThroughKeeps
<1>5. /\ Doc(y2)["rest"] = z["rest"]
      /\ z["model"] \notin Versions => Doc(y2)["model"] = z["model"]
      /\ z["url"] \notin Versions \/ z["auth"] \notin Versions
           => Doc(y2)["url"] = z["url"] /\ Doc(y2)["auth"] = z["auth"]
  BY <1>2, <1>3, ThroughKeeps
<1>6. /\ Doc(x)["model"] = z["model"] => Doc(y)["model"] = Doc(y2)["model"]
      /\ Doc(x)["url"] = z["url"] /\ Doc(x)["auth"] = z["auth"]
           => Doc(y)["url"] = Doc(y2)["url"] /\ Doc(y)["auth"] = Doc(y2)["auth"]
  BY <1>2, <1>3, ThroughDepends
<1>7. Doc(x)["auth"] = "u" => Doc(x)["url"] \notin Versions
  BY DocFacts DEF Document
<1>8. /\ f \in ap => Doc(y)["auth"] # "u"
      /\ t = FALSE => /\ Doc(y)["model"] = Doc(o)["model"] /\ Doc(y)["rest"] = Doc(o)["rest"]
                      /\ f \in ap \/ (Doc(y)["url"] = Doc(o)["url"] /\ Doc(y)["auth"] = Doc(o)["auth"])
  BY <1>2 DEF Good
<1>9. "u" \notin Versions /\ Fields = {"url", "auth", "model", "rest"} /\ Group = {"url", "auth"}
  BY VersionFacts, FieldFacts
<1>10. f \in ap2 => Doc(y2)["auth"] # "u"
  <2>1. CASE k \in Group
    BY <1>3, <1>4, <1>5, <1>7, <1>8, <1>9, <2>1 DEF Differs
  <2>2. CASE k \notin Group
    BY <1>3, <1>6, <1>8, <1>9, <2>2 DEF Differs
  <2> QED
    BY <2>1, <2>2
<1>11. t = FALSE => Doc(y2)["model"] = p["model"]
  BY <1>3, <1>5, <1>6, <1>8, <1>9 DEF Differs
<1>12. t = FALSE => Doc(y2)["rest"] = p["rest"]
  BY <1>3, <1>4, <1>5, <1>8, <1>9 DEF Differs
<1>13. t = FALSE /\ f \notin ap2 => Doc(y2)["url"] = p["url"] /\ Doc(y2)["auth"] = p["auth"]
  <2>1. CASE k \in Group
    BY <1>3, <1>4, <1>5, <1>8, <1>9, <2>1 DEF Differs
  <2>2. CASE k \notin Group
    BY <1>3, <1>6, <1>8, <1>9, <2>2 DEF Differs
  <2> QED
    BY <2>1, <2>2
<1> QED
  BY <1>1, <1>2, <1>3, <1>10, <1>11, <1>12, <1>13 DEF Good

LEMMA FromEdited ==
    ASSUME NEW x \in Content, NEW z, NEW o \in Content, NEW k \in Fields, NEW w \in UserValues, NEW t, NEW c,
           From(x, z, o, t, c)
    PROVE  From(Edited(x, k, w), z, Edited(o, k, w), t, c)
<1>1. PICK y, p : y = Edited(x, k, w) /\ p = Edited(o, k, w)
  OBVIOUS
<1>2. /\ Doc(y) = y /\ p # Absent /\ w \notin Versions
      /\ Differs(Doc(x), y, k, w)
  <2>1. /\ Doc(Edited(x, k, w)) = Edited(x, k, w) /\ w \notin Versions
        /\ Differs(Doc(x), Edited(x, k, w), k, w)
    BY EditedContent, Zenon
  <2>2. Edited(o, k, w) # Absent
    BY EditedContent
  <2> QED
    BY <1>1, <2>1, <2>2, Zenon
<1>3. y["model"] \in Versions => y["model"] = Doc(x)["model"]
  BY <1>2, FieldFacts DEF Differs
<1>4. y["url"] \in Versions => y["url"] = Doc(x)["url"]
  BY <1>2, FieldFacts DEF Differs
<1>5. y["auth"] \in Versions => y["auth"] = Doc(x)["auth"]
  BY <1>2, FieldFacts DEF Differs
<1> QED
  BY <1>1, <1>2, <1>3, <1>4, <1>5 DEF From

-----------------------------------------------------------------------------
(* What the commands' writes do to a file *)

LEMMA GoodWeaker ==
    ASSUME NEW y, NEW f, NEW ap, NEW ap2, NEW o, NEW t, NEW t2, NEW c,
           f \in ap2 <=> f \in ap, t2 = FALSE => t = FALSE,
           Good(y, f, ap, o, t, c)
    PROVE  Good(y, f, ap2, o, t2, c)
BY Zenon DEF Good

LEMMA FromWeaker ==
    ASSUME NEW x, NEW z, NEW o, NEW t, NEW t2, NEW c,
           t2 = FALSE => t = FALSE, From(x, z, o, t, c)
    PROVE  From(x, z, o, t2, c)
BY Zenon DEF From

\* What was overwritten is out of account.
LEMMA GoodLost ==
    ASSUME NEW y, NEW f, NEW ap, NEW o, NEW t, NEW c, f \notin ap, t = TRUE
    PROVE  Good(y, f, ap, o, t, c)
BY Zenon DEF Good

LEMMA FromSelf ==
    ASSUME NEW x, NEW o, NEW t, NEW c
    PROVE  From(x, x, o, t, c)
BY Zenon DEF From

\* The record that a command writes, over the one it loaded.
New(z, b, v) == [before |-> Baseline(z, b), after |-> buildAgentConfig(z, v)]

LEMMA NewRecord ==
    ASSUME NEW z \in Content, NEW b \in Kept, NEW v \in Versions
    PROVE  LET n == New(z, b, v) IN
           /\ n \in Records /\ n \in Kept /\ Version(n) = v /\ n.before = Baseline(z, b)
           /\ n.after["url"] = v /\ n.after["auth"] = v /\ n.after["model"] = v /\ n.after["rest"] = Doc(z)["rest"]
<1> DEFINE n == New(z, b, v)
           h == buildAgentConfig(z, v)
<1>1. Doc(z) \in Documents /\ Baseline(z, b) \in Content /\ Doc(Baseline(z, b))["rest"] = Doc(z)["rest"]
  BY DocFacts, BaselineContent, BaselineKeeps
<1>2. h = [k \in Fields |-> IF k \in Managed THEN v ELSE Doc(z)[k]]
  BY DEF buildAgentConfig, Doc
<1>3. n.before = Baseline(z, b) /\ n.after = h
  BY DEF New
<1>4. n = [before |-> Baseline(z, b), after |-> h]
  BY DEF New
<1> HIDE DEF n, h
<1>5. h \in Documents
  BY <1>1, <1>2 DEF Documents, Values
<1>6. h["url"] = v /\ h["auth"] = v /\ h["model"] = v /\ h["rest"] = Doc(z)["rest"]
  BY <1>2, FieldFacts
<1>7. h \in Document
  BY <1>5, <1>6, VersionFacts DEF Document
<1>8. n \in [before: Content, after: Document]
  BY <1>1, <1>4, <1>7
<1>9. Version(n) = v
  BY <1>3, <1>6 DEF Version
<1>10. n \in Records
  BY <1>1, <1>3, <1>6, <1>8, <1>9, Zenon DEF Records
<1> QED
  BY <1>3, <1>6, <1>9, <1>10 DEF n, Kept

\* The file as installed goes back where the file as loaded would have gone.
LEMMA InstalledGood ==
    ASSUME NEW z \in Content, NEW b \in Kept, NEW v \in Versions, NEW u,
           NEW f, NEW ap, NEW o, NEW t, NEW c
    PROVE  Good(Through(New(z, b, v).after, New(z, b, v), u), f, ap, o, t, c)
             <=> Good(Through(z, b, u), f, ap, o, t, c)
<1>1. PICK n : n = New(z, b, v)
  OBVIOUS
<1>2. n \in Records /\ n.before = Baseline(z, b)
  BY <1>1, NewRecord
<1>3. Through(n.after, n, u) = Through(z, b, u)
  BY <1>2, BaselineExact DEF Through
<1> QED
  BY <1>1, <1>3

\* The record alone, over a file rai did not manage, changes nothing.
LEMMA CutFirst ==
    ASSUME NEW x \in Content, NEW z \in Content, NEW v \in Versions, NEW u \in Kept,
           NEW f, NEW ap, NEW o, NEW t, NEW c,
           c = "agent" => u = None,
           From(x, z, o, t, c), Good(Through(x, None, u), f, ap, o, t, c)
    PROVE  Good(Through(x, New(z, None, v), u), f, ap, o, t, c)
<1>1. None \in Kept
  BY DEF Kept
<1>2. PICK n : n = New(z, None, v)
  OBVIOUS
<1>3. n \in Records /\ n \in Kept /\ Version(n) = v /\ n.before = z
  BY <1>1, <1>2, NewRecord, BaselineNone
<1>4. PICK m : m = Baseline(x, n)
  OBVIOUS
<1>5. m \in Content /\ Back(Doc(x), n, Doc(m))
  BY <1>3, <1>4, BaselineFields
<1>6. /\ Doc(x)["model"] = v => Doc(z)["model"] = v
      /\ Doc(x)["url"] = v => Doc(z)["url"] = v
      /\ Doc(x)["auth"] = v => Doc(z)["auth"] = v
  BY DEF From
<1>7. /\ Doc(m)["rest"] = Doc(x)["rest"] /\ Doc(m)["model"] = Doc(x)["model"]
      /\ Doc(m)["url"] = Doc(x)["url"] /\ Doc(m)["auth"] = Doc(x)["auth"]
  BY <1>3, <1>5, <1>6 DEF Back
<1>8. Doc(m) \in Documents /\ Doc(x) \in Documents
  BY <1>5, DocFacts
<1>9. Doc(m) = Doc(x)
  BY <1>7, <1>8, SameFields
<1>10. PICK y : y = Baseline(m, u)
  OBVIOUS
<1>11. PICK w : w = Baseline(x, u)
  OBVIOUS
<1>12. w = Through(x, None, u) /\ y = Through(x, n, u)
  BY <1>4, <1>10, <1>11, BaselineNone DEF Through
<1>13. y \in Content /\ w \in Content
  BY <1>5, <1>10, <1>11, BaselineContent
<1>14. /\ Doc(y)["rest"] = Doc(m)["rest"] /\ Doc(w)["rest"] = Doc(x)["rest"]
  BY <1>5, <1>10, <1>11, BaselineKeeps
<1>15. Doc(y)["model"] = Doc(w)["model"] /\ Doc(y)["url"] = Doc(w)["url"] /\ Doc(y)["auth"] = Doc(w)["auth"]
  BY <1>5, <1>9, <1>10, <1>11, BaselineDepends
<1>16. Good(w, f, ap, o, t, c)
  BY <1>12
<1>17. t = FALSE /\ c = "agent" /\ o = Absent => y = Absent
  <2> SUFFICES ASSUME t = FALSE, c = "agent", o = Absent PROVE y = Absent
    OBVIOUS
  <2>1. u = None /\ w = Absent
    BY <1>16, Zenon DEF Good
  <2>2. x = Absent
    BY <1>11, <2>1, BaselineNone
  <2>3. m = Absent
    BY <1>3, <1>4, <2>2, BaselineExact
  <2> QED
    BY <1>10, <2>1, <2>3, BaselineNone
<1>18. /\ f \in ap => Doc(w)["auth"] # "u"
       /\ t = FALSE => /\ Doc(w)["model"] = Doc(o)["model"] /\ Doc(w)["rest"] = Doc(o)["rest"]
                       /\ f \in ap \/ (Doc(w)["url"] = Doc(o)["url"] /\ Doc(w)["auth"] = Doc(o)["auth"])
  BY <1>16, Zenon DEF Good
<1>19. Doc(y)["rest"] = Doc(w)["rest"]
  BY <1>9, <1>14
<1>20. Good(y, f, ap, o, t, c)
  BY <1>15, <1>17, <1>18, <1>19 DEF Good
<1> QED
  BY <1>2, <1>12, <1>20

\* A second record, cut before its file, still gives no endpoint the user's first
\* credential.
LEMMA CutAgain ==
    ASSUME NEW x \in Content, NEW z \in Content, NEW b \in Kept, NEW v \in Versions,
           NEW f, NEW ap, NEW o, NEW t, NEW t2, NEW c,
           From(x, z, o, t, c), Good(Through(x, b, None), f, ap, o, t, c), t2 = TRUE
    PROVE  Good(Through(x, New(z, b, v), None), f, ap, o, t2, c)
<1>1. PICK n : n = New(z, b, v)
  OBVIOUS
<1>2. n \in Records /\ Version(n) = v /\ n.before = Baseline(z, b)
  BY <1>1, NewRecord
<1>3. PICK m, w, y : m = Baseline(x, n) /\ w = Baseline(x, b) /\ y = Baseline(z, b)
  OBVIOUS
<1>4. Through(x, b, None) = w /\ Through(x, n, None) = m
  BY <1>3, BaselineNone DEF Through
<1>5. Back(Doc(x), n, Doc(m)) /\ n.before = y
  BY <1>2, <1>3, BaselineFields
<1>6. f \in ap => Doc(w)["auth"] # "u"
  BY <1>4 DEF Good
<1>7. /\ Doc(x)["url"] = v => Doc(z)["url"] = v
      /\ Doc(x)["auth"] = v => Doc(z)["auth"] = v
  BY DEF From
<1>8. Doc(x)["url"] = Doc(z)["url"] /\ Doc(x)["auth"] = Doc(z)["auth"] => Doc(w)["auth"] = Doc(y)["auth"]
  BY <1>3, BaselineDepends
<1>9. Doc(x)["auth"] = "u" => Doc(w)["auth"] = "u"
  <2>1. Doc(x)["auth"] \notin Versions => Doc(w)["auth"] = Doc(x)["auth"]
    BY <1>3, BaselineKeeps
  <2> QED
    BY <2>1, VersionFacts
<1>10. f \in ap => Doc(m)["auth"] # "u"
  BY <1>2, <1>5, <1>6, <1>7, <1>8, <1>9 DEF Back
<1>11. Good(m, f, ap, o, t2, c)
  BY <1>10, Zenon DEF Good
<1> QED
  BY <1>1, <1>4, <1>11

\* The loaded file put back over the installed one.
LEMMA PutBackLoaded ==
    ASSUME NEW z \in Content, NEW b \in Kept, NEW v \in Versions,
           NEW f, NEW ap, NEW o, NEW t, NEW c,
           From(z, New(z, b, v).after, o, t, c),
           Good(Through(z, New(z, b, v), None), f, ap, o, t, c)
    PROVE  Good(Through(z, b, None), f, ap, o, t, c)
<1>1. PICK n : n = New(z, b, v)
  OBVIOUS
<1>2. /\ n \in Records /\ Version(n) = v /\ n.before = Baseline(z, b)
      /\ n.after["url"] = v /\ n.after["auth"] = v /\ n.after["model"] = v
  BY <1>1, NewRecord
<1>3. PICK m, w : m = Baseline(z, n) /\ w = Baseline(z, b)
  OBVIOUS
<1>4. Through(z, b, None) = w /\ Through(z, n, None) = m
  BY <1>3, BaselineNone DEF Through
<1>5. m \in Content /\ w \in Content /\ Back(Doc(z), n, Doc(m)) /\ n.before = w
  BY <1>2, <1>3, BaselineFields, BaselineContent
<1>6. From(z, n.after, o, t, c) /\ Good(m, f, ap, o, t, c)
  BY <1>1, <1>4
<1>7. Doc(n.after) = n.after
  BY <1>2, RecordFacts
<1>8. /\ Doc(z)["model"] \in Versions => Doc(z)["model"] = v
      /\ Doc(z)["url"] \in Versions => Doc(z)["url"] = v
      /\ Doc(z)["auth"] \in Versions => Doc(z)["auth"] = v
  BY <1>2, <1>6, <1>7 DEF From
<1>9. /\ Doc(w)["rest"] = Doc(z)["rest"]
      /\ Doc(z)["model"] \notin Versions => Doc(w)["model"] = Doc(z)["model"]
      /\ Doc(z)["url"] \notin Versions \/ Doc(z)["auth"] \notin Versions
           => Doc(w)["url"] = Doc(z)["url"] /\ Doc(w)["auth"] = Doc(z)["auth"]
  BY <1>3, BaselineKeeps
<1>10. Doc(m)["rest"] = Doc(w)["rest"] /\ Doc(m)["model"] = Doc(w)["model"]
  BY <1>2, <1>5, <1>8, <1>9 DEF Back
<1>11. Doc(m)["url"] = Doc(w)["url"] /\ Doc(m)["auth"] = Doc(w)["auth"]
  BY <1>2, <1>5, <1>8, <1>9 DEF Back
<1>12. t = FALSE /\ c = "agent" /\ o = Absent => w = Absent
  <2> SUFFICES ASSUME t = FALSE, c = "agent", o = Absent PROVE w = Absent
    OBVIOUS
  <2>1. z = n.after /\ m = Absent
    BY <1>6, Zenon DEF Good, From
  <2>2. m = n.before
    BY <1>2, <1>3, <2>1, BaselineExact
  <2> QED
    BY <1>5, <2>1, <2>2
<1>13. /\ f \in ap => Doc(m)["auth"] # "u"
       /\ t = FALSE => /\ Doc(m)["model"] = Doc(o)["model"] /\ Doc(m)["rest"] = Doc(o)["rest"]
                       /\ f \in ap \/ (Doc(m)["url"] = Doc(o)["url"] /\ Doc(m)["auth"] = Doc(o)["auth"])
  BY <1>6, Zenon DEF Good
<1>14. Good(w, f, ap, o, t, c)
  BY <1>10, <1>11, <1>12, <1>13 DEF Good
<1> QED
  BY <1>4, <1>14

\* An installed file that the user's edits could have made was loaded as it is.
LEMMA PutBackInstalled ==
    ASSUME NEW z \in Content, NEW b \in Kept, NEW v \in Versions, NEW o, NEW t, NEW c,
           From(New(z, b, v).after, z, o, t, c)
    PROVE  z = New(z, b, v).after
<1>1. PICK n : n = New(z, b, v)
  OBVIOUS
<1>2. /\ n \in Records
      /\ n.after["url"] = v /\ n.after["auth"] = v /\ n.after["model"] = v /\ n.after["rest"] = Doc(z)["rest"]
  BY <1>1, NewRecord
<1>3. Doc(n.after) = n.after /\ n.after \in Documents
  BY <1>2, RecordFacts
<1>4. From(n.after, z, o, t, c)
  BY <1>1
<1>5. Doc(z)["url"] = v /\ Doc(z)["auth"] = v /\ Doc(z)["model"] = v
  BY <1>2, <1>3, <1>4 DEF From
<1>6. Doc(z) \in Documents
  BY DocFacts
<1>7. Doc(z) = n.after
  BY <1>2, <1>3, <1>5, <1>6, SameFields
<1>8. z # Absent
  <2> SUFFICES ASSUME z = Absent PROVE FALSE
    OBVIOUS
  <2>1. Doc(z)["url"] = "-"
    BY DocFacts, FieldFacts
  <2> QED
    BY <1>5, <2>1, VersionFacts
<1>9. Doc(z) = z
  BY <1>8, DocFacts
<1> QED
  BY <1>1, <1>7, <1>9

\* What restoration wrote stays what it is, with the record or without it.
LEMMA RestoredGood ==
    ASSUME NEW z \in Content, NEW y \in Content, NEW r \in Records, NEW u \in Kept,
           NEW f, NEW ap, NEW o, NEW t, NEW c,
           Doc(y) = Doc(Restored(z, r)),
           c = "agent" => y = Restored(z, r) /\ u = None,
           Good(Through(z, r, u), f, ap, o, t, c)
    PROVE  Good(Through(y, r, u), f, ap, o, t, c) /\ Good(Through(y, None, u), f, ap, o, t, c)
<1>1. PICK m, k : m = Baseline(z, r) /\ k = Baseline(y, r)
  OBVIOUS
<1>2. /\ m \in Content /\ k \in Content /\ m = Restored(z, r) /\ Doc(y) = Doc(m)
      /\ Back(Doc(z), r, Doc(m)) /\ Back(Doc(y), r, Doc(k)) /\ r \in Kept
  BY <1>1, BaselineFields DEF Kept
<1>3. /\ Doc(k)["rest"] = Doc(m)["rest"] /\ Doc(k)["model"] = Doc(m)["model"]
      /\ Doc(k)["url"] = Doc(m)["url"] /\ Doc(k)["auth"] = Doc(m)["auth"]
  BY <1>2 DEF Back
<1>4. PICK a, d, e : a = Baseline(m, u) /\ d = Baseline(k, u) /\ e = Baseline(y, u)
  OBVIOUS
<1>5. Through(z, r, u) = a /\ Through(y, r, u) = d /\ Through(y, None, u) = e
  BY <1>1, <1>4, BaselineNone DEF Through
<1>6. Doc(a)["rest"] = Doc(m)["rest"] /\ Doc(d)["rest"] = Doc(k)["rest"] /\ Doc(e)["rest"] = Doc(y)["rest"]
  BY <1>2, <1>4, BaselineKeeps
<1>7. Doc(d)["model"] = Doc(a)["model"] /\ Doc(d)["url"] = Doc(a)["url"] /\ Doc(d)["auth"] = Doc(a)["auth"]
  BY <1>2, <1>3, <1>4, BaselineDepends
<1>8. Doc(e)["model"] = Doc(a)["model"] /\ Doc(e)["url"] = Doc(a)["url"] /\ Doc(e)["auth"] = Doc(a)["auth"]
  BY <1>2, <1>4, BaselineDepends
<1>9. Doc(d)["rest"] = Doc(a)["rest"] /\ Doc(e)["rest"] = Doc(a)["rest"]
  BY <1>2, <1>3, <1>6
<1>10. Good(a, f, ap, o, t, c)
  BY <1>5
<1>11. t = FALSE /\ c = "agent" /\ o = Absent => d = Absent /\ e = Absent
  <2> SUFFICES ASSUME t = FALSE, c = "agent", o = Absent PROVE d = Absent /\ e = Absent
    OBVIOUS
  <2>1. a = Absent /\ u = None /\ y = m
    BY <1>2, <1>10, Zenon DEF Good
  <2>2. y = Absent
    BY <1>4, <2>1, BaselineNone
  <2>3. k = Absent
    BY <1>1, <2>2, BaselineExact
  <2> QED
    BY <1>4, <2>1, <2>2, <2>3, BaselineNone
<1>12. /\ f \in ap => Doc(a)["auth"] # "u"
       /\ t = FALSE => /\ Doc(a)["model"] = Doc(o)["model"] /\ Doc(a)["rest"] = Doc(o)["rest"]
                       /\ f \in ap \/ (Doc(a)["url"] = Doc(o)["url"] /\ Doc(a)["auth"] = Doc(o)["auth"])
  BY <1>10, Zenon DEF Good
<1>13. Good(d, f, ap, o, t, c)
  BY <1>7, <1>9, <1>11, <1>12 DEF Good
<1>14. Good(e, f, ap, o, t, c)
  BY <1>8, <1>9, <1>11, <1>12 DEF Good
<1> QED
  BY <1>5, <1>13, <1>14

-----------------------------------------------------------------------------
(* The inductive invariant *)

Ops == {"none", "configure", "desktop", "unconfigure"}
Installing == {"journal", "file", "undoFile", "undoJournal"}
Working == Installing \cup {"restore", "remove"}
Commands ==
    [op: Ops, pc: Working \cup {"idle", "confirm", "plan", "await"}, version: Versions \cup {"-"},
     raw: [{1, 2} -> Content], old: [{1, 2} -> Kept], at: {1, 2}, temporary: BOOLEAN]

\* The record a command works with, the one below it, and the one it writes.
Rec(c, s, j) == IF c.temporary THEN s ELSE j
Under(c, j) == IF c.temporary THEN j ELSE None
Installs(c, f) == New(c.raw[f], c.old[f], c.version)

\* Of the file x with the record r above u, at the step pc of a command that has
\* come to the file at, loaded z with the record b and writes the record n: the
\* file is as it was loaded, is as it was installed, or its record is written and
\* the file not. What a restoring command has not removed yet is already undone.
Untouched(x, r, u, z, b, f, ap, o, t, c) ==
    r = b /\ From(x, z, o, t, c) /\ Good(Through(x, r, u), f, ap, o, t, c)
Installed(x, r, u, n, f, ap, o, t, c) ==
    r = n /\ From(x, n.after, o, t, c) /\ Good(Through(x, r, u), f, ap, o, t, c)
Begun(x, r, u, z, b, n, f, ap, o, t, c) ==
    r \in {b, n} /\ From(x, z, o, t, c) /\ Good(Through(x, b, u), f, ap, o, t, c)

View(pc, at, x, r, u, z, b, n, f, ap, o, t, c) ==
    /\ pc \in Installing /\ f < at => Installed(x, r, u, n, f, ap, o, t, c)
    /\ pc = "journal" /\ f >= at => Untouched(x, r, u, z, b, f, ap, o, t, c)
    /\ pc = "file" /\ f > at => Untouched(x, r, u, z, b, f, ap, o, t, c)
    /\ pc = "file" /\ f = at => r = n /\ Begun(x, r, u, z, b, n, f, ap, o, t, c)
    /\ pc = "undoFile" /\ f = at => \/ Begun(x, r, u, z, b, n, f, ap, o, t, c)
                                    \/ Installed(x, r, u, n, f, ap, o, t, c)
    /\ pc = "undoJournal" /\ f = at => Begun(x, r, u, z, b, n, f, ap, o, t, c)
    /\ pc \in {"undoFile", "undoJournal"} /\ f > at => Good(Through(x, r, u), f, ap, o, t, c)
    /\ pc \in {"restore", "remove"} => Good(Through(x, r, u), f, ap, o, t, c)
    /\ pc = "restore" => r = b
    /\ (pc = "restore" /\ f < at) \/ (pc = "remove" /\ f >= at) => Good(Through(x, None, u), f, ap, o, t, c)

\* What a command knows of the file f; s is the temporary record.
Status(c, f, x, s, j, ap, o, t, cl) ==
    c.pc \in Working =>
        View(c.pc, c.at, x, Rec(c, s, j), Under(c, j), c.raw[f], c.old[f], Installs(c, f), f, ap, o, t, cl)

\* What is known of a command by itself.
Sound(c, cl, s) ==
    /\ c.pc # "idle" => c.op # "none"
    /\ c.op \in {"configure", "desktop"} => c.version \in Versions
    /\ c.op = "configure" => c.temporary = FALSE
    /\ c.op = "desktop" => c.temporary = TRUE
    /\ c.temporary = TRUE => cl = "codex"
    /\ c.pc \in Installing => /\ c.op # "unconfigure"
                              /\ c.temporary = TRUE => c.old[1] = None
    /\ c.pc = "undoFile" => cl = "agent"
    /\ c.pc = "await" => c.op = "desktop"
    /\ c.at = 2 => cl = "agent" /\ c.pc \in Working
    /\ c.pc # "idle" /\ c.temporary = FALSE => s = None

\* The command that excludes the others: by the lock, or, for Codex, alone.
Holds(c, cl) == c.pc # "idle" /\ (cl = "agent" => c.pc # "confirm") /\ (cl = "codex" => c.pc # "await")

ConfigTypes ==
    /\ client \in {"agent", "codex"}
    /\ file \in [{1, 2} -> Content] /\ own \in [{1, 2} -> Content]
    /\ journal \in [{1, 2} -> Kept] /\ temporary \in Kept
    /\ cmd \in [Processes -> Commands]
    /\ lock \subseteq Processes /\ apart \subseteq Files /\ torn \in BOOLEAN
    /\ client = "agent" => temporary = None

OneHolder ==
    /\ \A p \in Processes : p \in lock <=> client = "agent" /\ Holds(cmd[p], client)
    /\ \A p, q \in Processes : Holds(cmd[p], client) /\ Holds(cmd[q], client) => p = q

FileInv(f) ==
    /\ (\A p \in Processes : cmd[p].pc \notin Working)
         => Good(Through(file[f], temporary, journal[f]), f, apart, own[f], torn, client)
    /\ \A p \in Processes : Status(cmd[p], f, file[f], temporary, journal[f], apart, own[f], torn, client)

ConfigInv ==
    /\ ConfigTypes /\ OneHolder
    /\ \A p \in Processes : Sound(cmd[p], client, temporary)
    /\ \A f \in Files : FileInv(f)

-----------------------------------------------------------------------------
(* Each step, for one file *)

LEMMA ViewEdited ==
    ASSUME NEW pc, NEW at, NEW x \in Content, NEW r \in Kept, NEW u \in Kept, NEW z, NEW b \in Kept, NEW n,
           NEW o \in Content, NEW k \in Fields, NEW w \in UserValues,
           NEW f, NEW ap, NEW ap2, NEW t, NEW c,
           f \in ap2 <=> (f \in ap \/ (k \in Group /\ (Doc(x)["url"] \in Versions \/ Doc(x)["auth"] \in Versions))),
           View(pc, at, x, r, u, z, b, n, f, ap, o, t, c)
    PROVE  View(pc, at, Edited(x, k, w), r, u, z, b, n, f, ap2, Edited(o, k, w), t, c)
<1>1. None \in Kept
  BY DEF Kept
<1>2. PICK y, p : y = Edited(x, k, w) /\ p = Edited(o, k, w)
  OBVIOUS
<1>3. Good(Through(x, r, u), f, ap, o, t, c) => Good(Through(y, r, u), f, ap2, p, t, c)
  BY <1>2, GoodEdited
<1>4. Good(Through(x, b, u), f, ap, o, t, c) => Good(Through(y, b, u), f, ap2, p, t, c)
  BY <1>2, GoodEdited
<1>5. Good(Through(x, None, u), f, ap, o, t, c) => Good(Through(y, None, u), f, ap2, p, t, c)
  BY <1>1, <1>2, GoodEdited
<1>6. From(x, z, o, t, c) => From(y, z, p, t, c)
  BY <1>2, FromEdited
<1>7. From(x, n.after, o, t, c) => From(y, n.after, p, t, c)
  BY <1>2, FromEdited
<1>8. Untouched(x, r, u, z, b, f, ap, o, t, c) => Untouched(y, r, u, z, b, f, ap2, p, t, c)
  BY <1>3, <1>6, Zenon DEF Untouched
<1>9. Installed(x, r, u, n, f, ap, o, t, c) => Installed(y, r, u, n, f, ap2, p, t, c)
  BY <1>3, <1>7, Zenon DEF Installed
<1>10. Begun(x, r, u, z, b, n, f, ap, o, t, c) => Begun(y, r, u, z, b, n, f, ap2, p, t, c)
  BY <1>4, <1>6, Zenon DEF Begun
<1>11. View(pc, at, y, r, u, z, b, n, f, ap2, p, t, c)
  BY <1>3, <1>5, <1>8, <1>9, <1>10, Zenon DEF View
<1> QED
  BY <1>2, <1>11

LEMMA ViewWeaker ==
    ASSUME NEW pc, NEW at, NEW x, NEW r, NEW u, NEW z, NEW b, NEW n, NEW o,
           NEW f, NEW ap, NEW ap2, NEW t, NEW t2, NEW c,
           f \in ap2 <=> f \in ap, t2 = FALSE => t = FALSE,
           View(pc, at, x, r, u, z, b, n, f, ap, o, t, c)
    PROVE  View(pc, at, x, r, u, z, b, n, f, ap2, o, t2, c)
<1>1. Good(Through(x, r, u), f, ap, o, t, c) => Good(Through(x, r, u), f, ap2, o, t2, c)
  BY GoodWeaker
<1>2. Good(Through(x, b, u), f, ap, o, t, c) => Good(Through(x, b, u), f, ap2, o, t2, c)
  BY GoodWeaker
<1>3. Good(Through(x, None, u), f, ap, o, t, c) => Good(Through(x, None, u), f, ap2, o, t2, c)
  BY GoodWeaker
<1>4. From(x, z, o, t, c) => From(x, z, o, t2, c)
  BY FromWeaker
<1>5. From(x, n.after, o, t, c) => From(x, n.after, o, t2, c)
  BY FromWeaker
<1>6. Untouched(x, r, u, z, b, f, ap, o, t, c) => Untouched(x, r, u, z, b, f, ap2, o, t2, c)
  BY <1>1, <1>4, Zenon DEF Untouched
<1>7. Installed(x, r, u, n, f, ap, o, t, c) => Installed(x, r, u, n, f, ap2, o, t2, c)
  BY <1>1, <1>5, Zenon DEF Installed
<1>8. Begun(x, r, u, z, b, n, f, ap, o, t, c) => Begun(x, r, u, z, b, n, f, ap2, o, t2, c)
  BY <1>2, <1>4, Zenon DEF Begun
<1> QED
  BY <1>1, <1>3, <1>6, <1>7, <1>8, Zenon DEF View

\* Steps that only move on.
LEMMA ViewMoves ==
    ASSUME NEW at \in {1, 2}, NEW x, NEW r, NEW u, NEW z, NEW b, NEW n,
           NEW f \in {1, 2}, NEW ap, NEW o, NEW t, NEW c
    PROVE  /\ View("journal", at, x, r, u, z, b, n, f, ap, o, t, c) \/ View("file", at, x, r, u, z, b, n, f, ap, o, t, c)
                => /\ View("undoFile", at, x, r, u, z, b, n, f, ap, o, t, c)
                   /\ View("undoJournal", at, x, r, u, z, b, n, f, ap, o, t, c)
           /\ \A r2 : /\ View("journal", at, x, r, u, z, b, n, f, ap, o, t, c)
                      /\ r2 = IF f = at THEN n ELSE r
                      => View("file", at, x, r2, u, z, b, n, f, ap, o, t, c)
<1>1. /\ Untouched(x, r, u, z, b, f, ap, o, t, c) => Begun(x, r, u, z, b, n, f, ap, o, t, c)
      /\ Untouched(x, r, u, z, b, f, ap, o, t, c) => Begun(x, n, u, z, b, n, f, ap, o, t, c)
      /\ Untouched(x, r, u, z, b, f, ap, o, t, c) => Good(Through(x, r, u), f, ap, o, t, c)
  BY DEF Untouched, Begun
<1>2. /\ f < at \/ f = at \/ f > at
      /\ f >= at <=> f = at \/ f > at
      /\ ~(f < at /\ f = at) /\ ~(f < at /\ f > at) /\ ~(f = at /\ f > at)
  OBVIOUS
<1>3. "journal" \in Installing /\ "file" \in Installing
  BY DEF Installing
<1>4. ASSUME View("journal", at, x, r, u, z, b, n, f, ap, o, t, c) \/ View("file", at, x, r, u, z, b, n, f, ap, o, t, c)
      PROVE  /\ f < at => Installed(x, r, u, n, f, ap, o, t, c)
             /\ f = at => Begun(x, r, u, z, b, n, f, ap, o, t, c)
             /\ f > at => Good(Through(x, r, u), f, ap, o, t, c)
  BY <1>1, <1>2, <1>3, <1>4, Zenon DEF View
<1>5. ASSUME NEW r2, View("journal", at, x, r, u, z, b, n, f, ap, o, t, c), r2 = IF f = at THEN n ELSE r
      PROVE  /\ f < at => Installed(x, r2, u, n, f, ap, o, t, c)
             /\ f = at => r2 = n /\ Begun(x, r2, u, z, b, n, f, ap, o, t, c)
             /\ f > at => Untouched(x, r2, u, z, b, f, ap, o, t, c)
  BY <1>1, <1>2, <1>3, <1>5, Zenon DEF View
<1>6. ASSUME NEW r2, /\ f < at => Installed(x, r2, u, n, f, ap, o, t, c)
                     /\ f = at => r2 = n /\ Begun(x, r2, u, z, b, n, f, ap, o, t, c)
                     /\ f > at => Untouched(x, r2, u, z, b, f, ap, o, t, c)
      PROVE  View("file", at, x, r2, u, z, b, n, f, ap, o, t, c)
  BY <1>2, <1>6, SMT DEF View, Installing
<1>7. ASSUME /\ f < at => Installed(x, r, u, n, f, ap, o, t, c)
             /\ f = at => Begun(x, r, u, z, b, n, f, ap, o, t, c)
             /\ f > at => Good(Through(x, r, u), f, ap, o, t, c)
      PROVE  /\ View("undoFile", at, x, r, u, z, b, n, f, ap, o, t, c)
             /\ View("undoJournal", at, x, r, u, z, b, n, f, ap, o, t, c)
  BY <1>2, <1>7, SMT DEF View, Installing
<1> QED
  BY <1>4, <1>5, <1>6, <1>7, Zenon

\* Of what the history records of the file f when x is overwritten: nothing, or
\* the user's loss.
Noted(f, ap, ap2, t, t2, lost) ==
    IF lost THEN f \notin ap2 /\ t2 = TRUE ELSE (f \in ap2 <=> f \in ap) /\ (t2 = FALSE => t = FALSE)

\* WriteFile
LEMMA ViewWrites ==
    ASSUME NEW at \in {1, 2}, NEW x, NEW x2, NEW u, NEW z \in Content, NEW b \in Kept, NEW v \in Versions,
           NEW n, n = New(z, b, v), NEW r,
           NEW f \in {1, 2}, NEW ap, NEW ap2, NEW o, NEW o2, NEW t, NEW t2, NEW c,
           View("file", at, x, r, u, z, b, n, f, ap, o, t, c),
           x2 = IF f = at THEN n.after ELSE x,
           f # at \/ x = z => o2 = o,
           Noted(f, ap, ap2, t, t2, f = at /\ x # z)
    PROVE  /\ f <= at => Installed(x2, r, u, n, f, ap2, o2, t2, c)
           /\ f > at => Untouched(x2, r, u, z, b, f, ap2, o2, t2, c)
<1>1. View("file", at, x, r, u, z, b, n, f, ap2, o, t2, c) \/ (f = at /\ x # z)
  BY ViewWeaker, Zenon DEF Noted
<1>2. CASE f < at
  <2>1. Installed(x, r, u, n, f, ap2, o, t2, c)
    BY <1>1, <1>2 DEF View, Installing
  <2> QED
    BY <1>2, <2>1
<1>3. CASE f > at
  <2>1. Untouched(x, r, u, z, b, f, ap2, o, t2, c)
    BY <1>1, <1>3 DEF View
  <2> QED
    BY <1>3, <2>1
<1>4. CASE f = at
  <2>1. r = n /\ Good(Through(x, b, u), f, ap, o, t, c)
    BY <1>4 DEF View, Begun
  <2>2. x2 = n.after /\ From(x2, n.after, o2, t2, c)
    BY <1>4, FromSelf
  <2>3. CASE x = z
    <3>1. Good(Through(z, b, u), f, ap2, o, t2, c) /\ o2 = o
      BY <1>4, <2>1, <2>3, GoodWeaker DEF Noted
    <3>2. Good(Through(n.after, n, u), f, ap2, o, t2, c)
      BY <3>1, InstalledGood
    <3> QED
      BY <1>4, <2>1, <2>2, <3>1, <3>2 DEF Installed
  <2>4. CASE x # z
    <3>1. Good(Through(x2, r, u), f, ap2, o2, t2, c)
      BY <1>4, <2>4, GoodLost DEF Noted
    <3> QED
      BY <1>4, <2>1, <2>2, <3>1 DEF Installed
  <2> QED
    BY <2>3, <2>4
<1> QED
  BY <1>2, <1>3, <1>4

\* UndoFile
LEMMA ViewPutsBack ==
    ASSUME NEW at \in {1, 2}, NEW x, NEW x2, NEW u, u = None, NEW z \in Content, NEW b \in Kept,
           NEW v \in Versions, NEW n, n = New(z, b, v), NEW r,
           NEW f \in {1, 2}, NEW ap, NEW ap2, NEW o, NEW t, NEW t2, NEW c,
           View("undoFile", at, x, r, u, z, b, n, f, ap, o, t, c),
           x2 = IF f = at THEN z ELSE x,
           Noted(f, ap, ap2, t, t2, f = at /\ x \notin {z, n.after})
    PROVE  View("undoJournal", at, x2, r, u, z, b, n, f, ap2, o, t2, c)
<1>1. CASE f # at
  <2>1. View("undoFile", at, x, r, u, z, b, n, f, ap2, o, t2, c) /\ x2 = x
    BY <1>1, ViewWeaker, Zenon DEF Noted
  <2>2. /\ f < at => Installed(x2, r, u, n, f, ap2, o, t2, c)
        /\ f > at => Good(Through(x2, r, u), f, ap2, o, t2, c)
    BY <2>1 DEF View, Installing
  <2> QED
    BY <1>1, <2>2 DEF View
<1>2. CASE f = at
  <2>1. /\ \/ Begun(x, r, u, z, b, n, f, ap, o, t, c)
           \/ Installed(x, r, u, n, f, ap, o, t, c)
        /\ x2 = z
    BY <1>2 DEF View
  <2>2. r \in {b, n} /\ From(x2, z, o, t2, c)
    BY <2>1, FromSelf DEF Begun, Installed
  <2>3. CASE x \notin {z, n.after}
    <3>1. Good(Through(x2, b, u), f, ap2, o, t2, c)
      BY <1>2, <2>3, GoodLost DEF Noted
    <3> QED
      BY <1>2, <2>2, <3>1 DEF View, Begun
  <2>4. CASE x \in {z, n.after}
    <3>1. Good(Through(z, b, u), f, ap, o, t, c)
      <4>1. CASE Begun(x, r, u, z, b, n, f, ap, o, t, c) /\ x = z
        BY <4>1 DEF Begun
      <4>2. CASE Begun(x, r, u, z, b, n, f, ap, o, t, c) /\ x = n.after
        <5>1. From(n.after, z, o, t, c)
          BY <4>2 DEF Begun
        <5>2. z = n.after
          BY <5>1, PutBackInstalled
        <5> QED
          BY <4>2, <5>2 DEF Begun
      <4>3. CASE Installed(x, r, u, n, f, ap, o, t, c) /\ x = z
        <5>1. From(z, n.after, o, t, c) /\ Good(Through(z, n, None), f, ap, o, t, c)
          BY <4>3 DEF Installed
        <5> QED
          BY <5>1, PutBackLoaded
      <4>4. CASE Installed(x, r, u, n, f, ap, o, t, c) /\ x = n.after
        <5>1. Good(Through(n.after, n, u), f, ap, o, t, c)
          BY <4>4 DEF Installed
        <5> QED
          BY <5>1, InstalledGood
      <4> QED
        BY <2>1, <2>4, <4>1, <4>2, <4>3, <4>4
    <3>2. Good(Through(x2, b, u), f, ap2, o, t2, c)
      BY <2>1, <2>4, <3>1, GoodWeaker DEF Noted
    <3> QED
      BY <1>2, <2>2, <3>2 DEF View, Begun
  <2> QED
    BY <2>3, <2>4
<1> QED
  BY <1>1, <1>2

\* UndoJournal
LEMMA ViewForgets ==
    ASSUME NEW at \in {1, 2}, NEW x, NEW u, NEW z, NEW b, NEW n, NEW r, NEW r2,
           NEW f \in {1, 2}, NEW ap, NEW o, NEW t, NEW c,
           View("undoJournal", at, x, r, u, z, b, n, f, ap, o, t, c),
           r2 = IF f = at THEN b ELSE r
    PROVE  /\ f < at => Installed(x, r2, u, n, f, ap, o, t, c)
           /\ f >= at => Good(Through(x, r2, u), f, ap, o, t, c)
<1>1. CASE f < at
  BY <1>1 DEF View, Installing
<1>2. CASE f = at
  BY <1>2 DEF View, Begun
<1>3. CASE f > at
  BY <1>3 DEF View
<1> QED
  BY <1>1, <1>2, <1>3

\* RestoreFile; y is what it writes.
Restores(x, x2, y, u, z, b, f, at, c, ap, ap2, t, t2) ==
    /\ x \in Content /\ u \in Kept /\ z \in Content /\ b \in Kept
    /\ Noted(f, ap, ap2, t, t2, f = at /\ b # None /\ x # z)
    /\ x2 = IF f = at /\ b # None THEN y ELSE x
    /\ b # None => y \in Content /\ Doc(y) = Doc(Restored(z, b))
    /\ c = "agent" => u = None /\ (b # None => y = Restored(z, b))

LEMMA ViewRestores ==
    ASSUME NEW at \in {1, 2}, NEW x, NEW x2, NEW y, NEW u, NEW z, NEW b,
           NEW n, NEW r, NEW f \in {1, 2}, NEW ap, NEW ap2, NEW o, NEW t, NEW t2, NEW c,
           View("restore", at, x, r, u, z, b, n, f, ap, o, t, c),
           Restores(x, x2, y, u, z, b, f, at, c, ap, ap2, t, t2)
    PROVE  /\ r = b /\ Good(Through(x2, r, u), f, ap2, o, t2, c)
           /\ f <= at => Good(Through(x2, None, u), f, ap2, o, t2, c)
<1>0. /\ x \in Content /\ u \in Kept /\ z \in Content /\ b \in Kept
      /\ Noted(f, ap, ap2, t, t2, f = at /\ b # None /\ x # z)
      /\ x2 = IF f = at /\ b # None THEN y ELSE x
      /\ b # None => y \in Content /\ Doc(y) = Doc(Restored(z, b))
      /\ c = "agent" => u = None /\ (b # None => y = Restored(z, b))
  BY Zenon DEF Restores
<1>1. r = b /\ Good(Through(x, r, u), f, ap, o, t, c) /\ (f < at => Good(Through(x, None, u), f, ap, o, t, c))
  BY DEF View
<1>2. CASE f = at /\ b # None /\ x # z
  BY <1>0, <1>1, <1>2, GoodLost DEF Noted
<1>3. CASE f = at /\ b # None /\ x = z
  <2>1. b \in Records /\ x2 = y /\ y \in Content
    BY <1>0, <1>3 DEF Kept
  <2>2. Good(Through(z, b, u), f, ap2, o, t2, c)
    BY <1>0, <1>1, <1>3, GoodWeaker DEF Noted
  <2>3. Good(Through(y, b, u), f, ap2, o, t2, c) /\ Good(Through(y, None, u), f, ap2, o, t2, c)
    BY <1>0, <1>3, <2>1, <2>2, RestoredGood
  <2> QED
    BY <1>1, <2>1, <2>3
<1>4. CASE ~(f = at /\ b # None)
  <2>1. x2 = x /\ (f \in ap2 <=> f \in ap) /\ (t2 = FALSE => t = FALSE)
    BY <1>0, <1>4, Zenon DEF Noted
  <2>2. Good(Through(x2, r, u), f, ap2, o, t2, c) /\ (f < at => Good(Through(x2, None, u), f, ap2, o, t2, c))
    BY <1>1, <2>1, GoodWeaker
  <2>3. f = at => r = None
    BY <1>1, <1>4
  <2> QED
    BY <1>1, <2>2, <2>3
<1> QED
  BY <1>2, <1>3, <1>4

\* RestoreFails; y is what was written before, in a file that goes back.
GivesUp(x, x2, y, u, z, b, f, at, ap, ap2, t, t2) ==
    /\ Noted(f, ap, ap2, t, t2, f < at /\ b # None /\ x # y)
    /\ x2 = IF f < at /\ b # None THEN z ELSE x
    /\ f < at /\ b # None => u = None /\ y = Restored(z, b)

LEMMA ViewGivesUp ==
    ASSUME NEW at \in {1, 2}, NEW x, NEW x2, NEW y, NEW u, NEW z \in Content, NEW b \in Kept,
           NEW n, NEW r, NEW f \in {1, 2}, NEW ap, NEW ap2, NEW o, NEW t, NEW t2, NEW c,
           View("restore", at, x, r, u, z, b, n, f, ap, o, t, c),
           GivesUp(x, x2, y, u, z, b, f, at, ap, ap2, t, t2)
    PROVE  Good(Through(x2, r, u), f, ap2, o, t2, c)
<1>0. /\ Noted(f, ap, ap2, t, t2, f < at /\ b # None /\ x # y)
      /\ x2 = IF f < at /\ b # None THEN z ELSE x
      /\ f < at /\ b # None => u = None /\ y = Restored(z, b)
  BY Zenon DEF GivesUp
<1>1. r = b /\ Good(Through(x, r, u), f, ap, o, t, c) /\ (f < at => Good(Through(x, None, u), f, ap, o, t, c))
  BY DEF View
<1>2. CASE f < at /\ b # None /\ x # y
  BY <1>0, <1>2, GoodLost DEF Noted
<1>3. CASE f < at /\ b # None /\ x = y
  <2>1. b \in Records /\ x2 = z /\ u = None /\ x = Restored(z, b)
    BY <1>0, <1>3 DEF Kept
  <2>2. Baseline(z, b) = x
    BY <2>1, BaselineFields
  <2>3. Through(x2, r, u) = Through(x, None, u)
    BY <1>1, <2>1, <2>2, BaselineNone DEF Through
  <2>4. Good(Through(x, None, u), f, ap2, o, t2, c)
    BY <1>0, <1>1, <1>3, GoodWeaker DEF Noted
  <2> QED
    BY <2>3, <2>4
<1>4. CASE ~(f < at /\ b # None)
  <2>1. x2 = x /\ (f \in ap2 <=> f \in ap) /\ (t2 = FALSE => t = FALSE)
    BY <1>0, <1>4, Zenon DEF Noted
  <2> QED
    BY <1>1, <2>1, GoodWeaker
<1> QED
  BY <1>2, <1>3, <1>4

\* RemoveJournal
LEMMA ViewRemoves ==
    ASSUME NEW at \in {1, 2}, NEW x, NEW u, NEW z, NEW b, NEW n, NEW r, NEW r2,
           NEW f \in {1, 2}, NEW ap, NEW o, NEW t, NEW c,
           View("remove", at, x, r, u, z, b, n, f, ap, o, t, c),
           r2 = IF f = at THEN None ELSE r
    PROVE  /\ Good(Through(x, r2, u), f, ap, o, t, c)
           /\ f > at => Good(Through(x, None, u), f, ap, o, t, c)
BY DEF View

\* Kill
LEMMA ViewDies ==
    ASSUME NEW pc \in Working, NEW at \in {1, 2}, NEW x \in Content, NEW u \in Kept, NEW z \in Content, NEW b \in Kept,
           NEW v, pc \in Installing => v \in Versions,
           NEW n, n = New(z, b, v), NEW r, NEW f \in {1, 2}, NEW ap, NEW o, NEW t, NEW t2, NEW c,
           View(pc, at, x, r, u, z, b, n, f, ap, o, t, c),
           c = "agent" => u = None,
           pc \in Installing /\ f = at /\ b # None => u = None,
           t2 = FALSE => t = FALSE,
           pc \in {"file", "undoFile", "undoJournal"} /\ f = at /\ b # None => t2 = TRUE
    PROVE  Good(Through(x, r, u), f, ap, o, t2, c)
<1>1. CASE Good(Through(x, r, u), f, ap, o, t, c)
  BY <1>1, GoodWeaker
<1>2. CASE pc \in {"file", "undoFile", "undoJournal"} /\ f = at /\ Begun(x, r, u, z, b, n, f, ap, o, t, c)
  <2>1. /\ r \in {b, n} /\ From(x, z, o, t, c) /\ Good(Through(x, b, u), f, ap, o, t, c)
        /\ pc \in Installing /\ v \in Versions
    BY <1>2 DEF Begun, Installing
  <2>2. CASE r = b
    BY <2>1, <2>2, GoodWeaker
  <2>3. CASE r = n /\ b = None
    <3>1. Good(Through(x, n, u), f, ap, o, t, c)
      BY <2>1, <2>3, CutFirst
    <3> QED
      BY <2>3, <3>1, GoodWeaker
  <2>4. CASE r = n /\ b # None
    <3>1. u = None /\ t2 = TRUE
      BY <1>2, <2>1, <2>4
    <3>2. Good(Through(x, n, None), f, ap, o, t2, c)
      BY <2>1, <3>1, CutAgain
    <3> QED
      BY <2>4, <3>1, <3>2
  <2> QED
    BY <2>1, <2>2, <2>3, <2>4
<1>3. f < at \/ f = at \/ f > at
  OBVIOUS
<1>4. f < at /\ pc \in Installing => Good(Through(x, r, u), f, ap, o, t, c)
  BY DEF View, Installed
<1>5. pc = "journal" => Good(Through(x, r, u), f, ap, o, t, c)
  BY <1>4 DEF View, Untouched, Installing
<1>6. f > at => Good(Through(x, r, u), f, ap, o, t, c)
  BY <1>5 DEF View, Untouched, Working, Installing
<1>7. pc \in {"restore", "remove"} => Good(Through(x, r, u), f, ap, o, t, c)
  BY DEF View
<1>8. f = at /\ pc \in {"file", "undoFile", "undoJournal"} =>
        Begun(x, r, u, z, b, n, f, ap, o, t, c) \/ Good(Through(x, r, u), f, ap, o, t, c)
  BY DEF View, Installed
<1> QED
  BY <1>1, <1>2, <1>3, <1>4, <1>5, <1>6, <1>7, <1>8 DEF Working, Installing

-----------------------------------------------------------------------------
(* Commands *)

Steps == Working \cup {"idle", "confirm", "plan", "await"}
Moved(c, pc, at) == [c EXCEPT !.pc = pc, !.at = at]

LEMMA CommandFacts ==
    ASSUME NEW c \in Commands
    PROVE  /\ c.op \in Ops /\ c.pc \in Steps /\ c.version \in Versions \cup {"-"} /\ c.at \in {1, 2}
           /\ c.raw \in [{1, 2} -> Content] /\ c.old \in [{1, 2} -> Kept] /\ c.temporary \in BOOLEAN
           /\ \A f \in {1, 2} : c.raw[f] \in Content /\ c.old[f] \in Kept
BY DEF Commands, Steps

LEMMA MovedFacts ==
    ASSUME NEW c \in Commands, NEW pc \in Steps, NEW at \in {1, 2}
    PROVE  LET d == Moved(c, pc, at) IN
           /\ d \in Commands /\ d.pc = pc /\ d.at = at /\ d.op = c.op /\ d.version = c.version
           /\ d.raw = c.raw /\ d.old = c.old /\ d.temporary = c.temporary
<1>1. Moved(c, pc, at) \in Commands
  BY DEF Moved, Commands, Steps
<1>2. /\ Moved(c, pc, at).pc = pc /\ Moved(c, pc, at).at = at /\ Moved(c, pc, at).op = c.op
      /\ Moved(c, pc, at).version = c.version /\ Moved(c, pc, at).raw = c.raw
      /\ Moved(c, pc, at).old = c.old /\ Moved(c, pc, at).temporary = c.temporary
  BY DEF Moved, Commands
<1> QED
  BY <1>1, <1>2

LEMMA MovedSame ==
    ASSUME NEW c \in Commands, NEW pc \in Steps, NEW at \in {1, 2}
    PROVE  /\ \A s, j : Rec(Moved(c, pc, at), s, j) = Rec(c, s, j)
           /\ \A j : Under(Moved(c, pc, at), j) = Under(c, j)
           /\ \A f : Installs(Moved(c, pc, at), f) = Installs(c, f)
BY MovedFacts DEF Rec, Under, Installs

LEMMA NoCommandFacts ==
    /\ NoCommand \in Commands /\ NoCommand.pc = "idle" /\ NoCommand.op = "none" /\ NoCommand.at = 1
    /\ NoCommand.version = "-" /\ NoCommand.temporary = FALSE
    /\ NoCommand.raw = [f \in {1, 2} |-> Absent] /\ NoCommand.old = [f \in {1, 2} |-> None]
<1>1. /\ NoCommand.pc = "idle" /\ NoCommand.op = "none" /\ NoCommand.at = 1
      /\ NoCommand.version = "-" /\ NoCommand.temporary = FALSE
      /\ NoCommand.raw = [f \in {1, 2} |-> Absent] /\ NoCommand.old = [f \in {1, 2} |-> None]
  BY DEF NoCommand, NoRecords
<1>2. [f \in {1, 2} |-> Absent] \in [{1, 2} -> Content] /\ [f \in {1, 2} |-> None] \in [{1, 2} -> Kept]
  BY DEF Content, Kept
<1>3. NoCommand \in Commands
  BY <1>2 DEF NoCommand, NoRecords, Commands, Ops
<1> QED
  BY <1>1, <1>3

\* The temporary record is above the journal's.
Clear(c, s) == c.temporary = FALSE => s = None

LEMMA HomeForm ==
    ASSUME NEW c \in Commands, NEW x, NEW s, NEW j, Clear(c, s)
    PROVE  Through(x, s, j) = Through(x, Rec(c, s, j), Under(c, j))
<1>1. c.temporary \in BOOLEAN
  BY CommandFacts
<1>2. CASE c.temporary = TRUE
  BY <1>2 DEF Rec, Under
<1>3. CASE c.temporary = FALSE
  BY <1>3, BaselineNone DEF Rec, Under, Through, Clear
<1> QED
  BY <1>1, <1>2, <1>3

\* What a command that goes on as d must leave behind in the file f.
Later(d, f, x, s, j, ap, o, t, cl) ==
    /\ d.pc \in Working =>
         View(d.pc, d.at, x, Rec(d, s, j), Under(d, j), d.raw[f], d.old[f], Installs(d, f), f, ap, o, t, cl)
    /\ d.pc \notin Working => Good(Through(x, s, j), f, ap, o, t, cl)

LEMMA WorkingHolds ==
    ASSUME NEW c, NEW cl, c.pc \in Working
    PROVE  Holds(c, cl)
BY DEF Holds, Working, Installing

LEMMA Alone ==
    ASSUME ConfigInv, NEW p \in Processes, Holds(cmd[p], client), NEW q \in Processes, q # p
    PROVE  ~Holds(cmd[q], client) /\ cmd[q].pc \notin Working /\ q \notin lock
BY WorkingHolds DEF ConfigInv, OneHolder

LEMMA FileFacts ==
    ASSUME ConfigTypes
    PROVE  /\ Files \subseteq {1, 2} /\ 1 \in Files
           /\ client = "codex" => Files = {1}
           /\ client = "agent" => Files = {1, 2}
BY DEF ConfigTypes, Files

\* The step of a command that no other excludes.
LEMMA Compose ==
    ASSUME ConfigInv, NEW p \in Processes, \A q \in Processes : q # p => ~Holds(cmd[q], client),
           client = "agent" => Holds(cmd[p], client), NEW d \in Commands,
           client' = client, cmd' = [cmd EXCEPT ![p] = d],
           file' \in [{1, 2} -> Content], own' \in [{1, 2} -> Content],
           journal' \in [{1, 2} -> Kept], temporary' \in Kept,
           apart' \subseteq Files, torn' \in BOOLEAN, client = "agent" => temporary' = None,
           lock' = IF Holds(d, client) THEN lock ELSE lock \ {p},
           Sound(d, client, temporary'),
           \A f \in Files : Later(d, f, file'[f], temporary', journal'[f], apart', own'[f], torn', client)
    PROVE  ConfigInv'
<1>1. Files' = Files
  BY DEF Files
<1>2. /\ ConfigTypes /\ OneHolder /\ cmd \in [Processes -> Commands] /\ lock \subseteq Processes
      /\ client \in {"agent", "codex"} /\ \A q \in Processes : Sound(cmd[q], client, temporary)
  BY DEF ConfigInv, ConfigTypes
<1>3. cmd' \in [Processes -> Commands] /\ cmd'[p] = d /\ \A q \in Processes : q # p => cmd'[q] = cmd[q]
  BY <1>2
<1>4. \A q \in Processes : q # p => ~Holds(cmd[q], client) /\ cmd[q].pc \notin Working /\ q \notin lock
  BY <1>2, WorkingHolds DEF OneHolder
<1>5. ConfigTypes'
  BY <1>1, <1>2, <1>3 DEF ConfigTypes
<1>6. OneHolder'
  <2>1. \A q \in Processes : q # p => ~Holds(cmd'[q], client)
    BY <1>3, <1>4
  <2>2. \A q, i \in Processes : Holds(cmd'[q], client) /\ Holds(cmd'[i], client) => q = i
    BY <2>1, Zenon
  <2>3. p \in lock <=> client = "agent"
    BY <1>2 DEF OneHolder
  <2>4. \A q \in Processes : q \in lock' <=> client = "agent" /\ Holds(cmd'[q], client)
    <3> SUFFICES ASSUME NEW q \in Processes PROVE q \in lock' <=> client = "agent" /\ Holds(cmd'[q], client)
      OBVIOUS
    <3>1. CASE q = p
      BY <1>3, <2>3, <3>1
    <3>2. CASE q # p
      BY <1>4, <2>1, <3>2
    <3> QED
      BY <3>1, <3>2
  <2> QED
    BY <2>2, <2>4 DEF OneHolder
<1>7. \A q \in Processes : Sound(cmd'[q], client, temporary')
  <2> SUFFICES ASSUME NEW q \in Processes PROVE Sound(cmd'[q], client, temporary')
    OBVIOUS
  <2>1. CASE q = p
    BY <1>3, <2>1
  <2>2. CASE q # p
    <3>1. cmd'[q] = cmd[q] /\ ~Holds(cmd[q], client) /\ Sound(cmd[q], client, temporary)
      BY <1>2, <1>3, <1>4, <2>2
    <3>2. cmd[q].pc # "idle" /\ cmd[q].temporary = FALSE => temporary' = None
      BY <1>2, <3>1 DEF Holds, Sound
    <3>3. Sound(cmd[q], client, temporary')
      BY <3>1, <3>2, Zenon DEF Sound
    <3> QED
      BY <3>1, <3>3
  <2> QED
    BY <2>1, <2>2
<1>8. ASSUME NEW f \in Files PROVE FileInv(f)'
  <2>1. Later(d, f, file'[f], temporary', journal'[f], apart', own'[f], torn', client)
    OBVIOUS
  <2>2. \A q \in Processes : q # p => cmd'[q].pc \notin Working
    BY <1>3, <1>4
  <2>3. \A q \in Processes : Status(cmd'[q], f, file'[f], temporary', journal'[f], apart', own'[f], torn', client)
    BY <1>3, <2>1, <2>2, Zenon DEF Status, Later
  <2>4. (\A q \in Processes : cmd'[q].pc \notin Working)
          => Good(Through(file'[f], temporary', journal'[f]), f, apart', own'[f], torn', client)
    BY <1>3, <2>1, Zenon DEF Later
  <2> QED
    BY <2>3, <2>4, Zenon DEF FileInv
<1> QED
  BY <1>1, <1>5, <1>6, <1>7, <1>8, Zenon DEF ConfigInv

\* The step of the command that works, or that finishes.
LEMMA Assemble ==
    ASSUME ConfigInv, NEW p \in Processes, Holds(cmd[p], client), NEW d \in Commands,
           client' = client, cmd' = [cmd EXCEPT ![p] = d],
           file' \in [{1, 2} -> Content], own' \in [{1, 2} -> Content],
           journal' \in [{1, 2} -> Kept], temporary' \in Kept,
           apart' \subseteq Files, torn' \in BOOLEAN, client = "agent" => temporary' = None,
           lock' = IF Holds(d, client) THEN lock ELSE lock \ {p},
           Sound(d, client, temporary'),
           \A f \in Files : Later(d, f, file'[f], temporary', journal'[f], apart', own'[f], torn', client)
    PROVE  ConfigInv'
<1>1. \A q \in Processes : q # p => ~Holds(cmd[q], client)
  BY Alone
<1>2. client = "agent" => Holds(cmd[p], client)
  OBVIOUS
<1> QED
  BY <1>1, <1>2, Compose

LEMMA CommandStep ==
    ASSUME NEW m \in [Processes -> Commands], NEW p \in Processes, NEW pc \in Steps
    PROVE  [m EXCEPT ![p].pc = pc] = [m EXCEPT ![p] = Moved(m[p], pc, m[p].at)]
<1> DEFINE c == m[p]
<1>1. c \in Commands
  OBVIOUS
<1> HIDE DEF c
<1>2. [c EXCEPT !.pc = pc] = Moved(c, pc, c.at)
  BY <1>1 DEF Moved, Commands
<1>3. [m EXCEPT ![p].pc = pc] = [m EXCEPT ![p] = [c EXCEPT !.pc = pc]]
  BY DEF c
<1> QED
  BY <1>2, <1>3 DEF c

LEMMA CommandTurn ==
    ASSUME NEW m \in [Processes -> Commands], NEW p \in Processes, NEW at \in {1, 2}
    PROVE  [m EXCEPT ![p].at = at] = [m EXCEPT ![p] = Moved(m[p], m[p].pc, at)]
<1> DEFINE c == m[p]
<1>1. c \in Commands
  OBVIOUS
<1> HIDE DEF c
<1>2. [c EXCEPT !.at = at] = Moved(c, c.pc, at)
  BY <1>1 DEF Moved, Commands
<1>3. [m EXCEPT ![p].at = at] = [m EXCEPT ![p] = [c EXCEPT !.at = at]]
  BY DEF c
<1> QED
  BY <1>2, <1>3 DEF c

LEMMA SoundMoves ==
    ASSUME NEW c \in Commands, NEW pc \in Steps, NEW at \in {1, 2}, NEW cl, NEW s, NEW s2,
           Sound(c, cl, s), c.pc # "idle",
           pc \in Installing => c.op # "unconfigure" /\ (c.temporary = TRUE => c.old[1] = None),
           pc = "undoFile" => cl = "agent", pc = "await" => c.op = "desktop",
           at = 2 => cl = "agent" /\ pc \in Working,
           c.temporary = FALSE => s2 = None
    PROVE  Sound(Moved(c, pc, at), cl, s2)
<1>1. PICK d : d = Moved(c, pc, at)
  OBVIOUS
<1>2. /\ d.pc = pc /\ d.at = at /\ d.op = c.op /\ d.version = c.version
      /\ d.raw = c.raw /\ d.old = c.old /\ d.temporary = c.temporary
  BY <1>1, MovedFacts
<1>3. Sound(d, cl, s2)
  BY <1>2, Zenon DEF Sound
<1> QED
  BY <1>1, <1>3

LEMMA SoundNone ==
    ASSUME NEW cl, NEW s
    PROVE  Sound(NoCommand, cl, s) /\ ~Holds(NoCommand, cl) /\ NoCommand.pc \notin Working
BY NoCommandFacts DEF Sound, Holds, Working, Installing

LEMMA StateFacts ==
    ASSUME ConfigInv
    PROVE  /\ ConfigTypes /\ OneHolder /\ Files \subseteq {1, 2} /\ client \in {"agent", "codex"}
           /\ cmd \in [Processes -> Commands]
           /\ \A f \in Files : file[f] \in Content /\ own[f] \in Content /\ journal[f] \in Kept /\ FileInv(f)
           /\ \A p \in Processes : cmd[p] \in Commands /\ Sound(cmd[p], client, temporary)
<1>1. ConfigTypes
  BY DEF ConfigInv
<1>2. Files \subseteq {1, 2}
  BY <1>1, FileFacts
<1> QED
  BY <1>1, <1>2 DEF ConfigInv, ConfigTypes

LEMMA RecordKept ==
    ASSUME NEW c \in Commands, NEW s \in Kept, NEW j \in Kept
    PROVE  Rec(c, s, j) \in Kept /\ Under(c, j) \in Kept
<1>1. None \in Kept
  BY DEF Kept
<1> QED
  BY <1>1 DEF Rec, Under

\* What is known of the command that works and of its files.
LEMMA Worker ==
    ASSUME ConfigInv, NEW p \in Processes, NEW c, c = cmd[p], c.pc \in Working
    PROVE  /\ c \in Commands /\ Holds(c, client) /\ Sound(c, client, temporary)
           /\ c.at \in Files /\ c.at \in {1, 2}
           /\ c.temporary = TRUE => client = "codex" /\ Files = {1} /\ c.at = 1
           /\ c.temporary = FALSE => temporary = None
           /\ c.pc \in Installing => c.version \in Versions
           /\ \A f \in Files :
                /\ f \in {1, 2} /\ c.raw[f] \in Content /\ c.old[f] \in Kept
                /\ Rec(c, temporary, journal[f]) \in Kept /\ Under(c, journal[f]) \in Kept
                /\ client = "agent" => Under(c, journal[f]) = None
                /\ View(c.pc, c.at, file[f], Rec(c, temporary, journal[f]), Under(c, journal[f]), c.raw[f], c.old[f],
                        Installs(c, f), f, apart, own[f], torn, client)
<1>1. c \in Commands /\ Sound(c, client, temporary) /\ ConfigTypes /\ temporary \in Kept
  BY StateFacts DEF ConfigTypes
<1>2. Holds(c, client)
  BY WorkingHolds
<1>3. c.at \in {1, 2} /\ c.temporary \in BOOLEAN /\ c.op \in Ops
  BY <1>1, CommandFacts
<1>4. c.pc # "idle"
  BY DEF Working, Installing
<1>5. /\ c.at = 2 => client = "agent"
      /\ c.temporary = TRUE => client = "codex"
      /\ c.temporary = FALSE => temporary = None
      /\ c.pc \in Installing => c.op # "unconfigure" /\ c.op # "none"
      /\ c.op \in {"configure", "desktop"} => c.version \in Versions
  BY <1>1, <1>4, Zenon DEF Sound
<1>6. client = "agent" => c.at \in Files
  BY <1>1, <1>3, FileFacts
<1>7. client = "codex" => Files = {1} /\ c.at = 1
  BY <1>1, <1>3, <1>5, FileFacts
<1>8. client \in {"agent", "codex"} /\ Files \subseteq {1, 2}
  BY StateFacts
<1>9. c.pc \in Installing => c.version \in Versions
  BY <1>3, <1>5 DEF Ops
<1>10. ASSUME NEW f \in Files
       PROVE  /\ f \in {1, 2} /\ c.raw[f] \in Content /\ c.old[f] \in Kept
              /\ Rec(c, temporary, journal[f]) \in Kept /\ Under(c, journal[f]) \in Kept
              /\ client = "agent" => Under(c, journal[f]) = None
              /\ View(c.pc, c.at, file[f], Rec(c, temporary, journal[f]), Under(c, journal[f]), c.raw[f], c.old[f],
                      Installs(c, f), f, apart, own[f], torn, client)
  <2>1. f \in {1, 2} /\ c.raw[f] \in Content /\ c.old[f] \in Kept
    BY <1>1, <1>8, CommandFacts
  <2>2. Rec(c, temporary, journal[f]) \in Kept /\ Under(c, journal[f]) \in Kept
    BY <1>1, StateFacts, RecordKept
  <2>3. client = "agent" => Under(c, journal[f]) = None
    BY <1>3, <1>5 DEF Under
  <2>4. Status(c, f, file[f], temporary, journal[f], apart, own[f], torn, client)
    BY StateFacts DEF FileInv
  <2> QED
    BY <2>1, <2>2, <2>3, <2>4, Zenon DEF Status
<1> QED
  BY <1>1, <1>2, <1>3, <1>5, <1>6, <1>7, <1>8, <1>9, <1>10

LEMMA RecordSet ==
    ASSUME ConfigInv, NEW p \in Processes, NEW c, c = cmd[p], c.pc \in Working, NEW r \in Kept,
           SetRecord(p, c.at, r)
    PROVE  /\ temporary' \in Kept /\ journal' \in [{1, 2} -> Kept]
           /\ client = "agent" => temporary' = None
           /\ c.temporary = FALSE => temporary' = None
           /\ \A f \in Files : /\ Rec(c, temporary', journal'[f]) = IF f = c.at THEN r ELSE Rec(c, temporary, journal[f])
                               /\ Under(c, journal'[f]) = Under(c, journal[f])
<1>1. /\ c \in Commands /\ c.at \in {1, 2} /\ Files \subseteq {1, 2} /\ temporary \in Kept /\ journal \in [{1, 2} -> Kept]
      /\ c.temporary = TRUE => client = "codex" /\ Files = {1} /\ c.at = 1
      /\ c.temporary = FALSE => temporary = None
      /\ c.temporary \in BOOLEAN
  BY Worker, StateFacts, CommandFacts DEF ConfigTypes
<1>2. CASE c.temporary = TRUE
  <2>1. temporary' = r /\ journal' = journal
    BY <1>2 DEF SetRecord
  <2>2. client # "agent"
    BY <1>1, <1>2
  <2> QED
    BY <1>1, <1>2, <2>1, <2>2 DEF Rec, Under
<1>3. CASE c.temporary = FALSE
  <2>1. journal' = [journal EXCEPT ![c.at] = r] /\ temporary' = temporary
    BY <1>3 DEF SetRecord
  <2> QED
    BY <1>1, <1>3, <2>1 DEF Rec, Under
<1> QED
  BY <1>1, <1>2, <1>3

\* A moved command sees a file as the command does.
LEMMA LaterMoved ==
    ASSUME NEW c \in Commands, NEW pc \in Steps, NEW at \in {1, 2},
           NEW f, NEW x, NEW s, NEW j, NEW ap, NEW o, NEW t, NEW cl,
           c.temporary = FALSE => s = None,
           pc \in Working => View(pc, at, x, Rec(c, s, j), Under(c, j), c.raw[f], c.old[f], Installs(c, f), f, ap, o, t, cl),
           pc \notin Working => Good(Through(x, Rec(c, s, j), Under(c, j)), f, ap, o, t, cl)
    PROVE  Later(Moved(c, pc, at), f, x, s, j, ap, o, t, cl)
<1>1. PICK d : d = Moved(c, pc, at)
  OBVIOUS
<1>2. d.pc = pc /\ d.at = at /\ d.raw = c.raw /\ d.old = c.old
  BY <1>1, MovedFacts
<1>3. Rec(d, s, j) = Rec(c, s, j) /\ Under(d, j) = Under(c, j) /\ Installs(d, f) = Installs(c, f)
  BY <1>1, MovedSame
<1>4. Through(x, s, j) = Through(x, Rec(c, s, j), Under(c, j))
  <2>1. Clear(c, s)
    BY DEF Clear
  <2> QED
    BY <2>1, HomeForm
<1>5. Later(d, f, x, s, j, ap, o, t, cl)
  BY <1>2, <1>3, <1>4 DEF Later
<1> QED
  BY <1>1, <1>5

LEMMA LaterNone ==
    ASSUME NEW c \in Commands, NEW f, NEW x, NEW s, NEW j, NEW ap, NEW o, NEW t, NEW cl,
           c.temporary = FALSE => s = None,
           Good(Through(x, Rec(c, s, j), Under(c, j)), f, ap, o, t, cl)
    PROVE  Later(NoCommand, f, x, s, j, ap, o, t, cl)
<1>1. Through(x, s, j) = Through(x, Rec(c, s, j), Under(c, j))
  <2>1. Clear(c, s)
    BY DEF Clear
  <2> QED
    BY <2>1, HomeForm
<1> QED
  BY <1>1, SoundNone DEF Later

LEMMA StepNames ==
    /\ Working \subseteq Steps /\ Installing \subseteq Working
    /\ "journal" \in Installing /\ "file" \in Installing /\ "undoFile" \in Installing /\ "undoJournal" \in Installing
    /\ "journal" \in Steps /\ "file" \in Steps /\ "undoFile" \in Steps /\ "undoJournal" \in Steps
    /\ "restore" \in Steps /\ "remove" \in Steps
    /\ "restore" \in Working /\ "remove" \in Working /\ "restore" \notin Installing /\ "remove" \notin Installing
    /\ "idle" \in Steps /\ "confirm" \in Steps /\ "plan" \in Steps /\ "await" \in Steps
    /\ "idle" \notin Working /\ "confirm" \notin Working /\ "plan" \notin Working /\ "await" \notin Working
BY DEF Steps, Working, Installing

\* What a step that changes files or records leaves of the types.
KeepsTypes ==
    /\ client' = client /\ file' \in [{1, 2} -> Content] /\ own' \in [{1, 2} -> Content]
    /\ journal' \in [{1, 2} -> Kept] /\ temporary' \in Kept
    /\ apart' \subseteq Files /\ torn' \in BOOLEAN /\ (client = "agent" => temporary' = None)

LEMMA Continue ==
    ASSUME ConfigInv, NEW p \in Processes, NEW c, c = cmd[p], c.pc \in Working,
           NEW pc \in Working, NEW at \in {1, 2},
           cmd' = [cmd EXCEPT ![p] = Moved(c, pc, at)], KeepsTypes, Clear(c, temporary'), lock' = lock,
           pc \in Installing => c.op # "unconfigure" /\ (c.temporary = TRUE => c.old[1] = None),
           pc = "undoFile" \/ at = 2 => client = "agent",
           \A f \in Files :
               View(pc, at, file'[f], Rec(c, temporary', journal'[f]), Under(c, journal'[f]), c.raw[f], c.old[f],
                    Installs(c, f), f, apart', own'[f], torn', client)
    PROVE  ConfigInv'
<1>1. c \in Commands /\ Holds(c, client) /\ Sound(c, client, temporary) /\ c.pc # "idle"
  BY Worker, StepNames
<1>2. PICK d : d = Moved(c, pc, at)
  OBVIOUS
<1>3. pc \in Steps /\ pc # "await"
  BY StepNames
<1>4. d \in Commands /\ d.pc = pc
  BY <1>1, <1>2, <1>3, MovedFacts
<1>5. c.temporary = FALSE => temporary' = None
  BY DEF Clear
<1>6. Sound(d, client, temporary')
  BY <1>1, <1>2, <1>3, <1>5, SoundMoves
<1>7. \A f \in Files : Later(d, f, file'[f], temporary', journal'[f], apart', own'[f], torn', client)
  BY <1>1, <1>2, <1>3, <1>5, LaterMoved
<1>8. lock' = IF Holds(d, client) THEN lock ELSE lock \ {p}
  BY <1>4, WorkingHolds
<1> QED
  BY <1>1, <1>2, <1>4, <1>6, <1>7, <1>8, Assemble DEF KeepsTypes

\* A desktop switch that waits for its restore.
LEMMA Await ==
    ASSUME ConfigInv, NEW p \in Processes, NEW c, c = cmd[p], c.pc \in Working, c.op = "desktop", client = "codex",
           cmd' = [cmd EXCEPT ![p] = Moved(c, "await", 1)], KeepsTypes, Clear(c, temporary'), lock' = lock,
           \A f \in Files :
               Good(Through(file'[f], Rec(c, temporary', journal'[f]), Under(c, journal'[f])), f, apart', own'[f], torn', client)
    PROVE  ConfigInv'
<1>1. c \in Commands /\ Holds(c, client) /\ Sound(c, client, temporary) /\ c.pc # "idle"
  BY Worker, StepNames
<1>2. PICK d, pc, at : d = Moved(c, "await", 1) /\ pc = "await" /\ at = 1
  OBVIOUS
<1>3. pc \in Steps /\ pc \notin Working /\ pc \notin Installing /\ pc # "undoFile" /\ at \in {1, 2} /\ at # 2 /\ d = Moved(c, pc, at)
  BY <1>2, StepNames
<1>4. d \in Commands /\ d.pc = "await"
  BY <1>1, <1>2, <1>3, MovedFacts
<1>5. c.temporary = FALSE => temporary' = None
  BY DEF Clear
<1>6. Sound(d, client, temporary')
  BY <1>1, <1>3, <1>5, SoundMoves
<1>7. \A f \in Files : Later(d, f, file'[f], temporary', journal'[f], apart', own'[f], torn', client)
  BY <1>1, <1>3, <1>5, LaterMoved
<1>8. lock' = IF Holds(d, client) THEN lock ELSE lock \ {p}
  <2>1. p \notin lock
    BY StateFacts DEF OneHolder
  <2>2. lock \ {p} = lock
    BY <2>1
  <2> QED
    BY <2>2
<1> QED
  BY <1>1, <1>2, <1>4, <1>6, <1>7, <1>8, Assemble DEF KeepsTypes

LEMMA Finish ==
    ASSUME ConfigInv, NEW p \in Processes, NEW c, c = cmd[p], c.pc \in Working,
           Leave(p), KeepsTypes, Clear(c, temporary'),
           \A f \in Files :
               Good(Through(file'[f], Rec(c, temporary', journal'[f]), Under(c, journal'[f])), f, apart', own'[f], torn', client)
    PROVE  ConfigInv'
<1>1. c \in Commands /\ Holds(c, client)
  BY Worker
<1>2. c.temporary = FALSE => temporary' = None
  BY DEF Clear
<1>3. \A f \in Files : Later(NoCommand, f, file'[f], temporary', journal'[f], apart', own'[f], torn', client)
  BY <1>1, <1>2, LaterNone
<1>4. Sound(NoCommand, client, temporary') /\ ~Holds(NoCommand, client) /\ NoCommand \in Commands
  BY SoundNone, NoCommandFacts
<1>5. cmd' = [cmd EXCEPT ![p] = NoCommand] /\ lock' = lock \ {p}
  BY DEF Leave
<1> QED
  BY <1>1, <1>3, <1>4, <1>5, Assemble DEF KeepsTypes

\* Steps that leave the files and records alone.
LEMMA SameTypes ==
    ASSUME ConfigInv, client' = client, file' = file, own' = own, journal' = journal, temporary' = temporary,
           apart' = apart, torn' \in BOOLEAN
    PROVE  KeepsTypes
BY StateFacts DEF ConfigTypes, KeepsTypes

LEMMA OverwritesNoted ==
    ASSUME ConfigInv, NEW lost, Overwrites(lost)
    PROVE  /\ torn' \in BOOLEAN /\ apart' \subseteq Files
           /\ \A f, l : (l = TRUE <=> f \in lost) /\ l \in BOOLEAN => Noted(f, apart, apart', torn, torn', l)
<1>1. torn \in BOOLEAN /\ apart \subseteq Files
  BY StateFacts DEF ConfigTypes
<1>2. torn' = (torn \/ lost # {}) /\ apart' = apart \ lost
  BY DEF Overwrites
<1>3. torn' \in BOOLEAN /\ apart' \subseteq Files
  BY <1>1, <1>2
<1>4. ASSUME NEW f, f \in lost PROVE f \notin apart' /\ torn' = TRUE
  BY <1>1, <1>2, <1>4
<1>5. ASSUME NEW f, f \notin lost PROVE (f \in apart' <=> f \in apart) /\ (torn' = FALSE => torn = FALSE)
  BY <1>1, <1>2, <1>5
<1>6. ASSUME NEW f, NEW l, l = TRUE <=> f \in lost, l \in BOOLEAN PROVE Noted(f, apart, apart', torn, torn', l)
  <2>1. CASE f \in lost
    BY <1>4, <1>6, <2>1 DEF Noted
  <2>2. CASE f \notin lost
    BY <1>5, <1>6, <2>2 DEF Noted
  <2> QED
    BY <2>1, <2>2
<1> QED
  BY <1>3, <1>6

-----------------------------------------------------------------------------
(* Installing *)

LEMMA Stepped ==
    ASSUME ConfigInv, NEW p \in Processes, NEW c, c = cmd[p], NEW pc \in Steps, cmd' = [cmd EXCEPT ![p].pc = pc]
    PROVE  cmd' = [cmd EXCEPT ![p] = Moved(c, pc, c.at)]
<1>1. cmd \in [Processes -> Commands]
  BY StateFacts
<1>2. [cmd EXCEPT ![p].pc = pc] = [cmd EXCEPT ![p] = Moved(cmd[p], pc, cmd[p].at)]
  BY <1>1, CommandStep, ZenonT(60)
<1> QED
  BY <1>2

LEMMA WriteJournalStep ==
    ASSUME ConfigInv, NEW p \in Processes, WriteJournal(p)
    PROVE  ConfigInv'
<1>1. PICK c : c = cmd[p]
  OBVIOUS
<1>2. /\ c.pc = "journal" /\ SetRecord(p, c.at, Installs(c, c.at)) /\ cmd' = [cmd EXCEPT ![p].pc = "file"]
      /\ client' = client /\ file' = file /\ lock' = lock /\ own' = own /\ apart' = apart /\ torn' = torn
  BY <1>1, Zenon DEF WriteJournal, Step, fixed, Installs, New, After
<1>3. c.pc \in Working /\ c.pc \in Installing
  BY <1>2, StepNames
<1>4. /\ c \in Commands /\ Sound(c, client, temporary) /\ c.at \in Files /\ c.at \in {1, 2}
      /\ c.version \in Versions
      /\ \A f \in Files :
           /\ f \in {1, 2} /\ c.raw[f] \in Content /\ c.old[f] \in Kept
           /\ View(c.pc, c.at, file[f], Rec(c, temporary, journal[f]), Under(c, journal[f]), c.raw[f], c.old[f],
                   Installs(c, f), f, apart, own[f], torn, client)
  BY <1>1, <1>3, Worker
<1>5. PICK n : n = Installs(c, c.at)
  OBVIOUS
<1>6. n \in Kept
  <2>1. c.raw[c.at] \in Content /\ c.old[c.at] \in Kept
    BY <1>4
  <2>2. New(c.raw[c.at], c.old[c.at], c.version) \in Kept
    BY <1>4, <2>1, NewRecord
  <2> QED
    BY <1>5, <2>2 DEF Installs
<1>7. /\ temporary' \in Kept /\ journal' \in [{1, 2} -> Kept]
      /\ client = "agent" => temporary' = None
      /\ c.temporary = FALSE => temporary' = None
      /\ \A f \in Files : /\ Rec(c, temporary', journal'[f]) = IF f = c.at THEN n ELSE Rec(c, temporary, journal[f])
                          /\ Under(c, journal'[f]) = Under(c, journal[f])
  <2>1. SetRecord(p, c.at, n)
    BY <1>2, <1>5
  <2> QED
    BY <1>1, <1>3, <1>6, <2>1, RecordSet, ZenonT(60)
<1>8. KeepsTypes /\ Clear(c, temporary')
  BY <1>2, <1>7, StateFacts DEF KeepsTypes, Clear, ConfigTypes
<1>9. cmd' = [cmd EXCEPT ![p] = Moved(c, "file", c.at)]
  <2>1. PICK pc : pc = "file"
    OBVIOUS
  <2>2. pc \in Steps /\ cmd' = [cmd EXCEPT ![p].pc = pc]
    BY <1>2, <2>1, StepNames
  <2>3. cmd' = [cmd EXCEPT ![p] = Moved(c, pc, c.at)]
    BY <1>1, <2>2, Stepped, ZenonT(60)
  <2> QED
    BY <2>1, <2>3
<1>10. /\ c.op # "unconfigure" /\ (c.temporary = TRUE => c.old[1] = None)
       /\ c.at = 2 => client = "agent"
  BY <1>3, <1>4, Zenon DEF Sound
<1>11. ASSUME NEW f \in Files
       PROVE  View("file", c.at, file'[f], Rec(c, temporary', journal'[f]), Under(c, journal'[f]), c.raw[f], c.old[f],
                   Installs(c, f), f, apart', own'[f], torn', client)
  <2>1. View("file", c.at, file[f], Rec(c, temporary', journal'[f]), Under(c, journal'[f]), c.raw[f], c.old[f],
             Installs(c, f), f, apart, own[f], torn, client)
    BY <1>2, <1>4, <1>5, <1>7, ViewMoves
  <2> QED
    BY <1>2, <2>1
<1>12. "file" \in Working /\ "file" # "undoFile"
  BY StepNames
<1> QED
  BY <1>1, <1>2, <1>3, <1>4, <1>8, <1>9, <1>10, <1>11, <1>12, Continue, ZenonT(60)

LEMMA WriteFailsStep ==
    ASSUME ConfigInv, NEW p \in Processes, WriteFails(p)
    PROVE  ConfigInv'
<1>1. PICK c : c = cmd[p]
  OBVIOUS
<1>2. PICK pc : pc = IF client = "codex" THEN "undoJournal" ELSE "undoFile"
  OBVIOUS
<1>3. /\ c.pc \in {"journal", "file"} /\ cmd' = [cmd EXCEPT ![p].pc = pc]
      /\ client' = client /\ file' = file /\ lock' = lock /\ own' = own /\ apart' = apart /\ torn' = torn
      /\ journal' = journal /\ temporary' = temporary
  BY <1>1, <1>2, Zenon DEF WriteFails, Step, fixed
<1>4. c.pc \in Working /\ c.pc \in Installing
  BY <1>3, StepNames
<1>5. /\ c \in Commands /\ Sound(c, client, temporary) /\ c.at \in {1, 2} /\ (c.temporary = FALSE => temporary = None)
      /\ \A f \in Files :
           /\ f \in {1, 2}
           /\ View(c.pc, c.at, file[f], Rec(c, temporary, journal[f]), Under(c, journal[f]), c.raw[f], c.old[f],
                   Installs(c, f), f, apart, own[f], torn, client)
  BY <1>1, <1>4, Worker
<1>6. KeepsTypes /\ Clear(c, temporary')
  BY <1>3, <1>5, StateFacts DEF KeepsTypes, Clear, ConfigTypes
<1>7. /\ pc \in Working /\ pc \in Installing /\ pc \in Steps /\ (pc = "undoFile" => client = "agent")
      /\ pc \in {"undoFile", "undoJournal"}
  BY <1>2, StateFacts, StepNames
<1>8. cmd' = [cmd EXCEPT ![p] = Moved(c, pc, c.at)]
  BY <1>1, <1>3, <1>7, Stepped, ZenonT(60)
<1>9. /\ c.op # "unconfigure" /\ (c.temporary = TRUE => c.old[1] = None)
      /\ c.at = 2 => client = "agent"
  BY <1>4, <1>5, Zenon DEF Sound
<1>10. ASSUME NEW f \in Files
       PROVE  View(pc, c.at, file'[f], Rec(c, temporary', journal'[f]), Under(c, journal'[f]), c.raw[f], c.old[f],
                   Installs(c, f), f, apart', own'[f], torn', client)
  <2>1. PICK x, r, u, z, b, n, o : /\ x = file[f] /\ r = Rec(c, temporary, journal[f]) /\ u = Under(c, journal[f])
                                   /\ z = c.raw[f] /\ b = c.old[f] /\ n = Installs(c, f) /\ o = own[f]
    OBVIOUS
  <2>2. /\ View("journal", c.at, x, r, u, z, b, n, f, apart, o, torn, client)
           \/ View("file", c.at, x, r, u, z, b, n, f, apart, o, torn, client)
    BY <1>3, <1>5, <2>1
  <2>3. /\ View("undoFile", c.at, x, r, u, z, b, n, f, apart, o, torn, client)
        /\ View("undoJournal", c.at, x, r, u, z, b, n, f, apart, o, torn, client)
    BY <1>5, <2>2, ViewMoves
  <2> QED
    BY <1>3, <1>7, <2>1, <2>3
<1> QED
  BY <1>1, <1>3, <1>4, <1>5, <1>6, <1>7, <1>8, <1>9, <1>10, Continue, ZenonT(60)

LEMMA WriteFileStep ==
    ASSUME ConfigInv, NEW p \in Processes, WriteFile(p)
    PROVE  ConfigInv'
<1>1. PICK c : c = cmd[p]
  OBVIOUS
<1>2. /\ c.pc = "file" /\ client' = client /\ journal' = journal /\ temporary' = temporary
      /\ file' = [file EXCEPT ![c.at] = buildAgentConfig(c.raw[c.at], c.version)]
      /\ own' = IF file[c.at] = c.raw[c.at] THEN own
                ELSE [own EXCEPT ![c.at] = IF c.old[c.at] = None THEN c.raw[c.at] ELSE own[c.at]]
      /\ Overwrites({g \in {c.at} : file[g] # c.raw[g]})
  BY <1>1, Zenon DEF WriteFile, fixed, After
<1>3. IF c.at + 1 \in Files
      THEN cmd' = [cmd EXCEPT ![p].pc = "journal", ![p].at = c.at + 1] /\ lock' = lock
      ELSE IF c.op = "desktop" THEN cmd' = [cmd EXCEPT ![p].pc = "await"] /\ lock' = lock
      ELSE Leave(p)
  BY <1>1 DEF WriteFile, Next1, Step
<1>4. c.pc \in Working /\ c.pc \in Installing
  BY <1>2, StepNames
<1>5. /\ c \in Commands /\ Sound(c, client, temporary) /\ c.at \in Files /\ c.at \in {1, 2}
      /\ c.version \in Versions /\ (c.temporary = FALSE => temporary = None)
      /\ \A f \in Files :
           /\ f \in {1, 2} /\ c.raw[f] \in Content /\ c.old[f] \in Kept
           /\ View(c.pc, c.at, file[f], Rec(c, temporary, journal[f]), Under(c, journal[f]), c.raw[f], c.old[f],
                   Installs(c, f), f, apart, own[f], torn, client)
  BY <1>1, <1>4, Worker
<1>6. ConfigTypes /\ Files \subseteq {1, 2} /\ client \in {"agent", "codex"}
  BY StateFacts
<1>7. /\ torn' \in BOOLEAN /\ apart' \subseteq Files
      /\ \A f, l : (l = TRUE <=> f \in {g \in {c.at} : file[g] # c.raw[g]}) /\ l \in BOOLEAN
                     => Noted(f, apart, apart', torn, torn', l)
  BY <1>2, OverwritesNoted
<1>8. Installs(c, c.at).after = buildAgentConfig(c.raw[c.at], c.version) /\ Installs(c, c.at).after \in Content
  <2>1. c.raw[c.at] \in Content /\ c.old[c.at] \in Kept
    BY <1>5
  <2>2. PICK n : n = New(c.raw[c.at], c.old[c.at], c.version)
    OBVIOUS
  <2>3. n \in Records
    BY <1>5, <2>1, <2>2, NewRecord
  <2>4. n.after \in Content
    BY <2>3, RecordFacts
  <2>5. n.after = buildAgentConfig(c.raw[c.at], c.version)
    BY <2>2 DEF New
  <2> QED
    BY <2>2, <2>4, <2>5 DEF Installs
<1>9. /\ file \in [{1, 2} -> Content] /\ own \in [{1, 2} -> Content] /\ journal \in [{1, 2} -> Kept] /\ temporary \in Kept
      /\ client = "agent" => temporary = None
  BY <1>6 DEF ConfigTypes
<1>10. file' \in [{1, 2} -> Content]
  BY <1>2, <1>5, <1>8, <1>9
<1>11. own' \in [{1, 2} -> Content]
  BY <1>2, <1>5, <1>9
<1>12. KeepsTypes /\ Clear(c, temporary')
  BY <1>2, <1>5, <1>7, <1>9, <1>10, <1>11 DEF KeepsTypes, Clear
<1>13. ASSUME NEW f \in Files
       PROVE  /\ f <= c.at => Installed(file'[f], Rec(c, temporary', journal'[f]), Under(c, journal'[f]), Installs(c, f),
                                        f, apart', own'[f], torn', client)
              /\ f > c.at => Untouched(file'[f], Rec(c, temporary', journal'[f]), Under(c, journal'[f]), c.raw[f], c.old[f],
                                       f, apart', own'[f], torn', client)
  <2>1. PICK x, r, u, z, b, n, o : /\ x = file[f] /\ r = Rec(c, temporary, journal[f]) /\ u = Under(c, journal[f])
                                   /\ z = c.raw[f] /\ b = c.old[f] /\ n = Installs(c, f) /\ o = own[f]
    OBVIOUS
  <2>2. PICK x2, o2 : x2 = file'[f] /\ o2 = own'[f]
    OBVIOUS
  <2>3. /\ View("file", c.at, x, r, u, z, b, n, f, apart, o, torn, client)
        /\ z \in Content /\ b \in Kept /\ f \in {1, 2} /\ n = New(z, b, c.version)
    BY <1>2, <1>5, <2>1 DEF Installs
  <2>4. x2 = IF f = c.at THEN n.after ELSE x
    BY <1>2, <1>5, <1>8, <1>9, <2>1, <2>2, <2>3
  <2>5. f # c.at \/ x = z => o2 = o
    BY <1>2, <1>5, <1>9, <2>1, <2>2, <2>3
  <2>6. Noted(f, apart, apart', torn, torn', f = c.at /\ x # z)
    <3>1. PICK l : l = (f = c.at /\ x # z)
      OBVIOUS
    <3>2. l \in BOOLEAN /\ (l = TRUE <=> f \in {g \in {c.at} : file[g] # c.raw[g]})
      BY <2>1, <3>1
    <3> QED
      BY <1>7, <3>1, <3>2
  <2>7. /\ f <= c.at => Installed(x2, r, u, n, f, apart', o2, torn', client)
        /\ f > c.at => Untouched(x2, r, u, z, b, f, apart', o2, torn', client)
    <3>1. PICK i, v, ap2, t2 : i = c.at /\ v = c.version /\ ap2 = apart' /\ t2 = torn'
      OBVIOUS
    <3>2. i \in {1, 2} /\ v \in Versions /\ View("file", i, x, r, u, z, b, n, f, apart, o, torn, client) /\ n = New(z, b, v)
      BY <1>5, <2>3, <3>1
    <3>3. x2 = (IF f = i THEN n.after ELSE x) /\ (f # i \/ x = z => o2 = o)
      BY <2>4, <2>5, <3>1
    <3>4. Noted(f, apart, ap2, torn, t2, f = i /\ x # z)
      BY <2>6, <3>1
    <3>5. /\ f <= i => Installed(x2, r, u, n, f, ap2, o2, t2, client)
          /\ f > i => Untouched(x2, r, u, z, b, f, ap2, o2, t2, client)
      BY <2>3, <3>2, <3>3, <3>4, ViewWrites
    <3> QED
      BY <3>1, <3>5
  <2> QED
    BY <1>2, <2>1, <2>2, <2>7
<1>14. ASSUME NEW f \in Files, c.at + 1 \notin Files
       PROVE  Good(Through(file'[f], Rec(c, temporary', journal'[f]), Under(c, journal'[f])), f, apart', own'[f], torn', client)
  <2>1. f <= c.at
    BY <1>5, <1>6, <1>14, FileFacts
  <2> QED
    BY <1>13, <2>1 DEF Installed
<1>15. CASE c.at + 1 \in Files
  <2>1. c.at = 1 /\ client = "agent"
    BY <1>5, <1>6, <1>15, FileFacts
  <2>2. PICK pc, at : pc = "journal" /\ at = c.at + 1
    OBVIOUS
  <2>3. cmd' = [cmd EXCEPT ![p].pc = pc, ![p].at = at] /\ lock' = lock
    BY <1>3, <1>15, <2>2
  <2>4. cmd' = [cmd EXCEPT ![p] = Moved(c, pc, at)]
    BY <1>1, <2>3 DEF Moved
  <2>5. ASSUME NEW f \in Files
        PROVE  View(pc, at, file'[f], Rec(c, temporary', journal'[f]), Under(c, journal'[f]), c.raw[f], c.old[f],
                    Installs(c, f), f, apart', own'[f], torn', client)
    <3>1. /\ f < at => f <= c.at
          /\ f >= at => f > c.at
      BY <1>5, <2>2
    <3>2. pc # "file" /\ pc # "undoFile" /\ pc # "undoJournal" /\ pc # "restore" /\ pc # "remove"
      BY <2>2
    <3> QED
      BY <1>13, <2>2, <3>1, <3>2, Zenon DEF View
  <2>6. pc \in Installing => c.op # "unconfigure" /\ (c.temporary = TRUE => c.old[1] = None)
    BY <1>4, <1>5, Zenon DEF Sound
  <2>7. pc \in Working /\ at \in {1, 2} /\ (pc = "undoFile" \/ at = 2 => client = "agent")
    BY <2>1, <2>2, StepNames
  <2>8. lock' = lock
    BY <2>3
  <2> QED
    BY <1>1, <1>4, <1>12, <2>4, <2>5, <2>6, <2>7, <2>8, Continue, ZenonT(60)
<1>16. CASE c.at + 1 \notin Files /\ c.op = "desktop"
  <2>1. client = "codex" /\ c.at = 1
    <3>1. client = "codex"
      BY <1>5, <1>16, Zenon DEF Sound
    <3> QED
      BY <1>5, <1>6, <3>1, FileFacts
  <2>2. PICK pc : pc = "await"
    OBVIOUS
  <2>3. cmd' = [cmd EXCEPT ![p].pc = pc] /\ lock' = lock /\ pc \in Steps
    BY <1>3, <1>16, <2>2, StepNames
  <2>4. cmd' = [cmd EXCEPT ![p] = Moved(c, pc, c.at)]
    BY <1>1, <2>3, Stepped, ZenonT(60)
  <2> QED
    BY <1>1, <1>4, <1>12, <1>14, <1>16, <2>1, <2>2, <2>3, <2>4, Await
<1>17. CASE c.at + 1 \notin Files /\ c.op # "desktop"
  <2>1. Leave(p)
    BY <1>3, <1>17
  <2> QED
    BY <1>1, <1>4, <1>12, <1>14, <1>17, <2>1, Finish
<1> QED
  BY <1>15, <1>16, <1>17

LEMMA UndoFileStep ==
    ASSUME ConfigInv, NEW p \in Processes, UndoFile(p)
    PROVE  ConfigInv'
<1>1. PICK c : c = cmd[p]
  OBVIOUS
<1>2. /\ c.pc = "undoFile" /\ client' = client /\ journal' = journal /\ temporary' = temporary /\ own' = own /\ lock' = lock
      /\ file' = [file EXCEPT ![c.at] = c.raw[c.at]]
      /\ Overwrites({g \in {c.at} : file[g] \notin {c.raw[g], After(p, g)}})
      /\ cmd' = [cmd EXCEPT ![p].pc = "undoJournal"]
  BY <1>1, Zenon DEF UndoFile, fixed, Step
<1>3. c.pc \in Working /\ c.pc \in Installing
  BY <1>2, StepNames
<1>4. /\ c \in Commands /\ Sound(c, client, temporary) /\ c.at \in Files /\ c.at \in {1, 2}
      /\ c.version \in Versions /\ (c.temporary = FALSE => temporary = None)
      /\ \A f \in Files :
           /\ f \in {1, 2} /\ c.raw[f] \in Content /\ c.old[f] \in Kept
           /\ client = "agent" => Under(c, journal[f]) = None
           /\ View(c.pc, c.at, file[f], Rec(c, temporary, journal[f]), Under(c, journal[f]), c.raw[f], c.old[f],
                   Installs(c, f), f, apart, own[f], torn, client)
  BY <1>1, <1>3, Worker
<1>5. client = "agent"
  BY <1>2, <1>4, Zenon DEF Sound
<1>6. /\ torn' \in BOOLEAN /\ apart' \subseteq Files
      /\ \A f, l : (l = TRUE <=> f \in {g \in {c.at} : file[g] \notin {c.raw[g], After(p, g)}}) /\ l \in BOOLEAN
                     => Noted(f, apart, apart', torn, torn', l)
  BY <1>2, OverwritesNoted
<1>7. /\ file \in [{1, 2} -> Content] /\ own \in [{1, 2} -> Content] /\ journal \in [{1, 2} -> Kept] /\ temporary \in Kept
      /\ client = "agent" => temporary = None
  BY StateFacts DEF ConfigTypes
<1>8. file' \in [{1, 2} -> Content]
  BY <1>2, <1>4, <1>7
<1>9. KeepsTypes /\ Clear(c, temporary')
  BY <1>2, <1>4, <1>6, <1>7, <1>8 DEF KeepsTypes, Clear
<1>10. PICK pc : pc = "undoJournal"
  OBVIOUS
<1>11. pc \in Working /\ pc \in Steps /\ pc # "undoFile" /\ cmd' = [cmd EXCEPT ![p].pc = pc]
  BY <1>2, <1>10, StepNames
<1>12. cmd' = [cmd EXCEPT ![p] = Moved(c, pc, c.at)]
  BY <1>1, <1>11, Stepped, ZenonT(60)
<1>13. ASSUME NEW f \in Files
       PROVE  View(pc, c.at, file'[f], Rec(c, temporary', journal'[f]), Under(c, journal'[f]), c.raw[f], c.old[f],
                   Installs(c, f), f, apart', own'[f], torn', client)
  <2>1. PICK x, r, u, z, b, n, o : /\ x = file[f] /\ r = Rec(c, temporary, journal[f]) /\ u = Under(c, journal[f])
                                   /\ z = c.raw[f] /\ b = c.old[f] /\ n = Installs(c, f) /\ o = own[f]
    OBVIOUS
  <2>2. PICK i, v, x2, ap2, t2 : i = c.at /\ v = c.version /\ x2 = file'[f] /\ ap2 = apart' /\ t2 = torn'
    OBVIOUS
  <2>3. /\ View("undoFile", i, x, r, u, z, b, n, f, apart, o, torn, client) /\ u = None /\ v \in Versions
        /\ z \in Content /\ b \in Kept /\ f \in {1, 2} /\ i \in {1, 2} /\ n = New(z, b, v)
    BY <1>2, <1>4, <1>5, <2>1, <2>2 DEF Installs
  <2>4. x2 = IF f = i THEN z ELSE x
    BY <1>2, <1>4, <1>7, <2>1, <2>2
  <2>5. n.after = After(p, f)
    BY <1>1, <2>1 DEF Installs, New, After
  <2>6. Noted(f, apart, ap2, torn, t2, f = i /\ x \notin {z, n.after})
    <3>1. PICK l : l = (f = i /\ x \notin {z, n.after})
      OBVIOUS
    <3>2. l \in BOOLEAN /\ (l = TRUE <=> f \in {g \in {c.at} : file[g] \notin {c.raw[g], After(p, g)}})
      BY <2>1, <2>2, <2>5, <3>1
    <3> QED
      BY <1>6, <2>2, <3>1, <3>2
  <2>7. View("undoJournal", i, x2, r, u, z, b, n, f, ap2, o, t2, client)
    BY <2>3, <2>4, <2>6, ViewPutsBack
  <2> QED
    BY <1>2, <1>10, <2>1, <2>2, <2>7
<1>14. c.op # "unconfigure" /\ (c.temporary = TRUE => c.old[1] = None)
  BY <1>3, <1>4, Zenon DEF Sound
<1> QED
  BY <1>1, <1>2, <1>3, <1>4, <1>5, <1>9, <1>11, <1>12, <1>13, <1>14, Continue, ZenonT(60)

LEMMA UndoJournalStep ==
    ASSUME ConfigInv, NEW p \in Processes, UndoJournal(p)
    PROVE  ConfigInv'
<1>1. PICK c : c = cmd[p]
  OBVIOUS
<1>2. /\ c.pc = "undoJournal" /\ client' = client /\ file' = file /\ own' = own /\ apart' = apart /\ torn' = torn
      /\ SetRecord(p, c.at, c.old[c.at])
      /\ IF c.at = 1 THEN Leave(p)
         ELSE cmd' = [cmd EXCEPT ![p].pc = "undoFile", ![p].at = c.at - 1] /\ lock' = lock
  BY <1>1 DEF UndoJournal, fixed
<1>3. c.pc \in Working /\ c.pc \in Installing
  BY <1>2, StepNames
<1>4. /\ c \in Commands /\ Sound(c, client, temporary) /\ c.at \in Files /\ c.at \in {1, 2}
      /\ \A f \in Files :
           /\ f \in {1, 2} /\ c.raw[f] \in Content /\ c.old[f] \in Kept
           /\ View(c.pc, c.at, file[f], Rec(c, temporary, journal[f]), Under(c, journal[f]), c.raw[f], c.old[f],
                   Installs(c, f), f, apart, own[f], torn, client)
  BY <1>1, <1>3, Worker
<1>5. /\ temporary' \in Kept /\ journal' \in [{1, 2} -> Kept]
      /\ client = "agent" => temporary' = None
      /\ c.temporary = FALSE => temporary' = None
      /\ \A f \in Files : /\ Rec(c, temporary', journal'[f]) = IF f = c.at THEN c.old[c.at] ELSE Rec(c, temporary, journal[f])
                          /\ Under(c, journal'[f]) = Under(c, journal[f])
  <2>1. PICK r : r = c.old[c.at]
    OBVIOUS
  <2>2. r \in Kept /\ SetRecord(p, c.at, r)
    BY <1>2, <1>4, <2>1
  <2>3. /\ temporary' \in Kept /\ journal' \in [{1, 2} -> Kept]
        /\ client = "agent" => temporary' = None
        /\ c.temporary = FALSE => temporary' = None
        /\ \A f \in Files : /\ Rec(c, temporary', journal'[f]) = IF f = c.at THEN r ELSE Rec(c, temporary, journal[f])
                            /\ Under(c, journal'[f]) = Under(c, journal[f])
    BY <1>1, <1>3, <2>2, RecordSet, ZenonT(60)
  <2> QED
    BY <2>1, <2>3
<1>6. KeepsTypes /\ Clear(c, temporary')
  BY <1>2, <1>5, StateFacts DEF KeepsTypes, Clear, ConfigTypes
<1>7. ASSUME NEW f \in Files
      PROVE  /\ f < c.at => Installed(file'[f], Rec(c, temporary', journal'[f]), Under(c, journal'[f]), Installs(c, f),
                                      f, apart', own'[f], torn', client)
             /\ f >= c.at => Good(Through(file'[f], Rec(c, temporary', journal'[f]), Under(c, journal'[f])),
                                  f, apart', own'[f], torn', client)
  <2>1. PICK i, x, r, u, z, b, n, o : /\ x = file[f] /\ r = Rec(c, temporary, journal[f]) /\ u = Under(c, journal[f])
                                      /\ z = c.raw[f] /\ b = c.old[f] /\ n = Installs(c, f) /\ o = own[f] /\ i = c.at
    OBVIOUS
  <2>2. PICK r2 : r2 = Rec(c, temporary', journal'[f])
    OBVIOUS
  <2>3. View("undoJournal", i, x, r, u, z, b, n, f, apart, o, torn, client) /\ i \in {1, 2} /\ f \in {1, 2}
    BY <1>2, <1>4, <2>1
  <2>4. r2 = IF f = i THEN b ELSE r
    BY <1>5, <2>1, <2>2
  <2>5. /\ f < i => Installed(x, r2, u, n, f, apart, o, torn, client)
        /\ f >= i => Good(Through(x, r2, u), f, apart, o, torn, client)
    BY <2>3, <2>4, ViewForgets
  <2> QED
    BY <1>2, <1>5, <2>1, <2>2, <2>5
<1>8. CASE c.at = 1
  <2>1. Leave(p)
    BY <1>2, <1>8
  <2>2. ASSUME NEW f \in Files
        PROVE  Good(Through(file'[f], Rec(c, temporary', journal'[f]), Under(c, journal'[f])), f, apart', own'[f], torn', client)
    <3>1. f >= c.at
      BY <1>4, <1>8
    <3> QED
      BY <1>7, <3>1
  <2> QED
    BY <1>1, <1>3, <1>6, <2>1, <2>2, Finish
<1>9. CASE c.at # 1
  <2>1. c.at = 2 /\ client = "agent"
    <3>1. c.at = 2
      BY <1>4, <1>9
    <3> QED
      BY <1>4, <3>1, Zenon DEF Sound
  <2>2. PICK pc, at : pc = "undoFile" /\ at = c.at - 1
    OBVIOUS
  <2>3. cmd' = [cmd EXCEPT ![p].pc = pc, ![p].at = at] /\ lock' = lock
    BY <1>2, <1>9, <2>2
  <2>4. cmd' = [cmd EXCEPT ![p] = Moved(c, pc, at)]
    BY <1>1, <2>3 DEF Moved
  <2>5. ASSUME NEW f \in Files
        PROVE  View(pc, at, file'[f], Rec(c, temporary', journal'[f]), Under(c, journal'[f]), c.raw[f], c.old[f],
                    Installs(c, f), f, apart', own'[f], torn', client)
    <3>1. /\ f < at => f < c.at
          /\ f = at => f < c.at
          /\ f > at => f >= c.at
      BY <1>4, <2>1, <2>2
    <3>2. pc # "journal" /\ pc # "file" /\ pc # "undoJournal" /\ pc # "restore" /\ pc # "remove"
      BY <2>2
    <3> QED
      BY <1>7, <2>2, <3>1, <3>2, Zenon DEF View
  <2>6. pc \in Installing => c.op # "unconfigure" /\ (c.temporary = TRUE => c.old[1] = None)
    BY <1>3, <1>4, Zenon DEF Sound
  <2>7. pc \in Working /\ at \in {1, 2} /\ (pc = "undoFile" \/ at = 2 => client = "agent")
    BY <2>1, <2>2, StepNames
  <2>8. lock' = lock
    BY <2>3
  <2> QED
    BY <1>1, <1>3, <1>6, <2>4, <2>5, <2>6, <2>7, <2>8, Continue, Zenon
<1> QED
  BY <1>8, <1>9

-----------------------------------------------------------------------------
(* Restoring *)

LEMMA WrittenFacts ==
    ASSUME ConfigInv, NEW z \in Content, NEW b \in Records
    PROVE  LET y == Written(Restored(z, b)) IN
           /\ y \in Content /\ Doc(y) = Doc(Restored(z, b))
           /\ client = "agent" => y = Restored(z, b)
<1>1. PICK m : m = Restored(z, b)
  OBVIOUS
<1>2. m \in Content
  BY <1>1, BaselineFields
<1>3. Doc(m) \in Documents /\ Doc(m) \in Document
  BY <1>2, DocFacts
<1>4. Doc(Doc(m)) = Doc(m) /\ Doc(m) \in Content
  BY <1>3, DocOfDocument DEF Content
<1>5. Written(m) = IF client = "codex" THEN Doc(m) ELSE m
  BY DEF Written, Doc
<1>6. client = "agent" => client # "codex"
  OBVIOUS
<1> QED
  BY <1>1, <1>2, <1>4, <1>5, <1>6

LEMMA RestoreFileStep ==
    ASSUME ConfigInv, NEW p \in Processes, RestoreFile(p)
    PROVE  ConfigInv'
<1>1. PICK c : c = cmd[p]
  OBVIOUS
<1>2. PICK y : y = Written(Restored(c.raw[c.at], c.old[c.at]))
  OBVIOUS
<1>3. PICK lost : lost = IF c.old[c.at] # None /\ file[c.at] # c.raw[c.at] THEN {c.at} ELSE {}
  OBVIOUS
<1>4. PICK pc, at : pc = (IF c.at + 1 \in Files THEN "restore" ELSE "remove") /\ at = (IF c.at + 1 \in Files THEN c.at + 1 ELSE 1)
  OBVIOUS
<1>5. /\ c.pc = "restore" /\ client' = client /\ journal' = journal /\ temporary' = temporary /\ own' = own /\ lock' = lock
      /\ file' = IF c.old[c.at] = None THEN file ELSE [file EXCEPT ![c.at] = y]
      /\ Overwrites(lost)
  BY <1>1, <1>2, <1>3 DEF RestoreFile, fixed
<1>6. cmd' = [cmd EXCEPT ![p].pc = pc, ![p].at = at]
  <2>1. /\ (Next1(p) = "more") = (c.at + 1 \in Files)
    BY <1>1 DEF Next1
  <2>2. cmd' = [cmd EXCEPT ![p].pc = IF Next1(p) = "more" THEN "restore" ELSE "remove",
                           ![p].at = IF Next1(p) = "more" THEN cmd[p].at + 1 ELSE 1]
    BY DEF RestoreFile
  <2>3. pc = (IF Next1(p) = "more" THEN "restore" ELSE "remove") /\ at = (IF Next1(p) = "more" THEN cmd[p].at + 1 ELSE 1)
    BY <1>1, <1>4, <2>1
  <2> QED
    BY <2>2, <2>3, Zenon
<1>7. c.pc \in Working
  BY <1>5, StepNames
<1>8. /\ c \in Commands /\ c.at \in Files /\ c.at \in {1, 2} /\ (c.temporary = FALSE => temporary = None)
      /\ \A f \in Files :
           /\ f \in {1, 2} /\ c.raw[f] \in Content /\ c.old[f] \in Kept
           /\ Under(c, journal[f]) \in Kept
           /\ client = "agent" => Under(c, journal[f]) = None
           /\ View(c.pc, c.at, file[f], Rec(c, temporary, journal[f]), Under(c, journal[f]), c.raw[f], c.old[f],
                   Installs(c, f), f, apart, own[f], torn, client)
  BY <1>1, <1>7, Worker
<1>9. /\ torn' \in BOOLEAN /\ apart' \subseteq Files
      /\ \A f, l : (l = TRUE <=> f \in lost) /\ l \in BOOLEAN => Noted(f, apart, apart', torn, torn', l)
  BY <1>5, OverwritesNoted
<1>10. /\ file \in [{1, 2} -> Content] /\ own \in [{1, 2} -> Content] /\ journal \in [{1, 2} -> Kept] /\ temporary \in Kept
       /\ client = "agent" => temporary = None
  BY StateFacts DEF ConfigTypes
<1>11. c.old[c.at] # None => /\ y \in Content /\ Doc(y) = Doc(Restored(c.raw[c.at], c.old[c.at]))
                             /\ client = "agent" => y = Restored(c.raw[c.at], c.old[c.at])
  <2>1. PICK z, b : z = c.raw[c.at] /\ b = c.old[c.at]
    OBVIOUS
  <2>2. z \in Content /\ (b # None => b \in Records)
    BY <1>8, <2>1 DEF Kept
  <2>3. b # None => /\ Written(Restored(z, b)) \in Content /\ Doc(Written(Restored(z, b))) = Doc(Restored(z, b))
                    /\ client = "agent" => Written(Restored(z, b)) = Restored(z, b)
    BY <2>2, WrittenFacts
  <2> QED
    BY <1>2, <2>1, <2>3
<1>12. file' \in [{1, 2} -> Content]
  BY <1>5, <1>8, <1>10, <1>11
<1>13. KeepsTypes /\ Clear(c, temporary')
  BY <1>5, <1>8, <1>9, <1>10, <1>12 DEF KeepsTypes, Clear
<1>14. ASSUME NEW f \in Files
       PROVE  /\ Rec(c, temporary', journal'[f]) = c.old[f]
              /\ Good(Through(file'[f], Rec(c, temporary', journal'[f]), Under(c, journal'[f])), f, apart', own'[f], torn', client)
              /\ f <= c.at => Good(Through(file'[f], None, Under(c, journal'[f])), f, apart', own'[f], torn', client)
  <2>1. PICK i, x, r, u, z, b, n, o : /\ x = file[f] /\ r = Rec(c, temporary, journal[f]) /\ u = Under(c, journal[f])
                                      /\ z = c.raw[f] /\ b = c.old[f] /\ n = Installs(c, f) /\ o = own[f] /\ i = c.at
    OBVIOUS
  <2>2. PICK w, x2, ap2, t2 : w = (IF f = i THEN y ELSE Written(Restored(z, b))) /\ x2 = file'[f] /\ ap2 = apart' /\ t2 = torn'
    OBVIOUS
  <2>3. /\ View("restore", i, x, r, u, z, b, n, f, apart, o, torn, client) /\ i \in {1, 2} /\ f \in {1, 2}
        /\ z \in Content /\ b \in Kept /\ u \in Kept /\ x \in Content /\ (client = "agent" => u = None)
    BY <1>5, <1>8, <1>10, <2>1
  <2>4. x2 = IF f = i /\ b # None THEN w ELSE x
    BY <1>5, <1>8, <1>10, <2>1, <2>2
  <2>5. /\ b # None => w \in Content /\ Doc(w) = Doc(Restored(z, b))
        /\ client = "agent" => (b # None => w = Restored(z, b))
    <3>1. CASE f = i
      BY <1>11, <2>1, <2>2, <3>1
    <3>2. CASE f # i
      <4>1. w = Written(Restored(z, b)) /\ (b # None => b \in Records)
        BY <2>2, <2>3, <3>2 DEF Kept
      <4> QED
        BY <2>3, <4>1, WrittenFacts
    <3> QED
      BY <3>1, <3>2
  <2>6. Noted(f, apart, ap2, torn, t2, f = i /\ b # None /\ x # z)
    <3>1. PICK l : l = (f = i /\ b # None /\ x # z)
      OBVIOUS
    <3>2. l \in BOOLEAN /\ (l = TRUE <=> f \in lost)
      BY <1>3, <2>1, <3>1
    <3> QED
      BY <1>9, <2>2, <3>1, <3>2
  <2>7. /\ r = b /\ Good(Through(x2, r, u), f, ap2, o, t2, client)
        /\ f <= i => Good(Through(x2, None, u), f, ap2, o, t2, client)
    <3>1. Restores(x, x2, w, u, z, b, f, i, client, apart, ap2, torn, t2)
      BY <2>3, <2>4, <2>5, <2>6 DEF Restores
    <3> QED
      BY <2>3, <3>1, ViewRestores
  <2> QED
    BY <1>5, <2>1, <2>2, <2>7
<1>15. cmd' = [cmd EXCEPT ![p] = Moved(c, pc, at)]
  BY <1>1, <1>6 DEF Moved
<1>16. /\ pc \in Working /\ pc \notin Installing /\ at \in {1, 2} /\ pc # "undoFile" /\ (at = 2 => client = "agent")
       /\ pc \notin {"journal", "file", "undoFile", "undoJournal"}
  <2>1. c.at + 1 \in Files => c.at = 1 /\ client = "agent"
    BY <1>8, StateFacts, FileFacts
  <2> QED
    BY <1>4, <1>8, <2>1, StepNames
<1>17. ASSUME NEW f \in Files
       PROVE  View(pc, at, file'[f], Rec(c, temporary', journal'[f]), Under(c, journal'[f]), c.raw[f], c.old[f],
                   Installs(c, f), f, apart', own'[f], torn', client)
  <2>1. (pc = "restore" /\ f < at) \/ (pc = "remove" /\ f >= at) => f <= c.at
    BY <1>4, <1>8, StateFacts, FileFacts
  <2> QED
    BY <1>14, <1>16, <2>1, Zenon DEF View
<1>18. lock' = lock /\ (pc = "undoFile" \/ at = 2 => client = "agent")
  BY <1>5, <1>16
<1> QED
  BY <1>1, <1>7, <1>13, <1>15, <1>16, <1>17, <1>18, Continue, Zenon

LEMMA RestoreFailsStep ==
    ASSUME ConfigInv, NEW p \in Processes, RestoreFails(p)
    PROVE  ConfigInv'
<1>1. PICK c : c = cmd[p]
  OBVIOUS
<1>2. PICK back : back = {f \in Files : f < c.at /\ c.old[f] # None}
  OBVIOUS
<1>3. PICK lost : lost = {f \in back : file[f] # Written(Restored(c.raw[f], c.old[f]))}
  OBVIOUS
<1>4. /\ c.pc = "restore" /\ client' = client /\ journal' = journal /\ temporary' = temporary /\ own' = own
      /\ file' = [f \in {1, 2} |-> IF f \in back THEN c.raw[f] ELSE file[f]]
      /\ Overwrites(lost) /\ Leave(p)
  BY <1>1, <1>2, <1>3, Zenon DEF RestoreFails, fixed
<1>5. c.pc \in Working
  BY <1>4, StepNames
<1>6. /\ c \in Commands /\ Sound(c, client, temporary) /\ c.at \in {1, 2} /\ (c.temporary = FALSE => temporary = None)
      /\ \A f \in Files :
           /\ f \in {1, 2} /\ c.raw[f] \in Content /\ c.old[f] \in Kept
           /\ client = "agent" => Under(c, journal[f]) = None
           /\ View(c.pc, c.at, file[f], Rec(c, temporary, journal[f]), Under(c, journal[f]), c.raw[f], c.old[f],
                   Installs(c, f), f, apart, own[f], torn, client)
  BY <1>1, <1>5, Worker
<1>7. /\ torn' \in BOOLEAN /\ apart' \subseteq Files
      /\ \A f, l : (l = TRUE <=> f \in lost) /\ l \in BOOLEAN => Noted(f, apart, apart', torn, torn', l)
  BY <1>4, OverwritesNoted
<1>8. /\ file \in [{1, 2} -> Content] /\ own \in [{1, 2} -> Content] /\ journal \in [{1, 2} -> Kept] /\ temporary \in Kept
      /\ client = "agent" => temporary = None
  BY StateFacts DEF ConfigTypes
<1>9. file' \in [{1, 2} -> Content]
  BY <1>2, <1>4, <1>6, <1>8
<1>10. KeepsTypes /\ Clear(c, temporary')
  BY <1>4, <1>6, <1>7, <1>8, <1>9 DEF KeepsTypes, Clear
<1>11. c.at = 2 => client = "agent"
  BY <1>6, Zenon DEF Sound
<1>12. ASSUME NEW f \in Files
       PROVE  Good(Through(file'[f], Rec(c, temporary', journal'[f]), Under(c, journal'[f])), f, apart', own'[f], torn', client)
  <2>1. PICK i, x, r, u, z, b, n, o : /\ x = file[f] /\ r = Rec(c, temporary, journal[f]) /\ u = Under(c, journal[f])
                                      /\ z = c.raw[f] /\ b = c.old[f] /\ n = Installs(c, f) /\ o = own[f] /\ i = c.at
    OBVIOUS
  <2>2. PICK w, x2, ap2, t2 : w = Written(Restored(z, b)) /\ x2 = file'[f] /\ ap2 = apart' /\ t2 = torn'
    OBVIOUS
  <2>3. /\ View("restore", i, x, r, u, z, b, n, f, apart, o, torn, client) /\ i \in {1, 2} /\ f \in {1, 2}
        /\ z \in Content /\ b \in Kept
    BY <1>4, <1>6, <2>1
  <2>4. f \in back <=> f < i /\ b # None
    BY <1>2, <2>1
  <2>5. x2 = IF f < i /\ b # None THEN z ELSE x
    BY <1>4, <2>1, <2>2, <2>3, <2>4
  <2>6. f < i /\ b # None => u = None /\ w = Restored(z, b)
    <3> SUFFICES ASSUME f < i, b # None PROVE u = None /\ w = Restored(z, b)
      OBVIOUS
    <3>1. i = 2 /\ client = "agent" /\ b \in Records
      BY <1>11, <2>1, <2>3 DEF Kept
    <3> QED
      BY <1>6, <2>1, <2>2, <2>3, <3>1, WrittenFacts
  <2>7. Noted(f, apart, ap2, torn, t2, f < i /\ b # None /\ x # w)
    <3>1. PICK l : l = (f < i /\ b # None /\ x # w)
      OBVIOUS
    <3>2. l \in BOOLEAN /\ (l = TRUE <=> f \in lost)
      BY <1>3, <2>1, <2>2, <2>4, <3>1
    <3> QED
      BY <1>7, <2>2, <3>1, <3>2
  <2>8. Good(Through(x2, r, u), f, ap2, o, t2, client)
    <3>1. GivesUp(x, x2, w, u, z, b, f, i, apart, ap2, torn, t2)
      BY <2>5, <2>6, <2>7 DEF GivesUp
    <3> QED
      BY <2>3, <3>1, ViewGivesUp
  <2> QED
    BY <1>4, <2>1, <2>2, <2>8
<1> QED
  BY <1>1, <1>4, <1>5, <1>10, <1>12, Finish

LEMMA RemoveJournalStep ==
    ASSUME ConfigInv, NEW p \in Processes, RemoveJournal(p)
    PROVE  ConfigInv'
<1>1. PICK c : c = cmd[p]
  OBVIOUS
<1>2. /\ c.pc = "remove" /\ client' = client /\ file' = file /\ own' = own /\ apart' = apart /\ torn' = torn
      /\ SetRecord(p, c.at, None)
      /\ IF c.at + 1 \in Files THEN cmd' = [cmd EXCEPT ![p].at = c.at + 1] /\ lock' = lock ELSE Leave(p)
  BY <1>1 DEF RemoveJournal, SetRecord, Next1, fixed
<1>3. c.pc \in Working /\ c.pc \notin Installing /\ None \in Kept
  BY <1>2, StepNames DEF Kept
<1>4. /\ c \in Commands /\ c.at \in Files /\ c.at \in {1, 2}
      /\ \A f \in Files :
           /\ f \in {1, 2}
           /\ View(c.pc, c.at, file[f], Rec(c, temporary, journal[f]), Under(c, journal[f]), c.raw[f], c.old[f],
                   Installs(c, f), f, apart, own[f], torn, client)
  BY <1>1, <1>3, Worker
<1>5. /\ temporary' \in Kept /\ journal' \in [{1, 2} -> Kept]
      /\ client = "agent" => temporary' = None
      /\ c.temporary = FALSE => temporary' = None
      /\ \A f \in Files : /\ Rec(c, temporary', journal'[f]) = IF f = c.at THEN None ELSE Rec(c, temporary, journal[f])
                          /\ Under(c, journal'[f]) = Under(c, journal[f])
  <2>1. PICK r : r = None
    OBVIOUS
  <2>2. r \in Kept /\ SetRecord(p, c.at, r)
    BY <1>2, <1>3, <2>1
  <2>3. c.pc \in Working
    BY <1>3
  <2>4. /\ temporary' \in Kept /\ journal' \in [{1, 2} -> Kept]
        /\ client = "agent" => temporary' = None
        /\ c.temporary = FALSE => temporary' = None
        /\ \A f \in Files : /\ Rec(c, temporary', journal'[f]) = IF f = c.at THEN r ELSE Rec(c, temporary, journal[f])
                            /\ Under(c, journal'[f]) = Under(c, journal[f])
    BY <1>1, <2>2, <2>3, RecordSet, ZenonT(60)
  <2> QED
    BY <2>1, <2>4
<1>6. KeepsTypes /\ Clear(c, temporary')
  BY <1>2, <1>5, StateFacts DEF KeepsTypes, Clear, ConfigTypes
<1>7. ASSUME NEW f \in Files
      PROVE  /\ Good(Through(file'[f], Rec(c, temporary', journal'[f]), Under(c, journal'[f])), f, apart', own'[f], torn', client)
             /\ f > c.at => Good(Through(file'[f], None, Under(c, journal'[f])), f, apart', own'[f], torn', client)
  <2>1. PICK i, x, r, u, z, b, n, o : /\ x = file[f] /\ r = Rec(c, temporary, journal[f]) /\ u = Under(c, journal[f])
                                      /\ z = c.raw[f] /\ b = c.old[f] /\ n = Installs(c, f) /\ o = own[f] /\ i = c.at
    OBVIOUS
  <2>2. PICK r2 : r2 = Rec(c, temporary', journal'[f])
    OBVIOUS
  <2>3. View("remove", i, x, r, u, z, b, n, f, apart, o, torn, client) /\ i \in {1, 2} /\ f \in {1, 2}
    BY <1>2, <1>4, <2>1
  <2>4. r2 = IF f = i THEN None ELSE r
    BY <1>5, <2>1, <2>2
  <2>5. /\ Good(Through(x, r2, u), f, apart, o, torn, client)
        /\ f > i => Good(Through(x, None, u), f, apart, o, torn, client)
    BY <2>3, <2>4, ViewRemoves
  <2> QED
    BY <1>2, <1>5, <2>1, <2>2, <2>5
<1>8. CASE c.at + 1 \notin Files
  <2>1. Leave(p)
    BY <1>2, <1>8
  <2> QED
    BY <1>1, <1>3, <1>6, <1>7, <2>1, Finish
<1>9. CASE c.at + 1 \in Files
  <2>1. c.at = 1 /\ client = "agent"
    BY <1>4, <1>9, StateFacts, FileFacts
  <2>2. PICK pc, at : pc = c.pc /\ at = c.at + 1
    OBVIOUS
  <2>3. cmd' = [cmd EXCEPT ![p].at = at] /\ lock' = lock /\ at \in {1, 2} /\ at = 2
    BY <1>2, <1>9, <2>1, <2>2
  <2>4. cmd' = [cmd EXCEPT ![p] = Moved(c, pc, at)]
    <3>1. cmd \in [Processes -> Commands]
      BY StateFacts
    <3>2. [cmd EXCEPT ![p].at = at] = [cmd EXCEPT ![p] = Moved(cmd[p], cmd[p].pc, at)]
      BY <2>3, <3>1, CommandTurn
    <3> QED
      BY <1>1, <2>2, <2>3, <3>2, Zenon
  <2>5. ASSUME NEW f \in Files
        PROVE  View(pc, at, file'[f], Rec(c, temporary', journal'[f]), Under(c, journal'[f]), c.raw[f], c.old[f],
                    Installs(c, f), f, apart', own'[f], torn', client)
    <3>1. f >= at => f > c.at
      BY <1>4, <2>1, <2>3
    <3>2. pc \notin Installing /\ pc # "restore" /\ pc = "remove"
      BY <1>2, <1>3, <2>2
    <3>3. pc # "journal" /\ pc # "file" /\ pc # "undoJournal" /\ pc # "undoFile" /\ pc \notin {"undoFile", "undoJournal"}
      BY <3>2
    <3> QED
      BY <1>7, <3>1, <3>2, <3>3, Zenon DEF View
  <2>6. pc \in Installing => c.op # "unconfigure" /\ (c.temporary = TRUE => c.old[1] = None)
    BY <1>3, <2>2
  <2>7. pc \in Working /\ at \in {1, 2} /\ (pc = "undoFile" \/ at = 2 => client = "agent")
    BY <1>3, <2>1, <2>2, <2>3
  <2>8. lock' = lock
    BY <2>3
  <2> QED
    BY <1>1, <1>3, <1>6, <2>4, <2>5, <2>6, <2>7, <2>8, Continue, ZenonT(60)
<1> QED
  BY <1>8, <1>9

-----------------------------------------------------------------------------
(* Steps that leave the files and records alone *)

\* A command that goes on, or ends, without working on the files.
LEMMA Quiet ==
    ASSUME ConfigInv, NEW p \in Processes, NEW d \in Commands, cmd[p].pc \notin Working, d.pc \notin Working,
           cmd' = [cmd EXCEPT ![p] = d],
           client' = client, file' = file, own' = own, journal' = journal, temporary' = temporary,
           apart' = apart, torn' = torn,
           Sound(d, client, temporary),
           lock' \subseteq Processes,
           \A q \in Processes : q \in lock' <=> client = "agent" /\ Holds(cmd'[q], client),
           \A q \in Processes : q # p /\ Holds(d, client) => ~Holds(cmd[q], client)
    PROVE  ConfigInv'
<1>1. Files' = Files
  BY DEF Files
<1>2. /\ ConfigTypes /\ OneHolder /\ cmd \in [Processes -> Commands]
      /\ client \in {"agent", "codex"} /\ \A q \in Processes : Sound(cmd[q], client, temporary)
  BY DEF ConfigInv, ConfigTypes
<1>3. cmd' \in [Processes -> Commands] /\ cmd'[p] = d /\ \A q \in Processes : q # p => cmd'[q] = cmd[q]
  BY <1>2
<1>4. ConfigTypes'
  BY <1>1, <1>2, <1>3 DEF ConfigTypes
<1>5. OneHolder'
  <2>1. ASSUME NEW q \in Processes, NEW i \in Processes, Holds(cmd'[q], client), Holds(cmd'[i], client) PROVE q = i
    <3>1. CASE q = p
      BY <1>3, <2>1, <3>1
    <3>2. CASE i = p
      BY <1>3, <2>1, <3>2
    <3>3. CASE q # p /\ i # p
      <4>1. Holds(cmd[q], client) /\ Holds(cmd[i], client)
        BY <1>3, <2>1, <3>3
      <4> QED
        BY <1>2, <4>1 DEF OneHolder
    <3> QED
      BY <3>1, <3>2, <3>3
  <2> QED
    BY <2>1 DEF OneHolder
<1>6. \A q \in Processes : Sound(cmd'[q], client, temporary)
  <2> SUFFICES ASSUME NEW q \in Processes PROVE Sound(cmd'[q], client, temporary)
    OBVIOUS
  <2> QED
    BY <1>2, <1>3
<1>7. ASSUME NEW f \in Files PROVE FileInv(f)'
  <2>1. FileInv(f)
    BY DEF ConfigInv
  <2>2. \A q \in Processes : cmd'[q].pc \in Working => cmd'[q] = cmd[q]
    BY <1>3
  <2>3. (\A q \in Processes : cmd'[q].pc \notin Working) => \A q \in Processes : cmd[q].pc \notin Working
    BY <1>3
  <2>4. \A q \in Processes : Status(cmd'[q], f, file[f], temporary, journal[f], apart, own[f], torn, client)
    BY <2>1, <2>2, Zenon DEF FileInv, Status
  <2>5. (\A q \in Processes : cmd'[q].pc \notin Working)
          => Good(Through(file[f], temporary, journal[f]), f, apart, own[f], torn, client)
    BY <2>1, <2>3, Zenon DEF FileInv
  <2> QED
    BY <2>4, <2>5, Zenon DEF FileInv
<1> QED
  BY <1>1, <1>4, <1>5, <1>6, <1>7, Zenon DEF ConfigInv

\* A command starts.
LEMMA StartStep ==
    ASSUME ConfigInv, NEW p \in Processes, NEW o \in {"configure", "desktop", "unconfigure"}, NEW v \in Versions \cup {"-"},
           o # "unconfigure" => v \in Versions, Start(p, o, v)
    PROVE  ConfigInv'
<1>1. PICK d : d = [NoCommand EXCEPT !.op = o, !.pc = "confirm", !.version = v, !.raw = file,
                       !.temporary = o = "desktop" \/ (o = "unconfigure" /\ temporary # None)]
  OBVIOUS
<1>2. /\ cmd[p].pc = "idle" /\ CodexFree /\ (o = "desktop" => client = "codex")
      /\ o \in {"configure", "desktop"} => temporary = None
      /\ cmd' = [cmd EXCEPT ![p] = d]
      /\ client' = client /\ file' = file /\ journal' = journal /\ temporary' = temporary /\ lock' = lock
      /\ own' = own /\ apart' = apart /\ torn' = torn
  BY <1>1 DEF Start
<1>3. /\ ConfigTypes /\ OneHolder /\ client \in {"agent", "codex"} /\ cmd \in [Processes -> Commands]
      /\ file \in [{1, 2} -> Content] /\ lock \subseteq Processes
      /\ client = "agent" => temporary = None
  BY StateFacts DEF ConfigTypes
<1>4. /\ d.op = o /\ d.pc = "confirm" /\ d.version = v /\ d.raw = file /\ d.at = 1
      /\ d.temporary = (o = "desktop" \/ (o = "unconfigure" /\ temporary # None))
  BY <1>1 DEF NoCommand
<1>5. d \in Commands
  <2>1. NoCommand \in Commands
    BY NoCommandFacts
  <2> QED
    BY <1>1, <1>3, <2>1 DEF Commands, Ops
<1>6. d.pc \notin Working /\ d.pc \notin Installing /\ cmd[p].pc \notin Working /\ d.pc # "undoFile" /\ d.pc # "await" /\ d.at # 2
  BY <1>2, <1>4 DEF Working, Installing
<1>7. Sound(d, client, temporary)
  <2>1. /\ d.op # "none"
        /\ d.op \in {"configure", "desktop"} => d.version \in Versions
        /\ d.op = "configure" => d.temporary = FALSE
        /\ d.op = "desktop" => d.temporary = TRUE
    BY <1>4
  <2>2. d.temporary = TRUE => client = "codex"
    BY <1>2, <1>3, <1>4
  <2>3. d.temporary = FALSE => temporary = None
    BY <1>2, <1>4
  <2> QED
    BY <1>6, <2>1, <2>2, <2>3, Zenon DEF Sound
<1>8. cmd'[p] = d /\ \A q \in Processes : q # p => cmd'[q] = cmd[q]
  BY <1>2, <1>3
<1>9. ~Holds(cmd[p], client) /\ (client = "agent" => ~Holds(d, client))
  BY <1>2, <1>4 DEF Holds
<1>10. \A q \in Processes : q \in lock' <=> client = "agent" /\ Holds(cmd'[q], client)
  <2>1. \A q \in Processes : q \in lock <=> client = "agent" /\ Holds(cmd[q], client)
    BY <1>3 DEF OneHolder
  <2> QED
    BY <1>2, <1>8, <1>9, <2>1
<1>11. \A q \in Processes : q # p /\ Holds(d, client) => ~Holds(cmd[q], client)
  BY <1>2, <1>3, <1>9 DEF CodexFree, Holds
<1>12. lock' \subseteq Processes
  BY <1>2, <1>3
<1> QED
  BY <1>2, <1>5, <1>6, <1>7, <1>10, <1>11, <1>12, Quiet

LEMMA ConfirmStep ==
    ASSUME ConfigInv, NEW p \in Processes, Confirm(p)
    PROVE  ConfigInv'
<1>1. PICK c, pc : c = cmd[p] /\ pc = "plan"
  OBVIOUS
<1>2. /\ c.pc = "confirm" /\ (client = "agent" => lock = {})
      /\ lock' = IF client = "agent" THEN {p} ELSE lock
      /\ cmd' = [cmd EXCEPT ![p].pc = pc]
      /\ client' = client /\ file' = file /\ journal' = journal /\ temporary' = temporary
      /\ own' = own /\ apart' = apart /\ torn' = torn
  BY <1>1, Zenon DEF Confirm, Step, fixed
<1>3. /\ OneHolder /\ client \in {"agent", "codex"} /\ cmd \in [Processes -> Commands] /\ lock \subseteq Processes
      /\ c \in Commands /\ Sound(c, client, temporary)
  BY <1>1, StateFacts DEF ConfigTypes
<1>4. /\ pc \in Steps /\ pc \notin Working /\ pc \notin Installing /\ pc # "undoFile" /\ pc # "await"
      /\ c.pc \notin Working /\ c.pc # "idle"
  BY <1>1, <1>2, StepNames
<1>5. PICK d : d = Moved(c, pc, c.at)
  OBVIOUS
<1>6. c.at \in {1, 2} /\ c.at # 2 /\ (c.temporary = FALSE => temporary = None)
  <2>1. c.at = 2 => c.pc \in Working
    BY <1>3, Zenon DEF Sound
  <2>2. c.temporary = FALSE => temporary = None
    BY <1>3, <1>4, Zenon DEF Sound
  <2> QED
    BY <1>3, <1>4, <2>1, <2>2, CommandFacts
<1>7. cmd' = [cmd EXCEPT ![p] = d] /\ d \in Commands /\ d.pc = pc
  <2>1. cmd' = [cmd EXCEPT ![p] = Moved(c, pc, c.at)]
    <3>1. c = cmd[p] /\ pc \in Steps /\ cmd' = [cmd EXCEPT ![p].pc = pc]
      BY <1>1, <1>2, <1>4
    <3> QED
      BY <3>1, Stepped, ZenonT(60)
  <2>2. d \in Commands /\ d.pc = pc
    BY <1>3, <1>4, <1>5, <1>6, MovedFacts
  <2> QED
    BY <1>5, <2>1, <2>2
<1>8. Sound(d, client, temporary)
  <2>1. PICK at : at = c.at
    OBVIOUS
  <2>2. at \in {1, 2} /\ (at = 2 => client = "agent" /\ pc \in Working)
    BY <1>6, <2>1
  <2>3. Sound(Moved(c, pc, at), client, temporary)
    BY <1>3, <1>4, <1>6, <2>2, SoundMoves
  <2> QED
    BY <1>5, <2>1, <2>3
<1>9. cmd'[p] = d /\ \A q \in Processes : q # p => cmd'[q] = cmd[q]
  BY <1>3, <1>7
<1>10. \A q \in Processes : q # p => ~Holds(cmd[q], client)
  <2>1. CASE client = "agent"
    BY <1>2, <1>3, <2>1 DEF OneHolder
  <2>2. CASE client = "codex"
    <3>1. Holds(c, client)
      BY <1>2, <2>2 DEF Holds
    <3> QED
      BY <1>1, <3>1, Alone
  <2> QED
    BY <1>3, <2>1, <2>2
<1>11. Holds(d, client)
  BY <1>1, <1>7 DEF Holds
<1>12. \A q \in Processes : q \in lock' <=> client = "agent" /\ Holds(cmd'[q], client)
  <2>1. \A q \in Processes : q \in lock => client = "agent"
    BY <1>3 DEF OneHolder
  <2> QED
    BY <1>2, <1>9, <1>10, <1>11, <2>1
<1>13. lock' \subseteq Processes
  BY <1>2, <1>3
<1>14. cmd[p].pc \notin Working /\ d.pc \notin Working
  BY <1>1, <1>4, <1>7
<1>15. \A q \in Processes : q # p /\ Holds(d, client) => ~Holds(cmd[q], client)
  BY <1>10
<1> QED
  BY <1>2, <1>7, <1>8, <1>12, <1>13, <1>14, <1>15, Quiet

\* A command ends that was not working.
LEMMA Leaves ==
    ASSUME ConfigInv, NEW p \in Processes, cmd[p].pc \notin Working, cmd' = [cmd EXCEPT ![p] = NoCommand],
           lock' = lock \ {p},
           client' = client, file' = file, own' = own, journal' = journal, temporary' = temporary,
           apart' = apart, torn' = torn
    PROVE  ConfigInv'
<1>1. OneHolder /\ cmd \in [Processes -> Commands] /\ lock \subseteq Processes
  BY StateFacts DEF ConfigTypes
<1>2. PICK d : d = NoCommand
  OBVIOUS
<1>3. /\ d \in Commands /\ Sound(d, client, temporary) /\ ~Holds(d, client) /\ d.pc \notin Working
      /\ cmd' = [cmd EXCEPT ![p] = d]
  BY <1>2, NoCommandFacts, SoundNone
<1>4. cmd'[p] = d /\ \A q \in Processes : q # p => cmd'[q] = cmd[q]
  BY <1>1, <1>3
<1>5. \A q \in Processes : q \in lock' <=> client = "agent" /\ Holds(cmd'[q], client)
  <2>1. \A q \in Processes : q \in lock <=> client = "agent" /\ Holds(cmd[q], client)
    BY <1>1 DEF OneHolder
  <2> QED
    BY <1>3, <1>4, <2>1
<1>6. lock' \subseteq Processes /\ \A q \in Processes : q # p /\ Holds(d, client) => ~Holds(cmd[q], client)
  BY <1>1, <1>3
<1> QED
  BY <1>3, <1>5, <1>6, Quiet

LEMMA DeclineStep ==
    ASSUME ConfigInv, NEW p \in Processes, Decline(p)
    PROVE  ConfigInv'
<1>1. /\ cmd[p].pc \in {"confirm", "plan"} /\ cmd' = [cmd EXCEPT ![p] = NoCommand] /\ lock' = lock \ {p}
      /\ client' = client /\ file' = file /\ journal' = journal /\ temporary' = temporary
      /\ own' = own /\ apart' = apart /\ torn' = torn
  BY Zenon DEF Decline, Leave, fixed
<1>2. cmd[p].pc \notin Working
  BY <1>1 DEF Working, Installing
<1> QED
  BY <1>1, <1>2, Leaves

-----------------------------------------------------------------------------
(* Beginning to work *)

\* A command that is about to work and no other does finds the files in order.
LEMMA Found ==
    ASSUME ConfigInv, NEW p \in Processes, NEW c, c = cmd[p], c.pc \notin Working, c.pc # "idle",
           \A q \in Processes : q # p => ~Holds(cmd[q], client)
    PROVE  /\ c \in Commands /\ Sound(c, client, temporary) /\ Clear(c, temporary)
           /\ \A f \in Files : Good(Through(file[f], Rec(c, temporary, journal[f]), Under(c, journal[f])),
                                    f, apart, own[f], torn, client)
<1>1. c \in Commands /\ Sound(c, client, temporary)
  BY StateFacts
<1>2. Clear(c, temporary)
  BY <1>1, Zenon DEF Sound, Clear
<1>3. \A q \in Processes : cmd[q].pc \notin Working
  BY WorkingHolds
<1>4. ASSUME NEW f \in Files
      PROVE  Good(Through(file[f], Rec(c, temporary, journal[f]), Under(c, journal[f])), f, apart, own[f], torn, client)
  <2>1. Good(Through(file[f], temporary, journal[f]), f, apart, own[f], torn, client)
    BY <1>3, StateFacts DEF FileInv
  <2>2. Through(file[f], temporary, journal[f]) = Through(file[f], Rec(c, temporary, journal[f]), Under(c, journal[f]))
    BY <1>1, <1>2, HomeForm
  <2> QED
    BY <2>1, <2>2
<1> QED
  BY <1>1, <1>2, <1>4

\* The step that begins: nothing has changed yet.
LEMMA Begins ==
    ASSUME ConfigInv, NEW p \in Processes, \A q \in Processes : q # p => ~Holds(cmd[q], client),
           client = "agent" => Holds(cmd[p], client), NEW d \in Commands, d.pc \in Working,
           cmd' = [cmd EXCEPT ![p] = d], client' = client, lock' = lock, file' = file, own' = own,
           journal' = journal, temporary' = temporary, apart' = apart, torn' = torn,
           Sound(d, client, temporary),
           \A f \in Files :
               View(d.pc, d.at, file[f], Rec(d, temporary, journal[f]), Under(d, journal[f]), d.raw[f], d.old[f],
                    Installs(d, f), f, apart, own[f], torn, client)
    PROVE  ConfigInv'
<1>1. /\ file' \in [{1, 2} -> Content] /\ own' \in [{1, 2} -> Content]
      /\ journal' \in [{1, 2} -> Kept] /\ temporary' \in Kept
      /\ apart' \subseteq Files /\ torn' \in BOOLEAN /\ (client = "agent" => temporary' = None)
  BY StateFacts DEF ConfigTypes
<1>2. \A f \in Files : Later(d, f, file'[f], temporary', journal'[f], apart', own'[f], torn', client)
  BY Zenon DEF Later
<1>3. lock' = IF Holds(d, client) THEN lock ELSE lock \ {p}
  BY WorkingHolds
<1>4. Sound(d, client, temporary')
  OBVIOUS
<1> QED
  BY <1>1, <1>2, <1>3, <1>4, Compose

LEMMA PlanConfigureStep ==
    ASSUME ConfigInv, NEW p \in Processes, PlanConfigure(p)
    PROVE  ConfigInv'
<1>1. PICK c : c = cmd[p]
  OBVIOUS
<1>2. PICK old : old = [f \in {1, 2} |-> IF c.op = "desktop" THEN None ELSE journal[f]]
  OBVIOUS
<1>3. PICK d : d = [c EXCEPT !.pc = "journal", !.old = old]
  OBVIOUS
<1>4. /\ c.pc = "plan" /\ c.op # "unconfigure" /\ file = c.raw
      /\ c.op = "desktop" => temporary = None
      /\ cmd' = [cmd EXCEPT ![p].pc = "journal", ![p].old = old]
      /\ client' = client /\ file' = file /\ journal' = journal /\ temporary' = temporary /\ lock' = lock
      /\ own' = own /\ apart' = apart /\ torn' = torn
  BY <1>1, <1>2, Zenon DEF PlanConfigure, fixed
<1>5. c.pc \notin Working /\ c.pc # "idle" /\ c.pc # "confirm" /\ c.pc # "await"
  BY <1>4, StepNames
<1>6. Holds(c, client)
  BY <1>5 DEF Holds
<1>7. \A q \in Processes : q # p => ~Holds(cmd[q], client)
  BY <1>1, <1>6, Alone
<1>8. /\ c \in Commands /\ Sound(c, client, temporary) /\ Clear(c, temporary)
      /\ \A f \in Files : Good(Through(file[f], Rec(c, temporary, journal[f]), Under(c, journal[f])),
                               f, apart, own[f], torn, client)
  BY <1>1, <1>5, <1>7, Found
<1>9. /\ client \in {"agent", "codex"} /\ cmd \in [Processes -> Commands] /\ file \in [{1, 2} -> Content]
      /\ journal \in [{1, 2} -> Kept] /\ temporary \in Kept /\ Files \subseteq {1, 2}
  BY StateFacts DEF ConfigTypes
<1>10. cmd' = [cmd EXCEPT ![p] = d]
  BY <1>1, <1>3, <1>4
<1>11. old \in [{1, 2} -> Kept]
  <2>1. None \in Kept
    BY DEF Kept
  <2> QED
    BY <1>2, <1>9, <2>1
<1>12. d \in Commands
  BY <1>3, <1>8, <1>11 DEF Commands, Working, Installing
<1>13. /\ d.pc = "journal" /\ d.old = old /\ d.raw = c.raw /\ d.at = c.at /\ d.op = c.op /\ d.version = c.version
       /\ d.temporary = c.temporary
  BY <1>3, <1>8 DEF Commands
<1>14. c.at = 1 /\ c.op \in {"configure", "desktop"} /\ (c.op = "configure" => c.temporary = FALSE) /\ (c.op = "desktop" => c.temporary = TRUE)
  <2>1. c.at \in {1, 2} /\ c.op \in Ops
    BY <1>8, CommandFacts
  <2>2. /\ c.at = 2 => c.pc \in Working
        /\ c.op # "none"
        /\ c.op = "configure" => c.temporary = FALSE
        /\ c.op = "desktop" => c.temporary = TRUE
    BY <1>5, <1>8, Zenon DEF Sound
  <2> QED
    BY <1>4, <1>5, <2>1, <2>2 DEF Ops
<1>15. \A f \in Files : f \in {1, 2} /\ Rec(d, temporary, journal[f]) = d.old[f] /\ d.raw[f] = file[f]
  BY <1>2, <1>4, <1>9, <1>13, <1>14 DEF Rec
<1>16. d.pc \in Working
  BY <1>13, StepNames
<1>17. Sound(d, client, temporary)
  <2>1. c.temporary = TRUE => d.old[1] = None
    BY <1>2, <1>13, <1>14
  <2>2. d.pc # "undoFile" /\ d.pc # "await"
    BY <1>13
  <2>3. d.at # 2 /\ d.op # "unconfigure"
    BY <1>4, <1>13, <1>14
  <2>4. d.temporary = FALSE => temporary = None
    BY <1>8, <1>13 DEF Clear
  <2> QED
    BY <1>5, <1>8, <1>13, <2>1, <2>2, <2>3, <2>4, Zenon DEF Sound
<1>18. ASSUME NEW f \in Files
       PROVE  View(d.pc, d.at, file[f], Rec(d, temporary, journal[f]), Under(d, journal[f]), d.raw[f], d.old[f],
                   Installs(d, f), f, apart, own[f], torn, client)
  <2>1. PICK i, x, r, u, z, b, n, o : /\ x = file[f] /\ r = Rec(d, temporary, journal[f]) /\ u = Under(d, journal[f])
                                      /\ z = d.raw[f] /\ b = d.old[f] /\ n = Installs(d, f) /\ o = own[f] /\ i = d.at
    OBVIOUS
  <2>2. f \in {1, 2} /\ r = b /\ z = x /\ i = 1
    BY <1>13, <1>14, <1>15, <2>1
  <2>3. r = Rec(c, temporary, journal[f]) /\ u = Under(c, journal[f])
    BY <1>13, <2>1 DEF Rec, Under
  <2>4. Good(Through(x, r, u), f, apart, o, torn, client)
    BY <1>8, <2>1, <2>3
  <2>5. Untouched(x, r, u, z, b, f, apart, o, torn, client)
    BY <2>2, <2>4, FromSelf DEF Untouched
  <2>6. ~(f < i)
    BY <2>2
  <2>7. View("journal", i, x, r, u, z, b, n, f, apart, o, torn, client)
    BY <2>5, <2>6 DEF View
  <2> QED
    BY <1>13, <2>1, <2>7
<1>19. client = "agent" => Holds(cmd[p], client)
  BY <1>1, <1>6
<1> QED
  BY <1>4, <1>7, <1>10, <1>12, <1>16, <1>17, <1>18, <1>19, Begins

\* What a restoring command finds when it begins.
LEMMA ViewBegins ==
    ASSUME NEW x, NEW r, NEW u, NEW z, NEW n, NEW f \in {1, 2}, NEW ap, NEW o, NEW t, NEW c,
           Good(Through(x, r, u), f, ap, o, t, c)
    PROVE  View("restore", 1, x, r, u, z, r, n, f, ap, o, t, c)
<1>1. ~(f < 1)
  OBVIOUS
<1> QED
  BY <1>1 DEF View, Installing

LEMMA PlanRestoreStep ==
    ASSUME ConfigInv, NEW p \in Processes, PlanRestore(p)
    PROVE  ConfigInv'
<1>1. PICK c : c = cmd[p]
  OBVIOUS
<1>2. PICK old : old = [f \in {1, 2} |-> IF f \in Files THEN Record(p, f) ELSE None]
  OBVIOUS
<1>3. PICK d : d = [c EXCEPT !.pc = "restore", !.old = old]
  OBVIOUS
<1>4. /\ c.pc = "plan" /\ c.op = "unconfigure"
      /\ cmd' = [cmd EXCEPT ![p].pc = "restore", ![p].old = old]
      /\ client' = client /\ file' = file /\ journal' = journal /\ temporary' = temporary /\ lock' = lock
      /\ own' = own /\ apart' = apart /\ torn' = torn
  BY <1>1, <1>2, Zenon DEF PlanRestore, fixed
<1>5. c.pc \notin Working /\ c.pc # "idle" /\ c.pc # "confirm" /\ c.pc # "await"
  BY <1>4, StepNames
<1>6. Holds(c, client)
  BY <1>5 DEF Holds
<1>7. \A q \in Processes : q # p => ~Holds(cmd[q], client)
  BY <1>1, <1>6, Alone
<1>8. /\ c \in Commands /\ Sound(c, client, temporary) /\ Clear(c, temporary)
      /\ \A f \in Files : Good(Through(file[f], Rec(c, temporary, journal[f]), Under(c, journal[f])),
                               f, apart, own[f], torn, client)
  BY <1>1, <1>5, <1>7, Found
<1>9. /\ client \in {"agent", "codex"} /\ cmd \in [Processes -> Commands]
      /\ journal \in [{1, 2} -> Kept] /\ temporary \in Kept /\ Files \subseteq {1, 2}
  BY StateFacts DEF ConfigTypes
<1>10. cmd' = [cmd EXCEPT ![p] = d]
  BY <1>1, <1>3, <1>4
<1>11. \A f \in Files : f \in {1, 2} /\ old[f] = Rec(c, temporary, journal[f])
  BY <1>1, <1>2, <1>9 DEF Record, Rec
<1>12. old \in [{1, 2} -> Kept]
  <2>1. None \in Kept
    BY DEF Kept
  <2>2. \A f \in Files : Record(p, f) \in Kept
    BY <1>9 DEF Record
  <2> QED
    BY <1>2, <2>1, <2>2
<1>13. d \in Commands
  BY <1>3, <1>8, <1>12 DEF Commands, Working, Installing
<1>14. /\ d.pc = "restore" /\ d.old = old /\ d.raw = c.raw /\ d.at = c.at /\ d.op = c.op /\ d.version = c.version
       /\ d.temporary = c.temporary
  BY <1>3, <1>8 DEF Commands
<1>15. c.at = 1
  <2>1. c.at \in {1, 2}
    BY <1>8, CommandFacts
  <2>2. c.at = 2 => c.pc \in Working
    BY <1>8, Zenon DEF Sound
  <2> QED
    BY <1>5, <2>1, <2>2
<1>16. d.pc \in Working /\ d.pc \notin Installing /\ d.pc # "undoFile" /\ d.pc # "await"
  BY <1>14, StepNames
<1>17. Sound(d, client, temporary)
  <2>1. d.at # 2
    BY <1>14, <1>15
  <2>2. d.temporary = FALSE => temporary = None
    BY <1>8, <1>14 DEF Clear
  <2> QED
    BY <1>5, <1>8, <1>14, <1>16, <2>1, <2>2, Zenon DEF Sound
<1>18. ASSUME NEW f \in Files
       PROVE  View(d.pc, d.at, file[f], Rec(d, temporary, journal[f]), Under(d, journal[f]), d.raw[f], d.old[f],
                   Installs(d, f), f, apart, own[f], torn, client)
  <2>1. PICK x, r, u, z, n, o : /\ x = file[f] /\ r = Rec(d, temporary, journal[f]) /\ u = Under(d, journal[f])
                                /\ z = d.raw[f] /\ n = Installs(d, f) /\ o = own[f]
    OBVIOUS
  <2>2. r = Rec(c, temporary, journal[f]) /\ u = Under(c, journal[f])
    BY <1>14, <2>1 DEF Rec, Under
  <2>3. f \in {1, 2} /\ Good(Through(x, r, u), f, apart, o, torn, client)
    BY <1>8, <1>11, <2>1, <2>2
  <2>4. View("restore", 1, x, r, u, z, r, n, f, apart, o, torn, client)
    BY <2>3, ViewBegins
  <2>5. d.old[f] = r /\ d.at = 1
    BY <1>11, <1>14, <1>15, <2>2
  <2> QED
    BY <1>14, <2>1, <2>4, <2>5
<1>19. client = "agent" => Holds(cmd[p], client)
  BY <1>1, <1>6
<1> QED
  BY <1>4, <1>7, <1>10, <1>13, <1>16, <1>17, <1>18, <1>19, Begins

\* The restore of a desktop switch.
LEMMA RestoreDesktopStep ==
    ASSUME ConfigInv, NEW p \in Processes, RestoreDesktop(p)
    PROVE  ConfigInv'
<1>1. PICK c : c = cmd[p]
  OBVIOUS
<1>2. PICK old : old = [f \in {1, 2} |-> IF f = 1 THEN temporary ELSE None]
  OBVIOUS
<1>3. PICK d : d = [c EXCEPT !.pc = "restore", !.raw = file, !.at = 1, !.old = old]
  OBVIOUS
<1>4. /\ c.pc = "await" /\ CodexFree
      /\ IF temporary = None THEN cmd' = [cmd EXCEPT ![p] = NoCommand]
         ELSE cmd' = [cmd EXCEPT ![p].pc = "restore", ![p].raw = file, ![p].at = 1, ![p].old = old]
      /\ client' = client /\ file' = file /\ journal' = journal /\ temporary' = temporary /\ lock' = lock
      /\ own' = own /\ apart' = apart /\ torn' = torn
  BY <1>1, <1>2, Zenon DEF RestoreDesktop, fixed
<1>5. c.pc \notin Working /\ c.pc # "idle"
  BY <1>4, StepNames
<1>6. c \in Commands /\ Sound(c, client, temporary)
  BY <1>1, StateFacts
<1>7. c.op = "desktop" /\ c.temporary = TRUE /\ client = "codex"
  <2>1. c.op = "desktop"
    BY <1>4, <1>6, Zenon DEF Sound
  <2>2. c.temporary = TRUE
    BY <1>6, <2>1, Zenon DEF Sound
  <2> QED
    BY <1>6, <2>1, <2>2, Zenon DEF Sound
<1>8. /\ OneHolder /\ cmd \in [Processes -> Commands] /\ file \in [{1, 2} -> Content]
      /\ journal \in [{1, 2} -> Kept] /\ temporary \in Kept /\ Files = {1}
  BY <1>7, StateFacts, FileFacts DEF ConfigTypes
<1>9. \A q \in Processes : ~Holds(cmd[q], client)
  BY <1>4, <1>7 DEF CodexFree, Holds
<1>10. CASE temporary = None
  <2>1. p \notin lock
    BY <1>7, <1>8 DEF OneHolder
  <2>2. lock' = lock \ {p}
    BY <1>4, <2>1
  <2>3. cmd' = [cmd EXCEPT ![p] = NoCommand]
    BY <1>4, <1>10
  <2> QED
    BY <1>1, <1>4, <1>5, <2>2, <2>3, Leaves
<1>11. CASE temporary # None
  <2>1. cmd' = [cmd EXCEPT ![p] = d]
    BY <1>1, <1>3, <1>4, <1>11
  <2>2. old \in [{1, 2} -> Kept] /\ old[1] = temporary
    <3>1. None \in Kept
      BY DEF Kept
    <3> QED
      BY <1>2, <1>8, <3>1
  <2>3. d \in Commands
    BY <1>3, <1>6, <1>8, <2>2 DEF Commands, Working, Installing
  <2>4. /\ d.pc = "restore" /\ d.old = old /\ d.raw = file /\ d.at = 1 /\ d.op = c.op /\ d.version = c.version
        /\ d.temporary = c.temporary
    BY <1>3, <1>6 DEF Commands
  <2>5. d.pc \in Working /\ d.pc \notin Installing /\ d.pc # "undoFile" /\ d.pc # "await"
    BY <2>4, StepNames
  <2>6. /\ Sound(c, client, temporary) /\ Clear(c, temporary)
        /\ \A f \in Files : Good(Through(file[f], Rec(c, temporary, journal[f]), Under(c, journal[f])),
                                 f, apart, own[f], torn, client)
    BY <1>1, <1>5, <1>9, Found
  <2>7. Sound(d, client, temporary)
    <3>1. d.at # 2
      BY <2>4
    <3>2. d.temporary = FALSE => temporary = None
      BY <2>4, <2>6 DEF Clear
    <3> QED
      BY <1>5, <2>4, <2>5, <2>6, <3>1, <3>2, Zenon DEF Sound
  <2>8. ASSUME NEW f \in Files
        PROVE  View(d.pc, d.at, file[f], Rec(d, temporary, journal[f]), Under(d, journal[f]), d.raw[f], d.old[f],
                    Installs(d, f), f, apart, own[f], torn, client)
    <3>1. PICK x, r, u, z, n, o : /\ x = file[f] /\ r = Rec(d, temporary, journal[f]) /\ u = Under(d, journal[f])
                                  /\ z = d.raw[f] /\ n = Installs(d, f) /\ o = own[f]
      OBVIOUS
    <3>2. r = Rec(c, temporary, journal[f]) /\ u = Under(c, journal[f])
      BY <2>4, <3>1 DEF Rec, Under
    <3>3. f \in {1, 2} /\ Good(Through(x, r, u), f, apart, o, torn, client)
      BY <1>8, <2>6, <3>1, <3>2
    <3>4. View("restore", 1, x, r, u, z, r, n, f, apart, o, torn, client)
      BY <3>3, ViewBegins
    <3>5. d.old[f] = r
      BY <1>7, <1>8, <2>2, <2>4, <3>2 DEF Rec
    <3> QED
      BY <2>4, <3>1, <3>4, <3>5
  <2>9. /\ \A q \in Processes : q # p => ~Holds(cmd[q], client)
        /\ client = "agent" => Holds(cmd[p], client)
    BY <1>7, <1>9
  <2> QED
    BY <1>4, <2>1, <2>3, <2>5, <2>7, <2>8, <2>9, Begins
<1> QED
  BY <1>10, <1>11

-----------------------------------------------------------------------------
(* A killed command, an edit *)

LEMMA KillStep ==
    ASSUME ConfigInv, NEW p \in Processes, Kill(p)
    PROVE  ConfigInv'
<1>1. PICK c : c = cmd[p]
  OBVIOUS
<1>2. /\ c.pc \notin {"idle", "confirm", "plan"} /\ Leave(p)
      /\ torn' = (torn \/ (c.pc \in {"file", "undoFile", "undoJournal"} /\ c.old[c.at] # None))
      /\ client' = client /\ file' = file /\ journal' = journal /\ temporary' = temporary /\ own' = own /\ apart' = apart
  BY <1>1 DEF Kill, fixed
<1>3. c \in Commands /\ torn \in BOOLEAN
  BY <1>1, StateFacts DEF ConfigTypes
<1>4. torn' \in BOOLEAN /\ (torn' = FALSE => torn = FALSE)
      /\ (c.pc \in {"file", "undoFile", "undoJournal"} /\ c.old[c.at] # None => torn' = TRUE)
      /\ (c.pc \notin {"file", "undoFile", "undoJournal"} => torn' = torn)
  BY <1>2, <1>3
<1>5. CASE c.pc \in Working
  <2>1. /\ Sound(c, client, temporary) /\ c.at \in {1, 2}
        /\ c.temporary = TRUE => client = "codex" /\ Files = {1} /\ c.at = 1
        /\ c.temporary = FALSE => temporary = None
        /\ c.pc \in Installing => c.version \in Versions
        /\ \A f \in Files :
             /\ f \in {1, 2} /\ c.raw[f] \in Content /\ c.old[f] \in Kept
             /\ Under(c, journal[f]) \in Kept
             /\ client = "agent" => Under(c, journal[f]) = None
             /\ View(c.pc, c.at, file[f], Rec(c, temporary, journal[f]), Under(c, journal[f]), c.raw[f], c.old[f],
                     Installs(c, f), f, apart, own[f], torn, client)
    BY <1>1, <1>5, Worker
  <2>2. c.temporary \in BOOLEAN
    BY <1>3, CommandFacts
  <2>3. c.pc \in Installing /\ c.old[c.at] # None => c.temporary = FALSE
    <3>1. c.pc \in Installing /\ c.temporary = TRUE => c.old[1] = None
      BY <2>1, Zenon DEF Sound
    <3> QED
      BY <2>1, <2>2, <3>1
  <2>4. KeepsTypes
    BY <1>2, <1>4, SameTypes
  <2>5. Clear(c, temporary')
    BY <1>2, <2>1 DEF Clear
  <2>6. ASSUME NEW f \in Files
        PROVE  Good(Through(file'[f], Rec(c, temporary', journal'[f]), Under(c, journal'[f])), f, apart', own'[f], torn', client)
    <3>1. PICK i, x, r, u, z, b, n, o : /\ x = file[f] /\ r = Rec(c, temporary, journal[f]) /\ u = Under(c, journal[f])
                                        /\ z = c.raw[f] /\ b = c.old[f] /\ n = Installs(c, f) /\ o = own[f] /\ i = c.at
      OBVIOUS
    <3>2. PICK pc, v, t2 : pc = c.pc /\ v = c.version /\ t2 = torn'
      OBVIOUS
    <3>3. /\ View(pc, i, x, r, u, z, b, n, f, apart, o, torn, client) /\ i \in {1, 2} /\ f \in {1, 2} /\ pc \in Working
          /\ z \in Content /\ b \in Kept /\ u \in Kept /\ (pc \in Installing => v \in Versions)
          /\ client = "agent" => u = None
      BY <1>5, <2>1, <3>1, <3>2
    <3>4. x \in Content /\ n = New(z, b, v)
      BY <3>1, <3>2, StateFacts DEF Installs
    <3>5. pc \in Installing /\ f = i /\ b # None => u = None
      BY <2>3, <3>1, <3>2 DEF Under
    <3>6. /\ t2 = FALSE => torn = FALSE
          /\ pc \in {"file", "undoFile", "undoJournal"} /\ f = i /\ b # None => t2 = TRUE
      BY <1>4, <3>1, <3>2
    <3>7. Good(Through(x, r, u), f, apart, o, t2, client)
      BY <3>3, <3>4, <3>5, <3>6, ViewDies, ZenonT(60)
    <3> QED
      BY <1>2, <3>1, <3>2, <3>7
  <2>7. Leave(p)
    BY <1>2
  <2> QED
    BY <1>1, <1>5, <2>4, <2>5, <2>6, <2>7, Finish
<1>6. CASE c.pc \notin Working
  <2>1. c.pc \notin {"file", "undoFile", "undoJournal"}
    BY <1>6 DEF Working, Installing
  <2>2. torn' = torn /\ cmd' = [cmd EXCEPT ![p] = NoCommand] /\ lock' = lock \ {p}
    BY <1>2, <1>4, <2>1 DEF Leave
  <2> QED
    BY <1>1, <1>2, <1>6, <2>2, Leaves
<1> QED
  BY <1>5, <1>6

LEMMA EditStep ==
    ASSUME ConfigInv, NEW f \in {1, 2}, NEW k \in Fields, NEW v \in {"-", "e"}, Edit(f, k, v)
    PROVE  ConfigInv'
<1>1. /\ f \in Files /\ client' = client /\ journal' = journal /\ temporary' = temporary /\ cmd' = cmd /\ lock' = lock /\ torn' = torn
      /\ file' = [file EXCEPT ![f] = Edited(file[f], k, v)]
      /\ own' = [own EXCEPT ![f] = Edited(own[f], k, v)]
      /\ apart' = IF k \in Group /\ \E g \in Group : Doc(file[f])[g] \in Versions THEN apart \cup {f} ELSE apart
  BY DEF Edit, Edited, Doc
<1>2. v \in UserValues
  BY DEF UserValues
<1>3. /\ ConfigTypes /\ OneHolder /\ Files \subseteq {1, 2}
      /\ file \in [{1, 2} -> Content] /\ own \in [{1, 2} -> Content] /\ journal \in [{1, 2} -> Kept] /\ temporary \in Kept
      /\ apart \subseteq Files /\ cmd \in [Processes -> Commands]
      /\ \A p \in Processes : Sound(cmd[p], client, temporary)
  BY StateFacts DEF ConfigTypes
<1>4. Files' = Files
  BY <1>1 DEF Files
<1>5. ConfigTypes'
  <2>1. file[f] \in Content /\ own[f] \in Content
    BY <1>3
  <2>2. Edited(file[f], k, v) \in Content /\ Edited(own[f], k, v) \in Content
    BY <1>2, <2>1, EditedContent, Zenon
  <2>3. file' \in [{1, 2} -> Content] /\ own' \in [{1, 2} -> Content] /\ apart' \subseteq Files
    BY <1>1, <1>3, <2>2
  <2> QED
    BY <1>1, <1>3, <1>4, <2>3 DEF ConfigTypes
<1>6. OneHolder'
  BY <1>1, <1>3 DEF OneHolder
<1>7. ASSUME NEW h \in Files PROVE FileInv(h)'
  <2>1. PICK x, s, j, o, x2, o2, ap2 : /\ x = file[h] /\ s = temporary /\ j = journal[h] /\ o = own[h]
                                       /\ x2 = file'[h] /\ o2 = own'[h] /\ ap2 = apart'
    OBVIOUS
  <2>2. x \in Content /\ s \in Kept /\ j \in Kept /\ o \in Content /\ h \in {1, 2}
    BY <1>3, <2>1
  <2>3. /\ (\A p \in Processes : cmd[p].pc \notin Working) => Good(Through(x, s, j), h, apart, o, torn, client)
        /\ \A p \in Processes : Status(cmd[p], h, x, s, j, apart, o, torn, client)
    BY <2>1, StateFacts, Zenon DEF FileInv
  <2>4. /\ Good(Through(x, s, j), h, apart, o, torn, client) => Good(Through(x2, s, j), h, ap2, o2, torn, client)
        /\ \A p \in Processes : Status(cmd[p], h, x2, s, j, ap2, o2, torn, client)
    <3>1. CASE h = f
      <4>1. x2 = Edited(x, k, v) /\ o2 = Edited(o, k, v)
        BY <1>1, <1>3, <2>1, <3>1
      <4>2. h \in ap2 <=> (h \in apart \/ (k \in Group /\ (Doc(x)["url"] \in Versions \/ Doc(x)["auth"] \in Versions)))
        <5>1. (\E g \in Group : Doc(x)[g] \in Versions) <=> (Doc(x)["url"] \in Versions \/ Doc(x)["auth"] \in Versions)
          BY FieldFacts
        <5> QED
          BY <1>1, <2>1, <3>1, <5>1
      <4>3. Good(Through(x, s, j), h, apart, o, torn, client) => Good(Through(x2, s, j), h, ap2, o2, torn, client)
        BY <1>2, <2>2, <4>1, <4>2, GoodEdited
      <4>4. ASSUME NEW p \in Processes PROVE Status(cmd[p], h, x2, s, j, ap2, o2, torn, client)
        <5> SUFFICES ASSUME cmd[p].pc \in Working
                     PROVE  View(cmd[p].pc, cmd[p].at, x2, Rec(cmd[p], s, j), Under(cmd[p], j), cmd[p].raw[h], cmd[p].old[h],
                                 Installs(cmd[p], h), h, ap2, o2, torn, client)
          BY Zenon DEF Status
        <5>1. PICK pc, at, r, u, z, b, n : /\ pc = cmd[p].pc /\ at = cmd[p].at /\ r = Rec(cmd[p], s, j) /\ u = Under(cmd[p], j)
                                           /\ z = cmd[p].raw[h] /\ b = cmd[p].old[h] /\ n = Installs(cmd[p], h)
          OBVIOUS
        <5>2. View(pc, at, x, r, u, z, b, n, h, apart, o, torn, client)
          BY <2>3, <5>1, Zenon DEF Status
        <5>3. cmd[p] \in Commands
          BY <1>3
        <5>4. r \in Kept /\ u \in Kept /\ b \in Kept
          BY <2>2, <5>1, <5>3, RecordKept, CommandFacts
        <5>5. View(pc, at, Edited(x, k, v), r, u, z, b, n, h, ap2, Edited(o, k, v), torn, client)
          BY <1>2, <2>2, <4>2, <5>2, <5>4, ViewEdited
        <5> QED
          BY <4>1, <5>1, <5>5
      <4> QED
        BY <4>3, <4>4
    <3>2. CASE h # f
      <4>1. x2 = x /\ o2 = o /\ (h \in ap2 <=> h \in apart)
        BY <1>1, <1>3, <2>1, <3>2
      <4>2. Good(Through(x, s, j), h, apart, o, torn, client) => Good(Through(x2, s, j), h, ap2, o2, torn, client)
        BY <4>1, GoodWeaker
      <4>3. ASSUME NEW p \in Processes PROVE Status(cmd[p], h, x2, s, j, ap2, o2, torn, client)
        <5> SUFFICES ASSUME cmd[p].pc \in Working
                     PROVE  View(cmd[p].pc, cmd[p].at, x2, Rec(cmd[p], s, j), Under(cmd[p], j), cmd[p].raw[h], cmd[p].old[h],
                                 Installs(cmd[p], h), h, ap2, o2, torn, client)
          BY Zenon DEF Status
        <5>1. PICK pc, at, r, u, z, b, n : /\ pc = cmd[p].pc /\ at = cmd[p].at /\ r = Rec(cmd[p], s, j) /\ u = Under(cmd[p], j)
                                           /\ z = cmd[p].raw[h] /\ b = cmd[p].old[h] /\ n = Installs(cmd[p], h)
          OBVIOUS
        <5>2. View(pc, at, x, r, u, z, b, n, h, apart, o, torn, client)
          BY <2>3, <5>1, Zenon DEF Status
        <5>3. View(pc, at, x, r, u, z, b, n, h, ap2, o, torn, client)
          BY <4>1, <5>2, ViewWeaker
        <5> QED
          BY <4>1, <5>1, <5>3
      <4> QED
        BY <4>2, <4>3
    <3> QED
      BY <3>1, <3>2
  <2>5. /\ (\A p \in Processes : cmd'[p].pc \notin Working)
             => Good(Through(file'[h], temporary', journal'[h]), h, apart', own'[h], torn', client')
        /\ \A p \in Processes : Status(cmd'[p], h, file'[h], temporary', journal'[h], apart', own'[h], torn', client')
    BY <1>1, <2>1, <2>3, <2>4
  <2> QED
    BY <2>5, Zenon DEF FileInv
<1>8. \A p \in Processes : Sound(cmd'[p], client', temporary')
  BY <1>1, <1>3
<1> QED
  BY <1>4, <1>5, <1>6, <1>7, <1>8, Zenon DEF ConfigInv

-----------------------------------------------------------------------------
(* The theorems *)

LEMMA ConfigInit ==
    ASSUME ClientConfigInit
    PROVE  ConfigInv
<1>1. /\ client \in Clients /\ file \in [{1, 2} -> Originals \cup {Absent}] /\ own = file
      /\ journal = NoRecords /\ temporary = None /\ cmd = [p \in Processes |-> NoCommand]
      /\ lock = {} /\ apart = {} /\ torn = FALSE
  BY Zenon DEF ClientConfigInit
<1>2. Originals \subseteq Content
  <2> SUFFICES ASSUME NEW d \in Originals PROVE d \in Content
    OBVIOUS
  <2>1. d \in [Fields -> {"-", "u"}] /\ "-" \notin Versions /\ "u" \notin Versions
    BY VersionFacts
  <2>2. d \in Documents
    BY <2>1 DEF Documents, Values
  <2>3. d["url"] \in {"-", "u"}
    BY <2>1, FieldFacts
  <2> QED
    BY <2>1, <2>2, <2>3 DEF Document, Content
<1>3. file \in [{1, 2} -> Content]
  BY <1>1, <1>2 DEF Content
<1>4. /\ None \in Kept /\ NoCommand \in Commands /\ NoCommand.pc = "idle" /\ NoCommand.pc \notin Working
      /\ Sound(NoCommand, client, temporary) /\ ~Holds(NoCommand, client)
  BY NoCommandFacts, SoundNone DEF Kept
<1>5. client \in {"agent", "codex"}
  BY <1>1, VersionFacts
<1>6. ConfigTypes
  BY <1>1, <1>3, <1>4, <1>5 DEF ConfigTypes, NoRecords
<1>7. \A p \in Processes : cmd[p] = NoCommand
  BY <1>1
<1>8. OneHolder /\ \A p \in Processes : Sound(cmd[p], client, temporary)
  BY <1>1, <1>4, <1>7 DEF OneHolder
<1>9. ASSUME NEW f \in Files PROVE FileInv(f)
  <2>1. f \in {1, 2} /\ journal[f] = None /\ temporary = None /\ own[f] = file[f]
    BY <1>1, <1>6, FileFacts DEF NoRecords
  <2>2. Through(file[f], temporary, journal[f]) = file[f]
    BY <2>1, BaselineNone DEF Through
  <2>3. Good(file[f], f, apart, own[f], torn, client)
    BY <1>1, <2>1 DEF Good
  <2>4. \A p \in Processes : Status(cmd[p], f, file[f], temporary, journal[f], apart, own[f], torn, client)
    BY <1>4, <1>7 DEF Status
  <2> QED
    BY <2>2, <2>3, <2>4 DEF FileInv
<1> QED
  BY <1>6, <1>8, <1>9 DEF ConfigInv

LEMMA ConfigStays ==
    ASSUME ConfigInv, UNCHANGED vars
    PROVE  ConfigInv'
<1>1. /\ client' = client /\ file' = file /\ journal' = journal /\ temporary' = temporary /\ cmd' = cmd /\ lock' = lock
      /\ own' = own /\ apart' = apart /\ torn' = torn
  BY DEF vars
<1>2. Files' = Files
  BY <1>1 DEF Files
<1>3. ConfigTypes' /\ OneHolder'
  BY <1>1, <1>2 DEF ConfigInv, ConfigTypes, OneHolder
<1>4. \A f \in Files : FileInv(f)'
  BY <1>1 DEF ConfigInv, FileInv
<1>5. \A p \in Processes : Sound(cmd'[p], client', temporary')
  BY <1>1 DEF ConfigInv
<1> QED
  BY <1>2, <1>3, <1>4, <1>5, Zenon DEF ConfigInv

LEMMA ConfigNext ==
    ASSUME ConfigInv, [ClientConfigNext]_vars
    PROVE  ConfigInv'
<1>1. CASE UNCHANGED vars
  BY <1>1, ConfigStays
<1>2. ASSUME NEW p \in Processes, configureAgent(p) \/ temporaryCodex(p) \/ unconfigureAgent(p)
      PROVE  ConfigInv'
  <2>1. ASSUME configureAgent(p) \/ temporaryCodex(p) PROVE ConfigInv'
    <3>1. PICK o \in {"configure", "desktop"}, v \in Versions : Start(p, o, v)
      BY <2>1 DEF configureAgent, temporaryCodex
    <3>2. o \in {"configure", "desktop", "unconfigure"} /\ v \in Versions \cup {"-"} /\ (o # "unconfigure" => v \in Versions)
      OBVIOUS
    <3> QED
      BY <3>1, <3>2, StartStep
  <2>2. ASSUME unconfigureAgent(p) PROVE ConfigInv'
    <3>1. PICK o, v : o = "unconfigure" /\ v = "-"
      OBVIOUS
    <3>2. o \in {"configure", "desktop", "unconfigure"} /\ v \in Versions \cup {"-"} /\ (o # "unconfigure" => v \in Versions)
      BY <3>1
    <3>3. Start(p, o, v)
      BY <2>2, <3>1 DEF unconfigureAgent
    <3> QED
      BY <3>2, <3>3, StartStep
  <2> QED
    BY <1>2, <2>1, <2>2
<1>3. ASSUME NEW p \in Processes,
             \/ Confirm(p) \/ Decline(p) \/ PlanConfigure(p) \/ WriteJournal(p) \/ WriteFile(p)
             \/ WriteFails(p) \/ UndoFile(p) \/ UndoJournal(p)
             \/ PlanRestore(p) \/ RestoreDesktop(p) \/ RestoreFile(p) \/ RestoreFails(p)
             \/ RemoveJournal(p) \/ Kill(p)
      PROVE  ConfigInv'
  BY <1>3, ConfirmStep, DeclineStep, PlanConfigureStep, WriteJournalStep, WriteFileStep, WriteFailsStep, UndoFileStep,
     UndoJournalStep, PlanRestoreStep, RestoreDesktopStep, RestoreFileStep, RestoreFailsStep, RemoveJournalStep, KillStep,
     Zenon
<1>4. ASSUME NEW f \in {1, 2}, NEW k \in Fields, NEW v \in {"-", "e"}, Edit(f, k, v)
      PROVE  ConfigInv'
  BY <1>4, EditStep
<1> QED
  BY <1>1, <1>2, <1>3, <1>4, Zenon DEF ClientConfigNext

\* Every file a command works on is where its journal says it is: loaded, with its
\* record written, installed, or already put back; and no two commands work on a
\* client's files at once. With no command at work, what the records make of a
\* file is what the user alone would have.
THEOREM ConfigInvariant == ClientConfig => []ConfigInv
<1>1. ClientConfigInit => ConfigInv
  BY ConfigInit
<1>2. ConfigInv /\ [ClientConfigNext]_vars => ConfigInv'
  BY ConfigNext
<1> QED
  BY <1>1, <1>2, PTL DEF ClientConfig

\* What the invariant says of a file whose endpoint the user replaced, whatever a
\* command is doing with it.
LEMMA ApartFile ==
    ASSUME NEW x \in Content, NEW r \in Kept, NEW u \in Kept, NEW f, NEW ap, NEW o, NEW t, NEW c,
           Good(Through(x, r, u), f, ap, o, t, c), f \in ap
    PROVE  Doc(x)["auth"] # "u"
<1>1. Doc(Through(x, r, u))["auth"] # "u"
  BY DEF Good
<1>2. Doc(x)["auth"] \notin Versions => Doc(Through(x, r, u))["auth"] = Doc(x)["auth"]
  BY ThroughKeeps
<1>3. "u" \notin Versions
  BY VersionFacts
<1> QED
  BY <1>1, <1>2, <1>3

LEMMA ViewGood ==
    ASSUME NEW pc \in Working, NEW at \in {1, 2}, NEW x, NEW r, NEW u, NEW z, NEW b, NEW n,
           NEW f \in {1, 2}, NEW ap, NEW o, NEW t, NEW c,
           View(pc, at, x, r, u, z, b, n, f, ap, o, t, c)
    PROVE  Good(Through(x, r, u), f, ap, o, t, c) \/ Good(Through(x, b, u), f, ap, o, t, c)
<1>1. pc \in Installing /\ f < at => Good(Through(x, r, u), f, ap, o, t, c)
  BY Zenon DEF View, Installed
<1>2. pc = "journal" /\ f >= at => Good(Through(x, r, u), f, ap, o, t, c)
  BY Zenon DEF View, Untouched
<1>3. pc = "file" /\ f > at => Good(Through(x, r, u), f, ap, o, t, c)
  BY Zenon DEF View, Untouched
<1>4. pc \in {"undoFile", "undoJournal"} /\ f > at => Good(Through(x, r, u), f, ap, o, t, c)
  BY Zenon DEF View
<1>5. pc \in {"file", "undoFile", "undoJournal"} /\ f = at
        => Good(Through(x, r, u), f, ap, o, t, c) \/ Good(Through(x, b, u), f, ap, o, t, c)
  BY DEF View, Begun, Installed
<1>6. pc \in {"restore", "remove"} => Good(Through(x, r, u), f, ap, o, t, c)
  BY Zenon DEF View
<1> QED
  BY <1>1, <1>2, <1>3, <1>4, <1>5, <1>6 DEF Working, Installing

LEMMA ConfigApart ==
    ASSUME ConfigInv
    PROVE  NoForeignCredential
<1> SUFFICES ASSUME NEW f \in apart PROVE Doc(file[f])["auth"] # "u"
  BY DEF NoForeignCredential, Doc
<1>1. /\ f \in Files /\ file[f] \in Content /\ journal[f] \in Kept /\ temporary \in Kept /\ FileInv(f)
  BY StateFacts DEF ConfigTypes
<1>2. CASE \A p \in Processes : cmd[p].pc \notin Working
  <2>1. Good(Through(file[f], temporary, journal[f]), f, apart, own[f], torn, client)
    BY <1>1, <1>2, Zenon DEF FileInv
  <2> QED
    BY <1>1, <2>1, ApartFile
<1>3. ASSUME NEW p \in Processes, cmd[p].pc \in Working
      PROVE  Doc(file[f])["auth"] # "u"
  <2>1. PICK c : c = cmd[p]
    OBVIOUS
  <2>2. /\ c.at \in {1, 2} /\ f \in {1, 2} /\ c.old[f] \in Kept
        /\ Rec(c, temporary, journal[f]) \in Kept /\ Under(c, journal[f]) \in Kept
        /\ View(c.pc, c.at, file[f], Rec(c, temporary, journal[f]), Under(c, journal[f]), c.raw[f], c.old[f],
                Installs(c, f), f, apart, own[f], torn, client)
    BY <1>1, <1>3, <2>1, Worker
  <2>3. PICK pc, i, x, r, u, z, b, n, o : /\ x = file[f] /\ r = Rec(c, temporary, journal[f]) /\ u = Under(c, journal[f])
                                          /\ z = c.raw[f] /\ b = c.old[f] /\ n = Installs(c, f) /\ o = own[f] /\ i = c.at /\ pc = c.pc
    OBVIOUS
  <2>4. /\ View(pc, i, x, r, u, z, b, n, f, apart, o, torn, client) /\ pc \in Working /\ i \in {1, 2} /\ f \in {1, 2}
        /\ x \in Content /\ r \in Kept /\ u \in Kept /\ b \in Kept
    BY <1>1, <1>3, <2>1, <2>2, <2>3
  <2>5. Good(Through(x, r, u), f, apart, o, torn, client) \/ Good(Through(x, b, u), f, apart, o, torn, client)
    BY <2>4, ViewGood
  <2>6. Doc(x)["auth"] # "u"
    BY <2>4, <2>5, ApartFile
  <2> QED
    BY <2>3, <2>6
<1> QED
  BY <1>2, <1>3

\* Once the user has replaced rai's endpoint or credential in a file, the
\* credential that was there before rai is never in it again, whatever commands
\* install, restore, fail or die.
THEOREM CredentialsApart == ClientConfig => []NoForeignCredential
<1>1. ConfigInv => NoForeignCredential
  BY ConfigApart
<1> QED
  BY <1>1, ConfigInvariant, PTL

LEMMA ConfigReturned ==
    ASSUME ConfigInv
    PROVE  NothingLeftBehind
<1>1. /\ ConfigTypes /\ OneHolder /\ file \in [{1, 2} -> Content] /\ journal \in [{1, 2} -> Kept] /\ temporary \in Kept
      /\ lock \subseteq Processes /\ torn \in BOOLEAN
      /\ \A p \in Processes : cmd[p] \in Commands
  BY StateFacts DEF ConfigTypes
<1>2. ClientConfigTypeOK
  <2>1. ASSUME NEW f \in {1, 2}
        PROVE  /\ file[f] = Absent \/ file[f] \in Documents
               /\ journal[f] = None \/ journal[f].after \in Documents
    <3>1. file[f] \in Content /\ journal[f] \in Kept
      BY <1>1
    <3> QED
      BY <3>1, DocFacts, RecordFacts DEF Kept
  <2>2. Cardinality(lock) <= 1
    <3>1. CASE lock = {}
      BY <3>1, FS_EmptySet
    <3>2. CASE lock # {}
      <4>1. PICK p : p \in lock
        BY <3>2
      <4>2. \A q \in lock : q = p
        <5> SUFFICES ASSUME NEW q \in lock PROVE q = p
          OBVIOUS
        <5>1. p \in Processes /\ q \in Processes
          BY <1>1, <4>1
        <5>2. Holds(cmd[p], client) /\ Holds(cmd[q], client)
          BY <1>1, <4>1, <5>1 DEF OneHolder
        <5> QED
          BY <1>1, <5>1, <5>2, Zenon DEF OneHolder
      <4>3. lock = {p}
        BY <4>1, <4>2
      <4>4. Cardinality({p}) = 1
        BY FS_Singleton, Zenon
      <4> QED
        BY <4>3, <4>4
    <3> QED
      BY <3>1, <3>2
  <2>3. \A p \in lock : cmd[p].pc # "idle"
    BY <1>1 DEF OneHolder, Holds
  <2>4. \A p \in Processes : cmd[p].at \in {1, 2}
    BY <1>1, CommandFacts
  <2> QED
    BY <2>1, <2>2, <2>3, <2>4 DEF ClientConfigTypeOK
<1>3. ASSUME NEW f \in Files, GivenBack(f)
      PROVE  Good(file[f], f, apart, own[f], torn, client)
  <2>1. journal[f] = None /\ temporary = None /\ \A p \in Processes : cmd[p].pc \in {"idle", "confirm"}
    BY <1>3 DEF GivenBack
  <2>2. \A p \in Processes : cmd[p].pc \notin Working
    BY <2>1 DEF Working, Installing
  <2>3. Good(Through(file[f], temporary, journal[f]), f, apart, own[f], torn, client)
    BY <2>2, StateFacts, Zenon DEF FileInv
  <2>4. Through(file[f], temporary, journal[f]) = file[f]
    BY <2>1, BaselineNone DEF Through
  <2> QED
    BY <2>3, <2>4
<1>4. FilesGivenBack
  <2> SUFFICES ASSUME ~torn, NEW f \in Files, GivenBack(f), NEW k \in Fields
               PROVE  (k \in Group /\ f \in apart) \/ Doc(file[f])[k] = Doc(own[f])[k]
    BY DEF FilesGivenBack, Doc
  <2>1. Good(file[f], f, apart, own[f], torn, client) /\ torn = FALSE
    BY <1>1, <1>3
  <2>2. /\ Doc(file[f])["model"] = Doc(own[f])["model"] /\ Doc(file[f])["rest"] = Doc(own[f])["rest"]
        /\ f \in apart \/ (Doc(file[f])["url"] = Doc(own[f])["url"] /\ Doc(file[f])["auth"] = Doc(own[f])["auth"])
    BY <2>1, Zenon DEF Good
  <2> QED
    BY <2>2, FieldFacts
<1>5. NoLeftovers
  <2> SUFFICES ASSUME ~torn, client = "agent", NEW f \in Files, GivenBack(f), own[f] = Absent
               PROVE  file[f] = Absent
    BY DEF NoLeftovers
  <2>1. Good(file[f], f, apart, own[f], torn, client) /\ torn = FALSE
    BY <1>1, <1>3
  <2> QED
    BY <2>1, Zenon DEF Good
<1> QED
  BY <1>2, <1>4, <1>5 DEF NothingLeftBehind

\* What rai was lent it gives back, in every state no command is working in: for
\* a file without a record the user's first values and later edits, and no file
\* where there was none. The exceptions are the ones the property names.
THEOREM FilesReturned == ClientConfig => []NothingLeftBehind
<1>1. ConfigInv => NothingLeftBehind
  BY ConfigReturned
<1> QED
  BY <1>1, ConfigInvariant, PTL

=============================================================================
