------------------------ MODULE CampaignEventsProofs ------------------------
(***************************************************************************)
(* Theorems about CampaignEvents, for any number of campaigns and          *)
(* activities.                                                             *)
(*                                                                         *)
(* The job applies the activities since its checkpoint one after the other *)
(* in one transaction, as a recursive function.  What it computes is       *)
(* proved by an induction over the natural numbers, which follows from the *)
(* well-foundedness of <: that an ingestion keeps the statuses and the     *)
(* list right is shown for one activity, and carried along the log.        *)
(***************************************************************************)
EXTENDS CampaignEvents, WellFoundedInduction, TLAPS

---------------------------------------------------------------------------
\* Induction over the natural numbers, for sets.

LEMMA LeastElement ==
  ASSUME NEW T \in SUBSET Nat, T # {}
  PROVE  \E x \in T : \A y \in T : x <= y
<1> DEFINE R == {ss \in Nat \X Nat : ss[1] < ss[2]}
<1>1. IsWellFoundedOn(R, Nat)
  BY NatLessThanWellFounded DEF OpToRel
<1>2. ASSUME NEW x \in Nat, NEW y \in Nat, y < x
      PROVE  <<y, x>> \in R
  BY <1>2
<1> HIDE DEF R
<1>3. PICK x \in T : \A y \in T : ~ (<<y, x>> \in R)
  BY <1>1, WFMin
<1>4. ASSUME NEW y \in T, y < x PROVE FALSE
  <2>1. x \in Nat /\ y \in Nat
    OBVIOUS
  <2>2. <<y, x>> \in R
    BY <1>2, <1>4, <2>1
  <2>3. QED
    BY <1>3, <2>2
<1>5. \A y \in T : x <= y
  BY <1>4
<1>6. QED
  BY <1>5

LEMMA SetInduction ==
  ASSUME NEW S, 0 \in S, \A n \in Nat : n \in S => n + 1 \in S
  PROVE  Nat \subseteq S
<1> DEFINE T == Nat \ S
<1>1. SUFFICES ASSUME T # {} PROVE FALSE
  OBVIOUS
<1>2. PICK x \in T : \A y \in T : x <= y
  BY <1>1, LeastElement
<1>3. x - 1 \in Nat /\ x - 1 \in S
  BY <1>2
<1>4. QED
  BY <1>2, <1>3

\* The recursive function of IngestSince exists, and follows its equations.
LEMMA IngestSinceDef ==
  ASSUME NEW w, log[job.m] \in Seq(Kinds), checkpoint[job.m] \in Nat,
         checkpoint[job.m] <= Len(log[job.m])
  PROVE  LET m == job.m
             c == checkpoint[m]
         IN \E after :
              /\ IngestSince(w) = after[Len(log[m])]
              /\ after[c] = w
              /\ \A n \in c + 1 .. Len(log[m]) :
                   after[n] = Ingest(after[n - 1], <<m, log[m][n]>>)
<1> DEFINE m == job.m
           c == checkpoint[m]
           s == log[m]
           Body(f, n) == IF n = c THEN w ELSE Ingest(f[n - 1], <<m, s[n]>>)
           Upto(k, f) == f = [n \in c .. k |-> Body(f, n)]
           S == {k \in Nat : k < c \/ \E f : Upto(k, f)}
           after == CHOOSE f : Upto(Len(s), f)
<1>1. IngestSince(w) = after[Len(s)]
  BY DEF IngestSince
<1>2. c \in Nat /\ s \in Seq(Kinds) /\ c <= Len(s) /\ Len(s) \in Nat
  OBVIOUS
<1> HIDE DEF m, c, s
<1>3. Upto(c, [n \in c .. c |-> w])
  BY <1>2
<1>4. 0 \in S
  <2> HIDE DEF Upto
  <2> QED BY <1>2, <1>3
<1>5. ASSUME NEW k \in Nat, k \in S PROVE k + 1 \in S
  <2>1. CASE k < c
    <3> HIDE DEF Upto
    <3> QED BY <1>2, <1>3, <2>1
  <2>2. CASE k >= c
    <3>1. PICK f : Upto(k, f)
      BY <1>2, <1>5, <2>2
    <3> DEFINE g == [n \in c .. k + 1 |->
                       IF n = k + 1 THEN Ingest(f[k], <<m, s[n]>>) ELSE f[n]]
    <3>2. \A n \in c .. k : g[n] = f[n]
      BY <1>2
    <3>3. ASSUME NEW n \in c .. k + 1 PROVE g[n] = Body(g, n)
      <4>1. CASE n = k + 1
        BY <1>2, <2>2, <3>2, <4>1
      <4>2. CASE n # k + 1
        <5>1. n \in c .. k /\ f[n] = Body(f, n)
          BY <1>2, <3>1, <4>2
        <5>2. QED
          BY <1>2, <3>2, <5>1
      <4>3. QED
        BY <4>1, <4>2
    <3>4. Upto(k + 1, g)
      <4>1. g = [n \in c .. k + 1 |-> g[n]]
        OBVIOUS
      <4> HIDE DEF g, Body
      <4>2. QED
        BY <3>3, <4>1
    <3>5. QED
      <4> HIDE DEF Upto, g
      <4> QED BY <3>4
  <2>3. QED
    BY <1>2, <2>1, <2>2
<1>6. Len(s) \in S
  <2> HIDE DEF S
  <2>1. \A k \in Nat : k \in S => k + 1 \in S
    BY <1>5
  <2>2. Nat \subseteq S
    BY <1>4, <2>1, SetInduction
  <2>3. QED
    BY <1>2, <2>2
<1>7. Upto(Len(s), after)
  <2> HIDE DEF Upto
  <2> QED BY <1>2, <1>6
<1> HIDE DEF after
<1>8. /\ after[c] = w
      /\ \A n \in c + 1 .. Len(s) : after[n] = Ingest(after[n - 1], <<m, s[n]>>)
  BY <1>2, <1>7
<1>9. QED
  BY <1>1, <1>8 DEF m, c, s

---------------------------------------------------------------------------
\* What one activity does to a membership, to the list and to the file.

Worlds == [member : [Members -> MemberRows], list : {"no"} \cup Blocking,
           stored : SUBSET Events]

KindsOf(m, events) == {kind \in Kinds : <<m, kind>> \in events}

RowFollows(row, told, contact) ==
  /\ "unsubscribed" \in told => row.status = "unsubscribed"
  /\ "bounced" \in told => row.status \in Blocking
  /\ "replied" \in told /\ ~row.removed => row.status \in Blocking \cup {"replied"}
  /\ row.status = "bounced" => "bounced" \in told
  /\ contact => row.status \notin Live

Follows(w) ==
  \A m \in Members :
    RowFollows(w.member[m], KindsOf(m, w.stored), Contact \in w.stored)

Complete(w) ==
  /\ (\E m \in Members : w.member[m].status = "unsubscribed") => w.list = "unsubscribed"
  /\ (\E event \in w.stored : event[2] = "unsubscribed") => w.list = "unsubscribed"
  /\ (\E m \in Members : w.member[m].status = "bounced") => w.list # "no"
  /\ (\E event \in w.stored : event[2] = "bounced") => w.list # "no"

\* A row that only Lemlist's word has touched.
Evolves(old, new) ==
  /\ new.removed = old.removed
  /\ new.status = "none" <=> old.status = "none"
  /\ old.status \in Blocking => new.status \in Blocking
  /\ old.removed => new.status = old.status \/ new.status \in Blocking

\* The word of Lemlist leads from the world w to the world v.
LeadsTo(w, v) ==
  /\ v \in Worlds /\ Complete(v)
  /\ Follows(w) => Follows(v)
  /\ \A m \in Members : Evolves(w.member[m], v.member[m])

\* The row of a membership that is told an activity.
Tell(row, kind, started) ==
  [row EXCEPT !.status = Told(row, kind), !.started = started]

LEMMA ToldRow ==
  ASSUME NEW row \in MemberRows, NEW kind \in Kinds, NEW started \in BOOLEAN
  PROVE  /\ Tell(row, kind, started) \in MemberRows
         /\ row.status # "none" => Evolves(row, Tell(row, kind, started))
         /\ \A told \in SUBSET Kinds : \A contact \in BOOLEAN :
              RowFollows(row, told, contact) =>
                RowFollows(Tell(row, kind, started), told \cup {kind}, contact)
         /\ Tell(row, kind, started).status = Told(row, kind)
         /\ kind = "unsubscribed" => Told(row, kind) = "unsubscribed"
         /\ kind = "bounced" => Told(row, kind) \in Blocking
         /\ kind \notin Blocking /\ Told(row, kind) \in Blocking =>
              Told(row, kind) = row.status
<1> DEFINE status == Told(row, kind)
           new == Tell(row, kind, started)
<1>0. new = [row EXCEPT !.status = status, !.started = started]
  BY DEF Tell
<1>1. /\ status \in {row.status, "active", "completed", "replied", "bounced",
                     "unsubscribed"}
      /\ status = "active" /\ status # row.status =>
           ~Ended(row) /\ row.status \in {"ready", "queued"}
      /\ status = "completed" /\ status # row.status => ~Ended(row)
      /\ status = "replied" /\ status # row.status =>
           ~row.removed /\ row.status \notin Blocking
      /\ status = "bounced" /\ status # row.status =>
           kind = "bounced" /\ row.status # "unsubscribed"
      /\ status = "unsubscribed" /\ status # row.status => kind = "unsubscribed"
      /\ kind = "unsubscribed" => status = "unsubscribed"
      /\ kind = "bounced" => status \in Blocking
      /\ kind = "replied" /\ ~row.removed => status \in Blocking \cup {"replied"}
  BY DEF Told, Kinds, Blocking
<1> HIDE DEF status, new
<1>2. /\ row.status \in {"none"} \cup Live \cup Terminal
      /\ row.removed \in BOOLEAN /\ row.started \in BOOLEAN
  BY DEF MemberRows
<1>3. /\ new \in MemberRows /\ new.status = status /\ new.removed = row.removed
  BY <1>0, <1>1, <1>2 DEF MemberRows, Live, Terminal, Blocking
<1>4. row.status # "none" => Evolves(row, new)
  BY <1>1, <1>2, <1>3 DEF Evolves, Ended, Live, Terminal, Blocking
<1>5. ASSUME NEW told \in SUBSET Kinds, NEW contact \in BOOLEAN
      PROVE  RowFollows(row, told, contact) =>
               RowFollows(new, told \cup {kind}, contact)
  BY <1>1, <1>2, <1>3 DEF RowFollows, Ended, Live, Terminal, Blocking, Kinds
<1>6. QED
  BY <1>1, <1>3, <1>4, <1>5 DEF status, new, Blocking

LEMMA SuppressedList ==
  ASSUME NEW listed \in {"no"} \cup Blocking, NEW reason \in {"no"} \cup Blocking
  PROVE  /\ Suppressed(listed, reason) \in {"no"} \cup Blocking
         /\ listed # "no" => Suppressed(listed, reason) # "no"
         /\ listed = "unsubscribed" => Suppressed(listed, reason) = "unsubscribed"
         /\ reason # "no" => Suppressed(listed, reason) # "no"
         /\ reason = "unsubscribed" => Suppressed(listed, reason) = "unsubscribed"
  BY DEF Suppressed, Blocking

LEMMA EvolvesSelf == \A row : Evolves(row, row)
  BY DEF Evolves

LEMMA IngestLeads ==
  ASSUME NEW w \in Worlds, Complete(w), NEW m \in Members, NEW kind \in Kinds,
         w.member[m].status # "none"
  PROVE  LeadsTo(w, Ingest(w, <<m, kind>>))
<1> DEFINE e == <<m, kind>>
           v == Ingest(w, e)
<1>1. CASE e \in w.stored
  <2>1. v = w
    BY <1>1 DEF Ingest
  <2>2. QED
    BY <2>1, EvolvesSelf DEF LeadsTo
<1>2. CASE e \notin w.stored
  <2> DEFINE row == w.member[m]
             status == Told(row, kind)
             started == row.started \/ (kind \in {"sent", "last"} /\ ~Ended(row))
             new == [row EXCEPT !.status = status, !.started = started]
             reason == IF kind \in Blocking THEN status ELSE "no"
  <2>0. /\ w.member \in [Members -> MemberRows] /\ w.list \in {"no"} \cup Blocking
        /\ w.stored \in SUBSET Events /\ row \in MemberRows
    BY DEF Worlds
  <2>1. started \in BOOLEAN
    BY <2>0 DEF MemberRows
  <2>2. v = [member |-> [w.member EXCEPT ![m] = new],
             list |-> Suppressed(w.list, reason), stored |-> w.stored \cup {e}]
    BY <1>2 DEF Ingest
  <2>3. e \in Events /\ e[2] = kind
    BY DEF Events
  <2> HIDE DEF e, status, started
  <2>4. v.member = [w.member EXCEPT ![m] = new]
    BY <2>0, <2>2
  <2>5. /\ v.list = Suppressed(w.list, reason) /\ v.stored = w.stored \cup {e}
        /\ DOMAIN v = {"member", "list", "stored"}
    BY <2>2
  <2>6. /\ new \in MemberRows
        /\ new.status = status
        /\ Evolves(row, new)
        /\ \A told \in SUBSET Kinds : \A contact \in BOOLEAN :
             RowFollows(row, told, contact) =>
               RowFollows(new, told \cup {kind}, contact)
        /\ kind = "unsubscribed" => new.status = "unsubscribed"
        /\ kind = "bounced" => new.status \in Blocking
        /\ kind \notin Blocking /\ new.status \in Blocking =>
             new.status = row.status
    <3>1. new = Tell(row, kind, started)
      BY DEF status, Tell
    <3>2. row.status # "none"
      OBVIOUS
    <3> HIDE DEF row, new
    <3>3. /\ new \in MemberRows /\ new.status = status
          /\ \A told \in SUBSET Kinds : \A contact \in BOOLEAN :
               RowFollows(row, told, contact) =>
                 RowFollows(new, told \cup {kind}, contact)
          /\ kind = "unsubscribed" => status = "unsubscribed"
          /\ kind = "bounced" => status \in Blocking
          /\ kind \notin Blocking /\ status \in Blocking => status = row.status
      BY <2>0, <2>1, <3>1, ToldRow DEF status
    <3>4. Evolves(row, new)
      BY <2>0, <2>1, <3>1, <3>2, ToldRow
    <3>5. QED
      BY <3>3, <3>4
  <2>7. reason \in {"no"} \cup Blocking
    BY <2>6 DEF Blocking
  <2> HIDE DEF row, new, reason
  <2>8. /\ v.member \in [Members -> MemberRows] /\ v.member[m] = new
        /\ \A n \in Members \ {m} : v.member[n] = w.member[n]
    BY <2>0, <2>4, <2>6
  <2>9. v \in Worlds
    <3>1. v = [member |-> v.member, list |-> v.list, stored |-> v.stored]
      BY <2>2
    <3>2. v.list \in {"no"} \cup Blocking
      BY <2>0, <2>5, <2>7, SuppressedList
    <3>3. v.stored \in SUBSET Events
      BY <2>0, <2>3, <2>5
    <3> HIDE DEF v
    <3>4. QED
      BY <2>8, <3>1, <3>2, <3>3 DEF Worlds
  <2>10. /\ w.list # "no" => v.list # "no"
         /\ w.list = "unsubscribed" => v.list = "unsubscribed"
         /\ reason # "no" => v.list # "no"
         /\ reason = "unsubscribed" => v.list = "unsubscribed"
    BY <2>0, <2>5, <2>7, SuppressedList
  <2>11. /\ kind \in Blocking => reason = new.status
         /\ row = w.member[m]
    BY <2>6 DEF reason, row
  <2> HIDE DEF v
  <2>12. Complete(v)
    <3>1. ASSUME NEW n \in Members, v.member[n].status = "unsubscribed"
          PROVE  v.list = "unsubscribed"
      BY <2>6, <2>8, <2>10, <2>11, <3>1 DEF Complete, Blocking
    <3>2. ASSUME NEW n \in Members, v.member[n].status = "bounced"
          PROVE  v.list # "no"
      BY <2>6, <2>8, <2>10, <2>11, <3>2 DEF Complete, Blocking
    <3>3. ASSUME NEW event \in v.stored, event[2] = "unsubscribed"
          PROVE  v.list = "unsubscribed"
      BY <2>3, <2>5, <2>6, <2>10, <2>11, <3>3 DEF Complete, Blocking
    <3>4. ASSUME NEW event \in v.stored, event[2] = "bounced"
          PROVE  v.list # "no"
      BY <2>3, <2>5, <2>6, <2>10, <2>11, <3>4 DEF Complete, Blocking
    <3>5. QED
      BY <3>1, <3>2, <3>3, <3>4 DEF Complete
  <2>13. ASSUME Follows(w) PROVE Follows(v)
    <3>1. e # Contact
      BY MemberAssumption DEF e, Contact
    <3>2. (Contact \in v.stored) = (Contact \in w.stored)
      BY <2>5, <3>1
    <3>3. KindsOf(m, v.stored) = KindsOf(m, w.stored) \cup {kind}
      BY <2>5 DEF KindsOf, e
    <3>4. \A n \in Members \ {m} : KindsOf(n, v.stored) = KindsOf(n, w.stored)
      BY <2>5 DEF KindsOf, e
    <3>5. /\ KindsOf(m, w.stored) \in SUBSET Kinds
          /\ (Contact \in w.stored) \in BOOLEAN
      BY DEF KindsOf
    <3>6. RowFollows(row, KindsOf(m, w.stored), Contact \in w.stored)
      BY <2>11, <2>13 DEF Follows
    <3>7. RowFollows(new, KindsOf(m, w.stored) \cup {kind}, Contact \in w.stored)
      BY <2>6, <3>5, <3>6
    <3>8. RowFollows(new, KindsOf(m, v.stored), Contact \in v.stored)
      BY <3>2, <3>3, <3>7
    <3>9. ASSUME NEW n \in Members \ {m}
          PROVE  RowFollows(v.member[n], KindsOf(n, v.stored), Contact \in v.stored)
      <4>1. RowFollows(w.member[n], KindsOf(n, w.stored), Contact \in w.stored)
        BY <2>13 DEF Follows
      <4>2. QED
        BY <2>8, <3>2, <3>4, <4>1
    <3>10. QED
      BY <2>8, <3>8, <3>9 DEF Follows
  <2>14. \A n \in Members : Evolves(w.member[n], v.member[n])
    BY <2>6, <2>8, <2>11, EvolvesSelf
  <2>15. QED
    BY <2>9, <2>12, <2>13, <2>14 DEF LeadsTo, v, e
<1>3. QED
  BY <1>1, <1>2

LEMMA LeadsSelf ==
  ASSUME NEW w \in Worlds, Complete(w)
  PROVE  LeadsTo(w, w)
  BY EvolvesSelf DEF LeadsTo

LEMMA LeadsTransitive ==
  ASSUME NEW u, NEW v, NEW w, LeadsTo(u, v), LeadsTo(v, w)
  PROVE  LeadsTo(u, w)
<1>1. ASSUME NEW a, NEW b, NEW c, Evolves(a, b), Evolves(b, c)
      PROVE  Evolves(a, c)
  BY <1>1 DEF Evolves
<1>2. QED
  BY <1>1 DEF LeadsTo

\* The activities since the checkpoint, one after the other.
LEMMA IngestSinceLeads ==
  ASSUME job.m \in Members, log[job.m] \in Seq(Kinds), checkpoint[job.m] \in Nat,
         checkpoint[job.m] <= Len(log[job.m]),
         NEW w \in Worlds, Complete(w),
         Len(log[job.m]) > 0 => w.member[job.m].status # "none"
  PROVE  LeadsTo(w, IngestSince(w))
<1> DEFINE m == job.m
           c == checkpoint[m]
           s == log[m]
<1>1. PICK after : /\ IngestSince(w) = after[Len(s)]
                   /\ after[c] = w
                   /\ \A n \in c + 1 .. Len(s) :
                        after[n] = Ingest(after[n - 1], <<m, s[n]>>)
  BY IngestSinceDef
<1>2. /\ m \in Members /\ c \in Nat /\ Len(s) \in Nat /\ c <= Len(s)
      /\ \A n \in 1 .. Len(s) : s[n] \in Kinds
      /\ Len(s) > 0 => w.member[m].status # "none"
  OBVIOUS
<1> HIDE DEF m, c, s
<1> DEFINE S == {k \in Nat : k < c \/ k > Len(s) \/ LeadsTo(w, after[k])}
<1>3. LeadsTo(w, after[c])
  BY <1>1, LeadsSelf
<1>4. 0 \in S
  BY <1>2, <1>3
<1>5. ASSUME NEW k \in Nat, k \in S PROVE k + 1 \in S
  <2>1. CASE k + 1 <= c \/ k + 1 > Len(s)
    BY <1>2, <1>3, <2>1
  <2>2. CASE k >= c /\ k + 1 <= Len(s)
    <3>1. LeadsTo(w, after[k]) /\ k + 1 \in 1 .. Len(s) /\ k + 1 \in c + 1 .. Len(s)
      BY <1>2, <1>5, <2>2
    <3>2. after[k + 1] = Ingest(after[k], <<m, s[k + 1]>>)
      <4>1. (k + 1) - 1 = k
        OBVIOUS
      <4>2. QED
        BY <1>1, <3>1, <4>1
    <3>3. /\ after[k] \in Worlds /\ Complete(after[k])
          /\ after[k].member[m].status # "none" /\ s[k + 1] \in Kinds
      BY <1>2, <3>1 DEF LeadsTo, Evolves
    <3>4. LeadsTo(after[k], after[k + 1])
      BY <1>2, <3>2, <3>3, IngestLeads
    <3>5. LeadsTo(w, after[k + 1])
      BY <3>1, <3>4, LeadsTransitive
    <3>6. QED
      BY <3>5
  <2>3. QED
    BY <1>2, <2>1, <2>2
<1>6. Len(s) \in S
  <2> HIDE DEF S
  <2>1. \A k \in Nat : k \in S => k + 1 \in S
    BY <1>5
  <2>2. Nat \subseteq S
    BY <1>4, <2>1, SetInduction
  <2>3. QED
    BY <1>2, <2>2
<1>7. QED
  BY <1>1, <1>2, <1>6

\* A change of one membership that brings no new activity.
LEMMA OneRowLeads ==
  ASSUME NEW w \in Worlds, Complete(w), NEW m \in Members, NEW new \in MemberRows,
         NEW listed \in {"no"} \cup Blocking,
         Evolves(w.member[m], new),
         \A told \in SUBSET Kinds : \A contact \in BOOLEAN :
           RowFollows(w.member[m], told, contact) => RowFollows(new, told, contact),
         w.list # "no" => listed # "no",
         w.list = "unsubscribed" => listed = "unsubscribed",
         new.status = "unsubscribed" => listed = "unsubscribed",
         new.status = "bounced" => listed # "no",
         NEW v, v = [member |-> [w.member EXCEPT ![m] = new], list |-> listed,
                     stored |-> w.stored]
  PROVE  LeadsTo(w, v)
<1>1. /\ w.member \in [Members -> MemberRows] /\ w.stored \in SUBSET Events
      /\ w.list \in {"no"} \cup Blocking
  BY DEF Worlds
<1>2. /\ v.member \in [Members -> MemberRows] /\ v.member[m] = new
      /\ \A n \in Members \ {m} : v.member[n] = w.member[n]
      /\ v.list = listed /\ v.stored = w.stored
  BY <1>1
<1>3. v \in Worlds
  BY <1>1, <1>2 DEF Worlds
<1>4. Complete(v)
  BY <1>2 DEF Complete
<1>5. ASSUME Follows(w) PROVE Follows(v)
  <2>1. /\ KindsOf(m, w.stored) \in SUBSET Kinds
        /\ (Contact \in w.stored) \in BOOLEAN
    BY DEF KindsOf
  <2>2. RowFollows(w.member[m], KindsOf(m, w.stored), Contact \in w.stored)
    BY <1>5 DEF Follows
  <2>3. RowFollows(new, KindsOf(m, w.stored), Contact \in w.stored)
    BY <2>1, <2>2
  <2>4. ASSUME NEW n \in Members \ {m}
        PROVE  RowFollows(w.member[n], KindsOf(n, w.stored), Contact \in w.stored)
    BY <1>5 DEF Follows
  <2>5. QED
    BY <1>2, <2>3, <2>4 DEF Follows
<1>6. \A n \in Members : Evolves(w.member[n], v.member[n])
  BY <1>2, EvolvesSelf
<1>7. QED
  BY <1>3, <1>4, <1>5, <1>6 DEF LeadsTo

\* The word of the listing.
LEMMA HeardLeads ==
  ASSUME NEW w \in Worlds, Complete(w), job.m \in Members, job.seen \in Leads
  PROVE  LeadsTo(w, Heard(w))
<1> DEFINE m == job.m
           row == w.member[m]
           heard == row.status \in Live /\ job.seen.present /\ ~row.removed
<1>1. /\ w.member \in [Members -> MemberRows] /\ w.stored \in SUBSET Events
      /\ w.list \in {"no"} \cup Blocking /\ row \in MemberRows
      /\ w = [member |-> w.member, list |-> w.list, stored |-> w.stored]
  BY DEF Worlds
<1>2. CASE heard /\ job.seen.unsubscribed
  <2> DEFINE new == [row EXCEPT !.status = "unsubscribed"]
             listed == Suppressed(w.list, "unsubscribed")
             v == [member |-> [w.member EXCEPT ![m] = new], list |-> listed,
                   stored |-> w.stored]
  <2>1. Heard(w) = v
    BY <1>1, <1>2 DEF Heard
  <2>2. /\ new \in MemberRows /\ new.status = "unsubscribed"
        /\ new.removed = row.removed
    BY <1>1 DEF MemberRows, Terminal, Blocking
  <2>3. listed \in {"no"} \cup Blocking /\ listed = "unsubscribed"
    BY <1>1, SuppressedList DEF Blocking
  <2> HIDE DEF new, listed
  <2>4. Evolves(row, new)
    BY <1>2, <2>2 DEF Evolves, Live, Blocking
  <2>5. \A told \in SUBSET Kinds : \A contact \in BOOLEAN :
          RowFollows(row, told, contact) => RowFollows(new, told, contact)
    BY <1>2, <2>2 DEF RowFollows, Live, Blocking
  <2>6. QED
    BY <2>1, <2>2, <2>3, <2>4, <2>5, OneRowLeads
<1>3. CASE heard /\ ~job.seen.unsubscribed
  <2> DEFINE status == Mirrored(row, job.seen.paused)
             new == [row EXCEPT !.status = status]
             v == [member |-> [w.member EXCEPT ![m] = new], list |-> w.list,
                   stored |-> w.stored]
  <2>1. Heard(w) = v
    BY <1>1, <1>3 DEF Heard
  <2>2. status \in Live
    BY <1>3 DEF Mirrored, Live
  <2> HIDE DEF status
  <2>3. /\ new \in MemberRows /\ new.status = status
        /\ new.removed = row.removed
    BY <1>1, <2>2 DEF MemberRows
  <2> HIDE DEF new
  <2>4. Evolves(row, new)
    BY <1>3, <2>2, <2>3 DEF Evolves, Live, Blocking
  <2>5. \A told \in SUBSET Kinds : \A contact \in BOOLEAN :
          RowFollows(row, told, contact) => RowFollows(new, told, contact)
    BY <1>3, <2>2, <2>3 DEF RowFollows, Live, Blocking
  <2>6. new.status \notin {"unsubscribed", "bounced"}
    BY <2>2, <2>3 DEF Live
  <2>7. QED
    BY <1>1, <2>1, <2>3, <2>4, <2>5, <2>6, OneRowLeads
<1>4. CASE ~heard
  <2>1. Heard(w) = w
    BY <1>4 DEF Heard
  <2>2. QED
    BY <2>1, LeadsSelf
<1>5. job.seen.unsubscribed \in BOOLEAN
  BY DEF Leads
<1>6. QED
  BY <1>2, <1>3, <1>4, <1>5

---------------------------------------------------------------------------
\* The invariant.

\* A membership that was never added, and one that was removed.
Placed ==
  \A m \in Members :
    /\ member[m].status = "none" => ~member[m].removed /\ Len(log[m]) = 0
    /\ member[m].removed => member[m].status \in {"removed"} \cup Blocking

\* The job writes no checkpoint beyond the log it has read.
JobReads == job.pc = "listed" => job.from <= Len(log[job.m])

\* What is still true, when a gesture writes, of what it has read.
AgentReads ==
  agent # NoGesture =>
    /\ agent.op \in Ops /\ agent.m \in Members /\ agent.to \in Members
    /\ agent.read \in MemberRows
    /\ agent.read.removed = member[agent.m].removed
    /\ agent.read.status = "none" <=> member[agent.m].status = "none"
    /\ agent.read.status \in Blocking => member[agent.m].status \in Blocking
    /\ agent.op \in {"add", "launch", "move"} => agent.list = "no"
    /\ agent.op = "add" => agent.read.status = "none"
    /\ agent.op # "add" => agent.read.status # "none"
    /\ agent.op \in {"launch", "pause", "resume"} => agent.read.status \in Live
    /\ agent.read.status \in Live => ~agent.read.removed
    /\ agent.op = "move" => /\ agent.to # agent.m
                            /\ member[agent.to].status = "none"

IInv ==
  /\ TypeOK
  /\ Complete(World)
  /\ ~overlap => Follows(World)
  /\ Placed /\ JobReads /\ AgentReads

LEMMA WorldType == ASSUME TypeOK PROVE World \in Worlds
  BY DEF TypeOK, World, Worlds

LEMMA JobType ==
  ASSUME TypeOK, job.pc = "listed"
  PROVE  job.m \in Members /\ job.from \in Nat /\ job.seen \in Leads
<1>1. job # NoJob
  BY DEF NoJob
<1>2. job \in [pc : {"listed"}, m : Members, from : Nat, seen : Leads]
  BY <1>1 DEF TypeOK, Jobs
<1> HIDE DEF Leads
<1>3. QED
  BY <1>2

LEMMA InitIInv == Init => IInv
<1> SUFFICES ASSUME Init PROVE IInv
  OBVIOUS
<1>1. /\ \A m \in Members : /\ member[m] = [status |-> "none", started |-> FALSE,
                                            removed |-> FALSE]
                            /\ log[m] = <<>> /\ lead[m] = NoLead /\ checkpoint[m] = 0
      /\ stored = {} /\ list = "no" /\ overlap = FALSE
  BY DEF Init
<1>2. TypeOK
  <2>1. [status |-> "none", started |-> FALSE, removed |-> FALSE] \in MemberRows
    BY DEF MemberRows
  <2>2. NoLead \in Leads /\ ~NoLead.present
    BY DEF Leads, NoLead
  <2>3. <<>> \in Seq(Kinds) /\ Len(<<>>) = 0
    OBVIOUS
  <2>4. IsInjective(<<>>)
    BY DEF IsInjective
  <2> HIDE DEF MemberRows, Leads, NoLead, Events, Kinds
  <2>5. /\ \A m \in Members : /\ log[m] \in Seq(Kinds) /\ IsInjective(log[m])
                              /\ checkpoint[m] <= Len(log[m])
                              /\ ~lead[m].present
        /\ checkpoint \in [Members -> Nat]
    BY <1>1, <2>2, <2>3, <2>4 DEF Init
  <2>6. /\ member \in [Members -> MemberRows] /\ lead \in [Members -> Leads]
        /\ log \in [Members -> Seq(Kinds)]
    BY <2>1, <2>2, <2>3 DEF Init
  <2>7. job \in Jobs /\ agent = NoGesture /\ whole \in BOOLEAN /\ overlap \in BOOLEAN
    BY DEF Init, Jobs
  <2>8. stored \in SUBSET Events /\ list \in {"no"} \cup Blocking
    BY <1>1
  <2>9. QED
    BY <2>5, <2>6, <2>7, <2>8 DEF TypeOK
<1>3. Complete(World)
  BY <1>1 DEF Complete, World
<1>4. Follows(World)
  BY <1>1 DEF Follows, RowFollows, KindsOf, World, Live
<1>5. Placed
  BY <1>1 DEF Placed
<1>6. JobReads /\ AgentReads
  BY DEF Init, JobReads, AgentReads, NoJob
<1>7. QED
  BY <1>2, <1>3, <1>4, <1>5, <1>6 DEF IInv

\* A step that applies Lemlist's word.
LEMMA WordStep ==
  ASSUME IInv, NEW v, LeadsTo(World, v), Becomes(v),
         UNCHANGED <<agent, lemlist, overlap>>,
         checkpoint' \in [Members -> Nat],
         \A m \in Members : checkpoint'[m] <= Len(log[m]),
         job' = job \/ job' = NoJob
  PROVE  IInv'
<1>1. v \in Worlds /\ v = [member |-> member', list |-> list', stored |-> stored']
  BY DEF LeadsTo, Worlds, Becomes
<1>2. World' = v
  BY <1>1 DEF World
<1>3. UNCHANGED <<agent, lead, log, whole, overlap>>
  BY DEF lemlist
<1>4. /\ member' \in [Members -> MemberRows] /\ list' \in {"no"} \cup Blocking
      /\ stored' \in SUBSET Events
  BY <1>1 DEF Worlds
<1>5. \A m \in Members : Evolves(member[m], member'[m])
  BY <1>2 DEF LeadsTo, World
<1>6. TypeOK'
  <2>1. \A m \in Members : lead'[m].present =>
          member'[m].status # "none" /\ ~member'[m].removed
    BY <1>3, <1>5 DEF IInv, TypeOK, Evolves
  <2>2. job' \in Jobs
    BY DEF IInv, TypeOK, Jobs
  <2> HIDE DEF MemberRows, Events, Leads, Jobs
  <2>3. QED
    BY <1>3, <1>4, <2>1, <2>2 DEF IInv, TypeOK
<1>7. Complete(World') /\ (~overlap' => Follows(World'))
  BY <1>2, <1>3 DEF LeadsTo, IInv
<1>8. Placed'
  BY <1>3, <1>5 DEF IInv, Placed, Evolves
<1>9. JobReads'
  BY <1>3 DEF IInv, JobReads, NoJob
<1>10. AgentReads'
  BY <1>3, <1>5 DEF IInv, AgentReads, Evolves
<1>11. QED
  BY <1>6, <1>7, <1>8, <1>9, <1>10 DEF IInv

LEMMA LogPlaced ==
  ASSUME IInv, NEW m \in Members, Len(log[m]) > 0
  PROVE  member[m].status # "none"
  BY DEF IInv, Placed

LEMMA WebhookStep ==
  ASSUME IInv, NEW m \in Members, NEW kind \in Kinds, Webhook(m, kind)
  PROVE  IInv'
<1>1. log[m] \in Seq(Kinds) /\ kind \in Range(log[m])
  BY DEF IInv, TypeOK, Webhook, Happened
<1>2. Len(log[m]) > 0
  BY <1>1 DEF Range
<1>3. World \in Worlds /\ Complete(World) /\ World.member[m].status # "none"
  BY <1>2, LogPlaced, WorldType DEF IInv, World
<1>4. LeadsTo(World, Ingest(World, <<m, kind>>))
  BY <1>3, IngestLeads
<1>5. /\ Becomes(Ingest(World, <<m, kind>>))
      /\ UNCHANGED <<agent, lemlist, overlap>>
      /\ checkpoint' = checkpoint /\ job' = job
  BY DEF Webhook
<1>6. checkpoint' \in [Members -> Nat] /\ \A n \in Members : checkpoint'[n] <= Len(log[n])
  BY <1>5 DEF IInv, TypeOK
<1>7. QED
  BY <1>4, <1>5, <1>6, WordStep

LEMMA ContactWebhookStep ==
  ASSUME IInv, ContactWebhook
  PROVE  IInv'
<1>1. PICK filed \in Filed :
        member' = [m \in Members |->
                     IF m \in {n \in Members : n = filed \/ member[n].status \in Live}
                       THEN [member[m] EXCEPT !.status = "unsubscribed"]
                       ELSE member[m]]
  BY DEF ContactWebhook
<1> DEFINE told == {n \in Members : n = filed \/ member[n].status \in Live}
           v == [member |-> member', list |-> list', stored |-> stored']
<1>2. /\ list' = Suppressed(list, "unsubscribed") /\ stored' = stored \cup {Contact}
      /\ UNCHANGED <<agent, lemlist, overlap>> /\ checkpoint' = checkpoint /\ job' = job
  BY DEF ContactWebhook
<1>3. /\ member \in [Members -> MemberRows] /\ list \in {"no"} \cup Blocking
      /\ stored \in SUBSET Events
  BY DEF IInv, TypeOK
<1>4. filed \in Members /\ member[filed].status # "none"
  BY DEF Filed
<1>5. \A m \in told : member[m].status # "none"
  BY <1>4 DEF Live
<1>6. \A m \in Members \ told : member[m].status \notin Live
  OBVIOUS
<1>7. ASSUME NEW row \in MemberRows
      PROVE  /\ [row EXCEPT !.status = "unsubscribed"] \in MemberRows
             /\ [row EXCEPT !.status = "unsubscribed"].status = "unsubscribed"
             /\ [row EXCEPT !.status = "unsubscribed"].removed = row.removed
  BY DEF MemberRows, Terminal, Blocking
<1>8. member' = [m \in Members |->
                   IF m \in told THEN [member[m] EXCEPT !.status = "unsubscribed"]
                   ELSE member[m]]
  BY <1>1
<1> HIDE DEF told
<1>9. /\ member' \in [Members -> MemberRows]
      /\ \A m \in told \cap Members : /\ member'[m].status = "unsubscribed"
                                      /\ member'[m].removed = member[m].removed
      /\ \A m \in Members \ told : member'[m] = member[m]
  <2> HIDE DEF MemberRows
  <2>1. ASSUME NEW m \in Members
        PROVE  /\ member'[m] \in MemberRows
               /\ m \in told => /\ member'[m].status = "unsubscribed"
                                /\ member'[m].removed = member[m].removed
               /\ m \notin told => member'[m] = member[m]
    <3>1. member[m] \in MemberRows
      BY <1>3
    <3>2. CASE m \in told
      <4>1. member'[m] = [member[m] EXCEPT !.status = "unsubscribed"]
        BY <1>8, <3>2
      <4>2. QED
        BY <1>7, <3>1, <3>2, <4>1
    <3>3. CASE m \notin told
      BY <1>8, <3>1, <3>3
    <3>4. QED
      BY <3>2, <3>3
  <2>2. member' = [m \in Members |-> member'[m]]
    BY <1>8
  <2>3. QED
    BY <2>1, <2>2
<1>10. list' = "unsubscribed"
  BY <1>2, <1>3, SuppressedList DEF Blocking
<1>11. v \in Worlds
  <2>1. Contact \in Events
    BY DEF Events
  <2>2. list' \in {"no"} \cup Blocking /\ stored' \in SUBSET Events
    BY <1>2, <1>3, <1>10, <2>1 DEF Blocking
  <2> HIDE DEF MemberRows, Events
  <2>3. QED
    BY <1>9, <2>2 DEF Worlds
<1>12. Complete(v)
  BY <1>10 DEF Complete
<1>13. Follows(v)  \/ ~Follows(World)
  <2>1. SUFFICES ASSUME Follows(World), NEW m \in Members
                 PROVE  RowFollows(member'[m], KindsOf(m, stored'), TRUE)
    BY <1>2 DEF Follows
  <2>2. KindsOf(m, stored') = KindsOf(m, stored)
    BY <1>2, MemberAssumption DEF KindsOf, Contact
  <2>3. RowFollows(member[m], KindsOf(m, stored), Contact \in stored)
    BY <2>1 DEF Follows, World
  <2>4. CASE m \in told
    BY <1>9, <2>2, <2>4 DEF RowFollows, Live, Blocking
  <2>5. CASE m \notin told
    BY <1>6, <1>9, <2>2, <2>3, <2>5 DEF RowFollows
  <2>6. QED
    BY <2>4, <2>5
<1>14. \A m \in Members : Evolves(member[m], member'[m])
  BY <1>5, <1>9, EvolvesSelf DEF Evolves, Blocking
<1>15. LeadsTo(World, v)
  BY <1>11, <1>12, <1>13, <1>14 DEF LeadsTo, World
<1>16. Becomes(v)
  BY DEF Becomes
<1>17. checkpoint' \in [Members -> Nat] /\ \A n \in Members : checkpoint'[n] <= Len(log[n])
  BY <1>2 DEF IInv, TypeOK
<1> HIDE DEF v
<1>18. QED
  BY <1>2, <1>15, <1>16, <1>17, WordStep

LEMMA ReconcileStep ==
  ASSUME IInv, Reconcile
  PROVE  IInv'
<1> DEFINE m == job.m
           h == Heard(World)
           v == IngestSince(h)
<1>1. /\ job.pc = "listed" /\ Becomes(v)
      /\ checkpoint' = [checkpoint EXCEPT ![m] = job.from]
      /\ job' = NoJob /\ UNCHANGED <<agent, lemlist, overlap>>
  BY DEF Reconcile
<1>2. m \in Members /\ job.from \in Nat /\ job.seen \in Leads
  BY <1>1, JobType DEF IInv
<1>3. World \in Worlds /\ Complete(World)
  BY WorldType DEF IInv
<1>4. LeadsTo(World, h)
  BY <1>2, <1>3, HeardLeads
<1>5. /\ log[m] \in Seq(Kinds) /\ checkpoint \in [Members -> Nat]
      /\ \A n \in Members : checkpoint[n] <= Len(log[n])
  BY <1>2 DEF IInv, TypeOK
<1>6. Len(log[m]) > 0 => h.member[m].status # "none"
  <2>1. Evolves(World.member[m], h.member[m]) /\ World.member = member
    BY <1>2, <1>4 DEF LeadsTo, World
  <2>2. Len(log[m]) > 0 => member[m].status # "none"
    BY <1>2, LogPlaced
  <2> HIDE DEF m, h
  <2>3. QED
    BY <2>1, <2>2 DEF Evolves
<1>7. h \in Worlds /\ Complete(h)
  BY <1>4 DEF LeadsTo
<1>8. LeadsTo(h, v)
  <2> HIDE DEF h
  <2>1. QED
    BY <1>2, <1>5, <1>6, <1>7, IngestSinceLeads
<1> HIDE DEF v, h
<1>9. LeadsTo(World, v)
  BY <1>4, <1>8, LeadsTransitive
<1>10. /\ checkpoint' \in [Members -> Nat]
       /\ \A n \in Members : checkpoint'[n] <= Len(log[n])
  BY <1>1, <1>2, <1>5 DEF IInv, JobReads
<1>11. QED
  BY <1>1, <1>9, <1>10, WordStep

\* A step that leaves the database alone.
LEMMA QuietStep ==
  ASSUME IInv, UNCHANGED <<database, overlap>>,
         job' \in Jobs, JobReads', AgentReads',
         lead' \in [Members -> Leads], whole' \in BOOLEAN,
         log' \in [Members -> Seq(Kinds)],
         \A m \in Members :
           /\ lead'[m].present => lead[m].present
           /\ IsInjective(log'[m])
           /\ Len(log[m]) <= Len(log'[m])
           /\ Len(log'[m]) > 0 => member[m].status # "none"
  PROVE  IInv'
<1>1. /\ member' = member /\ list' = list /\ stored' = stored
      /\ checkpoint' = checkpoint /\ overlap' = overlap
  BY DEF database
<1>2. World' = World
  BY <1>1 DEF World
<1>3. \A m \in Members : checkpoint[m] \in Nat /\ checkpoint[m] <= Len(log[m])
                         /\ Len(log[m]) \in Nat /\ Len(log'[m]) \in Nat
  BY DEF IInv, TypeOK
<1>4. \A m \in Members : checkpoint'[m] <= Len(log'[m])
  BY <1>1, <1>3
<1>5. agent' = NoGesture \/ (agent'.op \in Ops /\ agent'.m \in Members)
  BY DEF AgentReads
<1>6. \A m \in Members : lead'[m].present => member'[m].status # "none" /\ ~member'[m].removed
  BY <1>1 DEF IInv, TypeOK
<1>7. TypeOK'
  <2> HIDE DEF MemberRows, Leads, Events, Jobs, Kinds
  <2>1. QED
    BY <1>1, <1>4, <1>5, <1>6 DEF IInv, TypeOK
<1>8. Placed'
  <2>1. \A m \in Members : ~(Len(log'[m]) > 0) => Len(log'[m]) = 0
    BY <1>3
  <2>2. QED
    BY <1>1, <2>1 DEF IInv, Placed
<1>9. Complete(World') /\ (~overlap' => Follows(World'))
  BY <1>1, <1>2 DEF IInv
<1>10. QED
  BY <1>7, <1>8, <1>9 DEF IInv

\* What QuietStep asks of the log, when the log stays.
LEMMA LogStays ==
  ASSUME IInv, log' = log
  PROVE  /\ log' \in [Members -> Seq(Kinds)]
         /\ \A m \in Members :
              /\ IsInjective(log'[m])
              /\ Len(log[m]) <= Len(log'[m])
              /\ Len(log'[m]) > 0 => member[m].status # "none"
<1>0. SUFFICES ASSUME NEW m \in Members
               PROVE  /\ IsInjective(log[m]) /\ Len(log[m]) <= Len(log[m])
                      /\ Len(log[m]) > 0 => member[m].status # "none"
  BY DEF IInv, TypeOK
<1>1. log[m] \in Seq(Kinds) /\ IsInjective(log[m])
  BY DEF IInv, TypeOK
<1>2. Len(log[m]) > 0 => member[m].status # "none"
  BY LogPlaced
<1>3. QED
  BY <1>1, <1>2

LEMMA AgentStays ==
  ASSUME IInv, member' = member, agent' = agent
  PROVE  AgentReads'
  BY DEF IInv, AgentReads

\* An activity is new to the log it is appended to.
LEMMA Appended ==
  ASSUME NEW s \in Seq(Kinds), IsInjective(s), NEW kind \in Kinds, kind \notin Range(s)
  PROVE  /\ Append(s, kind) \in Seq(Kinds) /\ IsInjective(Append(s, kind))
         /\ Len(s) <= Len(Append(s, kind))
<1> DEFINE t == Append(s, kind)
<1>1. /\ t \in Seq(Kinds) /\ Len(t) = Len(s) + 1 /\ DOMAIN t = 1 .. Len(s) + 1
      /\ \A i \in 1 .. Len(s) : t[i] = s[i]
      /\ t[Len(s) + 1] = kind /\ Len(s) \in Nat
  OBVIOUS
<1>2. \A i \in 1 .. Len(s) : s[i] # kind
  BY DEF Range
<1>3. \A i, j \in 1 .. Len(s) : s[i] = s[j] => i = j
  BY DEF IsInjective
<1> HIDE DEF t
<1>4. ASSUME NEW i \in 1 .. Len(s) + 1, NEW j \in 1 .. Len(s) + 1, t[i] = t[j]
      PROVE  i = j
  BY <1>1, <1>2, <1>3, <1>4
<1>5. IsInjective(t)
  BY <1>1, <1>4 DEF IsInjective
<1>6. QED
  BY <1>1, <1>5 DEF t

LEMMA HappensStep ==
  ASSUME IInv, NEW m \in Members, NEW kind \in Kinds, Happens(m, kind)
  PROVE  IInv'
<1>1. /\ kind \notin Range(log[m])
      /\ log' = [log EXCEPT ![m] = Append(log[m], kind)]
      /\ lead' = IF kind = "unsubscribed" /\ lead[m].present
                   THEN [lead EXCEPT ![m].unsubscribed = TRUE] ELSE lead
      /\ UNCHANGED <<database, job, agent, whole, overlap>>
  BY DEF Happens, Happened
<1>2. kind = "sent" => lead[m].present
  BY DEF Happens
<1>3. kind # "sent" => "sent" \in Range(log[m])
  BY <1>2 DEF Happens, Happened
<1>4. /\ log[m] \in Seq(Kinds) /\ IsInjective(log[m])
      /\ lead \in [Members -> Leads]
      /\ lead[m].present => member[m].status # "none"
  BY DEF IInv, TypeOK
<1>5. member[m].status # "none"
  <2>1. CASE kind = "sent"
    BY <1>2, <1>4, <2>1
  <2>2. CASE kind # "sent"
    <3>1. Len(log[m]) > 0
      BY <1>3, <1>4, <2>2 DEF Range
    <3>2. QED
      BY <3>1, LogPlaced
  <2>3. QED
    BY <2>1, <2>2
<1>6. log \in [Members -> Seq(Kinds)] /\ \A n \in Members : IsInjective(log[n])
  BY DEF IInv, TypeOK
<1> DEFINE s == Append(log[m], kind)
<1>7. s \in Seq(Kinds) /\ IsInjective(s) /\ Len(log[m]) <= Len(s)
  BY <1>1, <1>4, Appended
<1> HIDE DEF s
<1>8. /\ log' \in [Members -> Seq(Kinds)] /\ log'[m] = s
      /\ \A n \in Members \ {m} : log'[n] = log[n]
  BY <1>1, <1>6, <1>7 DEF s
<1>9. \A n \in Members : Len(log[n]) > 0 => member[n].status # "none"
  BY LogPlaced
<1>10. \A n \in Members : Len(log[n]) \in Nat
  BY <1>6
<1>11. \A n \in Members : /\ IsInjective(log'[n])
                          /\ Len(log[n]) <= Len(log'[n])
                          /\ Len(log'[n]) > 0 => member[n].status # "none"
  <2>1. IsInjective(log'[m]) /\ Len(log[m]) <= Len(log'[m])
    BY <1>7, <1>8
  <2>2. ASSUME NEW n \in Members \ {m}
        PROVE  /\ IsInjective(log'[n]) /\ Len(log[n]) <= Len(log'[n])
               /\ Len(log'[n]) > 0 => member[n].status # "none"
    BY <1>6, <1>8, <1>9, <1>10
  <2>3. QED
    BY <1>5, <2>1, <2>2
<1>12. /\ lead' \in [Members -> Leads]
       /\ \A n \in Members : lead'[n].present => lead[n].present
  <2>1. CASE kind = "unsubscribed" /\ lead[m].present
    <3> DEFINE new == [lead[m] EXCEPT !.unsubscribed = TRUE]
    <3>1. new \in Leads /\ new.present = lead[m].present
      BY <1>4 DEF Leads
    <3>2. lead' = [lead EXCEPT ![m] = new]
      BY <1>1, <2>1
    <3> HIDE DEF new
    <3>3. QED
      BY <1>4, <3>1, <3>2
  <2>2. QED
    BY <1>1, <1>4, <2>1
<1>13. JobReads'
  <2>1. job.pc = "listed" => job.m \in Members /\ job.from \in Nat
    BY JobType DEF IInv
  <2>2. job' = job
    BY <1>1
  <2>3. QED
    BY <1>10, <1>11, <2>1, <2>2, <1>8 DEF IInv, JobReads
<1>14. AgentReads' /\ job' \in Jobs /\ whole' \in BOOLEAN
  BY <1>1, AgentStays DEF IInv, TypeOK, database
<1>15. UNCHANGED <<database, overlap>>
  BY <1>1
<1>16. QED
  BY <1>8, <1>11, <1>12, <1>13, <1>14, <1>15, QuietStep

LEMMA ContactUnsubscribesStep ==
  ASSUME IInv, ContactUnsubscribes
  PROVE  IInv'
<1>1. /\ lead' = [m \in Members |-> [lead[m] EXCEPT !.unsubscribed = lead[m].present]]
      /\ whole' = TRUE /\ UNCHANGED <<database, overlap>>
      /\ job' = job /\ agent' = agent /\ log' = log /\ member' = member
  BY DEF ContactUnsubscribes, database
<1>2. ASSUME NEW l \in Leads
      PROVE  /\ [l EXCEPT !.unsubscribed = l.present] \in Leads
             /\ [l EXCEPT !.unsubscribed = l.present].present = l.present
  BY DEF Leads
<1>3. /\ lead' \in [Members -> Leads]
      /\ \A m \in Members : lead'[m].present => lead[m].present
  <2>1. \A m \in Members : lead[m] \in Leads
    BY DEF IInv, TypeOK
  <2> HIDE DEF Leads
  <2>2. QED
    BY <1>1, <1>2, <2>1
<1>4. JobReads' /\ job' \in Jobs
  BY <1>1 DEF IInv, TypeOK, JobReads
<1>5. QED
  BY <1>1, <1>3, <1>4, AgentStays, LogStays, QuietStep

LEMMA ReadLeadsStep ==
  ASSUME IInv, NEW m \in Members, ReadLeads(m)
  PROVE  IInv'
<1>1. /\ job' = [pc |-> "listed", m |-> m, from |-> Len(log[m]), seen |-> lead[m]]
      /\ UNCHANGED <<database, overlap>>
      /\ agent' = agent /\ lead' = lead /\ log' = log /\ whole' = whole
      /\ member' = member
  BY DEF ReadLeads, lemlist, database
<1>2. /\ lead \in [Members -> Leads] /\ log \in [Members -> Seq(Kinds)]
      /\ whole \in BOOLEAN
  BY DEF IInv, TypeOK
<1>3. job' \in Jobs
  <2> HIDE DEF Leads, Kinds
  <2>1. lead[m] \in Leads /\ Len(log[m]) \in Nat
    BY <1>2
  <2>2. QED
    BY <1>1, <2>1 DEF Jobs
<1>4. JobReads'
  BY <1>1, <1>2 DEF JobReads
<1>5. QED
  BY <1>1, <1>2, <1>3, <1>4, AgentStays, LogStays, QuietStep

LEMMA FailJobStep ==
  ASSUME IInv, FailJob
  PROVE  IInv'
<1>1. /\ job' = NoJob /\ UNCHANGED <<database, overlap>>
      /\ agent' = agent /\ lead' = lead /\ log' = log /\ whole' = whole
      /\ member' = member
  BY DEF FailJob, lemlist, database
<1>2. lead \in [Members -> Leads] /\ whole \in BOOLEAN
  BY DEF IInv, TypeOK
<1>3. job' \in Jobs /\ JobReads'
  BY <1>1 DEF Jobs, JobReads, NoJob
<1>4. QED
  BY <1>1, <1>2, <1>3, AgentStays, LogStays, QuietStep

LEMMA AbandonStep ==
  ASSUME IInv, Abandon
  PROVE  IInv'
<1>1. /\ agent' = NoGesture /\ UNCHANGED <<database, overlap>>
      /\ job' = job /\ lead' = lead /\ log' = log /\ whole' = whole
  BY DEF Abandon, lemlist
<1>2. lead \in [Members -> Leads] /\ whole \in BOOLEAN /\ job \in Jobs
  BY DEF IInv, TypeOK
<1>3. JobReads' /\ AgentReads'
  BY <1>1 DEF IInv, JobReads, AgentReads
<1>4. QED
  BY <1>1, <1>2, <1>3, LogStays, QuietStep

LEMMA BeginStep ==
  ASSUME IInv, NEW op \in Ops, NEW m \in Members, NEW to \in Members,
         Begin(op, m, to)
  PROVE  IInv'
<1>1. /\ Allowed(op, m, to)
      /\ agent' = [op |-> op, m |-> m, to |-> to, read |-> member[m], list |-> list]
      /\ UNCHANGED <<database, overlap>> /\ member' = member
      /\ job' = job /\ lead' = lead /\ log' = log /\ whole' = whole
  BY DEF Begin, lemlist, database
<1>2. /\ lead \in [Members -> Leads] /\ whole \in BOOLEAN /\ job \in Jobs
      /\ member[m] \in MemberRows
  BY DEF IInv, TypeOK
<1>3. JobReads'
  BY <1>1 DEF IInv, JobReads
<1>4. /\ agent'.op = op /\ agent'.m = m /\ agent'.to = to
      /\ agent'.read = member[m] /\ agent'.list = list
  BY <1>1
<1>5. /\ op \in {"add", "launch", "move"} => list = "no"
      /\ op = "add" => member[m].status = "none"
      /\ op # "add" => member[m].status # "none"
      /\ op \in {"launch", "pause", "resume"} => member[m].status \in Live
      /\ op = "move" => to # m /\ member[to].status = "none"
  BY <1>1 DEF Allowed, Blocked, Ops, Live
<1>6. AgentReads'
  <2>0. member[m].status \in Live => ~member[m].removed
    BY DEF IInv, Placed, Live, Blocking
  <2> HIDE DEF MemberRows, Live, Blocking, Ops
  <2>1. QED
    BY <1>1, <1>2, <1>4, <1>5, <2>0 DEF AgentReads
<1>7. QED
  BY <1>1, <1>2, <1>3, <1>6, LogStays, QuietStep

---------------------------------------------------------------------------
\* The writes of a gesture.

\* What is on file of Lemlist's word stands, with the row `new`, when it
\* stood with the row of m.
Stands(m, new) ==
  RowFollows(member[m], KindsOf(m, stored), Contact \in stored) =>
    RowFollows(new, KindsOf(m, stored), Contact \in stored)

LEMMA EndsStep ==
  ASSUME IInv, NEW rows, NEW listed, NEW leads, Ends(rows, listed, leads),
         rows \in [Members -> MemberRows], listed \in {"no"} \cup Blocking,
         leads \in [Members -> Leads],
         list # "no" => listed # "no",
         list = "unsubscribed" => listed = "unsubscribed",
         \A m \in Members :
           /\ leads[m].present => rows[m].status # "none" /\ ~rows[m].removed
           /\ rows[m].status = "none" => member[m].status = "none" /\ ~rows[m].removed
           /\ rows[m].removed => rows[m].status \in {"removed"} \cup Blocking
           /\ rows[m].status = "unsubscribed" => listed = "unsubscribed"
           /\ rows[m].status = "bounced" => listed # "no"
           /\ ~overlap /\ ~OverUnread => Stands(m, rows[m])
  PROVE  IInv'
<1>1. /\ member' = rows /\ list' = listed /\ lead' = leads /\ agent' = NoGesture
      /\ overlap' = (overlap \/ OverUnread)
      /\ UNCHANGED <<stored, checkpoint, job, log, whole>>
  BY DEF Ends
<1>2. overlap \in BOOLEAN /\ OverUnread \in BOOLEAN
  BY DEF IInv, TypeOK, OverUnread
<1>3. TypeOK'
  <2> HIDE DEF MemberRows, Leads, Events, Jobs, Kinds, OverUnread
  <2>1. QED
    BY <1>1, <1>2 DEF IInv, TypeOK
<1>4. Placed' /\ JobReads' /\ AgentReads'
  BY <1>1 DEF IInv, Placed, JobReads, AgentReads
<1>5. Complete(World')
  BY <1>1 DEF IInv, Complete, World
<1>6. ASSUME ~overlap' PROVE Follows(World')
  <2>1. ~overlap /\ ~OverUnread /\ Follows(World)
    BY <1>1, <1>6 DEF IInv
  <2>2. ASSUME NEW m \in Members
        PROVE  RowFollows(rows[m], KindsOf(m, stored), Contact \in stored)
    <3>1. RowFollows(member[m], KindsOf(m, stored), Contact \in stored)
      BY <2>1 DEF Follows, World
    <3>2. Stands(m, rows[m])
      BY <2>1
    <3>3. QED
      BY <3>1, <3>2 DEF Stands
  <2>3. QED
    BY <1>1, <2>2 DEF Follows, World
<1>7. QED
  BY <1>3, <1>4, <1>5, <1>6 DEF IInv

\* Nothing of an opposition is on file while the address is not listed.
LEMMA NothingOnFile ==
  ASSUME IInv, list = "no"
  PROVE  Contact \notin stored
  BY DEF IInv, Complete, World, Contact

\* A row that becomes a running one, when nothing ended it.
LEMMA RunningStands ==
  ASSUME IInv, NEW m \in Members, NEW new \in MemberRows, new.status \in Live,
         \/ member[m].status \in Live
         \/ member[m].status = "none" /\ list = "no"
  PROVE  Stands(m, new)
<1>1. ~member[m].removed
  BY DEF IInv, Placed, Live, Blocking
<1>2. member[m].status \notin Live => Contact \notin stored
  BY NothingOnFile
<1>3. QED
  BY <1>1, <1>2 DEF Stands, RowFollows, Live, Blocking

LEMMA StandsSelf == \A m \in Members : Stands(m, member[m])
  BY DEF Stands

LEMMA WrittenRow ==
  ASSUME IInv, agent # NoGesture, NEW status \in Live \cup {"unsubscribed"}
  PROVE  /\ Written(status) \in [Members -> MemberRows]
         /\ Written(status)[agent.m].status = status
         /\ Written(status)[agent.m].removed = member[agent.m].removed
         /\ \A m \in Members \ {agent.m} : Written(status)[m] = member[m]
<1> DEFINE new == [member[agent.m] EXCEPT !.status = status]
<1>1. agent.m \in Members /\ member \in [Members -> MemberRows]
  BY DEF IInv, TypeOK
<1>2. new \in MemberRows /\ new.status = status /\ new.removed = member[agent.m].removed
  BY <1>1 DEF MemberRows, Terminal, Blocking, Live
<1>3. Written(status) = [member EXCEPT ![agent.m] = new]
  BY DEF Written
<1> HIDE DEF new
<1>4. QED
  BY <1>1, <1>2, <1>3

\* The gestures that write a status: what is written, and why it may be.
LEMMA WriteStep ==
  ASSUME IInv, agent # NoGesture, agent.op \in {"add", "launch", "pause", "resume"},
         NEW status \in Live \cup {"unsubscribed"}, NEW listed, NEW leads,
         status = "unsubscribed" => listed = "unsubscribed",
         listed = list \/ listed = "unsubscribed",
         leads \in [Members -> Leads],
         \A m \in Members \ {agent.m} : leads[m].present => lead[m].present,
         Ends(Written(status), listed, leads)
  PROVE  IInv'
<1> DEFINE rows == Written(status)
           m == agent.m
<1>1. /\ m \in Members /\ agent.read \in MemberRows
      /\ agent.read.status = "none" \/ agent.read.status \in Live
      /\ agent.read.status = "none" => agent.op = "add"
  BY DEF IInv, AgentReads
<1>2. ~member[m].removed
  BY <1>1 DEF IInv, AgentReads, Placed
<1>3. /\ rows \in [Members -> MemberRows] /\ rows[m].status = status
      /\ rows[m].removed = member[m].removed
      /\ \A n \in Members \ {m} : rows[n] = member[n]
  BY WrittenRow
<1> HIDE DEF rows
<1>4. /\ list \in {"no"} \cup Blocking
      /\ \A n \in Members : lead[n].present => member[n].status # "none" /\ ~member[n].removed
  BY DEF IInv, TypeOK
<1>5. listed \in {"no"} \cup Blocking
  BY <1>4 DEF Blocking
<1>6. ASSUME ~OverUnread PROVE Stands(m, rows[m])
  <2>1. member[m] = agent.read /\ (agent.op = "add" => list = "no")
    BY <1>6 DEF OverUnread, IInv, AgentReads
  <2>2. CASE status = "unsubscribed"
    BY <1>3, <2>2 DEF Stands, RowFollows, Live, Blocking
  <2>3. CASE status \in Live
    BY <1>1, <1>3, <2>1, <2>3, RunningStands
  <2>4. QED
    BY <2>2, <2>3
<1>7. /\ leads[m].present => rows[m].status # "none" /\ ~rows[m].removed
      /\ rows[m].status # "none" /\ ~rows[m].removed
      /\ rows[m].status = "unsubscribed" => listed = "unsubscribed"
      /\ rows[m].status # "bounced"
  BY <1>2, <1>3 DEF Live
<1>8. ASSUME NEW n \in Members \ {m}
      PROVE  /\ leads[n].present => rows[n].status # "none" /\ ~rows[n].removed
             /\ rows[n].status = "none" => member[n].status = "none" /\ ~rows[n].removed
             /\ rows[n].removed => rows[n].status \in {"removed"} \cup Blocking
             /\ rows[n].status = "unsubscribed" => listed = "unsubscribed"
             /\ rows[n].status = "bounced" => listed # "no"
             /\ Stands(n, rows[n])
  <2>1. rows[n] = member[n] /\ Stands(n, member[n])
    BY <1>3, StandsSelf
  <2>2. /\ member[n].status = "unsubscribed" => list = "unsubscribed"
        /\ member[n].status = "bounced" => list # "no"
    BY DEF IInv, Complete, World
  <2>3. /\ member[n].status = "none" => ~member[n].removed
        /\ member[n].removed => member[n].status \in {"removed"} \cup Blocking
    BY DEF IInv, Placed
  <2>4. QED
    BY <1>4, <2>1, <2>2, <2>3
<1>9. QED
  <2> HIDE DEF m
  <2>1. \A n \in Members :
          /\ leads[n].present => rows[n].status # "none" /\ ~rows[n].removed
          /\ rows[n].status = "none" => member[n].status = "none" /\ ~rows[n].removed
          /\ rows[n].removed => rows[n].status \in {"removed"} \cup Blocking
          /\ rows[n].status = "unsubscribed" => listed = "unsubscribed"
          /\ rows[n].status = "bounced" => listed # "no"
          /\ ~overlap /\ ~OverUnread => Stands(n, rows[n])
    BY <1>6, <1>7, <1>8
  <2>2. Ends(rows, listed, leads)
    BY DEF rows
  <2>3. QED
    BY <1>3, <1>5, <2>1, <2>2, EndsStep

LEMMA PausedLeads ==
  ASSUME IInv, agent # NoGesture, NEW p \in BOOLEAN
  PROVE  /\ Paused(p) \in [Members -> Leads]
         /\ \A m \in Members \ {agent.m} : Paused(p)[m].present => lead[m].present
<1> DEFINE new == [lead[agent.m] EXCEPT !.paused = p]
<1>1. agent.m \in Members /\ lead \in [Members -> Leads]
  BY DEF IInv, TypeOK
<1>2. new \in Leads
  BY <1>1 DEF Leads
<1>3. Paused(p) = lead \/ Paused(p) = [lead EXCEPT ![agent.m] = new]
  BY DEF Paused
<1> HIDE DEF new
<1>4. QED
  BY <1>1, <1>2, <1>3

LEMMA LiveStatuses == {"ready", "queued", "active", "paused"} \subseteq Live
  BY DEF Live

LEMMA AddStep == ASSUME IInv, Add PROVE IInv'
<1>1. /\ agent.op = "add" /\ agent # NoGesture
      /\ Ends(Written("ready"), list, lead)
  BY DEF Add, Ends
<1>2. lead \in [Members -> Leads]
  BY DEF IInv, TypeOK
<1>3. QED
  BY <1>1, <1>2, LiveStatuses, WriteStep

LEMMA LaunchStep == ASSUME IInv, Launch PROVE IInv'
<1>1. agent.op = "launch" /\ agent # NoGesture
  BY DEF Launch, Ends
<1>2. agent.m \in Members /\ lead \in [Members -> Leads] /\ list \in {"no"} \cup Blocking
  BY <1>1 DEF IInv, TypeOK
<1>3. CASE Ends(Written("unsubscribed"), Suppressed(list, "unsubscribed"), lead)
  <2>1. Suppressed(list, "unsubscribed") = "unsubscribed"
    BY <1>2, SuppressedList DEF Blocking
  <2>2. QED
    BY <1>1, <1>2, <1>3, <2>1, WriteStep
<1>4. CASE Ends(Written("queued"), list, [lead EXCEPT ![agent.m].present = TRUE])
  <2> DEFINE new == [lead[agent.m] EXCEPT !.present = TRUE]
             leads == [lead EXCEPT ![agent.m].present = TRUE]
  <2>0. Ends(Written("queued"), list, leads)
    BY <1>4
  <2>1. new \in Leads
    BY <1>2 DEF Leads
  <2>2. leads = [lead EXCEPT ![agent.m] = new]
    OBVIOUS
  <2> HIDE DEF new
  <2>3. /\ leads \in [Members -> Leads]
        /\ \A m \in Members \ {agent.m} : leads[m].present => lead[m].present
    BY <1>2, <2>1, <2>2
  <2> HIDE DEF leads
  <2>4. "queued" \in Live \cup {"unsubscribed"}
    BY DEF Live
  <2>5. QED
    BY <1>1, <2>0, <2>3, <2>4, WriteStep
<1>5. QED
  BY <1>3, <1>4 DEF Launch

LEMMA PauseStep == ASSUME IInv, Pause PROVE IInv'
<1>1. /\ agent.op = "pause" /\ agent # NoGesture
      /\ Ends(Written("paused"), list, Paused(TRUE))
  BY DEF Pause, Ends
<1>2. /\ Paused(TRUE) \in [Members -> Leads]
      /\ \A m \in Members \ {agent.m} : Paused(TRUE)[m].present => lead[m].present
  BY <1>1, PausedLeads
<1>3. QED
  BY <1>1, <1>2, LiveStatuses, WriteStep

LEMMA ResumeStep == ASSUME IInv, Resume PROVE IInv'
<1> DEFINE status == CASE ~lead[agent.m].present -> "ready"
                       [] lead[agent.m].present /\ agent.read.started -> "active"
                       [] OTHER -> "queued"
<1>1. /\ agent.op = "resume" /\ agent # NoGesture
      /\ Ends(Written(status), list, Paused(FALSE))
  BY DEF Resume, Ends
<1>2. /\ Paused(FALSE) \in [Members -> Leads]
      /\ \A m \in Members \ {agent.m} : Paused(FALSE)[m].present => lead[m].present
  BY <1>1, PausedLeads
<1>3. status \in Live /\ status # "unsubscribed"
  <2>1. status \in {"ready", "active", "queued"}
    OBVIOUS
  <2> HIDE DEF status
  <2>2. QED
    BY <2>1 DEF Live
<1> HIDE DEF status
<1>4. QED
  BY <1>1, <1>2, <1>3, WriteStep

\* The end of a membership, alone or as its move to another campaign.
LEMMA EndStep ==
  ASSUME IInv, agent # NoGesture, NEW added \in SUBSET Members,
         Ends(Over(added), list, [lead EXCEPT ![agent.m] = NoLead]),
         \/ agent.op = "remove" /\ added = {}
         \/ agent.op = "move" /\ added = {agent.to}
  PROVE  IInv'
<1> DEFINE m == agent.m
           rows == Over(added)
           leads == [lead EXCEPT ![m] = NoLead]
           gone == [member[m] EXCEPT !.removed = TRUE,
                      !.status = IF agent.read.status \in Blocking THEN @ ELSE "removed"]
<1>1. /\ m \in Members /\ member[m] \in MemberRows /\ member[m].status # "none"
      /\ agent.read.status \in Blocking => member[m].status \in Blocking
  BY DEF IInv, TypeOK, AgentReads
<1>2. ASSUME NEW n \in added
      PROVE  n \in Members /\ n # m /\ member[n] \in MemberRows
             /\ member[n].status = "none" /\ ~member[n].removed
  BY <1>2 DEF IInv, TypeOK, AgentReads, Placed
<1>3. added # {} => (~OverUnread => list = "no")
  BY DEF OverUnread, IInv, AgentReads
<1>4. /\ member \in [Members -> MemberRows] /\ lead \in [Members -> Leads]
      /\ list \in {"no"} \cup Blocking
  BY DEF IInv, TypeOK
<1>5. /\ gone \in MemberRows /\ gone.removed = TRUE
      /\ gone.status = IF agent.read.status \in Blocking THEN member[m].status ELSE "removed"
  BY <1>1 DEF MemberRows, Terminal
<1>6. ASSUME NEW n \in added
      PROVE  /\ [member[n] EXCEPT !.status = "ready"] \in MemberRows
             /\ [member[n] EXCEPT !.status = "ready"].status = "ready"
             /\ ~[member[n] EXCEPT !.status = "ready"].removed
  BY <1>2 DEF MemberRows, Live
<1>7. /\ rows[m] = gone
      /\ \A n \in added : rows[n] = [member[n] EXCEPT !.status = "ready"]
      /\ \A n \in Members : n # m /\ n \notin added => rows[n] = member[n]
      /\ rows = [n \in Members |-> rows[n]]
  BY <1>1, <1>2 DEF Over
<1> HIDE DEF rows, gone
<1>8. rows \in [Members -> MemberRows]
  <2>1. ASSUME NEW n \in Members PROVE rows[n] \in MemberRows
    <3>1. CASE n = m
      BY <1>5, <1>7, <3>1
    <3>2. CASE n \in added
      <4>1. rows[n] = [member[n] EXCEPT !.status = "ready"]
        BY <1>7, <3>2
      <4>2. QED
        BY <1>6, <3>2, <4>1
    <3>3. CASE n # m /\ n \notin added
      BY <1>4, <1>7, <3>3
    <3>4. QED
      BY <3>1, <3>2, <3>3
  <2> HIDE DEF MemberRows
  <2>2. QED
    BY <1>7, <2>1
<1>9. NoLead \in Leads /\ ~NoLead.present
  BY DEF NoLead, Leads
<1>10. /\ leads \in [Members -> Leads] /\ ~leads[m].present
       /\ \A n \in Members \ {m} : leads[n] = lead[n]
  BY <1>1, <1>4, <1>9
<1> HIDE DEF leads
<1>11. /\ \A n \in Members : member[n].status = "unsubscribed" => list = "unsubscribed"
       /\ \A n \in Members : member[n].status = "bounced" => list # "no"
  BY DEF IInv, Complete, World
<1>12. /\ rows[m].status # "none" /\ rows[m].removed
       /\ rows[m].status \in {"removed"} \cup Blocking
       /\ rows[m].status = "unsubscribed" => list = "unsubscribed"
       /\ rows[m].status = "bounced" => list # "no"
  BY <1>1, <1>5, <1>7, <1>11 DEF Blocking
<1>13. ~OverUnread => Stands(m, rows[m])
  <2>1. SUFFICES ASSUME member[m] = agent.read PROVE Stands(m, rows[m])
    BY DEF OverUnread
  <2>2. QED
    BY <1>5, <1>7, <2>1 DEF Stands, RowFollows, Blocking, Live
<1>14. ASSUME NEW n \in added
       PROVE  /\ rows[n].status = "ready" /\ ~rows[n].removed /\ n \in Members
              /\ ~OverUnread => Stands(n, rows[n])
  <2>1. rows[n].status = "ready" /\ ~rows[n].removed /\ rows[n] \in MemberRows
    <3>1. rows[n] = [member[n] EXCEPT !.status = "ready"]
      BY <1>7
    <3>2. QED
      BY <1>6, <3>1
  <2>2. ~OverUnread => Stands(n, rows[n])
    BY <1>2, <1>3, <2>1, LiveStatuses, RunningStands
  <2>3. QED
    BY <1>2, <2>1, <2>2
<1>15. ASSUME NEW n \in Members, n # m, n \notin added
       PROVE  /\ leads[n].present => rows[n].status # "none" /\ ~rows[n].removed
              /\ rows[n].status = "none" => member[n].status = "none" /\ ~rows[n].removed
              /\ rows[n].removed => rows[n].status \in {"removed"} \cup Blocking
              /\ Stands(n, rows[n]) /\ rows[n] = member[n]
  <2>1. rows[n] = member[n] /\ leads[n] = lead[n] /\ Stands(n, member[n])
    BY <1>7, <1>10, <1>15, StandsSelf
  <2>2. /\ lead[n].present => member[n].status # "none" /\ ~member[n].removed
        /\ member[n].status = "none" => ~member[n].removed
        /\ member[n].removed => member[n].status \in {"removed"} \cup Blocking
    BY DEF IInv, TypeOK, Placed
  <2>3. QED
    BY <2>1, <2>2
<1>16. \A n \in Members :
         /\ leads[n].present => rows[n].status # "none" /\ ~rows[n].removed
         /\ rows[n].status = "none" => member[n].status = "none" /\ ~rows[n].removed
         /\ rows[n].removed => rows[n].status \in {"removed"} \cup Blocking
         /\ rows[n].status = "unsubscribed" => list = "unsubscribed"
         /\ rows[n].status = "bounced" => list # "no"
         /\ ~overlap /\ ~OverUnread => Stands(n, rows[n])
  <2> HIDE DEF m
  <2>1. SUFFICES ASSUME NEW n \in Members
        PROVE  /\ leads[n].present => rows[n].status # "none" /\ ~rows[n].removed
               /\ rows[n].status = "none" => member[n].status = "none" /\ ~rows[n].removed
               /\ rows[n].removed => rows[n].status \in {"removed"} \cup Blocking
               /\ rows[n].status = "unsubscribed" => list = "unsubscribed"
               /\ rows[n].status = "bounced" => list # "no"
               /\ ~overlap /\ ~OverUnread => Stands(n, rows[n])
    OBVIOUS
  <2>2. CASE n = m
    BY <1>10, <1>12, <1>13, <2>2
  <2>3. CASE n \in added
    BY <1>14, <2>3
  <2>4. CASE n # m /\ n \notin added
    BY <1>11, <1>15, <2>4
  <2>5. QED
    BY <2>2, <2>3, <2>4
<1>17. Ends(rows, list, leads)
  BY DEF rows, leads
<1>18. QED
  BY <1>4, <1>8, <1>10, <1>16, <1>17, EndsStep

LEMMA TakeOutStep == ASSUME IInv, TakeOut PROVE IInv'
<1>1. /\ agent.op = "remove" /\ agent # NoGesture
      /\ Ends(Over({}), list, [lead EXCEPT ![agent.m] = NoLead])
  BY DEF TakeOut, End, Ends
<1> DEFINE none == {}
<1>2. /\ none \in SUBSET Members /\ none = {}
      /\ Ends(Over(none), list, [lead EXCEPT ![agent.m] = NoLead])
  BY <1>1
<1> HIDE DEF none
<1>3. QED
  BY <1>1, <1>2, EndStep

LEMMA MoveStep == ASSUME IInv, Move PROVE IInv'
<1>1. /\ agent.op = "move" /\ agent # NoGesture
      /\ Ends(Over({agent.to}), list, [lead EXCEPT ![agent.m] = NoLead])
  BY DEF Move, End, Ends
<1>2. {agent.to} \in SUBSET Members
  BY <1>1 DEF IInv, AgentReads
<1>3. QED
  BY <1>1, <1>2, EndStep

---------------------------------------------------------------------------
LEMMA NextIInv == IInv /\ [Next]_vars => IInv'
<1> SUFFICES ASSUME IInv, [Next]_vars PROVE IInv'
  OBVIOUS
<1>1. ASSUME NEW m \in Members, NEW kind \in Kinds, Happens(m, kind) PROVE IInv'
  BY <1>1, HappensStep
<1>2. ASSUME NEW m \in Members, NEW kind \in Kinds, Webhook(m, kind) PROVE IInv'
  BY <1>2, WebhookStep
<1>3. CASE ContactUnsubscribes
  BY <1>3, ContactUnsubscribesStep
<1>4. CASE ContactWebhook
  BY <1>4, ContactWebhookStep
<1>5. ASSUME NEW op \in Ops, NEW m \in Members, NEW to \in Members, Begin(op, m, to)
      PROVE  IInv'
  BY <1>5, BeginStep
<1>6. CASE Finish
  BY <1>6, AddStep, LaunchStep, PauseStep, ResumeStep, TakeOutStep, MoveStep DEF Finish
<1>7. CASE Abandon
  BY <1>7, AbandonStep
<1>8. ASSUME NEW m \in Members, ReadLeads(m) PROVE IInv'
  BY <1>8, ReadLeadsStep
<1>9. CASE Reconcile
  BY <1>9, ReconcileStep
<1>10. CASE FailJob
  BY <1>10, FailJobStep
<1>11. CASE UNCHANGED vars
  <2>1. /\ UNCHANGED <<database, overlap>> /\ member' = member
        /\ job' = job /\ agent' = agent /\ lead' = lead /\ log' = log /\ whole' = whole
    BY <1>11 DEF vars, database, lemlist
  <2>2. lead \in [Members -> Leads] /\ whole \in BOOLEAN /\ job \in Jobs
    BY DEF IInv, TypeOK
  <2>3. JobReads'
    BY <2>1 DEF IInv, JobReads
  <2>4. QED
    BY <2>1, <2>2, <2>3, AgentStays, LogStays, QuietStep
<1>12. QED
  BY <1>1, <1>2, <1>3, <1>4, <1>5, <1>6, <1>7, <1>8, <1>9, <1>10, <1>11 DEF Next

LEMMA Invariance == Spec => []IInv
<1>1. Init => IInv
  BY InitIInv
<1>2. IInv /\ [Next]_vars => IInv'
  BY NextIInv
<1>3. QED
  BY <1>1, <1>2, PTL DEF Spec

\* Every row, lead and activity has its type, Lemlist holds no lead of a
\* membership that was removed, and its log tells no activity twice.
THEOREM TypesHold == Spec => []TypeOK
<1>1. IInv => TypeOK
  BY DEF IInv
<1>2. QED
  BY <1>1, Invariance, PTL

\* However many campaigns the client is in, and in whatever order webhooks
\* and runs of the job apply what Lemlist tells, a membership that no
\* gesture wrote over ends where the gravest activity puts it
\* (email_sync.py:1003-1033).
THEOREM StatusFollows == Spec => []StatusFollowsEvents
<1>1. IInv => StatusFollowsEvents
  BY DEF IInv, Follows, RowFollows, KindsOf, World, StatusFollowsEvents
<1>2. QED
  BY <1>1, Invariance, PTL

\* The opposition list of the agency never says less than the memberships
\* and the activities on file, whatever gestures wrote over the statuses
\* (suppression.py:8, email_repository.py:304).
THEOREM OppositionKept == Spec => []OppositionIsComplete
<1>1. IInv => OppositionIsComplete
  BY DEF IInv, Complete, World, OppositionIsComplete
<1>2. QED
  BY <1>1, Invariance, PTL
=============================================================================
