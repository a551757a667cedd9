----------------------- MODULE CampaignSequenceProofs -----------------------
(***************************************************************************)
(* Theorems about CampaignSequence, for any number of memberships, steps   *)
(* and faults.                                                             *)
(*                                                                         *)
(* What Nidria counts as pushed is at Lemlist although a sync that dies    *)
(* leaves there emails that no row tells of: an email Nidria counts as     *)
(* pushed for a position is that of the step that stands there, among the  *)
(* steps placed, or of a step deleted since, which never comes back.       *)
(*                                                                         *)
(* What is sent is safe once a sync let the campaign run: the leads that   *)
(* are running have their own emails for the steps placed, in the database *)
(* and in the session of the sync under way, since steps are placed while  *)
(* the campaign is paused, or an agent's.                                  *)
(*                                                                         *)
(* While every call is answered, whoever Lemlist would send to has its own *)
(* emails up to the steps placed, but for those whose email for the step   *)
(* just placed is still to come while the campaign is paused.              *)
(*                                                                         *)
(* Both hold until one of the races that `unseen` records: until then a    *)
(* resumption under way is for a recipient that has its emails, and no     *)
(* sync has begun since it asked.                                          *)
(***************************************************************************)
EXTENDS CampaignSequence, FiniteSetTheorems, WellFoundedInduction,
        SequenceTheorems, TLAPS

---------------------------------------------------------------------------
\* The invariant.

\* The steps are told apart by ids that are never used again.
StepsOK ==
  /\ IsInjective(steps)
  /\ \A k \in DOMAIN steps : steps[k] \in 1 .. created

\* The position k of a sequence with n steps placed, for a render of `id`.
Stays(k, id, n) ==
  \/ k <= n /\ k \in DOMAIN steps /\ steps[k] = id
  \/ \A j \in DOMAIN steps : steps[j] # id

\* A render is of a lead Lemlist holds, for a step that keeps its position.
Pushed(rows, renders, n) ==
  \A l \in Leads : \A k \in Positions :
    LET id == renders[l][k]
    IN id # NoId => rows[l].known /\ id <= created /\ Stays(k, id, n)

\* What is counted as pushed is among the emails at Lemlist.
Faithful(renders, mails) ==
  \A l \in Leads : \A k \in DOMAIN steps :
    renders[l][k] = steps[k] => mails[l][k] = steps[k]

\* What the session of a sync may have read and written.
SyncRows(s) ==
  /\ s \in Syncs
  /\ s.placed <= Len(steps)
  /\ \A l \in Leads : member[l].known => s.member[l].known
  /\ Pushed(s.member, s.render, s.placed)

SyncPhase(s) ==
  /\ s.pc \in {"append", "place"} => s.placed < Len(steps)
  /\ s.pc = "render" => s.placed >= 1
  /\ s.pc \in {"render", "refresh"} => \A l \in s.todo : s.member[l].known
  /\ s.pc = "append" => s.render = render

SyncOK(s) == SyncRows(s) /\ SyncPhase(s)

IInv ==
  /\ TypeOK
  /\ StepsOK
  /\ Pushed(member, render, placed) /\ Faithful(render, own)
  /\ sync # NoSync => /\ SyncOK(sync) /\ Faithful(sync.render, own)
                      /\ sync.placed <= Len(remote)

---------------------------------------------------------------------------
\* The operators of the model.

LEMMA LeastElement ==
  ASSUME NEW T \in SUBSET Nat, T # {}
  PROVE  \E x \in T : \A y \in T : x <= y
<1> DEFINE R == {ss \in Nat \X Nat : ss[1] < ss[2]}
<1>1. IsWellFoundedOn(R, Nat)
  BY NatLessThanWellFounded DEF OpToRel
<1>2. ASSUME NEW x \in Nat, NEW y \in Nat, y < x
      PROVE  <<y, x>> \in R
  BY <1>2
<1> HIDE DEF R
<1>3. PICK x \in T : \A y \in T : ~ (<<y, x>> \in R)
  BY <1>1, WFMin
<1>4. ASSUME NEW y \in T, y < x PROVE FALSE
  <2>1. x \in Nat /\ y \in Nat
    OBVIOUS
  <2>2. <<y, x>> \in R
    BY <1>2, <1>4, <2>1
  <2>3. QED
    BY <1>3, <2>2
<1>5. \A y \in T : x <= y
  BY <1>4
<1>6. QED
  BY <1>5

\* A bounded set of numbers has the greatest element Max chooses.
LEMMA MaxOf ==
  ASSUME NEW n \in Nat, NEW K \in SUBSET (0 .. n), K # {}
  PROVE  Max(K) \in K /\ \A k \in K : k <= Max(K)
<1> DEFINE T == {x \in Nat : n - x \in K}
<1>1. T # {}
  <2>1. PICK k \in K : TRUE
    OBVIOUS
  <2>2. n - k \in Nat /\ n - (n - k) = k
    OBVIOUS
  <2>3. n - k \in T
    BY <2>1, <2>2
  <2>4. QED
    BY <2>3
<1>2. PICK x \in T : \A y \in T : x <= y
  <2>1. T \in SUBSET Nat
    OBVIOUS
  <2> HIDE DEF T
  <2>2. QED
    BY <1>1, <2>1, LeastElement
<1>3. ASSUME NEW k \in K PROVE k <= n - x
  <2>1. k \in 0 .. n /\ n - k \in Nat /\ n - (n - k) = k
    OBVIOUS
  <2>2. n - k \in T
    BY <2>1
  <2>3. x <= n - k /\ x \in Nat
    BY <1>2, <2>2
  <2> HIDE DEF T
  <2>4. QED
    BY <2>1, <2>3
<1>4. n - x \in K /\ \A k \in K : n - x >= k
  BY <1>2, <1>3
<1>5. \E y \in K : \A k \in K : y >= k
  BY <1>4
<1>6. Max(K) \in K /\ \A k \in K : Max(K) >= k
  BY <1>5 DEF Max
<1>7. QED
  BY <1>6

LEMMA StepPositions ==
  ASSUME TypeOK
  PROVE  /\ steps \in Seq(Ids) /\ Len(steps) \in 0 .. MaxSteps
         /\ DOMAIN steps = 1 .. Len(steps) /\ DOMAIN steps \subseteq Positions
         /\ \A k \in DOMAIN steps : steps[k] \in Ids
         /\ MaxSteps \in Nat
  BY BoundAssumption DEF TypeOK, Positions

LEMMA ShellsType ==
  ASSUME TypeOK, NEW n \in 0 .. MaxSteps
  PROVE  /\ ShellsUpTo(n) \in Seq({"live", "parked"}) /\ Len(ShellsUpTo(n)) <= MaxSteps
         /\ Len(ShellsUpTo(n)) >= n /\ Len(ShellsUpTo(n)) >= Len(remote)
<1> DEFINE big == Larger(Len(remote), n)
           shells == [k \in 1 .. big |-> IF k <= n THEN "live" ELSE remote[k]]
<1>1. remote \in Seq({"live", "parked"}) /\ Len(remote) <= MaxSteps
  BY DEF TypeOK
<1>2. big \in Nat /\ big <= MaxSteps /\ big >= n /\ big >= Len(remote)
      /\ (big = n \/ big = Len(remote))
  BY <1>1, BoundAssumption DEF Larger
<1> HIDE DEF big
<1>3. \A k \in 1 .. big : (IF k <= n THEN "live" ELSE remote[k]) \in {"live", "parked"}
  BY <1>1, <1>2
<1>4. shells \in Seq({"live", "parked"}) /\ Len(shells) = big
  BY <1>2, <1>3
<1>5. ShellsUpTo(n) = shells
  BY DEF ShellsUpTo, big
<1> HIDE DEF shells
<1>6. QED
  BY <1>2, <1>4, <1>5

LEMMA IngestedRow ==
  ASSUME NEW m \in Members, NEW at \in 0 .. MaxSteps
  PROVE  Ingested(m, at) \in Members /\ Ingested(m, at).known = m.known
<1> DEFINE step == Larger(m.step, at)
           status == IF m.status \in {"ready", "queued"} THEN "active" ELSE m.status
           over == IF status = "active" /\ at >= Len(steps) THEN "completed" ELSE status
<1>1. step \in 0 .. MaxSteps /\ over \in MemberStatuses
  BY DEF Members, Larger, MemberStatuses, Running, Paused
<1>2. \/ Ingested(m, at) = m
      \/ Ingested(m, at) = [m EXCEPT !.heard = at]
      \/ Ingested(m, at) = [m EXCEPT !.heard = at, !.step = step, !.status = over]
  BY DEF Ingested
<1> HIDE DEF step, over
<1>3. QED
  BY <1>1, <1>2 DEF Members

---------------------------------------------------------------------------
\* The phases of a sync.

Phases == {"append", "place", "render", "refresh", "launch", "finish"}

\* The state of a sync, piece by piece.
LEMMA SyncFields ==
  ASSUME NEW s \in Syncs
  PROVE  /\ s.pc \in Phases /\ s.placed \in 0 .. MaxSteps
         /\ s.member \in [Leads -> Members] /\ s.render \in [Leads -> Renders]
         /\ s.dirty \in SUBSET Leads /\ s.todo \in SUBSET Leads
         /\ s.inUse \in BOOLEAN /\ s.launching \in BOOLEAN /\ s.unsafe \in BOOLEAN
<1> HIDE DEF Members, Renders
<1>1. QED
  BY DEF Syncs, Phases

Moved(s, p, T) == [s EXCEPT !.pc = p, !.todo = T]

\* The session t has come from s without a change to its rows.
SameRows(s, t) ==
  SyncOK(t) /\ t.render = s.render /\ t.placed = s.placed /\ t.member = s.member

LEMMA MovesOn ==
  ASSUME NEW s, SyncRows(s), NEW p \in Phases, NEW T \in SUBSET Leads,
         p \in {"append", "place"} => s.placed < Len(steps),
         p = "render" => s.placed >= 1,
         p \in {"render", "refresh"} => \A l \in T : s.member[l].known,
         p = "append" => s.render = render
  PROVE  /\ SameRows(s, Moved(s, p, T))
         /\ Moved(s, p, T).pc = p /\ Moved(s, p, T).todo = T
<1> DEFINE t == [s EXCEPT !.pc = p, !.todo = T]
<1> HIDE DEF Members, Renders, Pushed
<1>1. /\ t.pc = p /\ t.todo = T /\ t.placed = s.placed
      /\ t.member = s.member /\ t.render = s.render /\ t \in Syncs
  BY DEF SyncRows, Syncs, Phases
<1> HIDE DEF t
<1>2. SyncOK(t)
  BY <1>1 DEF SyncOK, SyncRows, SyncPhase
<1>3. t = Moved(s, p, T)
  BY DEF t, Moved
<1>4. QED
  BY <1>1, <1>2, <1>3 DEF SameRows

LEMMA LaunchingOK ==
  ASSUME NEW s, SyncRows(s)
  PROVE  SameRows(s, Launching(s))
<1>1. /\ ToLaunch(s) \in SUBSET Leads /\ {} \in SUBSET Leads
      /\ "finish" \in Phases /\ "launch" \in Phases
  BY DEF ToLaunch, Phases
<1>2. \/ Launching(s) = Moved(s, "finish", {})
      \/ Launching(s) = Moved(s, "launch", ToLaunch(s))
  BY DEF Launching, Finishing, Moved
<1>3. SameRows(s, Moved(s, "finish", {})) /\ SameRows(s, Moved(s, "launch", ToLaunch(s)))
  BY <1>1, MovesOn
<1>4. QED
  BY <1>2, <1>3

LEMMA RefreshingOK ==
  ASSUME NEW s, SyncRows(s)
  PROVE  SameRows(s, Refreshing(s))
<1>1. CASE Outdated(s) = {}
  BY <1>1, LaunchingOK DEF Refreshing
<1>2. CASE Outdated(s) # {}
  <2>1. Refreshing(s) = Moved(s, "refresh", Outdated(s))
    BY <1>2 DEF Refreshing, Moved
  <2>2. /\ Outdated(s) \in SUBSET Leads /\ \A l \in Outdated(s) : s.member[l].known
        /\ "refresh" \in Phases
    BY DEF Outdated, InFlight, Phases
  <2>3. QED
    BY <2>1, <2>2, MovesOn
<1>3. QED
  BY <1>1, <1>2

LEMMA SameRowsTransitive ==
  ASSUME NEW s, NEW t, NEW u, SameRows(s, t), SameRows(t, u)
  PROVE  SameRows(s, u)
  BY DEF SameRows

LEMMA AdvanceOK ==
  ASSUME NEW s, SyncOK(s), s.pc \in {"render", "refresh", "launch"}, NEW l
  PROVE  SameRows(s, Advance(s, l))
<1> DEFINE rest == [s EXCEPT !.todo = @ \ {l}]
<1>1. rest = Moved(s, s.pc, s.todo \ {l})
  BY DEF SyncOK, SyncRows, Syncs, Moved
<1>2. /\ s.todo \ {l} \in SUBSET Leads /\ s.pc \in Phases
      /\ s.pc \in {"render", "refresh"} => \A n \in s.todo \ {l} : s.member[n].known
      /\ s.pc = "render" => s.placed >= 1
  BY SyncFields DEF SyncOK, SyncRows, SyncPhase
<1> DEFINE T == s.todo \ {l}
           p == s.pc
<1>3. SameRows(s, rest) /\ rest.pc = s.pc
  <2>1. rest = Moved(s, p, T)
    BY <1>1
  <2>2. T \in SUBSET Leads /\ p \in Phases
        /\ (p \in {"append", "place"} => s.placed < Len(steps))
        /\ (p = "append" => s.render = render)
        /\ (p \in {"render", "refresh"} => \A n \in T : s.member[n].known)
        /\ (p = "render" => s.placed >= 1)
        /\ SyncRows(s)
    BY <1>2 DEF SyncOK
  <2> HIDE DEF T, p, rest
  <2>3. SameRows(s, Moved(s, p, T)) /\ Moved(s, p, T).pc = p
    BY <2>2, MovesOn
  <2>4. QED
    BY <2>1, <2>3 DEF p
<1>4. Advance(s, l) =
        IF rest.todo # {} THEN rest
        ELSE CASE s.pc = "render" -> IF s.placed < Len(steps)
                                       THEN [rest EXCEPT !.pc = "place"]
                                       ELSE Refreshing(rest)
               [] s.pc = "refresh" -> Launching(rest)
               [] s.pc = "launch" -> Finishing(rest)
  BY DEF Advance
<1> HIDE DEF rest
<1>5. SyncRows(rest) /\ rest.placed = s.placed
  BY <1>3 DEF SameRows, SyncOK
<1>6. CASE rest.todo # {}
  <2>1. Advance(s, l) = rest
    BY <1>4, <1>6
  <2>2. QED
    BY <1>3, <2>1
<1>7. CASE rest.todo = {} /\ s.pc = "render" /\ s.placed < Len(steps)
  <2>1. Advance(s, l) = [rest EXCEPT !.pc = "place"]
    BY <1>4, <1>7
  <2>2. [rest EXCEPT !.pc = "place"] = Moved(rest, "place", {})
    BY <1>5, <1>7 DEF SyncRows, Syncs, Moved
  <2>3. "place" \in Phases /\ {} \in SUBSET Leads /\ rest.placed < Len(steps)
    BY <1>5, <1>7 DEF Phases
  <2>4. SameRows(rest, Moved(rest, "place", {}))
    BY <1>5, <2>3, MovesOn
  <2>5. QED
    BY <1>3, <2>1, <2>2, <2>4, SameRowsTransitive
<1>8. CASE rest.todo = {} /\ s.pc = "render" /\ ~(s.placed < Len(steps))
  <2>1. Advance(s, l) = Refreshing(rest)
    BY <1>4, <1>8
  <2>2. QED
    BY <1>3, <1>5, <2>1, RefreshingOK, SameRowsTransitive
<1>9. CASE rest.todo = {} /\ s.pc = "refresh"
  <2>1. Advance(s, l) = Launching(rest)
    BY <1>4, <1>9
  <2>2. QED
    BY <1>3, <1>5, <2>1, LaunchingOK, SameRowsTransitive
<1>10. CASE rest.todo = {} /\ s.pc = "launch"
  <2>1. Advance(s, l) = Moved(rest, "finish", {})
    BY <1>4, <1>10 DEF Finishing, Moved
  <2>2. "finish" \in Phases /\ {} \in SUBSET Leads
    BY DEF Phases
  <2>3. SameRows(rest, Moved(rest, "finish", {}))
    BY <1>5, <2>2, MovesOn
  <2>4. QED
    BY <1>3, <2>1, <2>3, SameRowsTransitive
<1>11. QED
  BY <1>6, <1>7, <1>8, <1>9, <1>10

---------------------------------------------------------------------------
\* The rows of a sync.

\* The memberships are loaded again before the renders are touched.
LEMMA LoadOK ==
  ASSUME IInv, NEW s, SyncRows(s), s.render = render
  PROVE  SyncRows(Load(s)) /\ Load(s).render = render /\ Load(s).placed = s.placed
<1> DEFINE rows == [l \in Leads |-> IF l \in s.dirty THEN s.member[l] ELSE member[l]]
           t == [s EXCEPT !.member = rows]
<1>1. Load(s) = t
  BY DEF Load
<1>2. /\ s \in Syncs /\ s.member \in [Leads -> Members] /\ member \in [Leads -> Members]
      /\ \A l \in Leads : member[l].known => s.member[l].known
  BY SyncFields DEF SyncRows, IInv, TypeOK
<1> HIDE DEF Members, Renders
<1>3. /\ rows \in [Leads -> Members]
      /\ \A l \in Leads : member[l].known => rows[l].known
  BY <1>2
<1> HIDE DEF rows
<1>4. t \in Syncs /\ t.member = rows /\ t.render = s.render /\ t.placed = s.placed
  BY <1>2, <1>3 DEF Syncs
<1> HIDE DEF t
<1>5. Pushed(member, render, placed) /\ Pushed(s.member, s.render, s.placed)
  BY DEF IInv, SyncRows
<1>6. Pushed(rows, render, s.placed)
  BY <1>3, <1>5 DEF Pushed
<1>7. QED
  BY <1>1, <1>3, <1>4, <1>6 DEF SyncRows

\* A sync that writes the row and the renders of one membership.
Row(s, l, m, r, D) ==
  [s EXCEPT !.member = [s.member EXCEPT ![l] = m],
            !.render = [s.render EXCEPT ![l] = r], !.dirty = D]

\* The row m and the renders r may be written.
Fits(s, l, m, r) ==
  /\ s.member[l].known => m.known
  /\ \A k \in Positions :
       r[k] # NoId => m.known /\ r[k] <= created /\ Stays(k, r[k], s.placed)

WithRow(s, t, l, m, r) ==
  /\ SyncOK(t) /\ t.pc = s.pc /\ t.placed = s.placed
  /\ t.member = [s.member EXCEPT ![l] = m]
  /\ t.render = [s.render EXCEPT ![l] = r]

LEMMA RowOK ==
  ASSUME NEW s, SyncOK(s), s.pc # "append",
         NEW l \in Leads, NEW m \in Members, NEW r \in Renders, NEW D \in SUBSET Leads,
         Fits(s, l, m, r)
  PROVE  WithRow(s, Row(s, l, m, r, D), l, m, r)
<1> DEFINE rows == [s.member EXCEPT ![l] = m]
           renders == [s.render EXCEPT ![l] = r]
           t == [s EXCEPT !.member = rows, !.render = renders, !.dirty = D]
<1>1. s \in Syncs /\ s.member \in [Leads -> Members] /\ s.render \in [Leads -> Renders]
  BY SyncFields DEF SyncOK, SyncRows
<1> HIDE DEF Members, Renders
<1>2. /\ rows \in [Leads -> Members] /\ rows[l] = m
      /\ \A n \in Leads \ {l} : rows[n] = s.member[n]
      /\ renders \in [Leads -> Renders] /\ renders[l] = r
      /\ \A n \in Leads \ {l} : renders[n] = s.render[n]
  BY <1>1
<1>3. t = Row(s, l, m, r, D)
  BY DEF Row
<1>4. rows = [s.member EXCEPT ![l] = m] /\ renders = [s.render EXCEPT ![l] = r]
  OBVIOUS
<1> HIDE DEF rows, renders
<1>5. /\ t \in Syncs /\ t.member = rows /\ t.render = renders
      /\ t.placed = s.placed /\ t.pc = s.pc /\ t.todo = s.todo
  BY <1>1, <1>2 DEF Syncs
<1> HIDE DEF t
<1>6. Pushed(rows, renders, s.placed)
  BY <1>2 DEF Pushed, SyncOK, SyncRows, Fits
<1>7. \A n \in Leads : s.member[n].known => rows[n].known
  BY <1>2 DEF Fits
<1>8. SyncRows(t)
  BY <1>5, <1>6, <1>7 DEF SyncOK, SyncRows
<1>9. s.todo \in SUBSET Leads
  BY <1>1, SyncFields
<1>10. SyncPhase(t)
  BY <1>5, <1>7, <1>9 DEF SyncOK, SyncPhase
<1>11. QED
  BY <1>3, <1>4, <1>5, <1>8, <1>10 DEF SyncOK, WithRow

LEMMA WrittenType ==
  ASSUME TypeOK, NEW r \in Renders, NEW K \in SUBSET DOMAIN steps
  PROVE  /\ Written(r, K) \in Renders
         /\ \A k \in Positions : Written(r, K)[k] = IF k \in K THEN steps[k] ELSE r[k]
<1>1. \A k \in K : steps[k] \in Ids
  BY StepPositions
<1>2. QED
  BY <1>1 DEF Written, Renders

LEMMA AcceptedSubset == \A l, K : Accepted(l, K) \subseteq K
  BY DEF Accepted

\* A lead gets emails: what Lemlist refuses counts as sent.
RenderRow(s, l, K) == Written(s.render[l], Accepted(l, K))

LEMMA RenderedRow ==
  ASSUME TypeOK, StepsOK, NEW s, SyncOK(s), NEW l \in Leads,
         NEW K \in SUBSET (1 .. s.placed)
  PROVE  /\ RenderRow(s, l, K) \in Renders
         /\ \A k \in Positions :
              LET id == RenderRow(s, l, K)[k]
              IN id # NoId => id <= created /\ Stays(k, id, s.placed)
         /\ \E m \in Members :
              /\ m.known = s.member[l].known
              /\ Rendered(s, l, K) = Row(s, l, m, RenderRow(s, l, K), s.dirty)
<1> DEFINE step == Max({s.member[l].step} \cup (K \ Accepted(l, K)))
           m == [s.member[l] EXCEPT !.step = step]
           A == Accepted(l, K)
           r == Written(s.render[l], A)
<1>1. /\ s \in Syncs /\ s.member \in [Leads -> Members] /\ s.render \in [Leads -> Renders]
      /\ s.placed \in 0 .. MaxSteps /\ s.placed <= Len(steps)
  BY SyncFields DEF SyncOK, SyncRows
<1>2. /\ s.member[l] \in Members /\ s.render[l] \in Renders
      /\ s.member[l].step \in 0 .. MaxSteps /\ s.dirty \in SUBSET Leads
  BY <1>1, SyncFields DEF Members
<1>3. K \in SUBSET DOMAIN steps /\ A \in SUBSET K /\ A \in SUBSET DOMAIN steps
  BY <1>1, StepPositions, AcceptedSubset
<1>4. step \in 0 .. MaxSteps
  <2> DEFINE S == {s.member[l].step} \cup (K \ A)
  <2>0. MaxSteps \in Nat /\ K \in SUBSET (0 .. MaxSteps)
    BY <1>1, BoundAssumption
  <2>1. S \in SUBSET (0 .. MaxSteps) /\ S # {}
    <3> HIDE DEF A
    <3>1. QED
      BY <1>2, <2>0
  <2> HIDE DEF S
  <2>2. Max(S) \in S
    BY <2>0, <2>1, MaxOf
  <2>3. QED
    BY <2>1, <2>2 DEF S
<1>5. Rendered(s, l, K) = Row(s, l, m, r, s.dirty)
  BY <1>1, <1>2 DEF Rendered, Row, Syncs
<1> HIDE DEF step
<1>6. m \in Members /\ m.known = s.member[l].known
  BY <1>2, <1>4 DEF Members
<1> HIDE DEF A
<1>7. r \in Renders /\ \A k \in Positions : r[k] = IF k \in A THEN steps[k] ELSE s.render[l][k]
  BY <1>2, <1>3, WrittenType
<1> HIDE DEF m, r
<1>8. ASSUME NEW k \in Positions, r[k] # NoId
      PROVE  r[k] <= created /\ Stays(k, r[k], s.placed)
  <2>1. CASE k \in A
    <3>1. r[k] = steps[k] /\ k \in DOMAIN steps /\ k <= s.placed
      <4>1. k \in K
        BY <1>3, <2>1
      <4>2. k \in 1 .. s.placed /\ k \in DOMAIN steps
        BY <1>3, <4>1
      <4>3. QED
        BY <1>1, <1>7, <2>1, <4>2
    <3>2. steps[k] <= created
      BY <3>1 DEF StepsOK, TypeOK
    <3>3. QED
      BY <3>1, <3>2 DEF Stays
  <2>2. CASE k \notin A
    <3>1. r[k] = s.render[l][k]
      BY <1>7, <2>2
    <3>2. QED
      BY <1>8, <3>1 DEF SyncOK, SyncRows, Pushed
  <2>3. QED
    BY <2>1, <2>2
<1>9. r = RenderRow(s, l, K)
  BY DEF r, A, RenderRow
<1>10. QED
  BY <1>5, <1>6, <1>7, <1>8, <1>9

LEMMA RenderedOK ==
  ASSUME TypeOK, StepsOK, NEW s, SyncOK(s), s.pc # "append", NEW l \in Leads,
         s.member[l].known, NEW K \in SUBSET (1 .. s.placed)
  PROVE  /\ SyncOK(Rendered(s, l, K)) /\ Rendered(s, l, K).pc = s.pc
         /\ Rendered(s, l, K).placed = s.placed
         /\ Rendered(s, l, K).render = [s.render EXCEPT ![l] = RenderRow(s, l, K)]
<1> DEFINE r == RenderRow(s, l, K)
<1>1. PICK m \in Members : /\ m.known = s.member[l].known
                           /\ Rendered(s, l, K) = Row(s, l, m, r, s.dirty)
  BY RenderedRow
<1>2. /\ r \in Renders
      /\ \A k \in Positions : r[k] # NoId => r[k] <= created /\ Stays(k, r[k], s.placed)
  BY RenderedRow
<1>3. s.dirty \in SUBSET Leads
  BY SyncFields DEF SyncOK, SyncRows
<1> HIDE DEF r
<1>4. Fits(s, l, m, r)
  BY <1>1, <1>2 DEF Fits
<1>5. WithRow(s, Row(s, l, m, r, s.dirty), l, m, r)
  BY <1>2, <1>3, <1>4, RowOK
<1>6. QED
  BY <1>1, <1>5 DEF WithRow, r

\* ... and Lemlist now holds it.
LEMMA KnownRenderedOK ==
  ASSUME TypeOK, StepsOK, NEW s, SyncOK(s), s.pc # "append", NEW l \in Leads,
         NEW K \in SUBSET (1 .. s.placed)
  PROVE  LET t == Known(Rendered(s, l, K), l)
         IN /\ SyncOK(t) /\ t.pc = s.pc /\ t.placed = s.placed
            /\ t.render = [s.render EXCEPT ![l] = RenderRow(s, l, K)]
<1> DEFINE r == RenderRow(s, l, K)
           t == Known(Rendered(s, l, K), l)
<1>1. PICK m \in Members : /\ m.known = s.member[l].known
                           /\ Rendered(s, l, K) = Row(s, l, m, r, s.dirty)
  BY RenderedRow
<1>2. /\ r \in Renders
      /\ \A k \in Positions : r[k] # NoId => r[k] <= created /\ Stays(k, r[k], s.placed)
  BY RenderedRow
<1>3. s.dirty \in SUBSET Leads /\ s.member \in [Leads -> Members] /\ s \in Syncs
  BY SyncFields DEF SyncOK, SyncRows
<1> HIDE DEF r
<1> DEFINE new == [m EXCEPT !.known = TRUE]
<1>4. new \in Members /\ new.known
  BY DEF Members
<1>5. t = Row(s, l, new, r, s.dirty)
  <2> HIDE DEF Members, new
  <2> DEFINE q == Row(s, l, m, r, s.dirty)
             rows == [s.member EXCEPT ![l] = m]
  <2>1. t = [q EXCEPT !.member[l].known = TRUE]
    BY <1>1 DEF Known
  <2>2. q = [s EXCEPT !.member = rows, !.render = [s.render EXCEPT ![l] = r],
                      !.dirty = s.dirty]
    BY DEF Row
  <2>3. rows[l] = m /\ [rows EXCEPT ![l] = new] = [s.member EXCEPT ![l] = new]
    BY <1>3
  <2> HIDE DEF rows
  <2>4. q.member = rows
    BY <1>3, <2>2 DEF Syncs
  <2> HIDE DEF q
  <2>5. t = [q EXCEPT !.member = [rows EXCEPT ![l] = new]]
    BY <2>1, <2>3, <2>4 DEF new
  <2> HIDE DEF t
  <2>6. t = [s EXCEPT !.member = [rows EXCEPT ![l] = new],
                      !.render = [s.render EXCEPT ![l] = r], !.dirty = s.dirty]
    BY <1>3, <2>2, <2>5 DEF Syncs
  <2>7. QED
    BY <2>3, <2>6 DEF Row
<1> HIDE DEF new
<1>6. Fits(s, l, new, r)
  BY <1>2, <1>4 DEF Fits
<1>7. WithRow(s, Row(s, l, new, r, s.dirty), l, new, r)
  BY <1>2, <1>3, <1>4, <1>6, RowOK
<1> HIDE DEF t
<1>8. QED
  BY <1>5, <1>7 DEF WithRow, r, t

\* The status of a membership changes, and no render.
SameRenders(s, t) ==
  SyncOK(t) /\ t.pc = s.pc /\ t.placed = s.placed /\ t.render = s.render

LEMMA RowOnly ==
  ASSUME NEW s, SyncOK(s), s.pc # "append", NEW l \in Leads,
         NEW m \in Members, s.member[l].known => m.known, NEW D \in SUBSET Leads
  PROVE  SameRenders(s, Row(s, l, m, s.render[l], D))
<1>1. s.render \in [Leads -> Renders]
  BY SyncFields DEF SyncOK, SyncRows
<1> DEFINE r == s.render[l]
<1>2. r \in Renders /\ [s.render EXCEPT ![l] = r] = s.render
  BY <1>1
<1>3. Fits(s, l, m, r)
  BY DEF Fits, SyncOK, SyncRows, Pushed
<1> HIDE DEF r
<1>4. WithRow(s, Row(s, l, m, r, D), l, m, r)
  BY <1>2, <1>3, RowOK
<1>5. QED
  BY <1>2, <1>4 DEF WithRow, SameRenders, r

LEMMA MarkOK ==
  ASSUME NEW s, SyncOK(s), s.pc # "append", NEW l \in Leads, NEW status \in MemberStatuses
  PROVE  SameRenders(s, Mark(s, l, status))
<1> DEFINE m == [s.member[l] EXCEPT !.status = status]
           D == s.dirty \cup {l}
<1>1. /\ s \in Syncs /\ s.member \in [Leads -> Members] /\ s.render \in [Leads -> Renders]
      /\ D \in SUBSET Leads
  BY SyncFields DEF SyncOK, SyncRows
<1>2. m \in Members /\ m.known = s.member[l].known
  BY <1>1 DEF Members
<1>3. [s.render EXCEPT ![l] = s.render[l]] = s.render
  BY <1>1
<1>4. Mark(s, l, status) = Row(s, l, m, s.render[l], D)
  BY <1>1, <1>3 DEF Mark, Row, Syncs
<1> HIDE DEF m, D
<1>5. QED
  BY <1>1, <1>2, <1>4, RowOnly

LEMMA QueuedOK ==
  ASSUME NEW s, SyncOK(s), s.pc # "append", NEW l \in Leads
  PROVE  SameRenders(s, Queued(s, l))
<1> DEFINE m == [s.member[l] EXCEPT !.launched = TRUE]
           t == [s EXCEPT !.member[l].launched = TRUE]
<1>1. /\ s \in Syncs /\ s.member \in [Leads -> Members] /\ s.render \in [Leads -> Renders]
      /\ s.dirty \in SUBSET Leads
  BY SyncFields DEF SyncOK, SyncRows
<1>2. m \in Members /\ m.known = s.member[l].known
  BY <1>1 DEF Members
<1>3. [s.render EXCEPT ![l] = s.render[l]] = s.render
  BY <1>1
<1>4. t = Row(s, l, m, s.render[l], s.dirty)
  BY <1>1, <1>3 DEF Row, Syncs
<1>5. Queued(s, l) = Mark(t, l, "queued")
  BY DEF Queued
<1> HIDE DEF m, t
<1>6. SameRenders(s, t)
  BY <1>1, <1>2, <1>4, RowOnly
<1>7. "queued" \in MemberStatuses /\ SyncOK(t) /\ t.pc # "append"
  BY <1>6 DEF MemberStatuses, Running, SameRenders
<1>8. SameRenders(t, Mark(t, l, "queued"))
  BY <1>7, MarkOK
<1>9. QED
  BY <1>5, <1>6, <1>8 DEF SameRenders

\* The emails pushed are at Lemlist as soon as they are counted.
LEMMA FaithfulKept ==
  ASSUME TypeOK, NEW renders \in [Leads -> Renders], Faithful(renders, own),
         NEW l \in Leads, NEW A \in SUBSET DOMAIN steps,
         NEW mails, mails = [own EXCEPT ![l] = Written(own[l], A)]
  PROVE  /\ mails \in [Leads -> Renders]
         /\ Faithful(renders, mails)
         /\ Faithful([renders EXCEPT ![l] = Written(renders[l], A)], mails)
<1> DEFINE r == Written(renders[l], A)
           e == Written(own[l], A)
<1>1. own \in [Leads -> Renders] /\ own[l] \in Renders /\ renders[l] \in Renders
  BY DEF TypeOK
<1>2. /\ r \in Renders /\ e \in Renders
      /\ \A k \in Positions : r[k] = IF k \in A THEN steps[k] ELSE renders[l][k]
      /\ \A k \in Positions : e[k] = IF k \in A THEN steps[k] ELSE own[l][k]
  BY <1>1, WrittenType
<1> HIDE DEF r, e, Renders
<1>3. mails = [own EXCEPT ![l] = e]
  BY DEF e
<1>4. /\ mails \in [Leads -> Renders] /\ mails[l] = e
      /\ \A n \in Leads \ {l} : mails[n] = own[n]
  BY <1>1, <1>2, <1>3
<1>5. DOMAIN steps \subseteq Positions
  BY StepPositions
<1>6. Faithful(renders, mails)
  BY <1>2, <1>4, <1>5 DEF Faithful
<1>7. /\ [renders EXCEPT ![l] = r][l] = r
      /\ \A n \in Leads \ {l} : [renders EXCEPT ![l] = r][n] = renders[n]
  OBVIOUS
<1>8. Faithful([renders EXCEPT ![l] = r], mails)
  <2> DEFINE new == [renders EXCEPT ![l] = r]
  <2> HIDE DEF new
  <2>1. new[l] = r /\ \A n \in Leads \ {l} : new[n] = renders[n]
    BY <1>7 DEF new
  <2>2. Faithful(new, mails)
    BY <1>2, <1>4, <1>5, <2>1 DEF Faithful
  <2>3. QED
    BY <2>2 DEF new
<1>9. QED
  BY <1>4, <1>6, <1>8 DEF r

---------------------------------------------------------------------------
\* The steps.

LEMMA CallFaults ==
  ASSUME TypeOK, NEW answer, Call(answer)
  PROVE  faults' \in 0 .. MaxFaults
  BY BoundAssumption DEF TypeOK, Call

\* A sync under way keeps what it holds while others write around it.
LEMMA RaceType ==
  ASSUME TypeOK, NEW condition \in BOOLEAN, Race(condition)
  PROVE  unseen' \in BOOLEAN /\ (~unseen' => ~unseen /\ ~condition)
  BY DEF TypeOK, Race

LEMMA SyncStays ==
  ASSUME IInv, sync # NoSync, UNCHANGED <<steps, created, render, sync>>,
         \A l \in Leads : member'[l].known = member[l].known
  PROVE  SyncOK(sync)'
<1>1. SyncOK(sync)
  BY DEF IInv
<1>2. Pushed(sync.member, sync.render, sync.placed)'
  BY <1>1 DEF SyncOK, SyncRows, Pushed, Stays
<1>3. SyncRows(sync)'
  BY <1>1, <1>2 DEF SyncOK, SyncRows
<1>4. SyncPhase(sync)'
  BY <1>1 DEF SyncOK, SyncPhase
<1>5. QED
  BY <1>3, <1>4 DEF SyncOK

\* A step around the sequence, the renders and the sync.
LEMMA AroundStep ==
  ASSUME IInv, UNCHANGED <<steps, created, placed, render, sync, own, remote>>,
         campaign' \in {"DRAFT", "ACTIVE", "PAUSED"},
         runs' \in {"no", "sync", "agent"},
         member' \in [Leads -> Members], lead' \in [Leads -> LemlistLeads],
         faults' \in 0 .. MaxFaults, unseen' \in BOOLEAN,
         request' \in [Requests -> PendingRequests \cup {NoRequest}],
         \A l \in Leads : member'[l].known = member[l].known
  PROVE  IInv'
<1>1. TypeOK'
  <2> HIDE DEF Members, Renders, LemlistLeads, Syncs, Ids, PendingRequests
  <2>1. QED
    BY DEF IInv, TypeOK
<1>2. StepsOK'
  BY DEF IInv, StepsOK
<1>3. Pushed(member, render, placed)'
  BY DEF IInv, Pushed, Stays
<1>4. Faithful(render, own)'
  BY DEF IInv, Faithful
<1>5. ASSUME sync' # NoSync
      PROVE  SyncOK(sync)' /\ Faithful(sync.render, own)' /\ (sync.placed <= Len(remote))'
  <2>1. SyncOK(sync)'
    BY <1>5, SyncStays
  <2>2. QED
    BY <1>5, <2>1 DEF IInv, Faithful
<1>6. QED
  BY <1>1, <1>2, <1>3, <1>4, <1>5 DEF IInv

LEMMA LeadRow ==
  ASSUME TypeOK, NEW l \in Leads, NEW r \in LemlistLeads
  PROVE  [lead EXCEPT ![l] = r] \in [Leads -> LemlistLeads]
  BY DEF TypeOK

LEMMA MemberRow ==
  ASSUME TypeOK, NEW l \in Leads, NEW m \in Members, m.known = member[l].known
  PROVE  /\ [member EXCEPT ![l] = m] \in [Leads -> Members]
         /\ \A n \in Leads : [member EXCEPT ![l] = m][n].known = member[n].known
<1>1. member \in [Leads -> Members]
  BY DEF TypeOK
<1> HIDE DEF Members
<1>2. QED
  BY <1>1

WithStatus(l, status) == [member EXCEPT ![l].status = status]

LEMMA StatusRow ==
  ASSUME TypeOK, NEW l \in Leads, NEW status \in MemberStatuses
  PROVE  /\ WithStatus(l, status) \in [Leads -> Members]
         /\ \A n \in Leads : WithStatus(l, status)[n].known = member[n].known
<1> DEFINE m == [member[l] EXCEPT !.status = status]
<1>1. m \in Members /\ m.known = member[l].known
  BY DEF TypeOK, Members
<1>2. WithStatus(l, status) = [member EXCEPT ![l] = m]
  BY DEF WithStatus
<1> HIDE DEF m
<1>3. QED
  BY <1>1, <1>2, MemberRow

LEMMA PausedRow ==
  ASSUME TypeOK, NEW l \in Leads, NEW p \in BOOLEAN
  PROVE  [lead EXCEPT ![l].paused = p] \in [Leads -> LemlistLeads]
<1> DEFINE r == [lead[l] EXCEPT !.paused = p]
<1>1. r \in LemlistLeads
  BY DEF TypeOK, LemlistLeads
<1>2. [lead EXCEPT ![l].paused = p] = [lead EXCEPT ![l] = r]
  OBVIOUS
<1> HIDE DEF r
<1>3. QED
  BY <1>1, <1>2, LeadRow

LEMMA RowsStay ==
  ASSUME TypeOK
  PROVE  /\ member \in [Leads -> Members] /\ lead \in [Leads -> LemlistLeads]
         /\ faults \in 0 .. MaxFaults /\ unseen \in BOOLEAN
         /\ request \in [Requests -> PendingRequests \cup {NoRequest}]
         /\ campaign \in {"DRAFT", "ACTIVE", "PAUSED"} /\ runs \in {"no", "sync", "agent"}
         /\ \A l \in Leads : member[l].known = member[l].known
  BY DEF TypeOK

LEMMA SendStep ==
  ASSUME IInv, NEW l \in Leads, Send(l) PROVE IInv'
<1> DEFINE k == lead[l].at + 1
           r == [lead[l] EXCEPT !.at = k]
<1>1. TypeOK
  BY DEF IInv
<1>2. k <= Len(remote) /\ lead' = [lead EXCEPT ![l] = r]
  BY DEF Send
<1>3. r \in LemlistLeads
  <2>1. lead[l] \in LemlistLeads /\ Len(remote) \in Nat /\ Len(remote) <= MaxSteps
    BY <1>1 DEF TypeOK
  <2>2. k \in 0 .. MaxSteps
    BY <1>2, <2>1, BoundAssumption DEF LemlistLeads
  <2> HIDE DEF k
  <2>3. QED
    BY <2>1, <2>2 DEF LemlistLeads
<1>4. /\ UNCHANGED <<steps, created, placed, render, sync, own, remote, request>>
      /\ campaign' = campaign /\ runs' = runs /\ member' = member
      /\ faults' = faults /\ unseen' = unseen
  BY DEF Send
<1> HIDE DEF r
<1>5. lead' \in [Leads -> LemlistLeads]
  BY <1>1, <1>2, <1>3, LeadRow
<1>6. QED
  BY <1>1, <1>4, <1>5, RowsStay, AroundStep

LEMMA EndLeadStep ==
  ASSUME IInv, NEW l \in Leads, EndLead(l) PROVE IInv'
<1> DEFINE r == [lead[l] EXCEPT !.stage = "done"]
<1>1. TypeOK
  BY DEF IInv
<1>2. lead' = [lead EXCEPT ![l] = r]
  BY DEF EndLead
<1>3. r \in LemlistLeads
  BY <1>1 DEF TypeOK, LemlistLeads
<1>4. /\ UNCHANGED <<steps, created, placed, render, sync, own, remote, request>>
      /\ campaign' = campaign /\ runs' = runs /\ member' = member
      /\ faults' = faults /\ unseen' = unseen
  BY DEF EndLead
<1> HIDE DEF r
<1>5. lead' \in [Leads -> LemlistLeads]
  BY <1>1, <1>2, <1>3, LeadRow
<1>6. QED
  BY <1>1, <1>4, <1>5, RowsStay, AroundStep

LEMMA WebhookStep ==
  ASSUME IInv, NEW l \in Leads, Webhook(l) PROVE IInv'
<1> DEFINE m == Ingested(member[l], lead[l].at)
<1>1. TypeOK /\ member[l] \in Members /\ lead[l].at \in 0 .. MaxSteps
  BY DEF IInv, TypeOK, LemlistLeads
<1>2. member' = [member EXCEPT ![l] = m]
  BY DEF Webhook
<1>3. m \in Members /\ m.known = member[l].known
  BY <1>1, IngestedRow
<1>4. /\ UNCHANGED <<steps, created, placed, render, sync, own, remote, request>>
      /\ campaign' = campaign /\ runs' = runs /\ lead' = lead
      /\ faults' = faults /\ unseen' = unseen
  BY DEF Webhook, lemlist
<1> HIDE DEF m
<1>5. /\ member' \in [Leads -> Members]
      /\ \A n \in Leads : member'[n].known = member[n].known
  BY <1>1, <1>2, <1>3, MemberRow
<1>6. QED
  BY <1>1, <1>4, <1>5, RowsStay, AroundStep

LEMMA MirrorPauseStep ==
  ASSUME IInv, NEW l \in Leads, NEW paused \in BOOLEAN, MirrorPause(l, paused)
  PROVE  IInv'
<1>1. TypeOK
  BY DEF IInv
<1>2. /\ UNCHANGED <<steps, created, placed, render, sync, own, remote, request>>
      /\ campaign' = campaign /\ runs' = runs /\ lead' = lead /\ faults' = faults
  BY DEF MirrorPause, lemlist
<1>3. \/ member' = WithStatus(l, "paused")
      \/ member' = WithStatus(l, "active")
      \/ member' = WithStatus(l, "queued")
  BY DEF MirrorPause, WithStatus, Resumed
<1>4. {"paused", "active", "queued"} \subseteq MemberStatuses
  BY DEF MemberStatuses, Paused, Running
<1>5. /\ member' \in [Leads -> Members]
      /\ \A n \in Leads : member'[n].known = member[n].known
  BY <1>1, <1>3, <1>4, StatusRow
<1>6. unseen' \in BOOLEAN
  BY <1>1, RaceType DEF MirrorPause, Open
<1>7. QED
  BY <1>1, <1>2, <1>5, <1>6, RowsStay, AroundStep

\* A request, as it is kept.
LEMMA RequestType ==
  ASSUME TypeOK, NEW q \in Requests, NEW r \in PendingRequests \cup {NoRequest}
  PROVE  /\ [request EXCEPT ![q] = r] \in [Requests -> PendingRequests \cup {NoRequest}]
         /\ [request EXCEPT ![q] = r][q] = r
         /\ \A p \in Requests \ {q} : [request EXCEPT ![q] = r][p] = request[p]
<1>1. request \in [Requests -> PendingRequests \cup {NoRequest}]
  BY DEF TypeOK
<1> HIDE DEF PendingRequests, NoRequest
<1>2. QED
  BY <1>1

\* A request under way.
LEMMA RequestFields ==
  ASSUME TypeOK, NEW q \in Requests, request[q].pc # "none"
  PROVE  /\ request[q] \in PendingRequests /\ request[q].lead \in Leads
         /\ request[q].to \in {"paused", "ready"} \cup Running
         /\ request[q].pc \in {"call", "write"}
<1>1. request[q] \in PendingRequests
  BY DEF TypeOK, NoRequest
<1>2. QED
  BY <1>1 DEF PendingRequests

LEMMA AskedType ==
  ASSUME NEW l \in Leads, NEW to \in {"paused", "ready"} \cup Running
  PROVE  /\ Asked(l, to) \in PendingRequests
         /\ Asked(l, to).lead = l /\ Asked(l, to).to = to
         /\ Asked(l, to).pc \in {"call", "write"}
         /\ Asked(l, to).pc = "write" <=> ~member[l].known
  BY DEF Asked, PendingRequests

LEMMA BeginPauseStep ==
  ASSUME IInv, NEW q \in Requests, NEW l \in Leads, BeginPause(q, l) PROVE IInv'
<1>1. TypeOK
  BY DEF IInv
<1>2. /\ UNCHANGED <<steps, created, placed, render, sync, own, remote>>
      /\ campaign' = campaign /\ runs' = runs /\ member' = member /\ lead' = lead
      /\ faults' = faults /\ unseen' = unseen
      /\ request' = [request EXCEPT ![q] = Asked(l, "paused")]
  BY DEF BeginPause, lemlist
<1>3. request' \in [Requests -> PendingRequests \cup {NoRequest}]
  <2>1. Asked(l, "paused") \in PendingRequests
    BY AskedType
  <2>2. QED
    BY <1>1, <1>2, <2>1, RequestType
<1>4. QED
  BY <1>1, <1>2, <1>3, RowsStay, AroundStep

LEMMA BeginResumeStep ==
  ASSUME IInv, NEW q \in Requests, NEW l \in Leads, BeginResume(q, l) PROVE IInv'
<1> DEFINE to == IF member[l].known THEN Resumed(member[l]) ELSE "ready"
<1>1. TypeOK
  BY DEF IInv
<1>2. /\ UNCHANGED <<steps, created, placed, render, sync, own, remote>>
      /\ campaign' = campaign /\ runs' = runs /\ member' = member /\ lead' = lead
      /\ faults' = faults
      /\ request' = [request EXCEPT ![q] = Asked(l, to)]
  BY DEF BeginResume, lemlist
<1>3. request' \in [Requests -> PendingRequests \cup {NoRequest}]
  <2>1. to \in {"paused", "ready"} \cup Running
    BY DEF Resumed, Running
  <2> HIDE DEF to
  <2>2. Asked(l, to) \in PendingRequests
    BY <2>1, AskedType
  <2>3. QED
    BY <1>1, <1>2, <2>2, RequestType
<1>4. unseen' \in BOOLEAN
  BY <1>1, RaceType DEF BeginResume
<1>5. QED
  BY <1>1, <1>2, <1>3, <1>4, RowsStay, AroundStep

LEMMA CallLemlistStep ==
  ASSUME IInv, NEW q \in Requests, CallLemlist(q) PROVE IInv'
<1> DEFINE l == request[q].lead
           paused == request[q].to = "paused"
           called == [request[q] EXCEPT !.pc = "write"]
<1>1. TypeOK /\ request[q] \in PendingRequests /\ l \in Leads
  BY RequestFields DEF CallLemlist, IInv
<1>2. PICK r \in {called, NoRequest} :
      /\ UNCHANGED <<steps, created, placed, render, sync, own, remote>>
      /\ campaign' = campaign /\ runs' = runs /\ unseen' = unseen /\ member' = member
      /\ lead' = [lead EXCEPT ![l].paused = paused] \/ lead' = lead
      /\ \E answer : Call(answer)
      /\ request' = [request EXCEPT ![q] = r]
  BY DEF CallLemlist
<1>3. request' \in [Requests -> PendingRequests \cup {NoRequest}]
  <2>1. called \in PendingRequests
    BY <1>1 DEF PendingRequests
  <2> HIDE DEF called
  <2>2. QED
    BY <1>1, <1>2, <2>1, RequestType
<1>4. lead' \in [Leads -> LemlistLeads]
  <2>1. paused \in BOOLEAN
    OBVIOUS
  <2> HIDE DEF paused, l
  <2>2. QED
    BY <1>1, <1>2, <2>1, PausedRow, RowsStay
<1>5. faults' \in 0 .. MaxFaults
  BY <1>1, <1>2, CallFaults
<1>6. QED
  BY <1>1, <1>2, <1>3, <1>4, <1>5, RowsStay, AroundStep

LEMMA WriteStatusStep ==
  ASSUME IInv, NEW q \in Requests, WriteStatus(q) PROVE IInv'
<1> DEFINE l == request[q].lead
           to == request[q].to
<1>1. TypeOK /\ l \in Leads /\ to \in MemberStatuses
  BY RequestFields DEF WriteStatus, IInv, MemberStatuses, Paused
<1>2. /\ UNCHANGED <<steps, created, placed, render, sync, own, remote>>
      /\ campaign' = campaign /\ runs' = runs /\ lead' = lead /\ faults' = faults
      /\ member' = WithStatus(l, to)
      /\ request' = [request EXCEPT ![q] = NoRequest]
  BY DEF WriteStatus, WithStatus, lemlist
<1>3. request' \in [Requests -> PendingRequests \cup {NoRequest}]
  BY <1>1, <1>2, RequestType
<1>4. unseen' \in BOOLEAN
  BY <1>1, RaceType DEF WriteStatus, Open
<1> HIDE DEF l, to
<1>5. /\ member' \in [Leads -> Members]
      /\ \A n \in Leads : member'[n].known = member[n].known
  BY <1>1, <1>2, StatusRow
<1>6. QED
  BY <1>1, <1>2, <1>3, <1>4, <1>5, RowsStay, AroundStep

LEMMA SetStatusStep ==
  ASSUME IInv, NEW target \in {"ACTIVE", "PAUSED"}, SetStatus(target) PROVE IInv'
<1>1. TypeOK
  BY DEF IInv
<1>2. /\ UNCHANGED <<steps, created, placed, render, sync, own, remote, request>>
      /\ member' = member /\ lead' = lead /\ unseen' = unseen
      /\ \E answer : Call(answer)
  BY DEF SetStatus
<1>3. runs' \in {"no", "sync", "agent"} /\ campaign' \in {"DRAFT", "ACTIVE", "PAUSED"}
  BY <1>1 DEF SetStatus, TypeOK
<1>4. faults' \in 0 .. MaxFaults
  BY <1>1, <1>2, CallFaults
<1>5. QED
  BY <1>1, <1>2, <1>3, <1>4, RowsStay, AroundStep

LEMMA UnseenStays ==
  ASSUME IInv, UNCHANGED unseen
  PROVE  unseen' \in BOOLEAN
  BY DEF IInv, TypeOK

\* A step of the sync: what it writes here, it writes in its session.
LEMMA SessionStep ==
  ASSUME IInv, NEW t, SyncOK(t), sync' = t,
         UNCHANGED <<campaign, steps, created, placed, member, render, request>>,
         unseen' \in BOOLEAN,
         runs' \in {"no", "sync", "agent"}, lead' \in [Leads -> LemlistLeads],
         own' \in [Leads -> Renders], faults' \in 0 .. MaxFaults,
         remote' \in Seq({"live", "parked"}), Len(remote') <= MaxSteps,
         Len(remote) <= Len(remote'), t.placed <= Len(remote'),
         Faithful(render, own'), Faithful(t.render, own')
  PROVE  IInv'
<1>1. /\ t \in Syncs /\ placed <= Len(remote) /\ placed \in Nat
      /\ Len(remote) \in Nat /\ Len(remote') \in Nat
  BY DEF IInv, TypeOK, SyncOK, SyncRows
<1>2. TypeOK'
  <2> HIDE DEF Members, Renders, LemlistLeads, Syncs, Ids, PendingRequests
  <2>1. placed <= Len(remote')
    BY <1>1
  <2>2. QED
    BY <1>1, <2>1 DEF IInv, TypeOK
<1>3. StepsOK'
  BY DEF IInv, StepsOK
<1>4. Pushed(member, render, placed)'
  BY DEF IInv, Pushed, Stays
<1>5. Faithful(render, own)'
  BY DEF Faithful
<1>6. SyncOK(sync)'
  <2>1. Pushed(sync.member, sync.render, sync.placed)'
    BY DEF SyncOK, SyncRows, Pushed, Stays
  <2>2. SyncRows(sync)' /\ SyncPhase(sync)'
    BY <2>1 DEF SyncOK, SyncRows, SyncPhase
  <2>3. QED
    BY <2>2 DEF SyncOK
<1>7. Faithful(sync.render, own)' /\ (sync.placed <= Len(remote))'
  BY DEF Faithful
<1>8. QED
  BY <1>2, <1>3, <1>4, <1>5, <1>6, <1>7 DEF IInv

\* What the steps of a sync start from.
LEMMA InSession ==
  ASSUME IInv, sync.pc \in Phases
  PROVE  /\ TypeOK /\ StepsOK /\ SyncOK(sync) /\ SyncRows(sync) /\ SyncPhase(sync)
         /\ Faithful(render, own) /\ Faithful(sync.render, own)
         /\ sync.placed <= Len(remote) /\ sync.placed \in 0 .. MaxSteps
         /\ sync.placed <= Len(steps)
         /\ render \in [Leads -> Renders] /\ sync.render \in [Leads -> Renders]
         /\ sync.member \in [Leads -> Members] /\ sync \in Syncs
         /\ remote \in Seq({"live", "parked"}) /\ Len(remote) <= MaxSteps
         /\ own \in [Leads -> Renders] /\ runs \in {"no", "sync", "agent"}
         /\ lead \in [Leads -> LemlistLeads]
         /\ faults \in 0 .. MaxFaults
<1>1. sync # NoSync
  BY DEF NoSync, Phases
<1>2. TypeOK /\ StepsOK /\ SyncOK(sync) /\ Faithful(render, own)
      /\ Faithful(sync.render, own) /\ sync.placed <= Len(remote)
  BY <1>1 DEF IInv
<1>3. sync \in Syncs
  BY <1>2 DEF SyncOK, SyncRows
<1>4. QED
  BY <1>2, <1>3, SyncFields DEF SyncOK, SyncRows, TypeOK

\* ... and a step that pushes no email goes to, when Lemlist has the shells.
LEMMA PlainStep ==
  ASSUME IInv, sync.pc \in Phases, NEW t, SyncOK(t), sync' = t,
         t.render = sync.render, t.placed = sync.placed,
         UNCHANGED <<campaign, steps, created, placed, member, render, unseen,
                     remote, own, request>>,
         runs' \in {"no", "sync", "agent"}, lead' \in [Leads -> LemlistLeads],
         faults' \in 0 .. MaxFaults
  PROVE  IInv'
<1>1. /\ own' = own /\ remote' = remote
      /\ remote \in Seq({"live", "parked"}) /\ Len(remote) <= MaxSteps
      /\ t.placed <= Len(remote) /\ own \in [Leads -> Renders]
      /\ Faithful(render, own) /\ Faithful(sync.render, own)
  BY InSession
<1>2. Len(remote) <= Len(remote) /\ unseen' \in BOOLEAN
  BY <1>1, InSession DEF TypeOK
<1>3. QED
  BY <1>1, <1>2, SessionStep

LEMMA HoldCompletedStep ==
  ASSUME IInv, HoldCompleted PROVE IInv'
<1>1. sync.pc = "append" /\ sync.pc \in Phases
  BY DEF HoldCompleted, Phases
<1>2. /\ TypeOK /\ SyncOK(sync) /\ SyncRows(sync) /\ SyncPhase(sync)
      /\ lead \in [Leads -> LemlistLeads] /\ faults \in 0 .. MaxFaults
  BY <1>1, InSession
<1>3. PICK failed \in SUBSET ToHold, lost \in SUBSET ToHold :
        /\ faults' = faults + Cardinality(failed)
        /\ faults' <= MaxFaults
        /\ lead' = [l \in Leads |-> IF l \in (ToHold \ failed) \cup lost
                                      THEN [lead[l] EXCEPT !.paused = TRUE] ELSE lead[l]]
        /\ sync' = [Load(sync) EXCEPT !.pc = "place", !.unsafe = failed # {}]
  BY DEF HoldCompleted
<1> DEFINE u == Load(sync)
           unsafe == failed # {}
           t == [u EXCEPT !.pc = "place", !.unsafe = unsafe]
<1>4. SyncRows(u) /\ u.render = render /\ u.placed = sync.placed /\ sync.render = render
  BY <1>1, <1>2, LoadOK DEF SyncPhase
<1> HIDE DEF u
<1>5. /\ u \in Syncs /\ unsafe \in BOOLEAN
  BY <1>4 DEF SyncRows
<1> HIDE DEF unsafe, Members, Renders
<1>6. /\ t \in Syncs /\ t.pc = "place" /\ t.placed = sync.placed
      /\ t.render = sync.render /\ t.member = u.member
  BY <1>4, <1>5 DEF Syncs
<1>7. sync' = t
  BY <1>3 DEF u, unsafe
<1> HIDE DEF t
<1>8. SyncOK(t)
  <2>1. SyncRows(t)
    BY <1>4, <1>6 DEF SyncRows
  <2>2. SyncPhase(t)
    BY <1>1, <1>2, <1>6 DEF SyncPhase
  <2>3. QED
    BY <2>1, <2>2 DEF SyncOK
<1>9. faults' \in 0 .. MaxFaults
  <2>1. IsFiniteSet(failed)
    BY LeadsAssumption, FS_Subset DEF ToHold
  <2>2. Cardinality(failed) \in Nat
    BY <2>1, FS_CardinalityType
  <2>3. QED
    BY <1>2, <1>3, <2>2, BoundAssumption
<1>10. lead' \in [Leads -> LemlistLeads]
  <2>1. ASSUME NEW r \in LemlistLeads
        PROVE  [r EXCEPT !.paused = TRUE] \in LemlistLeads
    BY DEF LemlistLeads
  <2> HIDE DEF LemlistLeads
  <2>2. QED
    BY <1>2, <1>3, <2>1
<1>11. /\ UNCHANGED <<campaign, steps, created, placed, member, render, unseen, remote, own, request>>
       /\ runs' \in {"no", "sync", "agent"}
  BY <1>2 DEF HoldCompleted, TypeOK
<1>12. QED
  BY <1>1, <1>6, <1>7, <1>8, <1>9, <1>10, <1>11, PlainStep

LEMMA AppendNothingStep ==
  ASSUME IInv, AppendNothing PROVE IInv'
<1>1. sync.pc = "append" /\ sync.pc \in Phases
  BY DEF AppendNothing, Phases
<1>2. /\ TypeOK /\ SyncRows(sync) /\ SyncPhase(sync)
      /\ lead \in [Leads -> LemlistLeads]
  BY <1>1, InSession
<1>3. /\ SyncRows(Load(sync)) /\ Load(sync).render = sync.render
      /\ Load(sync).placed = sync.placed
  BY <1>1, <1>2, LoadOK DEF SyncPhase
<1> DEFINE t == Refreshing(Load(sync))
<1>4. SyncOK(t) /\ t.render = sync.render /\ t.placed = sync.placed
  BY <1>3, RefreshingOK DEF SameRows
<1>5. /\ UNCHANGED <<campaign, steps, created, placed, member, render, unseen, remote, own, request>>
      /\ lead' = lead /\ sync' = t /\ (\E answer : Call(answer))
  BY DEF AppendNothing
<1>6. runs' \in {"no", "sync", "agent"}
  BY <1>2 DEF AppendNothing, TypeOK
<1>7. faults' \in 0 .. MaxFaults
  BY <1>2, <1>5, CallFaults
<1> HIDE DEF t
<1>8. QED
  BY <1>1, <1>2, <1>4, <1>5, <1>6, <1>7, PlainStep

LEMMA PlaceStepStep ==
  ASSUME IInv, PlaceStep PROVE IInv'
<1> DEFINE k == sync.placed + 1
           T == {l \in InFlight(sync) : sync.member[l].step < k}
           new == [sync EXCEPT !.placed = k, !.pc = "render", !.todo = T]
           x == CHOOSE l \in Leads : TRUE
<1>1. sync.pc = "place" /\ sync.pc \in Phases
  BY DEF PlaceStep, Phases
<1>2. /\ TypeOK /\ SyncRows(sync) /\ SyncPhase(sync) /\ SyncOK(sync) /\ sync \in Syncs
      /\ Faithful(render, own) /\ Faithful(sync.render, own)
      /\ lead \in [Leads -> LemlistLeads] /\ own \in [Leads -> Renders]
      /\ runs \in {"no", "sync", "agent"}
      /\ remote \in Seq({"live", "parked"}) /\ Len(remote) <= MaxSteps
      /\ sync.placed \in 0 .. MaxSteps /\ sync.placed <= Len(remote)
  BY <1>1, InSession
<1>3. Len(steps) \in 0 .. MaxSteps /\ sync.placed < Len(steps)
  BY <1>1, <1>2, StepPositions DEF SyncPhase
<1>4. k \in 0 .. MaxSteps /\ k >= 1 /\ k <= Len(steps)
  BY <1>2, <1>3, BoundAssumption
<1>5. PICK answer \in Answers :
        /\ Call(answer)
        /\ remote' = IF answer = "failed" THEN remote ELSE ShellsUpTo(k)
        /\ sync' = IF answer # "ok" THEN Refreshing(sync)
                   ELSE IF new.todo = {} THEN Advance(new, x) ELSE new
  BY DEF PlaceStep
<1>6. /\ ShellsUpTo(k) \in Seq({"live", "parked"}) /\ Len(ShellsUpTo(k)) <= MaxSteps
      /\ Len(ShellsUpTo(k)) >= k /\ Len(ShellsUpTo(k)) >= Len(remote)
  BY <1>2, <1>4, ShellsType
<1>7. T \in SUBSET Leads /\ \A l \in T : sync.member[l].known
  BY DEF InFlight
<1> HIDE DEF T, k, x
<1>8. /\ new \in Syncs /\ new.placed = k /\ new.pc = "render" /\ new.todo = T
      /\ new.member = sync.member /\ new.render = sync.render
  <2> HIDE DEF Members, Renders
  <2>1. QED
    BY <1>2, <1>4, <1>7 DEF Syncs
<1> HIDE DEF new
<1>9. Pushed(sync.member, sync.render, k)
  <2>1. \A j, id : Stays(j, id, sync.placed) /\ j \in Positions => Stays(j, id, k)
    BY <1>2 DEF Stays, k, Positions
  <2>2. Pushed(sync.member, sync.render, sync.placed)
    BY <1>2 DEF SyncRows
  <2>3. QED
    BY <2>1, <2>2 DEF Pushed
<1>10. SyncOK(new)
  BY <1>2, <1>4, <1>7, <1>8, <1>9 DEF SyncOK, SyncRows, SyncPhase
<1>11. /\ UNCHANGED <<campaign, steps, created, placed, member, render, unseen, request>>
       /\ runs' = runs /\ lead' = lead /\ own' = own
  BY DEF PlaceStep
<1>12. faults' \in 0 .. MaxFaults
  BY <1>2, <1>5, CallFaults
<1>13. /\ remote' \in Seq({"live", "parked"}) /\ Len(remote') <= MaxSteps
       /\ Len(remote) <= Len(remote')
  BY <1>2, <1>5, <1>6
<1>14. ASSUME NEW t, SyncOK(t), sync' = t, t.render = sync.render, t.placed <= Len(remote')
       PROVE  IInv'
  BY <1>2, <1>11, <1>12, <1>13, <1>14, UnseenStays, SessionStep
<1>15. CASE answer # "ok"
  <2>1. SameRows(sync, Refreshing(sync))
    BY <1>2, RefreshingOK
  <2>2. sync' = Refreshing(sync)
    BY <1>5, <1>15
  <2>3. sync.placed <= Len(remote')
    BY <1>2, <1>13
  <2>4. QED
    BY <1>14, <2>1, <2>2, <2>3 DEF SameRows
<1>16. CASE answer = "ok"
  <2>1. k <= Len(remote')
    BY <1>5, <1>6, <1>16
  <2>2. SameRows(new, Advance(new, x))
    BY <1>8, <1>10, AdvanceOK
  <2>3. sync' = Advance(new, x) \/ sync' = new
    BY <1>5, <1>16
  <2>4. QED
    BY <1>8, <1>10, <1>14, <2>1, <2>2, <2>3 DEF SameRows
<1>17. QED
  BY <1>15, <1>16

\* A step of the sync that pushes the emails K of a lead.
LEMMA EmailStep ==
  ASSUME IInv, sync.pc \in Phases, NEW l \in Leads, NEW K \in SUBSET (1 .. sync.placed),
         Personalize(l, K), NEW t, SyncOK(t), sync' = t, t.placed = sync.placed,
         t.render = [sync.render EXCEPT ![l] = RenderRow(sync, l, K)],
         UNCHANGED <<campaign, steps, created, placed, member, render, unseen, remote, request>>,
         runs' \in {"no", "sync", "agent"}, lead' \in [Leads -> LemlistLeads],
         faults' \in 0 .. MaxFaults
  PROVE  IInv'
<1> DEFINE A == Accepted(l, K)
           mails == [own EXCEPT ![l] = Written(own[l], A)]
<1>1. /\ TypeOK /\ Faithful(render, own) /\ Faithful(sync.render, own)
      /\ render \in [Leads -> Renders] /\ sync.render \in [Leads -> Renders]
      /\ remote \in Seq({"live", "parked"}) /\ Len(remote) <= MaxSteps
      /\ sync.placed <= Len(remote) /\ sync.placed \in 0 .. MaxSteps
      /\ sync.placed <= Len(steps)
  BY InSession
<1>2. A \in SUBSET DOMAIN steps
  <2>1. K \subseteq DOMAIN steps
    BY <1>1, StepPositions
  <2>2. A \subseteq K
    BY AcceptedSubset
  <2>3. QED
    BY <2>1, <2>2
<1>3. own' = mails
  BY DEF Personalize
<1>4. RenderRow(sync, l, K) = Written(sync.render[l], A)
  BY DEF RenderRow
<1> HIDE DEF A
<1>5. /\ mails \in [Leads -> Renders] /\ Faithful(render, mails)
      /\ Faithful([sync.render EXCEPT ![l] = Written(sync.render[l], A)], mails)
  BY <1>1, <1>2, FaithfulKept
<1> HIDE DEF mails
<1>6. Faithful(t.render, mails)
  BY <1>4, <1>5
<1>7. Len(remote) <= Len(remote) /\ remote' = remote
  BY <1>1
<1>8. QED
  BY <1>1, <1>3, <1>5, <1>6, <1>7, UnseenStays, SessionStep

LEMMA NextLead ==
  ASSUME NEW s, SyncOK(s), s.pc \in {"render", "refresh", "launch"}, NEW l
  PROVE  /\ SyncOK(Advance(s, l)) /\ Advance(s, l).render = s.render
         /\ Advance(s, l).placed = s.placed
  BY AdvanceOK DEF SameRows

LEMMA HoldStep ==
  ASSUME IInv, sync.pc \in {"render", "refresh", "launch"}, NEW l \in Leads, Hold(l)
  PROVE  /\ SyncOK(sync') /\ sync'.render = sync.render /\ sync'.placed = sync.placed
         /\ lead' \in [Leads -> LemlistLeads] /\ faults' \in 0 .. MaxFaults
<1>1. /\ TypeOK /\ SyncOK(sync) /\ sync \in Syncs
      /\ lead \in [Leads -> LemlistLeads] /\ faults \in 0 .. MaxFaults
  BY InSession DEF Phases
<1>2. CASE sync.member[l].status \in Paused
  <2>1. sync' = Advance(sync, l) /\ lead' = lead /\ faults' = faults
    BY <1>2 DEF Hold
  <2>2. QED
    BY <1>1, <2>1, NextLead
<1>3. CASE sync.member[l].status \notin Paused
  <2> DEFINE failed == [sync EXCEPT !.unsafe = TRUE]
  <2>1. PICK answer \in Answers :
          /\ Call(answer)
          /\ IF answer = "failed" THEN UNCHANGED lead ELSE PauseLead(l)
          /\ sync' = Advance(IF answer = "ok" THEN Mark(sync, l, "held") ELSE failed, l)
    BY <1>3 DEF Hold
  <2>2. "held" \in MemberStatuses
    BY DEF MemberStatuses, Paused
  <2>3. SameRenders(sync, Mark(sync, l, "held"))
    BY <1>1, <2>2, MarkOK
  <2>4. SameRenders(sync, failed)
    <3> HIDE DEF Members, Renders
    <3>1. /\ failed \in Syncs /\ failed.pc = sync.pc /\ failed.todo = sync.todo
          /\ failed.placed = sync.placed /\ failed.member = sync.member
          /\ failed.render = sync.render
      BY <1>1 DEF Syncs
    <3> HIDE DEF failed
    <3>2. QED
      BY <1>1, <3>1 DEF SameRenders, SyncOK, SyncRows, SyncPhase
  <2> HIDE DEF failed
  <2>5. PICK u : sync' = Advance(u, l) /\ SameRenders(sync, u)
    BY <2>1, <2>3, <2>4
  <2>6. /\ SyncOK(Advance(u, l)) /\ Advance(u, l).render = u.render
        /\ Advance(u, l).placed = u.placed
    BY <2>5, NextLead DEF SameRenders
  <2>7. lead' \in [Leads -> LemlistLeads]
    BY <1>1, <2>1, PausedRow DEF PauseLead
  <2>8. QED
    BY <1>1, <2>1, <2>5, <2>6, <2>7, CallFaults DEF SameRenders
<1>4. QED
  BY <1>2, <1>3

LEMMA RenderNewStepStep ==
  ASSUME IInv, NEW l \in Leads, RenderNewStep(l) PROVE IInv'
<1> DEFINE K == {sync.placed}
<1>1. sync.pc = "render" /\ l \in sync.todo /\ sync.pc \in Phases
  BY DEF RenderNewStep, Phases
<1>2. /\ TypeOK /\ StepsOK /\ SyncOK(sync) /\ SyncPhase(sync)
      /\ lead \in [Leads -> LemlistLeads] /\ runs \in {"no", "sync", "agent"}
      /\ faults \in 0 .. MaxFaults /\ sync.placed \in 0 .. MaxSteps
  BY <1>1, InSession
<1>3. sync.member[l].known /\ K \in SUBSET (1 .. sync.placed)
  BY <1>1, <1>2 DEF SyncPhase
<1>4. /\ UNCHANGED <<campaign, steps, created, placed, member, render, unseen, remote, request>>
      /\ runs' = runs
  BY DEF RenderNewStep
<1> HIDE DEF K
<1>5. CASE /\ Personalize(l, K)
           /\ sync' = Advance(Rendered(sync, l, K), l)
           /\ lead' = lead /\ faults' = faults
  <2> DEFINE u == Rendered(sync, l, K)
  <2>1. /\ SyncOK(u) /\ u.pc = "render" /\ u.placed = sync.placed
        /\ u.render = [sync.render EXCEPT ![l] = RenderRow(sync, l, K)]
    <3>1. sync.pc # "append"
      BY <1>1
    <3>2. /\ SyncOK(Rendered(sync, l, K)) /\ Rendered(sync, l, K).pc = sync.pc
          /\ Rendered(sync, l, K).placed = sync.placed
          /\ Rendered(sync, l, K).render = [sync.render EXCEPT ![l] = RenderRow(sync, l, K)]
      BY <1>2, <1>3, <3>1, RenderedOK
    <3>3. QED
      BY <1>1, <3>2
  <2>2. sync' = Advance(u, l)
    BY <1>5
  <2> HIDE DEF u
  <2>3. /\ SyncOK(Advance(u, l)) /\ Advance(u, l).render = u.render
        /\ Advance(u, l).placed = u.placed
    BY <2>1, NextLead
  <2>4. QED
    BY <1>1, <1>2, <1>3, <1>4, <1>5, <2>1, <2>2, <2>3, EmailStep
<1>6. CASE Hold(l) /\ own' = own
  <2>1. /\ SyncOK(sync') /\ sync'.render = sync.render /\ sync'.placed = sync.placed
        /\ lead' \in [Leads -> LemlistLeads] /\ faults' \in 0 .. MaxFaults
    BY <1>1, <1>6, HoldStep
  <2> DEFINE t == sync'
  <2>2. SyncOK(t) /\ sync' = t /\ t.render = sync.render /\ t.placed = sync.placed
    BY <2>1
  <2> HIDE DEF t
  <2>3. QED
    BY <1>1, <1>2, <1>4, <1>6, <2>1, <2>2, PlainStep
<1>7. QED
  BY <1>5, <1>6 DEF RenderNewStep, K

LEMMA RefreshLeadStep ==
  ASSUME IInv, NEW l \in Leads, RefreshLead(l) PROVE IInv'
<1> DEFINE K == Missing(sync.member[l], sync.render[l], sync.placed)
<1>1. sync.pc = "refresh" /\ l \in sync.todo /\ sync.pc \in Phases
  BY DEF RefreshLead, Phases
<1>2. /\ TypeOK /\ StepsOK /\ SyncOK(sync) /\ SyncPhase(sync)
      /\ lead \in [Leads -> LemlistLeads] /\ runs \in {"no", "sync", "agent"}
      /\ faults \in 0 .. MaxFaults
  BY <1>1, InSession
<1>3. sync.member[l].known /\ K \in SUBSET (1 .. sync.placed)
  BY <1>1, <1>2 DEF SyncPhase, Missing
<1>4. /\ UNCHANGED <<campaign, steps, created, placed, member, render, unseen, remote, request>>
      /\ runs' = runs
  BY DEF RefreshLead
<1>5. ASSUME NEW J \in SUBSET (1 .. sync.placed), Personalize(l, J), NEW u, SyncOK(u),
             u.pc = "refresh", u.placed = sync.placed,
             u.render = [sync.render EXCEPT ![l] = RenderRow(sync, l, J)],
             sync' = Advance(u, l),
             lead' \in [Leads -> LemlistLeads], faults' \in 0 .. MaxFaults
      PROVE  IInv'
  <2>1. /\ SyncOK(Advance(u, l)) /\ Advance(u, l).render = u.render
        /\ Advance(u, l).placed = u.placed
    BY <1>5, NextLead
  <2>2. QED
    BY <1>1, <1>2, <1>4, <1>5, <2>1, EmailStep
<1> HIDE DEF K
<1>6. ASSUME NEW J \in SUBSET (1 .. sync.placed)
      PROVE  /\ SyncOK(Rendered(sync, l, J)) /\ Rendered(sync, l, J).pc = "refresh"
             /\ Rendered(sync, l, J).placed = sync.placed
             /\ Rendered(sync, l, J).render =
                  [sync.render EXCEPT ![l] = RenderRow(sync, l, J)]
  BY <1>1, <1>2, <1>3, RenderedOK
<1>7. CASE sync' = Advance(sync, l) /\ UNCHANGED <<lead, own, faults>>
  <2>1. /\ SyncOK(Advance(sync, l)) /\ Advance(sync, l).render = sync.render
        /\ Advance(sync, l).placed = sync.placed
    BY <1>1, <1>2, NextLead
  <2>2. QED
    BY <1>1, <1>2, <1>4, <1>7, <2>1, PlainStep
<1>8. CASE Personalize(l, K) /\ sync' = Advance(Rendered(sync, l, K), l)
           /\ UNCHANGED <<lead, faults>>
  BY <1>2, <1>3, <1>5, <1>6, <1>8
<1>9. ASSUME Personalize(l, K), NEW answer \in Answers, Call(answer),
             IF answer = "failed" THEN UNCHANGED lead ELSE ResumeLead(l),
             sync' = Advance(IF answer = "ok" THEN Released(Rendered(sync, l, K), l)
                             ELSE Rendered(sync, l, K), l)
      PROVE  IInv'
  <2> DEFINE u == Rendered(sync, l, K)
  <2>1. /\ SyncOK(u) /\ u.pc = "refresh" /\ u.placed = sync.placed
        /\ u.render = [sync.render EXCEPT ![l] = RenderRow(sync, l, K)]
    BY <1>3, <1>6
  <2>2. lead' \in [Leads -> LemlistLeads] /\ faults' \in 0 .. MaxFaults
    BY <1>2, <1>9, PausedRow, CallFaults DEF ResumeLead
  <2> HIDE DEF u
  <2>3. \E status \in {"active", "queued"} : Released(u, l) = Mark(u, l, status)
    BY DEF Released, Resumed
  <2>4. {"active", "queued"} \subseteq MemberStatuses
    BY DEF MemberStatuses, Running
  <2>5. SameRenders(u, Released(u, l))
    BY <2>1, <2>3, <2>4, MarkOK
  <2>6. \/ sync' = Advance(u, l)
        \/ sync' = Advance(Released(u, l), l)
    BY <1>9 DEF u
  <2>7. CASE sync' = Advance(u, l)
    BY <1>3, <1>5, <1>9, <2>1, <2>2, <2>7
  <2>8. CASE sync' = Advance(Released(u, l), l)
    BY <1>3, <1>5, <1>9, <2>1, <2>2, <2>5, <2>8 DEF SameRenders
  <2>9. QED
    BY <2>6, <2>7, <2>8
<1>10. ASSUME NEW n \in 1 .. sync.placed, Call("failed"), Personalize(l, K \cap 1 .. n),
              sync' = Advance(Rendered(sync, l, K \cap 1 .. n), l), UNCHANGED lead
       PROVE  IInv'
  <2> DEFINE J == K \cap 1 .. n
  <2>1. J \in SUBSET (1 .. sync.placed)
    BY <1>3
  <2>2. faults' \in 0 .. MaxFaults /\ lead' \in [Leads -> LemlistLeads]
    BY <1>2, <1>10, CallFaults
  <2>3. Personalize(l, J) /\ sync' = Advance(Rendered(sync, l, J), l)
    BY <1>10
  <2> HIDE DEF J
  <2>4. QED
    BY <1>5, <1>6, <2>1, <2>2, <2>3
<1>11. QED
  BY <1>7, <1>8, <1>9, <1>10 DEF RefreshLead, K

LEMMA AddedLead ==
  ASSUME TypeOK, NEW l \in Leads, NEW stage \in {"review", "launched"}, AddLead(l, stage)
  PROVE  lead' \in [Leads -> LemlistLeads]
<1> DEFINE r == [lead[l] EXCEPT !.stage = IF @ \in {"none", "review"} THEN stage ELSE @]
<1>1. r \in LemlistLeads
  BY DEF TypeOK, LemlistLeads
<1>2. lead' = [lead EXCEPT ![l] = r]
  BY DEF AddLead
<1> HIDE DEF r
<1>3. QED
  BY <1>1, <1>2, LeadRow

LEMMA PushMemberStep ==
  ASSUME IInv, NEW l \in Leads, PushMember(l) PROVE IInv'
<1> DEFINE K == {k \in DOMAIN steps : sync.render[l][k] # steps[k]}
           stops == {k \in K : k > sync.placed \/ lead[l].at >= k}
           upTo(n) == {k \in K : k <= n /\ \A j \in stops : k < j}
           Pushes(J) == Known(Rendered(sync, l, J), l)
<1>1. sync.pc = "launch" /\ sync.pc \in Phases
  BY DEF PushMember, Phases
<1>2. /\ TypeOK /\ StepsOK /\ SyncOK(sync) /\ sync.placed \in 0 .. MaxSteps
      /\ lead \in [Leads -> LemlistLeads] /\ runs \in {"no", "sync", "agent"}
      /\ faults \in 0 .. MaxFaults
  BY <1>1, InSession
<1>3. /\ UNCHANGED <<campaign, steps, created, placed, member, render, unseen, remote, request>>
      /\ runs' = runs
  BY DEF PushMember
<1>4. /\ \A n : upTo(n) \in SUBSET (1 .. sync.placed)
      /\ stops = {} => K \in SUBSET (1 .. sync.placed)
  <2>1. \A k \in K : k \in Nat /\ k >= 1
    BY <1>2, StepPositions
  <2>2. \A k \in K : k \notin stops => k \in 1 .. sync.placed
    BY <1>2, <2>1
  <2>3. ASSUME NEW n, NEW k \in upTo(n) PROVE k \in 1 .. sync.placed
    <3>1. k \in K /\ \A j \in stops : k < j
      OBVIOUS
    <3>2. k \notin stops
      BY <2>1, <3>1
    <3>3. QED
      BY <2>2, <3>1, <3>2
  <2>4. QED
    BY <2>2, <2>3
<1>5. ASSUME NEW J \in SUBSET (1 .. sync.placed)
      PROVE  /\ SyncOK(Pushes(J)) /\ Pushes(J).pc = "launch"
             /\ Pushes(J).placed = sync.placed
             /\ Pushes(J).render = [sync.render EXCEPT ![l] = RenderRow(sync, l, J)]
  <2>1. sync.pc # "append"
    BY <1>1
  <2>2. QED
    BY <1>1, <1>2, <2>1, KnownRenderedOK
<1>6. ASSUME NEW J \in SUBSET (1 .. sync.placed), Personalize(l, J), NEW u, SyncOK(u),
             u.pc = "launch", u.placed = sync.placed,
             u.render = [sync.render EXCEPT ![l] = RenderRow(sync, l, J)],
             sync' = Advance(u, l),
             lead' \in [Leads -> LemlistLeads], faults' \in 0 .. MaxFaults
      PROVE  IInv'
  <2>1. /\ SyncOK(Advance(u, l)) /\ Advance(u, l).render = u.render
        /\ Advance(u, l).placed = u.placed
    BY <1>6, NextLead
  <2>2. QED
    BY <1>1, <1>2, <1>3, <1>6, <2>1, EmailStep
<1>7. ASSUME sync' = Advance(sync, l), own' = own,
             lead' \in [Leads -> LemlistLeads], faults' \in 0 .. MaxFaults
      PROVE  IInv'
  <2>1. /\ SyncOK(Advance(sync, l)) /\ Advance(sync, l).render = sync.render
        /\ Advance(sync, l).placed = sync.placed
    BY <1>1, <1>2, NextLead
  <2>2. QED
    BY <1>1, <1>2, <1>3, <1>7, <2>1, PlainStep
<1>8. CASE sync' = Advance(sync, l) /\ UNCHANGED <<lead, own, faults>>
  BY <1>2, <1>7, <1>8
<1>9. ASSUME NEW answer \in {"failed", "lost"}, Call(answer),
             IF answer = "lost" THEN AddLead(l, "review") ELSE UNCHANGED lead,
             sync' = Advance(sync, l), UNCHANGED own
      PROVE  IInv'
  BY <1>2, <1>7, <1>9, AddedLead, CallFaults
<1>10. ASSUME NEW n, NEW answer, Call(answer), AddLead(l, "review"),
              Personalize(l, upTo(n)), sync' = Advance(Pushes(upTo(n)), l)
       PROVE  IInv'
  <2> DEFINE J == upTo(n)
  <2>1. J \in SUBSET (1 .. sync.placed)
    BY <1>4
  <2>2. lead' \in [Leads -> LemlistLeads] /\ faults' \in 0 .. MaxFaults
    BY <1>2, <1>10, AddedLead, CallFaults
  <2>3. Personalize(l, J) /\ sync' = Advance(Pushes(J), l)
    BY <1>10
  <2> HIDE DEF J, Pushes
  <2>4. QED
    BY <1>5, <1>6, <2>1, <2>2, <2>3
<1>11. ASSUME stops = {}, NEW answer \in {"ok", "lost"}, Call(answer),
              sync' = Advance(IF answer = "ok" THEN Queued(Pushes(K), l) ELSE Pushes(K), l),
              AddLead(l, "launched"), Personalize(l, K)
       PROVE  IInv'
  <2>1. K \in SUBSET (1 .. sync.placed)
    BY <1>4, <1>11
  <2>2. lead' \in [Leads -> LemlistLeads] /\ faults' \in 0 .. MaxFaults
    BY <1>2, <1>11, AddedLead, CallFaults
  <2>3. Personalize(l, K)
    BY <1>11
  <2> DEFINE u == Pushes(K)
  <2>4. sync' = Advance(u, l) \/ sync' = Advance(Queued(u, l), l)
    BY <1>11
  <2> HIDE DEF K, Pushes
  <2>5. /\ SyncOK(u) /\ u.pc = "launch" /\ u.placed = sync.placed
        /\ u.render = [sync.render EXCEPT ![l] = RenderRow(sync, l, K)]
    BY <1>5, <2>1
  <2> HIDE DEF u
  <2>6. SameRenders(u, Queued(u, l))
    BY <2>5, QueuedOK
  <2>7. CASE sync' = Advance(u, l)
    BY <1>6, <2>1, <2>2, <2>3, <2>5, <2>7
  <2>8. CASE sync' = Advance(Queued(u, l), l)
    BY <1>6, <2>1, <2>2, <2>3, <2>5, <2>6, <2>8 DEF SameRenders
  <2>9. QED
    BY <2>4, <2>7, <2>8
<1>12. QED
  BY <1>8, <1>9, <1>10, <1>11 DEF PushMember

\* While no sync is under way, the state is the database and Lemlist.
LEMMA IdleStep ==
  ASSUME sync' = NoSync, TypeOK', StepsOK', Pushed(member, render, placed)',
         Faithful(render, own)'
  PROVE  IInv'
  BY DEF IInv

LEMMA Idle == ASSUME TypeOK, sync.pc = "idle" PROVE sync = NoSync
<1>1. \A s \in Syncs : s.pc # "idle"
  BY SyncFields DEF Phases
<1>2. QED
  BY <1>1 DEF TypeOK

LEMMA CrashStep == ASSUME IInv, Crash PROVE IInv'
<1>1. /\ sync' = NoSync /\ Call("failed")
      /\ UNCHANGED <<campaign, steps, created, placed, member, render, lemlist, unseen, request>>
  BY DEF Crash
<1>2. TypeOK /\ faults' \in 0 .. MaxFaults
  BY <1>1, CallFaults DEF IInv
<1>3. TypeOK'
  <2> HIDE DEF Members, Renders, LemlistLeads, Syncs, Ids, PendingRequests
  <2>1. QED
    BY <1>1, <1>2 DEF TypeOK, lemlist
<1>4. StepsOK' /\ Pushed(member, render, placed)' /\ Faithful(render, own)'
  BY <1>1 DEF IInv, StepsOK, Pushed, Stays, Faithful, lemlist
<1>5. QED
  BY <1>1, <1>3, <1>4, IdleStep

LEMMA FinishStep == ASSUME IInv, Finish PROVE IInv'
<1>1. sync.pc = "finish" /\ sync.pc \in Phases
  BY DEF Finish, Phases
<1>2. /\ TypeOK /\ StepsOK /\ SyncRows(sync) /\ sync \in Syncs
      /\ Faithful(sync.render, own) /\ sync.render \in [Leads -> Renders]
      /\ sync.placed <= Len(remote) /\ sync.placed \in 0 .. MaxSteps
      /\ sync.placed <= Len(steps) /\ sync.member \in [Leads -> Members]
      /\ member \in [Leads -> Members]
  BY <1>1, InSession DEF TypeOK
<1> DEFINE row(l) ==
      [sync.member[l] EXCEPT !.status = Status(sync, l),
         !.step = Larger(@, member[l].step), !.heard = Larger(@, member[l].heard)]
<1>3. /\ member' = [l \in Leads |-> row(l)] /\ render' = sync.render
      /\ placed' = sync.placed /\ sync' = NoSync
      /\ UNCHANGED <<campaign, steps, created, remote, lead, own, unseen, request>>
  BY DEF Finish
<1>4. ASSUME NEW l \in Leads
      PROVE  row(l) \in Members /\ row(l).known = sync.member[l].known
  <2> DEFINE status == Status(sync, l)
             step == Larger(sync.member[l].step, member[l].step)
             heard == Larger(sync.member[l].heard, member[l].heard)
  <2>1. sync.member[l] \in Members /\ member[l] \in Members
    BY <1>2
  <2>2. /\ status \in MemberStatuses /\ step \in 0 .. MaxSteps /\ heard \in 0 .. MaxSteps
    BY <2>1 DEF Status, Members, Larger
  <2> HIDE DEF status, step, heard
  <2>3. row(l) = [sync.member[l] EXCEPT !.status = status, !.step = step, !.heard = heard]
    BY DEF status, step, heard
  <2> HIDE DEF row
  <2>4. QED
    BY <2>1, <2>2, <2>3 DEF Members
<1> HIDE DEF row
<1>5. /\ member' \in [Leads -> Members]
      /\ \A l \in Leads : member'[l].known = sync.member[l].known
  <2> HIDE DEF Members
  <2>1. QED
    BY <1>3, <1>4
<1>6. runs' \in {"no", "sync", "agent"} /\ faults' \in 0 .. MaxFaults
  <2>1. runs \in {"no", "sync", "agent"} /\ faults \in 0 .. MaxFaults
    BY <1>2 DEF TypeOK
  <2>2. (\E answer : Call(answer)) \/ faults' = faults
    BY DEF Finish
  <2>3. runs' \in {"no", "sync", "agent"}
    BY <2>1 DEF Finish
  <2>4. QED
    BY <1>2, <2>1, <2>2, <2>3, CallFaults
<1>7. TypeOK'
  <2> HIDE DEF Members, Renders, LemlistLeads, Syncs, Ids, PendingRequests
  <2>1. placed' \in 0 .. Len(steps)
    BY <1>2, <1>3, StepPositions
  <2>2. QED
    BY <1>2, <1>3, <1>5, <1>6, <2>1 DEF TypeOK
<1>8. StepsOK' /\ Faithful(render, own)'
  BY <1>2, <1>3 DEF StepsOK, Faithful
<1>9. Pushed(member, render, placed)'
  BY <1>2, <1>3, <1>5 DEF SyncRows, Pushed, Stays
<1>10. QED
  BY <1>3, <1>7, <1>8, <1>9, IdleStep

\* The renders of a campaign Lemlist holds no lead of are empty.
LEMMA NoRenders ==
  ASSUME IInv, ~InUse, NEW l \in Leads, NEW k \in Positions
  PROVE  render[l][k] = NoId
  BY DEF IInv, Pushed, InUse

LEMMA BeginSyncStep ==
  ASSUME IInv, NEW launching \in BOOLEAN, BeginSync(launching) PROVE IInv'
<1> DEFINE n == IF InUse THEN placed ELSE Len(steps)
           inUse == InUse
           Dirty(h) == {l \in Leads : h[l] # member[l]}
           Start(h) == [pc |-> "append", inUse |-> inUse, launching |-> launching,
                        unsafe |-> FALSE, placed |-> n, member |-> h,
                        render |-> render, todo |-> {}, dirty |-> Dirty(h)]
           pulls == [l \in Leads |-> Ingested(member[l], lead[l].at)]
<1>1. /\ TypeOK /\ member \in [Leads -> Members] /\ lead \in [Leads -> LemlistLeads]
      /\ render \in [Leads -> Renders] /\ runs \in {"no", "sync", "agent"}
      /\ Faithful(render, own) /\ own \in [Leads -> Renders]
      /\ placed \in Nat /\ placed <= Len(steps) /\ Len(steps) \in 0 .. MaxSteps
      /\ sync = NoSync
  BY StepPositions, Idle DEF IInv, TypeOK, BeginSync
<1>2. PICK h \in {pulls, member} :
        /\ \E answer : Call(answer)
        /\ remote' = ShellsUpTo(n)
        /\ runs' = IF ~InUse /\ campaign = "ACTIVE" THEN "sync" ELSE runs
        /\ sync' = Appending(Start(h))
  BY DEF BeginSync
<1>3. UNCHANGED <<campaign, steps, created, placed, member, render, lead, own, request>>
  BY DEF BeginSync
<1>4. h \in [Leads -> Members] /\ \A l \in Leads : h[l].known = member[l].known
  <2>1. ASSUME NEW l \in Leads
        PROVE  /\ Ingested(member[l], lead[l].at) \in Members
               /\ Ingested(member[l], lead[l].at).known = member[l].known
    <3>1. member[l] \in Members /\ lead[l].at \in 0 .. MaxSteps
      BY <1>1 DEF LemlistLeads
    <3>2. QED
      BY <3>1, IngestedRow
  <2> HIDE DEF Members
  <2>2. /\ pulls \in [Leads -> Members]
        /\ \A l \in Leads : pulls[l].known = member[l].known
    BY <2>1
  <2> HIDE DEF pulls
  <2>3. QED
    BY <1>1, <1>2, <2>2
<1>5. n \in 0 .. MaxSteps /\ n <= Len(steps) /\ inUse \in BOOLEAN
  BY <1>1, BoundAssumption DEF InUse
<1>6. Pushed(h, render, n)
  <2>1. CASE InUse
    BY <1>4, <2>1 DEF IInv, Pushed
  <2>2. CASE ~InUse
    BY <2>2, NoRenders DEF Pushed
  <2>3. QED
    BY <2>1, <2>2
<1> HIDE DEF n, inUse, pulls
<1> DEFINE s == Start(h)
<1>7. /\ s \in Syncs /\ s.placed = n /\ s.member = h /\ s.render = render
      /\ s.pc = "append" /\ s.todo = {}
  <2>1. Dirty(h) \in SUBSET Leads
    OBVIOUS
  <2> HIDE DEF Members, Renders, Dirty
  <2>2. QED
    BY <1>1, <1>4, <1>5, <2>1 DEF Syncs
<1>8. sync' = Appending(s)
  BY <1>2
<1> HIDE DEF s
<1>9. SyncRows(s)
  BY <1>4, <1>5, <1>6, <1>7 DEF SyncRows
<1>10. SameRows(s, Appending(s)) \/ (SyncOK(Appending(s)) /\ Appending(s).render = render
                                       /\ Appending(s).placed = n)
  <2>1. CASE s.inUse /\ s.placed < Len(steps)
    <3>1. Appending(s) = Moved(s, "append", {})
      BY <1>7, <2>1 DEF Appending, Moved, Syncs
    <3>2. "append" \in Phases /\ {} \in SUBSET Leads /\ s.render = render
      BY <1>7 DEF Phases
    <3>3. SameRows(s, Moved(s, "append", {}))
      BY <1>9, <2>1, <3>2, MovesOn
    <3>4. QED
      BY <3>1, <3>3
  <2>2. CASE ~(s.inUse /\ s.placed < Len(steps))
    <3>1. Appending(s) = Refreshing(Load(s))
      BY <2>2 DEF Appending
    <3>2. SyncRows(Load(s)) /\ Load(s).render = render /\ Load(s).placed = n
      BY <1>7, <1>9, LoadOK
    <3>3. SameRows(Load(s), Refreshing(Load(s)))
      BY <3>2, RefreshingOK
    <3>4. QED
      BY <3>1, <3>2, <3>3 DEF SameRows
  <2>3. QED
    BY <2>1, <2>2
<1> DEFINE t == Appending(s)
<1>11. SyncOK(t) /\ t.render = render /\ t.placed = n
  BY <1>7, <1>10 DEF SameRows
<1>12. /\ remote' \in Seq({"live", "parked"}) /\ Len(remote') <= MaxSteps
       /\ Len(remote) <= Len(remote') /\ n <= Len(remote')
  BY <1>1, <1>2, <1>5, ShellsType
<1>13. /\ faults' \in 0 .. MaxFaults /\ runs' \in {"no", "sync", "agent"}
       /\ unseen' \in BOOLEAN
  BY <1>1, <1>2, CallFaults, RaceType DEF BeginSync
<1> HIDE DEF t
<1>14. sync' = t
  BY <1>8 DEF t
<1>15. QED
  BY <1>1, <1>3, <1>11, <1>12, <1>13, <1>14, SessionStep

LEMMA PushFailsStep ==
  ASSUME IInv, NEW launching \in BOOLEAN, PushFails(launching) PROVE IInv'
<1>1. /\ TypeOK /\ sync = NoSync /\ Len(steps) \in 0 .. MaxSteps
      /\ placed \in 0 .. Len(steps) /\ placed <= Len(remote) /\ Len(remote) \in Nat
  BY StepPositions, Idle DEF IInv, TypeOK, PushFails
<1> DEFINE last == IF InUse THEN placed ELSE Len(steps)
<1>2. PICK n \in 0 .. last, answer \in {"failed", "lost"}, dies \in BOOLEAN :
        /\ Call(answer)
        /\ placed' = IF dies THEN placed ELSE Larger(placed, n)
        /\ remote' = ShellsUpTo(IF answer = "lost" /\ n < last THEN n + 1 ELSE n)
        /\ runs' = IF answer = "lost" /\ n = last /\ ~InUse /\ campaign = "ACTIVE"
                     THEN "sync" ELSE runs
  BY DEF PushFails
<1>3. UNCHANGED <<campaign, steps, created, member, render, sync, lead, own, unseen, request>>
  BY DEF PushFails
<1>4. last \in 0 .. Len(steps)
  BY <1>1
<1> HIDE DEF last
<1> DEFINE j == IF answer = "lost" /\ n < last THEN n + 1 ELSE n
<1>5. j \in 0 .. MaxSteps /\ j >= n
  BY <1>1, <1>4, BoundAssumption
<1>6. remote' = ShellsUpTo(j)
  BY <1>2
<1> HIDE DEF j
<1>7. /\ remote' \in Seq({"live", "parked"}) /\ Len(remote') <= MaxSteps
      /\ Len(remote') >= j /\ Len(remote') >= Len(remote) /\ Len(remote') \in Nat
  BY <1>1, <1>5, <1>6, ShellsType
<1>8. placed' \in placed .. Len(steps) /\ placed' <= Len(remote')
  BY <1>1, <1>2, <1>4, <1>5, <1>7 DEF Larger
<1>9. faults' \in 0 .. MaxFaults /\ runs' \in {"no", "sync", "agent"}
  BY <1>1, <1>2, CallFaults DEF TypeOK
<1>10. TypeOK'
  <2> HIDE DEF Members, Renders, LemlistLeads, Syncs, Ids, PendingRequests
  <2>1. placed' \in 0 .. Len(steps)
    BY <1>1, <1>8
  <2>2. QED
    BY <1>1, <1>3, <1>7, <1>8, <1>9, <2>1 DEF TypeOK
<1>11. Pushed(member, render, placed)'
  <2>1. \A k \in Positions : \A id : Stays(k, id, placed) => Stays(k, id, placed')
    BY <1>1, <1>8 DEF Stays, Positions
  <2>2. Pushed(member, render, placed)
    BY DEF IInv
  <2>3. Pushed(member, render, placed')
    BY <2>1, <2>2 DEF Pushed
  <2>4. QED
    BY <1>3, <2>3 DEF Pushed, Stays
<1>12. StepsOK' /\ Faithful(render, own)'
  BY <1>3 DEF IInv, StepsOK, Faithful
<1>13. QED
  BY <1>1, <1>3, <1>10, <1>11, <1>12, IdleStep

\* A change of the sequence keeps the steps placed where they are, once a
\* lead is at Lemlist, and brings no id back.
LEMMA SequenceStep ==
  ASSUME IInv, sync = NoSync, UNCHANGED <<sync, render, own>>, TypeOK', StepsOK',
         \A l \in Leads : member'[l].known = member[l].known,
         created <= created',
         \A j \in DOMAIN steps' :
           steps'[j] > created \/ \E i \in DOMAIN steps : steps'[j] = steps[i],
         InUse => \A k \in DOMAIN steps : k <= placed =>
           \/ k <= placed' /\ k \in DOMAIN steps' /\ steps'[k] = steps[k]
           \/ \A j \in DOMAIN steps' : steps'[j] # steps[k]
  PROVE  IInv'
<1>1. /\ TypeOK /\ StepsOK /\ Pushed(member, render, placed) /\ Faithful(render, own)
      /\ created \in Nat /\ created' \in Nat /\ render \in [Leads -> Renders]
  BY DEF IInv, TypeOK
<1>2. ASSUME NEW l \in Leads, NEW k \in Positions, render[l][k] # NoId
      PROVE  /\ member[l].known /\ render[l][k] <= created
             /\ render[l][k] \in Nat /\ InUse
             /\ \/ k <= placed /\ k \in DOMAIN steps /\ steps[k] = render[l][k]
                \/ \A j \in DOMAIN steps : steps[j] # render[l][k]
  BY <1>1, <1>2, BoundAssumption DEF Pushed, Stays, InUse, Renders, Ids, NoId
<1>3. ASSUME NEW l \in Leads, NEW k \in Positions, render[l][k] # NoId
      PROVE  \/ k <= placed' /\ k \in DOMAIN steps' /\ steps'[k] = render[l][k]
             \/ \A j \in DOMAIN steps' : steps'[j] # render[l][k]
  <2> DEFINE id == render[l][k]
  <2>1. id <= created /\ id \in Nat /\ InUse
    BY <1>2, <1>3
  <2>2. CASE k <= placed /\ k \in DOMAIN steps /\ steps[k] = id
    BY <2>1, <2>2
  <2>3. CASE \A j \in DOMAIN steps : steps[j] # id
    <3> HIDE DEF id
    <3>1. ASSUME NEW j \in DOMAIN steps', steps'[j] = id PROVE FALSE
      <4>1. ~(steps'[j] > created)
        BY <1>1, <2>1, <3>1
      <4>2. QED
        BY <2>3, <3>1, <4>1
    <3>2. QED
      BY <3>1 DEF id
  <2>4. QED
    BY <1>2, <1>3, <2>2, <2>3
<1>4. Pushed(member, render, placed)'
  <2>1. ASSUME NEW l \in Leads, NEW k \in Positions, render[l][k] # NoId
        PROVE  /\ member'[l].known /\ render[l][k] <= created'
               /\ \/ k <= placed' /\ k \in DOMAIN steps' /\ steps'[k] = render[l][k]
                  \/ \A j \in DOMAIN steps' : steps'[j] # render[l][k]
    BY <1>1, <1>2, <1>3, <2>1
  <2>2. QED
    BY <2>1 DEF Pushed, Stays
<1>5. Faithful(render, own)'
  <2>1. /\ DOMAIN steps' \subseteq Positions
        /\ \A k \in DOMAIN steps' : steps'[k] # NoId
    BY BoundAssumption DEF TypeOK, Positions, Ids, NoId
  <2>2. ASSUME NEW l \in Leads, NEW k \in DOMAIN steps', render[l][k] = steps'[k]
        PROVE  own[l][k] = steps'[k]
    <3>1. k \in Positions /\ render[l][k] # NoId
      BY <2>1, <2>2
    <3>2. PICK i \in DOMAIN steps : steps'[k] = steps[i]
      <4>1. ~(steps'[k] > created)
        BY <1>1, <1>2, <2>2, <3>1
      <4>2. QED
        BY <4>1
    <3>3. k \in DOMAIN steps /\ steps[k] = render[l][k]
      BY <1>2, <2>2, <3>1, <3>2
    <3>4. QED
      BY <1>1, <2>2, <3>3 DEF Faithful
  <2>3. QED
    BY <2>2 DEF Faithful
<1>6. QED
  BY <1>4, <1>5, IdleStep

\* What the library's InsertAt and RemoveAt return.
LEMMA PartOf ==
  ASSUME NEW S, NEW s \in Seq(S), NEW m \in 1 .. Len(s) + 1, NEW n \in 0 .. Len(s),
         n >= m - 1
  PROVE  /\ SubSeq(s, m, n) \in Seq(S) /\ Len(SubSeq(s, m, n)) = n - m + 1
         /\ \A j \in 1 .. n - m + 1 : SubSeq(s, m, n)[j] = s[m + j - 1]
<1>1. m \in Int /\ n \in Int /\ Len(s) \in Nat /\ \A j \in m .. n : s[j] \in S
  OBVIOUS
<1>2. /\ SubSeq(s, m, n) \in Seq(S)
      /\ Len(SubSeq(s, m, n)) = IF m <= n THEN n - m + 1 ELSE 0
      /\ \A j \in 1 .. n - m + 1 : SubSeq(s, m, n)[j] = s[m + j - 1]
  BY <1>1, SubSeqProperties
<1>3. QED
  BY <1>1, <1>2

LEMMA Inserted ==
  ASSUME NEW S, NEW s \in Seq(S), NEW k \in 1 .. Len(s) + 1, NEW x \in S
  PROVE  /\ InsertAt(s, k, x) \in Seq(S) /\ Len(InsertAt(s, k, x)) = Len(s) + 1
         /\ \A j \in 1 .. Len(s) + 1 :
              InsertAt(s, k, x)[j] = IF j < k THEN s[j]
                                     ELSE IF j = k THEN x ELSE s[j - 1]
<1> DEFINE t == InsertAt(s, k, x)
           a == SubSeq(s, 1, k - 1)
           b == SubSeq(s, k, Len(s))
           o == <<x>>
           c == a \o o
           n == Len(s)
<1>1. n \in Nat /\ k \in 1 .. n + 1 /\ t = c \o b
  BY DEF InsertAt
<1>2. /\ a \in Seq(S) /\ Len(a) = k - 1 /\ \A j \in 1 .. k - 1 : a[j] = s[j]
  <2>1. 1 \in 1 .. Len(s) + 1 /\ k - 1 \in 0 .. Len(s) /\ k - 1 >= 1 - 1
    BY <1>1
  <2>2. /\ a \in Seq(S) /\ Len(a) = (k - 1) - 1 + 1
        /\ \A j \in 1 .. (k - 1) - 1 + 1 : a[j] = s[1 + j - 1]
    BY <2>1, PartOf
  <2> HIDE DEF a
  <2>3. QED
    BY <1>1, <2>2
<1>3. /\ b \in Seq(S) /\ Len(b) = n - k + 1
      /\ \A j \in 1 .. n - k + 1 : b[j] = s[k + j - 1]
  BY <1>1, PartOf
<1>4. o \in Seq(S) /\ Len(o) = 1 /\ o[1] = x
  OBVIOUS
<1> HIDE DEF a, b, o, n, t
<1>5. /\ c \in Seq(S) /\ Len(c) = Len(a) + Len(o)
      /\ \A j \in 1 .. Len(a) + Len(o) :
           c[j] = IF j <= Len(a) THEN a[j] ELSE o[j - Len(a)]
  BY <1>2, <1>4, ConcatProperties
<1> HIDE DEF c
<1>6. /\ t \in Seq(S) /\ Len(t) = Len(c) + Len(b)
      /\ \A j \in 1 .. Len(c) + Len(b) :
           t[j] = IF j <= Len(c) THEN c[j] ELSE b[j - Len(c)]
  <2>1. c \in Seq(S) /\ b \in Seq(S)
    BY <1>3, <1>5
  <2>2. /\ c \o b \in Seq(S) /\ Len(c \o b) = Len(c) + Len(b)
        /\ \A j \in 1 .. Len(c) + Len(b) :
             (c \o b)[j] = IF j <= Len(c) THEN c[j] ELSE b[j - Len(c)]
    BY <2>1, ConcatProperties
  <2>3. QED
    BY <1>1, <2>2, Zenon
<1>7. /\ Len(c) = k /\ Len(t) = n + 1
      /\ \A j \in 1 .. k : c[j] = IF j < k THEN s[j] ELSE x
  BY <1>1, <1>2, <1>3, <1>4, <1>5, <1>6
<1>8. ASSUME NEW j \in 1 .. n + 1
      PROVE  t[j] = IF j < k THEN s[j] ELSE IF j = k THEN x ELSE s[j - 1]
  <2>1. CASE j <= k
    BY <1>1, <1>3, <1>6, <1>7, <2>1
  <2>2. CASE j > k
    <3>1. j - k \in 1 .. n - k + 1 /\ k + (j - k) - 1 = j - 1
      BY <1>1, <2>2
    <3>2. t[j] = b[j - k]
      BY <1>1, <1>3, <1>6, <1>7, <2>2
    <3>3. b[j - k] = s[j - 1]
      BY <1>3, <3>1
    <3>4. QED
      BY <1>1, <2>2, <3>2, <3>3
  <2>3. j <= k \/ j > k
    BY <1>1
  <2>4. QED
    BY <2>1, <2>2, <2>3
<1>9. QED
  BY <1>6, <1>7, <1>8 DEF n, t

LEMMA Removed ==
  ASSUME NEW S, NEW s \in Seq(S), NEW k \in 1 .. Len(s)
  PROVE  /\ RemoveAt(s, k) \in Seq(S) /\ Len(RemoveAt(s, k)) = Len(s) - 1
         /\ \A j \in 1 .. Len(s) - 1 :
              RemoveAt(s, k)[j] = IF j < k THEN s[j] ELSE s[j + 1]
<1> DEFINE t == RemoveAt(s, k)
           a == SubSeq(s, 1, k - 1)
           b == SubSeq(s, k + 1, Len(s))
           n == Len(s)
<1>1. n \in Nat /\ k \in 1 .. n /\ t = a \o b
  BY DEF RemoveAt
<1>2. /\ a \in Seq(S) /\ Len(a) = k - 1 /\ \A j \in 1 .. k - 1 : a[j] = s[j]
  <2>1. 1 \in 1 .. Len(s) + 1 /\ k - 1 \in 0 .. Len(s) /\ k - 1 >= 1 - 1
    BY <1>1
  <2>2. /\ a \in Seq(S) /\ Len(a) = (k - 1) - 1 + 1
        /\ \A j \in 1 .. (k - 1) - 1 + 1 : a[j] = s[1 + j - 1]
    BY <2>1, PartOf
  <2> HIDE DEF a
  <2>3. QED
    BY <1>1, <2>2
<1>3. /\ b \in Seq(S) /\ Len(b) = n - k
      /\ \A j \in 1 .. n - k : b[j] = s[k + j]
  <2>1. k + 1 \in 1 .. Len(s) + 1 /\ Len(s) \in 0 .. Len(s) /\ Len(s) >= (k + 1) - 1
    BY <1>1
  <2>2. /\ b \in Seq(S) /\ Len(b) = Len(s) - (k + 1) + 1
        /\ \A j \in 1 .. Len(s) - (k + 1) + 1 : b[j] = s[(k + 1) + j - 1]
    BY <2>1, PartOf
  <2>3. Len(s) - (k + 1) + 1 = n - k /\ \A j \in 1 .. n - k : (k + 1) + j - 1 = k + j
    BY <1>1
  <2> HIDE DEF b
  <2>4. QED
    BY <1>1, <2>2, <2>3
<1> HIDE DEF a, b, n, t
<1>4. /\ t \in Seq(S) /\ Len(t) = Len(a) + Len(b)
      /\ \A j \in 1 .. Len(a) + Len(b) :
           t[j] = IF j <= Len(a) THEN a[j] ELSE b[j - Len(a)]
  <2>1. a \in Seq(S) /\ b \in Seq(S)
    BY <1>2, <1>3
  <2>2. /\ a \o b \in Seq(S) /\ Len(a \o b) = Len(a) + Len(b)
        /\ \A j \in 1 .. Len(a) + Len(b) :
             (a \o b)[j] = IF j <= Len(a) THEN a[j] ELSE b[j - Len(a)]
    BY <2>1, ConcatProperties
  <2>3. QED
    BY <1>1, <2>2, Zenon
<1>5. Len(t) = n - 1
  BY <1>1, <1>2, <1>3, <1>4
<1>6. ASSUME NEW j \in 1 .. n - 1
      PROVE  t[j] = IF j < k THEN s[j] ELSE s[j + 1]
  <2>1. CASE j < k
    BY <1>1, <1>2, <1>3, <1>4, <2>1
  <2>2. CASE ~(j < k)
    <3>1. /\ j - (k - 1) \in 1 .. n - k /\ k + (j - (k - 1)) = j + 1
          /\ ~(j <= k - 1) /\ j \in 1 .. (k - 1) + (n - k)
      BY <1>1, <2>2
    <3>2. t[j] = b[j - (k - 1)]
      BY <1>2, <1>3, <1>4, <3>1
    <3>3. b[j - (k - 1)] = s[j + 1]
      BY <1>3, <3>1
    <3>4. QED
      BY <2>2, <3>2, <3>3
  <2>3. QED
    BY <2>1, <2>2
<1>7. QED
  BY <1>4, <1>5, <1>6 DEF n, t

LEMMA CreateStepStep ==
  ASSUME IInv, NEW k \in Positions, CreateStep(k) PROVE IInv'
<1>1. /\ TypeOK /\ StepsOK /\ sync = NoSync
      /\ steps \in Seq(Ids) /\ Len(steps) \in Nat /\ DOMAIN steps = 1 .. Len(steps)
      /\ created \in 0 .. MaxIds /\ placed \in 0 .. Len(steps)
  BY StepPositions, Idle DEF IInv, TypeOK, CreateStep
<1>2. /\ Len(steps) < MaxSteps /\ created < MaxIds /\ created' = created + 1
      /\ k \in 1 .. Len(steps) + 1 /\ (InUse => k = Len(steps) + 1)
      /\ steps' = InsertAt(steps, k, created')
      /\ UNCHANGED <<campaign, placed, member, render, sync, runs, remote, lead, own,
                     faults, unseen, request>>
  BY DEF CreateStep, lemlist
<1>3. created' \in Ids
  BY <1>1, <1>2, BoundAssumption DEF Ids
<1>4. /\ steps' \in Seq(Ids) /\ Len(steps') = Len(steps) + 1
      /\ DOMAIN steps' = 1 .. Len(steps) + 1
      /\ \A j \in 1 .. Len(steps) + 1 :
           steps'[j] = IF j < k THEN steps[j] ELSE IF j = k THEN created' ELSE steps[j - 1]
  <2>1. k \in 1 .. Len(steps) + 1
    BY <1>2
  <2> HIDE DEF Ids
  <2>2. steps \in Seq(Ids) /\ steps' = InsertAt(steps, k, created') /\ created' \in Ids
    BY <1>1, <1>2, <1>3
  <2>3. /\ InsertAt(steps, k, created') \in Seq(Ids)
        /\ Len(InsertAt(steps, k, created')) = Len(steps) + 1
        /\ \A j \in 1 .. Len(steps) + 1 :
             InsertAt(steps, k, created')[j] =
               IF j < k THEN steps[j] ELSE IF j = k THEN created' ELSE steps[j - 1]
    BY <2>1, <2>2, Inserted
  <2>4. /\ steps' \in Seq(Ids) /\ Len(steps') = Len(steps) + 1
        /\ \A j \in 1 .. Len(steps) + 1 :
             steps'[j] = IF j < k THEN steps[j] ELSE IF j = k THEN created' ELSE steps[j - 1]
    BY <2>2, <2>3, Zenon
  <2>5. QED
    BY <1>1, <2>4
<1>5. TypeOK'
  <2>1. placed' \in 0 .. Len(steps') /\ Len(steps') <= MaxSteps
        /\ created' \in 0 .. MaxIds
    BY <1>1, <1>2, <1>4, BoundAssumption
  <2> HIDE DEF Members, Renders, LemlistLeads, Syncs, Ids, PendingRequests
  <2>2. QED
    BY <1>1, <1>2, <1>4, <2>1 DEF TypeOK
<1>6. /\ \A j \in 1 .. Len(steps) : steps[j] \in Nat /\ steps[j] >= 1 /\ steps[j] <= created
      /\ \A i, j \in 1 .. Len(steps) : steps[i] = steps[j] => i = j
  BY <1>1 DEF StepsOK, IsInjective
<1>7. ASSUME NEW j \in 1 .. Len(steps) + 1
      PROVE  \/ j < k /\ j \in 1 .. Len(steps) /\ steps'[j] = steps[j]
             \/ j = k /\ steps'[j] = created + 1
             \/ j > k /\ j - 1 \in 1 .. Len(steps) /\ steps'[j] = steps[j - 1]
  BY <1>1, <1>2, <1>4
<1>8. StepsOK'
  <2>1. \A j \in DOMAIN steps' : steps'[j] \in 1 .. created'
    BY <1>1, <1>2, <1>4, <1>6, <1>7
  <2>2. ASSUME NEW i \in 1 .. Len(steps) + 1, NEW j \in 1 .. Len(steps) + 1,
               steps'[i] = steps'[j]
        PROVE  i = j
    BY <1>1, <1>2, <1>6, <1>7, <2>2
  <2>3. IsInjective(steps')
    BY <1>4, <2>2 DEF IsInjective
  <2>4. QED
    BY <2>1, <2>3 DEF StepsOK
<1>9. \A j \in DOMAIN steps' :
        steps'[j] > created \/ \E i \in DOMAIN steps : steps'[j] = steps[i]
  <2>1. ASSUME NEW j \in 1 .. Len(steps) + 1
        PROVE  steps'[j] > created \/ \E i \in 1 .. Len(steps) : steps'[j] = steps[i]
    <3>1. CASE j < k
      BY <1>2, <1>7, <3>1
    <3>2. CASE j = k
      <4>1. steps'[j] = created + 1 /\ created \in Nat
        BY <1>1, <1>7, <3>2
      <4>2. QED
        BY <4>1
    <3>3. CASE j > k
      <4>1. j - 1 \in 1 .. Len(steps) /\ steps'[j] = steps[j - 1]
        BY <1>2, <1>7, <3>3
      <4>2. QED
        BY <4>1
    <3>4. QED
      BY <1>2, <3>1, <3>2, <3>3
  <2>2. QED
    BY <1>1, <1>4, <2>1
<1>10. InUse => \A j \in DOMAIN steps : j <= placed =>
         \/ j <= placed' /\ j \in DOMAIN steps' /\ steps'[j] = steps[j]
         \/ \A i \in DOMAIN steps' : steps'[i] # steps[j]
  BY <1>1, <1>2, <1>4
<1>11. created <= created' /\ \A l \in Leads : member'[l].known = member[l].known
  BY <1>1, <1>2
<1>12. QED
  BY <1>1, <1>2, <1>5, <1>8, <1>9, <1>10, <1>11, SequenceStep

LEMMA CompletedRows ==
  ASSUME TypeOK, NEW last
  PROVE  /\ CompleteWaiting(last) \in [Leads -> Members]
         /\ \A l \in Leads : CompleteWaiting(last)[l].known = member[l].known
<1>1. ASSUME NEW m \in Members
      PROVE  /\ [m EXCEPT !.status = "completed"] \in Members
             /\ [m EXCEPT !.status = "completed"].known = m.known
  BY DEF Members, MemberStatuses
<1>2. \A l \in Leads : member[l] \in Members
  BY DEF TypeOK
<1> HIDE DEF Members
<1>3. QED
  BY <1>1, <1>2 DEF CompleteWaiting

LEMMA DeleteStepStep ==
  ASSUME IInv, NEW k \in Positions, DeleteStep(k) PROVE IInv'
<1>1. /\ TypeOK /\ StepsOK /\ sync = NoSync /\ member \in [Leads -> Members]
      /\ steps \in Seq(Ids) /\ Len(steps) \in Nat /\ DOMAIN steps = 1 .. Len(steps)
      /\ Len(steps) <= MaxSteps /\ created \in Nat
      /\ placed \in 0 .. Len(steps) /\ placed <= Len(remote)
      /\ remote \in Seq({"live", "parked"}) /\ Len(remote) <= MaxSteps
  BY StepPositions, Idle DEF IInv, TypeOK, DeleteStep
<1>2. /\ k \in 1 .. Len(steps) /\ steps' = RemoveAt(steps, k)
      /\ UNCHANGED <<campaign, created, render, sync, runs, lead, own, faults, unseen, request>>
      /\ DropFree(k) \/ DropInUse(k)
  BY <1>1 DEF DeleteStep
<1>3. /\ steps' \in Seq(Ids) /\ Len(steps') = Len(steps) - 1
      /\ DOMAIN steps' = 1 .. Len(steps) - 1
      /\ \A j \in 1 .. Len(steps) - 1 : steps'[j] = IF j < k THEN steps[j] ELSE steps[j + 1]
  <2>1. steps \in Seq(Ids) /\ k \in 1 .. Len(steps) /\ steps' = RemoveAt(steps, k)
    BY <1>1, <1>2
  <2>2. /\ RemoveAt(steps, k) \in Seq(Ids) /\ Len(RemoveAt(steps, k)) = Len(steps) - 1
        /\ \A j \in 1 .. Len(steps) - 1 :
             RemoveAt(steps, k)[j] = IF j < k THEN steps[j] ELSE steps[j + 1]
    BY <2>1, Removed
  <2>3. /\ steps' \in Seq(Ids) /\ Len(steps') = Len(steps) - 1
        /\ \A j \in 1 .. Len(steps) - 1 :
             steps'[j] = IF j < k THEN steps[j] ELSE steps[j + 1]
    BY <2>1, <2>2, Zenon
  <2>4. QED
    BY <1>1, <2>3
\* What each of the two deletions does to the shells.
<1>4. /\ member' \in [Leads -> Members]
      /\ \A l \in Leads : member'[l].known = member[l].known
      /\ remote' \in Seq({"live", "parked"}) /\ Len(remote') <= MaxSteps
      /\ placed' \in 0 .. Len(steps) - 1 /\ placed' <= Len(remote')
      /\ InUse => \/ k > placed /\ placed' = placed
                  \/ k = placed /\ placed' = placed - 1
  <2>1. CASE DropFree(k)
    <3>1. /\ ~InUse /\ member' = member
          /\ \/ placed = Len(steps) /\ remote' = RemoveAt(remote, placed) /\ placed' = placed - 1
             \/ placed # Len(steps) /\ remote' = remote /\ placed' = placed
      BY <2>1 DEF DropFree
    <3>2. placed = Len(steps) =>
            /\ RemoveAt(remote, placed) \in Seq({"live", "parked"})
            /\ Len(RemoveAt(remote, placed)) = Len(remote) - 1
      <4>1. placed = Len(steps) => placed \in 1 .. Len(remote)
        BY <1>1, <1>2
      <4>2. QED
        BY <1>1, <4>1, Removed, Zenon
    <3>3. member' \in [Leads -> Members] /\ \A l \in Leads : member'[l].known = member[l].known
      BY <1>1, <3>1, Zenon
    <3>4. CASE placed = Len(steps) /\ remote' = RemoveAt(remote, placed) /\ placed' = placed - 1
      <4>1. remote' \in Seq({"live", "parked"}) /\ Len(remote') = Len(remote) - 1
        BY <3>2, <3>4, Zenon
      <4>2. Len(remote) \in Nat
        BY <1>1
      <4>3. /\ Len(remote') <= MaxSteps /\ placed' \in 0 .. Len(steps) - 1
            /\ placed' <= Len(remote')
        BY <1>1, <1>2, <3>4, <4>1, <4>2, BoundAssumption
      <4>4. QED
        BY <3>1, <3>3, <4>1, <4>3, Zenon
    <3>5. CASE placed # Len(steps) /\ remote' = remote /\ placed' = placed
      <4>1. placed' \in 0 .. Len(steps) - 1
        <5>1. Len(steps) \in Nat /\ placed \in 0 .. Len(steps)
          BY <1>1
        <5>2. placed # Len(steps) /\ placed' = placed
          BY <3>5
        <5> HIDE DEF Members
        <5>3. QED
          BY <5>1, <5>2
      <4>2. QED
        BY <1>1, <3>1, <3>3, <3>5, <4>1, Zenon
    <3>6. QED
      BY <3>1, <3>4, <3>5
  <2>2. CASE DropInUse(k)
    <3>1. CASE k > placed
      <4>1. remote' = remote /\ placed' = placed /\ member' = member
        BY <2>2, <3>1 DEF DropInUse
      <4> HIDE DEF Members
      <4>2. QED
        BY <1>1, <1>2, <3>1, <4>1
    <3>2. CASE ~(k > placed)
      <4>1. /\ k = placed /\ remote' = [remote EXCEPT ![k] = "parked"]
            /\ placed' = placed - 1 /\ member' = CompleteWaiting(k - 1)
        BY <2>2, <3>2 DEF DropInUse
      <4>2. /\ remote' \in Seq({"live", "parked"}) /\ Len(remote') = Len(remote)
        BY <1>1, <1>2, <4>1
      <4>3. /\ member' \in [Leads -> Members]
            /\ \A l \in Leads : member'[l].known = member[l].known
        BY <1>1, <4>1, CompletedRows, Zenon
      <4>4. /\ placed' \in 0 .. Len(steps) - 1 /\ placed' <= Len(remote')
            /\ k = placed /\ placed' = placed - 1 /\ Len(remote') <= MaxSteps
        BY <1>1, <1>2, <4>1, <4>2
      <4> HIDE DEF Members
      <4>5. QED
        BY <4>2, <4>3, <4>4
    <3>3. QED
      BY <3>1, <3>2
  <2>3. QED
    BY <1>2, <2>1, <2>2
<1>5. TypeOK'
  <2>1. placed' \in 0 .. Len(steps') /\ Len(steps') <= MaxSteps
    BY <1>1, <1>2, <1>3, <1>4, BoundAssumption
  <2> HIDE DEF Members, Renders, LemlistLeads, Syncs, Ids, PendingRequests
  <2>2. QED
    BY <1>1, <1>2, <1>3, <1>4, <2>1 DEF TypeOK
<1>6. /\ \A j \in 1 .. Len(steps) : steps[j] \in 1 .. created
      /\ \A i, j \in 1 .. Len(steps) : steps[i] = steps[j] => i = j
  BY <1>1 DEF StepsOK, IsInjective
<1>7. ASSUME NEW j \in 1 .. Len(steps) - 1
      PROVE  \/ j < k /\ j \in 1 .. Len(steps) /\ steps'[j] = steps[j]
             \/ j >= k /\ j + 1 \in 1 .. Len(steps) /\ steps'[j] = steps[j + 1]
  BY <1>1, <1>2, <1>3
<1>8. StepsOK'
  <2>1. \A j \in DOMAIN steps' : steps'[j] \in 1 .. created'
    BY <1>1, <1>2, <1>3, <1>6, <1>7
  <2>2. ASSUME NEW i \in 1 .. Len(steps) - 1, NEW j \in 1 .. Len(steps) - 1,
               steps'[i] = steps'[j]
        PROVE  i = j
    BY <1>1, <1>2, <1>6, <1>7, <2>2
  <2>3. IsInjective(steps')
    BY <1>3, <2>2 DEF IsInjective
  <2>4. QED
    BY <2>1, <2>3 DEF StepsOK
<1>9. \A j \in DOMAIN steps' : \E i \in DOMAIN steps : steps'[j] = steps[i]
  BY <1>1, <1>3, <1>7
<1>10. ASSUME InUse, NEW j \in DOMAIN steps, j <= placed
       PROVE  \/ j <= placed' /\ j \in DOMAIN steps' /\ steps'[j] = steps[j]
              \/ \A i \in DOMAIN steps' : steps'[i] # steps[j]
  <2>1. CASE j < k
    BY <1>1, <1>2, <1>3, <1>4, <1>10, <2>1
  <2>2. CASE j = k
    <3>1. \A i \in DOMAIN steps' : steps'[i] # steps[k]
      <4>1. ASSUME NEW i \in 1 .. Len(steps) - 1, steps'[i] = steps[k] PROVE FALSE
        <5>1. CASE i < k
          <6>1. i \in 1 .. Len(steps) /\ steps'[i] = steps[i] /\ i # k
            BY <1>1, <1>2, <1>7, <5>1
          <6>2. QED
            BY <1>2, <1>6, <4>1, <6>1
        <5>2. CASE i >= k
          <6>1. i + 1 \in 1 .. Len(steps) /\ steps'[i] = steps[i + 1] /\ i + 1 # k
            BY <1>1, <1>2, <1>7, <5>2
          <6>2. QED
            BY <1>2, <1>6, <4>1, <6>1
        <5>3. QED
          BY <1>2, <5>1, <5>2
      <4>2. QED
        BY <1>1, <1>3, <4>1
    <3>2. QED
      BY <2>2, <3>1
  <2>3. QED
    BY <1>1, <1>2, <1>4, <1>10, <2>1, <2>2
<1>11. created <= created'
  BY <1>1, <1>2
<1>12. QED
  BY <1>1, <1>2, <1>4, <1>5, <1>8, <1>9, <1>10, <1>11, SequenceStep

---------------------------------------------------------------------------
LEMMA InitIInv == Init => IInv
<1> SUFFICES ASSUME Init PROVE IInv
  OBVIOUS
<1>1. /\ campaign = "DRAFT" /\ steps = <<1>> /\ created = 1 /\ placed = 1
      /\ sync = NoSync /\ runs = "no" /\ remote = <<"live">> /\ faults = 0
      /\ unseen = FALSE /\ request = [q \in Requests |-> NoRequest]
  BY DEF Init
<1>2. /\ 1 \in Ids /\ 1 \in 0 .. MaxIds /\ 0 \in 0 .. MaxFaults
      /\ 1 \in Positions /\ 0 \in 0 .. MaxSteps /\ 1 <= MaxSteps
  BY BoundAssumption DEF Ids, Positions
<1>3. /\ steps \in Seq(Ids) /\ Len(steps) = 1 /\ DOMAIN steps = {1} /\ steps[1] = 1
  BY <1>1, <1>2
<1>4. remote \in Seq({"live", "parked"}) /\ Len(remote) = 1
  BY <1>1
<1> DEFINE m == [status |-> "ready", step |-> 0, heard |-> 0, known |-> FALSE,
                 launched |-> FALSE]
           r == [k \in Positions |-> NoId]
           o == [stage |-> "none", paused |-> FALSE, at |-> 0]
<1>5. m \in Members /\ r \in Renders /\ o \in LemlistLeads
  BY <1>2 DEF Members, MemberStatuses, Renders, LemlistLeads
<1>6. \A k \in Positions : r[k] = NoId
  OBVIOUS
<1>7. /\ member = [l \in Leads |-> m] /\ render = [l \in Leads |-> r]
      /\ lead = [l \in Leads |-> o] /\ own = [l \in Leads |-> r]
  BY DEF Init
<1> HIDE DEF m, r, o
<1>8. TypeOK
  <2> HIDE DEF Members, Renders, LemlistLeads, Syncs, Ids, NoSync, PendingRequests,
               NoRequest
  <2>1. placed \in 0 .. Len(steps) /\ placed <= Len(remote)
        /\ Len(steps) <= MaxSteps /\ Len(remote) <= MaxSteps
    BY <1>1, <1>2, <1>3, <1>4
  <2>2. /\ member \in [Leads -> Members] /\ render \in [Leads -> Renders]
        /\ lead \in [Leads -> LemlistLeads] /\ own \in [Leads -> Renders]
    BY <1>5, <1>7
  <2>3. QED
    BY <1>1, <1>2, <1>3, <1>4, <2>1, <2>2 DEF TypeOK
<1>9. StepsOK
  <2>1. steps[1] \in 1 .. created
    BY <1>1, <1>3
  <2>2. QED
    BY <1>3, <2>1 DEF StepsOK, IsInjective
<1>10. Pushed(member, render, placed)
  BY <1>6, <1>7 DEF Pushed
<1>11. Faithful(render, own)
  BY <1>7 DEF Faithful
<1>12. QED
  BY <1>1, <1>8, <1>9, <1>10, <1>11 DEF IInv

LEMMA NextIInv == IInv /\ [Next]_vars => IInv'
<1> SUFFICES ASSUME IInv, [Next]_vars PROVE IInv'
  OBVIOUS
<1>1. ASSUME NEW l \in Leads,
             \/ Send(l) \/ EndLead(l) \/ Webhook(l)
             \/ \E paused \in BOOLEAN : MirrorPause(l, paused)
             \/ RenderNewStep(l) \/ RefreshLead(l) \/ PushMember(l)
      PROVE  IInv'
  BY <1>1, SendStep, EndLeadStep, WebhookStep, MirrorPauseStep, RenderNewStepStep,
     RefreshLeadStep, PushMemberStep, Zenon
<1>0. ASSUME NEW q \in Requests,
             \/ \E l \in Leads : BeginPause(q, l) \/ BeginResume(q, l)
             \/ CallLemlist(q) \/ WriteStatus(q)
      PROVE  IInv'
  BY <1>0, BeginPauseStep, BeginResumeStep, CallLemlistStep, WriteStatusStep, Zenon
<1>2. ASSUME NEW launching \in BOOLEAN, BeginSync(launching) PROVE IInv'
  BY <1>2, BeginSyncStep
<1>3. ASSUME NEW launching \in BOOLEAN, PushFails(launching) PROVE IInv'
  BY <1>3, PushFailsStep
<1>4. CASE HoldCompleted
  BY <1>4, HoldCompletedStep
<1>5. CASE AppendNothing
  BY <1>5, AppendNothingStep
<1>6. CASE PlaceStep
  BY <1>6, PlaceStepStep
<1>7. CASE Finish
  BY <1>7, FinishStep
<1>8. CASE Crash
  BY <1>8, CrashStep
<1>9. ASSUME NEW target \in {"ACTIVE", "PAUSED"}, SetStatus(target) PROVE IInv'
  BY <1>9, SetStatusStep
<1>10. ASSUME NEW k \in Positions, CreateStep(k) PROVE IInv'
  BY <1>10, CreateStepStep
<1>11. ASSUME NEW k \in Positions, DeleteStep(k) PROVE IInv'
  BY <1>11, DeleteStepStep
<1>12. CASE UNCHANGED vars
  <2>1. /\ UNCHANGED <<steps, created, placed, render, sync, own, remote, request>>
        /\ campaign' = campaign /\ runs' = runs /\ member' = member
        /\ lead' = lead /\ faults' = faults /\ unseen' = unseen
    BY <1>12 DEF vars, lemlist
  <2>2. TypeOK
    BY DEF IInv
  <2>3. QED
    BY <2>1, <2>2, RowsStay, AroundStep
<1>13. QED
  BY <1>0, <1>1, <1>2, <1>3, <1>4, <1>5, <1>6, <1>7, <1>8, <1>9, <1>10, <1>11, <1>12,
     Zenon DEF Next

LEMMA Invariance == Spec => []IInv
<1>1. Init => IInv
  BY InitIInv
<1>2. IInv /\ [Next]_vars => IInv'
  BY NextIInv
<1>3. QED
  BY <1>1, <1>2, PTL DEF Spec

\* Every row, the session of the sync and Lemlist keep their types, and no
\* more steps are placed than the sequence and Lemlist have.
THEOREM TypesHold == Spec => []TypeOK
<1>1. IInv => TypeOK
  BY DEF IInv
<1>2. QED
  BY <1>1, Invariance, PTL

\* Whichever calls fail or lose their answer, wherever a sync dies, and
\* however the sequence is edited in between, an email counted as pushed is at
\* Lemlist (email_sync.py, _push_member and _refresh_in_flight).
THEOREM PushedIsThere == Spec => []RenderedIsPersonalized
<1>1. IInv => RenderedIsPersonalized
  BY DEF IInv, Faithful, RenderedIsPersonalized
<1>2. QED
  BY <1>1, Invariance, PTL

---------------------------------------------------------------------------
\* Who Lemlist sends to, once a sync has let the campaign run.

\* The steps a lead has still to get, up to n, are its own.
Owns(l, n) ==
  \A k \in DOMAIN steps : lead[l].at < k /\ k <= n => own[l][k] = steps[k]

\* No row is ahead of Lemlist, and a launched one is not READY again.
RowsOK(rows) ==
  \A l \in Leads : /\ rows[l].step <= lead[l].at
                   /\ rows[l].launched => rows[l].known /\ rows[l].status # "ready"

\* Only the sync launches, and writes the row it launches.
Session(s) ==
  /\ RowsOK(s.member)
  /\ \A l \in Leads : /\ member[l].launched => s.member[l].launched
                      /\ l \notin s.dirty => s.member[l].launched = member[l].launched

\* A row another has set running since, the sync saw running too.
Loaded(s) ==
  \A l \in Leads : l \notin s.dirty /\ s.member[l].launched /\ member[l].status \in Running
                     => s.member[l].status \in Running

\* What the database and what the sync let run is safe.
SafeRows ==
  \A l \in Leads : member[l].launched /\ member[l].status \in Running /\ Open(l)
                     => Owns(l, placed)
SafeSession(s) ==
  \A l \in Leads : s.member[l].launched /\ Status(s, l) \in Running /\ Open(l)
                     => Owns(l, s.placed)

Placing == {"place", "render"}

SafeInv ==
  /\ RowsOK(member)
  /\ runs = "sync" => campaign = "ACTIVE"
  /\ sync # NoSync => /\ Session(sync) /\ placed <= sync.placed
                      /\ sync.pc \in Placing => runs # "sync"
  /\ ~unseen =>
       /\ sync # NoSync => Loaded(sync)
       /\ runs = "sync" => SafeRows /\ (sync # NoSync => SafeSession(sync))

\* A resumption under way: no sync has begun since, and the recipient that
\* Lemlist is asked to let run has its own emails for the steps placed.
PendingOK(q) ==
  Resuming(q) =>
    /\ sync = NoSync
    /\ IF request[q].to = "ready"
         THEN request[q].pc = "write" /\ ~member[request[q].lead].known
         ELSE member[request[q].lead].known /\ Owns(request[q].lead, placed)

PendingInv == \A q \in Requests : PendingOK(q)

\* What the arithmetic of the steps needs of the types.
LEMMA LeadFields ==
  ASSUME TypeOK, NEW l \in Leads
  PROVE  /\ lead[l].at \in 0 .. MaxSteps /\ lead[l] \in LemlistLeads
         /\ member[l] \in Members /\ member[l].step \in 0 .. MaxSteps
         /\ member[l].launched \in BOOLEAN /\ member[l].known \in BOOLEAN
         /\ placed \in Nat /\ DOMAIN steps \subseteq Nat
<1>1. lead[l] \in LemlistLeads /\ member[l] \in Members
  BY DEF TypeOK
<1>2. placed \in Nat /\ DOMAIN steps \subseteq Nat
  BY StepPositions DEF TypeOK
<1>3. QED
  BY <1>1, <1>2 DEF LemlistLeads, Members

\* A lead passes steps, and gets emails, without losing its own.
LEMMA OwnsKept ==
  ASSUME TypeOK, TypeOK', steps' = steps, NEW l \in Leads, NEW n \in Nat,
         lead[l].at <= lead'[l].at,
         \A k \in DOMAIN steps : own[l][k] = steps[k] => own'[l][k] = steps[k],
         Owns(l, n), NEW m \in Nat, m <= n
  PROVE  Owns(l, m)'
<1>1. lead[l].at \in Nat /\ lead'[l].at \in Nat /\ DOMAIN steps \subseteq Nat
  <2>1. lead'[l] \in LemlistLeads
    BY DEF TypeOK
  <2>2. QED
    BY <2>1, LeadFields DEF LemlistLeads
<1>2. QED
  BY <1>1 DEF Owns

\* A step of others, around the sync: the rows they write stay within what
\* Lemlist has sent, and set nobody running whose emails are not there.
Gentle(l) ==
  /\ Open(l)' => Open(l)
  /\ member[l].launched /\ member'[l].status \in Running => member[l].status \in Running

LEMMA AroundSafe ==
  ASSUME IInv, IInv', SafeInv, UNCHANGED <<steps, placed, sync, own>>,
         \A l \in Leads : /\ lead[l].at <= lead'[l].at
                          /\ member'[l].step <= lead'[l].at
                          /\ member'[l].launched = member[l].launched
                          /\ member'[l].known = member[l].known
                          /\ member[l].launched => member'[l].status # "ready",
         runs' = "sync" => runs = "sync" /\ campaign' = "ACTIVE",
         ~unseen' => /\ ~unseen
                     /\ \A l \in Leads : Gentle(l) \/ (sync = NoSync /\ Owns(l, placed))
  PROVE  SafeInv'
<1>1. TypeOK /\ TypeOK'
  BY DEF IInv
<1>2. RowsOK(member)' /\ (runs = "sync" => campaign = "ACTIVE")'
  BY DEF SafeInv, RowsOK
<1>3. ASSUME sync # NoSync
      PROVE  /\ Session(sync)' /\ (placed <= sync.placed)'
             /\ (sync.pc \in Placing => runs # "sync")'
  <2>1. /\ Session(sync) /\ placed <= sync.placed
        /\ sync.pc \in Placing => runs # "sync"
    BY <1>3 DEF SafeInv
  <2>2. sync.member \in [Leads -> Members]
    <3>1. sync \in Syncs
      BY <1>1, <1>3 DEF TypeOK
    <3>2. QED
      BY <3>1, SyncFields
  <2>3. RowsOK(sync.member)'
    <3>1. ASSUME NEW l \in Leads PROVE sync.member[l].step <= lead'[l].at
      <4>1. sync.member[l].step <= lead[l].at /\ sync.member[l].step \in Nat
        BY <2>1, <2>2 DEF Session, RowsOK, Members
      <4>2. lead[l].at \in Nat /\ lead'[l].at \in Nat /\ lead[l].at <= lead'[l].at
        BY <1>1 DEF TypeOK, LemlistLeads
      <4>3. QED
        BY <4>1, <4>2
    <3>2. QED
      BY <2>1, <3>1 DEF Session, RowsOK
  <2>4. Session(sync)'
    BY <2>1, <2>3 DEF Session
  <2>5. QED
    BY <2>1, <2>4
<1>4. ASSUME ~unseen', sync # NoSync PROVE Loaded(sync)'
  <2>1. Loaded(sync) /\ Session(sync) /\ \A l \in Leads : Gentle(l)
    BY <1>4 DEF SafeInv
  <2>2. ASSUME NEW l \in Leads, l \notin sync.dirty, sync.member[l].launched,
               member'[l].status \in Running
        PROVE  sync.member[l].status \in Running
    <3>1. member[l].launched
      BY <2>1, <2>2 DEF Session
    <3>2. member[l].status \in Running
      BY <2>1, <2>2, <3>1 DEF Gentle
    <3>3. QED
      BY <2>1, <2>2, <3>2 DEF Loaded
  <2>3. QED
    BY <2>2 DEF Loaded
<1>5. ASSUME ~unseen', runs' = "sync" PROVE SafeRows'
  <2>1. SafeRows /\ \A l \in Leads : Gentle(l) \/ (sync = NoSync /\ Owns(l, placed))
    BY <1>5 DEF SafeInv
  <2>2. ASSUME NEW l \in Leads, member'[l].launched, member'[l].status \in Running, Open(l)'
        PROVE  Owns(l, placed)'
    <3>1. Owns(l, placed)
      BY <2>1, <2>2 DEF SafeRows, Gentle
    <3>2. placed \in Nat /\ placed <= placed
      BY <1>1, LeadFields
    <3>3. Owns(l, placed)' \/ ~(placed' = placed)
      BY <1>1, <3>1, <3>2, OwnsKept DEF Owns
    <3>4. QED
      BY <3>3
  <2>3. QED
    BY <2>2 DEF SafeRows
<1>6. ASSUME ~unseen', runs' = "sync", sync # NoSync PROVE SafeSession(sync)'
  <2>1. SafeSession(sync) /\ Session(sync) /\ \A l \in Leads : Gentle(l)
    BY <1>6 DEF SafeInv
  <2>2. sync.placed \in Nat
    BY <1>1, <1>6, SyncFields DEF TypeOK
  <2>3. ASSUME NEW l \in Leads, sync.member[l].launched, Status(sync, l)' \in Running, Open(l)'
        PROVE  Owns(l, sync.placed)'
    <3>1. Status(sync, l) \in Running
      <4>1. CASE l \in sync.dirty
        BY <2>3, <4>1 DEF Status
      <4>2. CASE l \notin sync.dirty
        <5>1. member[l].launched
          BY <2>1, <2>3, <4>2 DEF Session
        <5>2. member'[l].status \in Running
          BY <2>3, <4>2 DEF Status
        <5>3. member[l].status \in Running
          BY <2>1, <5>1, <5>2 DEF Gentle
        <5>4. QED
          BY <4>2, <5>3 DEF Status
      <4>3. QED
        BY <4>1, <4>2
    <3>2. Owns(l, sync.placed)
      BY <2>1, <2>3, <3>1 DEF SafeSession, Gentle
    <3>3. sync.placed <= sync.placed
      BY <2>2
    <3>4. Owns(l, sync.placed)' \/ ~(sync' = sync)
      BY <1>1, <2>2, <3>2, <3>3, OwnsKept DEF Owns
    <3>5. QED
      BY <3>4
  <2>4. QED
    BY <2>3 DEF SafeSession
<1>7. QED
  BY <1>2, <1>3, <1>4, <1>5, <1>6 DEF SafeInv

\* The session goes on from s to t, and no row is written.
Follows(s, t) ==
  /\ t \in Syncs /\ t.member = s.member /\ t.placed = s.placed /\ t.dirty = s.dirty
  /\ t.pc \in Placing => s.pc \in Placing

LEMMA MovedFollows ==
  ASSUME NEW s \in Syncs, NEW p \in Phases, NEW T \in SUBSET Leads,
         p \in Placing => s.pc \in Placing
  PROVE  Follows(s, Moved(s, p, T)) /\ Moved(s, p, T).todo = T
<1> DEFINE t == [s EXCEPT !.pc = p, !.todo = T]
<1> HIDE DEF Members, Renders
<1>1. /\ t.pc = p /\ t.placed = s.placed /\ t.todo = T
      /\ t.member = s.member /\ t.dirty = s.dirty /\ t \in Syncs
  BY DEF Syncs, Phases
<1>2. t = Moved(s, p, T)
  BY DEF Moved
<1> HIDE DEF t
<1>3. QED
  BY <1>1, <1>2 DEF Follows

LEMMA LaunchingFollows ==
  ASSUME NEW s \in Syncs
  PROVE  Follows(s, Launching(s))
<1>1. /\ ToLaunch(s) \in SUBSET Leads /\ {} \in SUBSET Leads
      /\ "finish" \in Phases \ Placing /\ "launch" \in Phases \ Placing
  BY DEF ToLaunch, Phases, Placing
<1>2. \/ Launching(s) = Moved(s, "finish", {})
      \/ Launching(s) = Moved(s, "launch", ToLaunch(s))
  BY DEF Launching, Finishing, Moved
<1>3. Follows(s, Moved(s, "finish", {})) /\ Follows(s, Moved(s, "launch", ToLaunch(s)))
  BY <1>1, MovedFollows
<1>4. QED
  BY <1>2, <1>3

LEMMA RefreshingFollows ==
  ASSUME NEW s \in Syncs
  PROVE  Follows(s, Refreshing(s))
<1>1. CASE Outdated(s) = {}
  BY <1>1, LaunchingFollows DEF Refreshing
<1>2. CASE Outdated(s) # {}
  <2>1. Refreshing(s) = Moved(s, "refresh", Outdated(s))
    BY <1>2 DEF Refreshing, Moved
  <2>2. Outdated(s) \in SUBSET Leads /\ "refresh" \in Phases \ Placing
    BY DEF Outdated, InFlight, Phases, Placing
  <2>3. QED
    BY <2>1, <2>2, MovedFollows
<1>3. QED
  BY <1>1, <1>2

LEMMA FollowsTransitive ==
  ASSUME NEW s, NEW t, NEW u, Follows(s, t), Follows(t, u)
  PROVE  Follows(s, u)
  BY DEF Follows

LEMMA AdvanceFollows ==
  ASSUME NEW s \in Syncs, s.pc \in {"render", "refresh", "launch"}, NEW l
  PROVE  Follows(s, Advance(s, l))
<1> DEFINE rest == [s EXCEPT !.todo = @ \ {l}]
           p == s.pc
           T == s.todo \ {l}
<1>1. rest = Moved(s, p, T)
  <2> HIDE DEF Members, Renders
  <2>1. QED
    BY DEF Syncs, Moved
<1>2. p \in Phases /\ T \in SUBSET Leads /\ (p \in Placing => s.pc \in Placing)
  BY SyncFields
<1> HIDE DEF p, T
<1>3. Follows(s, Moved(s, p, T))
  BY <1>2, MovedFollows
<1>4. Advance(s, l) =
        IF rest.todo # {} THEN rest
        ELSE CASE s.pc = "render" -> IF s.placed < Len(steps)
                                       THEN [rest EXCEPT !.pc = "place"]
                                       ELSE Refreshing(rest)
               [] s.pc = "refresh" -> Launching(rest)
               [] s.pc = "launch" -> Finishing(rest)
  BY DEF Advance
<1> HIDE DEF rest
<1>5. Follows(s, rest) /\ rest \in Syncs
  BY <1>1, <1>3 DEF Follows
<1>6. CASE rest.todo # {}
  <2>1. Advance(s, l) = rest
    BY <1>4, <1>6
  <2>2. QED
    BY <1>5, <2>1
<1>7. CASE rest.todo = {} /\ s.pc = "render" /\ s.placed < Len(steps)
  <2>1. Advance(s, l) = [rest EXCEPT !.pc = "place"]
    BY <1>4, <1>7
  <2>2. [rest EXCEPT !.pc = "place"] = Moved(rest, "place", {})
    <3> HIDE DEF Members, Renders
    <3>1. QED
      BY <1>5, <1>7 DEF Syncs, Moved
  <2> DEFINE u == Moved(rest, "place", {})
  <2>3. /\ u \in Syncs /\ u.member = rest.member /\ u.placed = rest.placed
        /\ u.dirty = rest.dirty
    <3>1. "place" \in Phases /\ {} \in SUBSET Leads
      BY DEF Phases
    <3> HIDE DEF Members, Renders
    <3>2. QED
      BY <1>5, <3>1 DEF Moved, Syncs, Phases
  <2> HIDE DEF u
  <2>4. s.pc \in Placing
    BY <1>7 DEF Placing
  <2>5. Advance(s, l) = u
    BY <2>1, <2>2 DEF u
  <2>6. QED
    BY <1>5, <2>3, <2>4, <2>5 DEF Follows
<1>8. CASE rest.todo = {} /\ s.pc = "render" /\ ~(s.placed < Len(steps))
  <2>1. Advance(s, l) = Refreshing(rest)
    BY <1>4, <1>8
  <2>2. QED
    BY <1>5, <2>1, RefreshingFollows, FollowsTransitive
<1>9. CASE rest.todo = {} /\ s.pc = "refresh"
  <2>1. Advance(s, l) = Launching(rest)
    BY <1>4, <1>9
  <2>2. QED
    BY <1>5, <2>1, LaunchingFollows, FollowsTransitive
<1>10. CASE rest.todo = {} /\ s.pc = "launch"
  <2>1. Advance(s, l) = Moved(rest, "finish", {})
    BY <1>4, <1>10 DEF Finishing, Moved
  <2>2. "finish" \in Phases \ Placing /\ {} \in SUBSET Leads
    BY DEF Phases, Placing
  <2>3. Follows(rest, Moved(rest, "finish", {}))
    BY <1>5, <2>2, MovedFollows
  <2>4. QED
    BY <1>5, <2>1, <2>3, FollowsTransitive
<1>11. QED
  BY <1>6, <1>7, <1>8, <1>9, <1>10

\* What a lead has of its own once this step is taken.
Gets(l, n) ==
  \A k \in DOMAIN steps : lead[l].at < k /\ k <= n => own'[l][k] = steps[k]

\* What the sync leaves of the safety of a lead.
Stood(s, l) ==
  /\ Open(l)' => Open(l)
  /\ s.member[l].launched /\ Status(s, l) \in Running
       => sync.member[l].launched /\ Status(sync, l) \in Running

\* A step of the sync, which goes on from the session s.
LEMMA SessionSafe ==
  ASSUME IInv, IInv', SafeInv, sync.pc \in Phases, NEW s, Follows(s, sync'),
         UNCHANGED <<campaign, steps, placed, member, unseen>>,
         \A l \in Leads : lead'[l].at = lead[l].at,
         \A l \in Leads, k \in DOMAIN steps :
           own[l][k] = steps[k] => own'[l][k] = steps[k],
         runs' = "sync" => runs = "sync",
         s.pc \in Placing => runs' # "sync",
         Session(s), ~unseen => Loaded(s), sync.placed <= s.placed,
         runs' = "sync" => /\ s.placed = sync.placed
                           /\ \A l \in Leads : Gets(l, s.placed) \/ Stood(s, l)
  PROVE  SafeInv'
<1>1. TypeOK /\ TypeOK'
  BY DEF IInv
<1>2. /\ sync # NoSync /\ sync \in Syncs /\ sync' \in Syncs
      /\ sync.placed \in Nat /\ s.placed \in Nat /\ placed \in Nat
  <2>1. sync # NoSync
    BY DEF NoSync, Phases
  <2>2. sync \in Syncs /\ sync' \in Syncs
    BY <1>1, <2>1 DEF TypeOK, Follows
  <2>3. sync.placed \in Nat /\ sync'.placed \in Nat /\ placed \in Nat
    BY <1>1, <2>2, SyncFields DEF TypeOK
  <2>4. QED
    BY <2>1, <2>2, <2>3 DEF Follows
<1>3. /\ sync'.member = s.member /\ sync'.placed = s.placed /\ sync'.dirty = s.dirty
      /\ sync'.pc \in Placing => s.pc \in Placing
  BY DEF Follows
<1>4. /\ RowsOK(member) /\ (runs = "sync" => campaign = "ACTIVE")
      /\ placed <= sync.placed
      /\ ~unseen => (runs = "sync" => SafeRows /\ SafeSession(sync))
  BY <1>2 DEF SafeInv
<1>5. RowsOK(member)' /\ (runs = "sync" => campaign = "ACTIVE")'
  BY <1>4 DEF RowsOK
<1>6. Session(sync)'
  BY <1>3 DEF Session, RowsOK
<1>7. (placed <= sync.placed)' /\ (sync.pc \in Placing => runs # "sync")'
  BY <1>2, <1>3, <1>4
<1>8. ASSUME ~unseen PROVE Loaded(sync)'
  BY <1>3, <1>8 DEF Loaded
<1>9. ASSUME ~unseen, runs' = "sync", NEW l \in Leads
      PROVE  /\ s.member[l].launched /\ Status(s, l) \in Running /\ Open(l)'
                  => Owns(l, s.placed)'
             /\ member[l].launched /\ member[l].status \in Running /\ Open(l)'
                  => Owns(l, placed)'
  <2>1. runs = "sync" /\ s.placed = sync.placed /\ (Owns(l, s.placed)' \/ Stood(s, l))
    BY <1>9 DEF Gets, Owns
  <2>2. SafeRows /\ SafeSession(sync)
    BY <1>4, <1>9, <2>1
  <2>3. /\ lead[l].at \in Nat /\ lead[l].at <= lead'[l].at
        /\ \A k \in DOMAIN steps : own[l][k] = steps[k] => own'[l][k] = steps[k]
        /\ DOMAIN steps \subseteq Nat
    <3>1. lead[l].at \in Nat /\ lead'[l].at = lead[l].at /\ DOMAIN steps \subseteq Nat
      BY <1>1, LeadFields
    <3>2. QED
      BY <3>1
  <2>4. placed <= s.placed
    BY <1>2, <1>4, <2>1
  <2>5. Owns(l, s.placed)' => Owns(l, placed)'
    BY <1>2, <2>3, <2>4 DEF Owns
  <2>6. ASSUME Stood(s, l)
        PROVE  /\ s.member[l].launched /\ Status(s, l) \in Running /\ Open(l)'
                    => Owns(l, s.placed)'
               /\ member[l].launched /\ member[l].status \in Running /\ Open(l)'
                    => Owns(l, placed)'
    <3>1. ASSUME s.member[l].launched, Status(s, l) \in Running, Open(l)'
          PROVE  Owns(l, s.placed)'
      <4>1. Owns(l, sync.placed)
        BY <2>2, <2>6, <3>1 DEF Stood, SafeSession
      <4>2. QED
        BY <2>1, <2>3, <4>1 DEF Owns
    <3>2. ASSUME member[l].launched, member[l].status \in Running, Open(l)'
          PROVE  Owns(l, placed)'
      <4>1. Owns(l, placed)
        BY <2>2, <2>6, <3>2 DEF Stood, SafeRows
      <4>2. QED
        BY <2>3, <4>1 DEF Owns
    <3>3. QED
      BY <3>1, <3>2
  <2>7. QED
    BY <2>1, <2>5, <2>6
<1>10. ASSUME ~unseen, runs' = "sync" PROVE SafeRows' /\ SafeSession(sync)'
  <2>1. SafeRows'
    BY <1>9, <1>10 DEF SafeRows
  <2>2. \A l \in Leads : Status(sync, l)' = Status(s, l)
    BY <1>3 DEF Status
  <2>3. SafeSession(sync)'
    BY <1>3, <1>9, <1>10, <2>2 DEF SafeSession
  <2>4. QED
    BY <2>1, <2>3
<1>11. QED
  BY <1>5, <1>6, <1>7, <1>8, <1>10 DEF SafeInv

\* The session u is s with another row for one membership.
Touches(s, u, l) ==
  /\ u \in Syncs /\ u.pc = s.pc /\ u.placed = s.placed /\ u.todo = s.todo
  /\ \A n \in Leads \ {l} : /\ u.member[n] = s.member[n]
                            /\ n \in u.dirty <=> n \in s.dirty
  /\ l \in s.dirty => l \in u.dirty
  /\ s.member[l].step <= lead[l].at => u.member[l].step <= lead[l].at
  /\ s.member[l].launched => u.member[l].launched
  /\ s.member[l].known => u.member[l].known
  /\ (s.member[l].launched => s.member[l].known /\ s.member[l].status # "ready")
       => (u.member[l].launched => u.member[l].known /\ u.member[l].status # "ready")
  /\ l \notin u.dirty => /\ u.member[l].launched = s.member[l].launched
                         /\ u.member[l].status = s.member[l].status

\* ... who is as launched, and as paused, as before.
Stands(s, u, l) ==
  /\ u.dirty = s.dirty /\ u.member[l].launched = s.member[l].launched
  /\ u.member[l].status = s.member[l].status

LEMMA TouchesItself ==
  ASSUME NEW s \in Syncs, NEW l
  PROVE  Touches(s, s, l) /\ Stands(s, s, l)
  BY DEF Touches, Stands

LEMMA TouchesTransitive ==
  ASSUME NEW s, NEW t, NEW u, NEW l, Touches(s, t, l), Touches(t, u, l)
  PROVE  Touches(s, u, l)
  BY DEF Touches

LEMMA RowFields ==
  ASSUME NEW s \in Syncs, NEW l \in Leads, NEW m \in Members, NEW r \in Renders,
         NEW D \in SUBSET Leads
  PROVE  LET t == Row(s, l, m, r, D)
         IN /\ t \in Syncs /\ t.pc = s.pc /\ t.placed = s.placed /\ t.dirty = D
            /\ t.todo = s.todo /\ t.member[l] = m /\ \A n \in Leads \ {l} : t.member[n] = s.member[n]
<1> DEFINE rows == [s.member EXCEPT ![l] = m]
           renders == [s.render EXCEPT ![l] = r]
           t == [s EXCEPT !.member = rows, !.render = renders, !.dirty = D]
<1>1. s.member \in [Leads -> Members] /\ s.render \in [Leads -> Renders]
  BY SyncFields
<1> HIDE DEF Members, Renders
<1>2. /\ rows \in [Leads -> Members] /\ rows[l] = m
      /\ \A n \in Leads \ {l} : rows[n] = s.member[n]
      /\ renders \in [Leads -> Renders]
  BY <1>1
<1>3. t = Row(s, l, m, r, D)
  BY DEF Row
<1> HIDE DEF rows, renders
<1>4. /\ t \in Syncs /\ t.member = rows /\ t.placed = s.placed /\ t.pc = s.pc
      /\ t.dirty = D /\ t.todo = s.todo
  BY <1>1, <1>2 DEF Syncs
<1> HIDE DEF t
<1>5. QED
  BY <1>2, <1>3, <1>4

\* Emails: what Lemlist refuses, it has sent.
LEMMA RenderedTouches ==
  ASSUME TypeOK, NEW s \in Syncs, s.placed <= Len(steps), NEW l \in Leads,
         NEW K \in SUBSET (1 .. s.placed)
  PROVE  Touches(s, Rendered(s, l, K), l) /\ Stands(s, Rendered(s, l, K), l)
<1> DEFINE A == Accepted(l, K)
           S == {s.member[l].step} \cup (K \ A)
           step == Max(S)
           m == [s.member[l] EXCEPT !.step = step]
           r == Written(s.render[l], A)
<1>1. /\ s.member \in [Leads -> Members] /\ s.render \in [Leads -> Renders]
      /\ s.placed \in 0 .. MaxSteps /\ s.dirty \in SUBSET Leads
  BY SyncFields
<1>2. /\ s.member[l] \in Members /\ s.render[l] \in Renders
      /\ s.member[l].step \in 0 .. MaxSteps
  BY <1>1 DEF Members
<1>3. K \in SUBSET DOMAIN steps /\ A \in SUBSET DOMAIN steps
  <2>1. s.placed \in Nat /\ Len(steps) \in Nat /\ DOMAIN steps = 1 .. Len(steps)
    BY <1>1, StepPositions
  <2>2. K \in SUBSET DOMAIN steps
    BY <2>1
  <2>3. QED
    BY <2>2, AcceptedSubset
<1>4. MaxSteps \in Nat /\ K \in SUBSET (0 .. MaxSteps) /\ lead[l].at \in Nat
  BY <1>1, BoundAssumption, LeadFields
<1>5. \A k \in K \ A : k <= lead[l].at
  BY <1>4 DEF Accepted
<1>6. Rendered(s, l, K) = Row(s, l, m, r, s.dirty)
  BY <1>1, <1>2 DEF Rendered, Row, Syncs
<1> HIDE DEF A
<1>7. S \in SUBSET (0 .. MaxSteps) /\ S # {}
  BY <1>2, <1>4
<1>8. s.member[l].step <= lead[l].at => \A k \in S : k <= lead[l].at
  BY <1>5
<1> HIDE DEF S
<1>9. step \in S
  BY <1>4, <1>7, MaxOf
<1>10. step \in 0 .. MaxSteps /\ (s.member[l].step <= lead[l].at => step <= lead[l].at)
  BY <1>7, <1>8, <1>9
<1> HIDE DEF step
<1>11. /\ m \in Members /\ m.known = s.member[l].known /\ m.status = s.member[l].status
       /\ m.launched = s.member[l].launched /\ m.step = step
  BY <1>2, <1>10 DEF Members
<1>12. r \in Renders
  BY <1>2, <1>3, WrittenType
<1> HIDE DEF m, r, Members, Renders, Syncs
<1> DEFINE t == Row(s, l, m, r, s.dirty)
<1>13. /\ t \in Syncs /\ t.pc = s.pc /\ t.placed = s.placed /\ t.dirty = s.dirty
       /\ t.todo = s.todo /\ t.member[l] = m /\ \A n \in Leads \ {l} : t.member[n] = s.member[n]
  BY <1>1, <1>11, <1>12, RowFields
<1> HIDE DEF t
<1>14. Touches(s, t, l) /\ Stands(s, t, l)
  BY <1>10, <1>11, <1>13 DEF Touches, Stands
<1>15. QED
  BY <1>6, <1>14 DEF t

LEMMA MarkTouches ==
  ASSUME NEW s \in Syncs, NEW l \in Leads, NEW status \in MemberStatuses \ {"ready"}
  PROVE  /\ Touches(s, Mark(s, l, status), l)
         /\ l \in Mark(s, l, status).dirty
         /\ Mark(s, l, status).member[l].status = status
<1> DEFINE m == [s.member[l] EXCEPT !.status = status]
           D == s.dirty \cup {l}
           r == s.render[l]
           t == Row(s, l, m, r, D)
<1>1. /\ s.member \in [Leads -> Members] /\ s.render \in [Leads -> Renders]
      /\ D \in SUBSET Leads /\ r \in Renders
  BY SyncFields
<1>2. /\ m \in Members /\ m.known = s.member[l].known /\ m.status = status
      /\ m.launched = s.member[l].launched /\ m.step = s.member[l].step
  BY <1>1 DEF Members
<1>3. [s.render EXCEPT ![l] = s.render[l]] = s.render
  BY <1>1
<1>4. Mark(s, l, status) = Row(s, l, m, s.render[l], D)
  BY <1>1, <1>3 DEF Mark, Row, Syncs
<1> HIDE DEF m, r, Members, Renders, Syncs
<1>5. /\ t \in Syncs /\ t.pc = s.pc /\ t.placed = s.placed /\ t.dirty = D
      /\ t.todo = s.todo /\ t.member[l] = m /\ \A n \in Leads \ {l} : t.member[n] = s.member[n]
  BY <1>1, <1>2, RowFields
<1> HIDE DEF t
<1>6. Touches(s, t, l) /\ l \in t.dirty /\ t.member[l].status = status
  BY <1>2, <1>5 DEF Touches
<1>7. QED
  BY <1>4, <1>6 DEF t, r

LEMMA KnownTouches ==
  ASSUME NEW s \in Syncs, NEW l \in Leads
  PROVE  /\ Touches(s, Known(s, l), l) /\ Stands(s, Known(s, l), l)
         /\ Known(s, l).member[l].known
<1> DEFINE m == [s.member[l] EXCEPT !.known = TRUE]
           r == s.render[l]
           t == Row(s, l, m, r, s.dirty)
<1>1. /\ s.member \in [Leads -> Members] /\ s.render \in [Leads -> Renders]
      /\ s.dirty \in SUBSET Leads /\ r \in Renders
  BY SyncFields
<1>2. /\ m \in Members /\ m.known /\ m.status = s.member[l].status
      /\ m.launched = s.member[l].launched /\ m.step = s.member[l].step
  BY <1>1 DEF Members
<1>3. [s.render EXCEPT ![l] = s.render[l]] = s.render
  BY <1>1
<1>4. Known(s, l) = Row(s, l, m, s.render[l], s.dirty)
  BY <1>1, <1>3 DEF Known, Row, Syncs
<1> HIDE DEF m, r, Members, Renders, Syncs
<1>5. /\ t \in Syncs /\ t.pc = s.pc /\ t.placed = s.placed /\ t.dirty = s.dirty
      /\ t.todo = s.todo /\ t.member[l] = m /\ \A n \in Leads \ {l} : t.member[n] = s.member[n]
  BY <1>1, <1>2, RowFields
<1> HIDE DEF t
<1>6. Touches(s, t, l) /\ Stands(s, t, l) /\ t.member[l].known
  BY <1>2, <1>5 DEF Touches, Stands
<1>7. QED
  BY <1>4, <1>6 DEF t, r

LEMMA QueuedTouches ==
  ASSUME NEW s \in Syncs, NEW l \in Leads, s.member[l].known
  PROVE  /\ Touches(s, Queued(s, l), l)
         /\ l \in Queued(s, l).dirty /\ Queued(s, l).member[l].status = "queued"
<1> DEFINE m == [s.member[l] EXCEPT !.launched = TRUE, !.status = "queued"]
           D == s.dirty \cup {l}
           r == s.render[l]
           t == Row(s, l, m, r, D)
<1>1. /\ s.member \in [Leads -> Members] /\ s.render \in [Leads -> Renders]
      /\ D \in SUBSET Leads /\ r \in Renders
  BY SyncFields
<1>2. /\ m \in Members /\ m.known = s.member[l].known /\ m.status = "queued"
      /\ m.launched /\ m.step = s.member[l].step
  BY <1>1 DEF Members, MemberStatuses, Running
<1>3. [s.render EXCEPT ![l] = s.render[l]] = s.render
  BY <1>1
<1>4. Queued(s, l) = Row(s, l, m, s.render[l], D)
  BY <1>1, <1>3 DEF Queued, Mark, Row, Syncs
<1> HIDE DEF m, r, Members, Renders, Syncs
<1>5. /\ t \in Syncs /\ t.pc = s.pc /\ t.placed = s.placed /\ t.dirty = D
      /\ t.todo = s.todo /\ t.member[l] = m /\ \A n \in Leads \ {l} : t.member[n] = s.member[n]
  BY <1>1, <1>2, RowFields
<1> HIDE DEF t
<1>6. Touches(s, t, l) /\ l \in t.dirty /\ t.member[l].status = "queued"
  BY <1>2, <1>5 DEF Touches
<1>7. QED
  BY <1>4, <1>6 DEF t, r

\* What a step of the sync on one membership starts from.
LEMMA SafeInSession ==
  ASSUME IInv, SafeInv, sync.pc \in Phases
  PROVE  /\ TypeOK /\ sync \in Syncs /\ sync # NoSync
         /\ sync.placed \in 0 .. MaxSteps /\ sync.placed <= Len(steps)
         /\ Session(sync) /\ placed <= sync.placed
         /\ sync.pc \in Placing => runs # "sync"
         /\ RowsOK(member)
         /\ runs = "sync" => campaign = "ACTIVE"
         /\ ~unseen => Loaded(sync)
<1>1. sync # NoSync
  BY DEF NoSync, Phases
<1>2. QED
  BY <1>1, InSession DEF SafeInv

LEMMA TouchedRows ==
  ASSUME NEW l \in Leads, NEW u, Touches(sync, u, l), Session(sync)
  PROVE  Session(u) /\ (Loaded(sync) => Loaded(u))
<1>1. RowsOK(u.member)
  BY DEF Touches, Session, RowsOK
<1>2. ASSUME NEW n \in Leads
      PROVE  /\ member[n].launched => u.member[n].launched
             /\ n \notin u.dirty => u.member[n].launched = member[n].launched
  BY DEF Touches, Session
<1>3. ASSUME Loaded(sync) PROVE Loaded(u)
  BY <1>3 DEF Touches, Loaded
<1>4. QED
  BY <1>1, <1>2, <1>3 DEF Session

\* One membership through its phase: whether it gets its emails, all of them,
\* or nobody sets it running.
LEMMA OneLead ==
  ASSUME IInv, IInv', SafeInv, sync.pc \in {"render", "refresh", "launch"},
         NEW l \in Leads, NEW u, Touches(sync, u, l), sync' = Advance(u, l),
         UNCHANGED <<campaign, steps, placed, member, unseen, runs>>,
         \A n \in Leads : lead'[n].at = lead[n].at /\ (n # l => lead'[n] = lead[n]),
         \A n \in Leads, k \in DOMAIN steps :
           own[n][k] = steps[k] => own'[n][k] = steps[k],
         sync.pc # "render" => \/ Gets(l, sync.placed)
                               \/ Stands(sync, u, l) /\ (Open(l)' => Open(l))
  PROVE  SafeInv'
<1>1. sync.pc \in Phases /\ u.pc = sync.pc /\ u.placed = sync.placed /\ u \in Syncs
  BY DEF Phases, Touches
<1>2. /\ Session(sync) /\ (sync.pc \in Placing => runs # "sync")
      /\ ~unseen => Loaded(sync)
      /\ sync.placed <= sync.placed
  BY <1>1, SafeInSession
<1>3. Follows(u, sync')
  BY <1>1, AdvanceFollows
<1>4. Session(u) /\ (~unseen => Loaded(u))
  BY <1>2, TouchedRows
<1>5. ASSUME runs' = "sync", NEW n \in Leads
      PROVE  Gets(n, u.placed) \/ Stood(u, n)
  <2>1. sync.pc # "render"
    BY <1>2, <1>5 DEF Placing
  <2>2. CASE n = l
    <3>1. CASE Gets(l, sync.placed)
      BY <1>1, <2>2, <3>1
    <3>2. CASE Stands(sync, u, l) /\ (Open(l)' => Open(l))
      <4>1. Status(u, l) = Status(sync, l)
        BY <3>2 DEF Stands, Status
      <4>2. Stood(u, l)
        BY <3>2, <4>1 DEF Stood, Stands
      <4>3. QED
        BY <2>2, <4>2
    <3>3. QED
      BY <2>1, <3>1, <3>2
  <2>3. CASE n # l
    <3>1. Open(n)' => Open(n)
      BY <2>3 DEF Open
    <3>2. u.member[n] = sync.member[n] /\ Status(u, n) = Status(sync, n)
      BY <2>3 DEF Touches, Status
    <3>3. QED
      BY <3>1, <3>2 DEF Stood
  <2>4. QED
    BY <2>2, <2>3
<1>6. runs' = "sync" => runs = "sync"
  OBVIOUS
<1>7. u.pc \in Placing => runs' # "sync"
  BY <1>1, <1>2
<1>8. \A n \in Leads : lead'[n].at = lead[n].at
  OBVIOUS
<1>9. QED
  BY <1>1, <1>2, <1>3, <1>4, <1>5, <1>6, <1>7, <1>8, SessionSafe

\* Pushing emails to a lead loses none of the others, and pushing all it
\* misses gives it all those up to n.
LEMMA PersonalizeKeeps ==
  ASSUME TypeOK, NEW l \in Leads, NEW K \in SUBSET DOMAIN steps, Personalize(l, K)
  PROVE  /\ \A n \in Leads, k \in DOMAIN steps :
              own[n][k] = steps[k] => own'[n][k] = steps[k]
         /\ \A k \in K : lead[l].at < k => own'[l][k] = steps[k]
<1> DEFINE A == Accepted(l, K)
           e == Written(own[l], A)
<1>1. own \in [Leads -> Renders] /\ own[l] \in Renders
  BY DEF TypeOK
<1>2. A \in SUBSET DOMAIN steps
  BY AcceptedSubset
<1>3. e \in Renders /\ \A k \in Positions : e[k] = IF k \in A THEN steps[k] ELSE own[l][k]
  BY <1>1, <1>2, WrittenType
<1>4. own' = [own EXCEPT ![l] = e]
  BY DEF Personalize
<1>5. \A k \in K : lead[l].at < k => k \in A
  BY DEF Accepted
<1>6. DOMAIN steps \subseteq Positions
  BY StepPositions
<1> HIDE DEF e, A, Renders
<1>7. own'[l] = e /\ \A n \in Leads \ {l} : own'[n] = own[n]
  BY <1>1, <1>4
<1>8. QED
  BY <1>3, <1>5, <1>6, <1>7

LEMMA GetsAll ==
  ASSUME IInv, SafeInv, sync.pc \in Phases, NEW l \in Leads, NEW K \in SUBSET DOMAIN steps,
         Personalize(l, K), NEW n \in Nat,
         \A k \in DOMAIN steps : k > sync.member[l].step /\ k <= n
           => k \in K \/ sync.render[l][k] = steps[k]
  PROVE  Gets(l, n)
<1>1. TypeOK /\ Session(sync) /\ Faithful(sync.render, own) /\ sync.member \in [Leads -> Members]
  BY SafeInSession, InSession
<1>2. /\ sync.member[l].step <= lead[l].at /\ sync.member[l].step \in Nat
      /\ lead[l].at \in Nat /\ DOMAIN steps \subseteq Nat
  BY <1>1, LeadFields DEF Session, RowsOK, Members
<1>3. ASSUME NEW k \in DOMAIN steps, lead[l].at < k, k <= n
      PROVE  own'[l][k] = steps[k]
  <2>1. k > sync.member[l].step
    BY <1>2, <1>3
  <2>2. k \in K \/ sync.render[l][k] = steps[k]
    BY <1>3, <2>1
  <2>3. k \in K \/ own[l][k] = steps[k]
    BY <1>1, <2>2 DEF Faithful
  <2>4. QED
    BY <1>1, <1>3, <2>3, PersonalizeKeeps
<1>4. QED
  BY <1>3 DEF Gets

---------------------------------------------------------------------------
\* The steps, for the safety of what is sent.

\* A row written by others, in its fields.
LEMMA StatusFields ==
  ASSUME TypeOK, NEW l \in Leads, NEW status
  PROVE  /\ WithStatus(l, status)[l].status = status
         /\ WithStatus(l, status)[l].step = member[l].step
         /\ WithStatus(l, status)[l].launched = member[l].launched
         /\ WithStatus(l, status)[l].known = member[l].known
         /\ \A n \in Leads \ {l} : WithStatus(l, status)[n] = member[n]
  BY DEF WithStatus, TypeOK, Members

LEMMA PausedFields ==
  ASSUME TypeOK, NEW l \in Leads, NEW p
  PROVE  /\ [lead EXCEPT ![l].paused = p][l].paused = p
         /\ [lead EXCEPT ![l].paused = p][l].at = lead[l].at
         /\ [lead EXCEPT ![l].paused = p][l].stage = lead[l].stage
         /\ \A n \in Leads \ {l} : [lead EXCEPT ![l].paused = p][n] = lead[n]
  BY DEF TypeOK, LemlistLeads

LEMMA Now ==
  ASSUME IInv, SafeInv
  PROVE  /\ TypeOK /\ RowsOK(member)
         /\ \A l \in Leads : /\ lead[l].at \in Nat /\ member[l].step \in Nat
                             /\ lead[l].at <= lead[l].at
                             /\ member[l].step <= lead[l].at
                             /\ member[l].launched => member[l].known
                             /\ member[l].launched => member[l].status # "ready"
<1>1. TypeOK /\ RowsOK(member)
  BY DEF IInv, SafeInv
<1>2. QED
  BY <1>1, LeadFields DEF RowsOK

LEMMA SafeSend ==
  ASSUME IInv, IInv', SafeInv, NEW l \in Leads, Send(l) PROVE SafeInv'
<1>1. /\ lead' = [lead EXCEPT ![l].at = lead[l].at + 1]
      /\ UNCHANGED <<campaign, steps, placed, member, sync, runs, own, unseen>>
  BY DEF Send
<1>2. /\ lead'[l].at = lead[l].at + 1 /\ lead'[l].stage = lead[l].stage
      /\ lead'[l].paused = lead[l].paused
      /\ \A n \in Leads \ {l} : lead'[n] = lead[n]
  BY <1>1 DEF IInv, TypeOK, LemlistLeads
<1>3. ASSUME NEW n \in Leads
      PROVE  /\ lead[n].at <= lead'[n].at /\ member[n].step <= lead'[n].at
             /\ Gentle(n)
  BY <1>1, <1>2, Now DEF Gentle, Open
<1>4. runs' = "sync" => runs = "sync" /\ campaign' = "ACTIVE"
  BY <1>1 DEF SafeInv
<1>5. QED
  BY <1>1, <1>3, <1>4, Now, AroundSafe

LEMMA SafeEndLead ==
  ASSUME IInv, IInv', SafeInv, NEW l \in Leads, EndLead(l) PROVE SafeInv'
<1>1. /\ lead' = [lead EXCEPT ![l].stage = "done"]
      /\ UNCHANGED <<campaign, steps, placed, member, sync, runs, own, unseen>>
  BY DEF EndLead
<1>2. /\ lead'[l].at = lead[l].at /\ lead'[l].stage = "done"
      /\ \A n \in Leads \ {l} : lead'[n] = lead[n]
  BY <1>1 DEF IInv, TypeOK, LemlistLeads
<1>3. ASSUME NEW n \in Leads
      PROVE  /\ lead[n].at <= lead'[n].at /\ member[n].step <= lead'[n].at
             /\ Gentle(n)
  BY <1>1, <1>2, Now DEF Gentle, Open
<1>4. runs' = "sync" => runs = "sync" /\ campaign' = "ACTIVE"
  BY <1>1 DEF SafeInv
<1>5. QED
  BY <1>1, <1>3, <1>4, Now, AroundSafe

\* What an event does to a row.
LEMMA IngestedFields ==
  ASSUME NEW m \in Members, NEW at \in 0 .. MaxSteps, m.step <= at
  PROVE  /\ Ingested(m, at).step <= at /\ Ingested(m, at).launched = m.launched
         /\ Ingested(m, at).known = m.known
         /\ m.status \notin Paused => Ingested(m, at).status \notin Paused
         /\ Ingested(m, at).status = "completed" =>
              m.status = "completed" \/ at >= Len(steps)
         /\ m.status # "ready" =>
              /\ Ingested(m, at).status # "ready"
              /\ Ingested(m, at).status \in Running => m.status \in Running
<1> DEFINE step == Larger(m.step, at)
           status == IF m.status \in {"ready", "queued"} THEN "active" ELSE m.status
           over == IF status = "active" /\ at >= Len(steps) THEN "completed" ELSE status
<1>1. step <= at
  BY DEF Members, Larger
<1>2. /\ m.status # "ready" => over # "ready" /\ (over \in Running => m.status \in Running)
      /\ m.status \notin Paused => over \notin Paused
      /\ over = "completed" => m.status = "completed" \/ at >= Len(steps)
  BY DEF Members, MemberStatuses, Running, Paused
<1>3. \/ Ingested(m, at) = m
      \/ Ingested(m, at) = [m EXCEPT !.heard = at]
      \/ Ingested(m, at) = [m EXCEPT !.heard = at, !.step = step, !.status = over]
  BY DEF Ingested
<1> HIDE DEF step, over
<1>4. QED
  BY <1>1, <1>2, <1>3 DEF Members

LEMMA SafeWebhook ==
  ASSUME IInv, IInv', SafeInv, NEW l \in Leads, Webhook(l) PROVE SafeInv'
<1> DEFINE m == Ingested(member[l], lead[l].at)
<1>1. /\ member' = [member EXCEPT ![l] = m]
      /\ UNCHANGED <<campaign, steps, placed, lead, sync, runs, own, unseen>>
  BY DEF Webhook, lemlist
<1>2. /\ member[l] \in Members /\ lead[l].at \in 0 .. MaxSteps
      /\ member[l].step <= lead[l].at
      /\ member[l].launched => member[l].status # "ready"
  BY Now, LeadFields
<1>3. /\ m.step <= lead[l].at /\ m.launched = member[l].launched
      /\ m.known = member[l].known
      /\ member[l].status # "ready" =>
           m.status # "ready" /\ (m.status \in Running => member[l].status \in Running)
  BY <1>2, IngestedFields
<1> HIDE DEF m
<1>4. member'[l] = m /\ \A n \in Leads \ {l} : member'[n] = member[n]
  BY <1>1, Now DEF TypeOK
<1>5. ASSUME NEW n \in Leads
      PROVE  /\ lead[n].at <= lead'[n].at /\ member'[n].step <= lead'[n].at
             /\ member'[n].launched = member[n].launched
             /\ member'[n].known = member[n].known
             /\ member[n].launched => member'[n].status # "ready"
             /\ Gentle(n)
  BY <1>1, <1>2, <1>3, <1>4, Now DEF Gentle, Open
<1>6. runs' = "sync" => runs = "sync" /\ campaign' = "ACTIVE"
  BY <1>1 DEF SafeInv
<1>7. QED
  BY <1>1, <1>5, <1>6, AroundSafe

LEMMA SafeMirrorPause ==
  ASSUME IInv, IInv', SafeInv, NEW l \in Leads, NEW paused \in BOOLEAN,
         MirrorPause(l, paused)
  PROVE  SafeInv'
<1>1. UNCHANGED <<campaign, steps, placed, lead, sync, runs, own>>
  BY DEF MirrorPause, lemlist
<1>2. \/ member' = WithStatus(l, "paused") /\ (~unseen' => ~unseen)
      \/ /\ member' = WithStatus(l, "active") \/ member' = WithStatus(l, "queued")
         /\ unseen'
  BY DEF MirrorPause, WithStatus, Resumed, Race
<1>3. ASSUME NEW n \in Leads
      PROVE  /\ lead[n].at <= lead'[n].at /\ member'[n].step <= lead'[n].at
             /\ member'[n].launched = member[n].launched
             /\ member'[n].known = member[n].known
             /\ member[n].launched => member'[n].status # "ready"
  BY <1>1, <1>2, Now, StatusFields
<1>4. ASSUME ~unseen', NEW n \in Leads PROVE ~unseen /\ Gentle(n)
  <2>1. member' = WithStatus(l, "paused") /\ ~unseen
    BY <1>2, <1>4
  <2>2. "paused" \notin Running
    BY DEF Running
  <2>3. Gentle(n)
    BY <1>1, <2>1, <2>2, Now, StatusFields DEF Gentle, Open
  <2>4. QED
    BY <2>1, <2>3
<1>5. runs' = "sync" => runs = "sync" /\ campaign' = "ACTIVE"
  BY <1>1 DEF SafeInv
<1>6. QED
  BY <1>1, <1>3, <1>4, <1>5, AroundSafe

\* A step that changes neither a row nor Lemlist.
LEMMA SafeAround ==
  ASSUME IInv, IInv', SafeInv, ~unseen' => ~unseen,
         UNCHANGED <<campaign, steps, placed, member, sync, runs, lead, own>>
  PROVE  SafeInv'
<1>1. \A l \in Leads : Gentle(l)
  BY DEF Gentle, Open
<1>2. runs' = "sync" => runs = "sync" /\ campaign' = "ACTIVE"
  BY DEF SafeInv
<1>3. QED
  BY <1>1, <1>2, Now, AroundSafe

LEMMA SafeBeginPause ==
  ASSUME IInv, IInv', SafeInv, NEW q \in Requests, NEW l \in Leads, BeginPause(q, l)
  PROVE  SafeInv'
  BY SafeAround DEF BeginPause, lemlist

LEMMA SafeBeginResume ==
  ASSUME IInv, IInv', SafeInv, NEW q \in Requests, NEW l \in Leads, BeginResume(q, l)
  PROVE  SafeInv'
  BY SafeAround DEF BeginResume, lemlist, Race

\* What Lemlist is asked of one lead.
LEMMA CalledLead ==
  ASSUME TypeOK, NEW q \in Requests, CallLemlist(q)
  PROVE  /\ request[q].lead \in Leads
         /\ \A n \in Leads :
              /\ lead'[n].at = lead[n].at /\ lead'[n].stage = lead[n].stage
              /\ n # request[q].lead => lead'[n] = lead[n]
              /\ Open(n)' => Open(n) \/ (n = request[q].lead /\ Resuming(q))
<1> DEFINE l == request[q].lead
           paused == request[q].to = "paused"
<1>1. l \in Leads /\ (Resuming(q) <=> ~paused)
  BY RequestFields DEF CallLemlist, Resuming
<1>2. lead' = lead \/ lead' = [lead EXCEPT ![l].paused = paused]
  BY DEF CallLemlist
<1> HIDE DEF l, paused
<1>3. ASSUME NEW n \in Leads
      PROVE  /\ lead'[n].at = lead[n].at /\ lead'[n].stage = lead[n].stage
             /\ n # l => lead'[n] = lead[n]
             /\ Open(n)' => Open(n) \/ (n = l /\ Resuming(q))
  <2>1. CASE lead' = lead
    BY <2>1 DEF Open
  <2>2. CASE lead' = [lead EXCEPT ![l].paused = paused]
    <3>1. /\ lead'[l].paused = paused /\ lead'[l].at = lead[l].at
          /\ lead'[l].stage = lead[l].stage
          /\ \A m \in Leads \ {l} : lead'[m] = lead[m]
      BY <1>1, <2>2, PausedFields
    <3>2. QED
      BY <1>1, <3>1 DEF Open
  <2>3. QED
    BY <1>2, <2>1, <2>2
<1>4. QED
  BY <1>1, <1>3 DEF l

\* Lemlist lets a lead run that has every email placed.
LEMMA SafeCallLemlist ==
  ASSUME IInv, IInv', SafeInv, PendingInv, NEW q \in Requests, CallLemlist(q)
  PROVE  SafeInv'
<1>1. /\ UNCHANGED <<campaign, steps, placed, member, sync, runs, own, unseen>>
      /\ request[q].pc = "call" /\ TypeOK
  BY DEF CallLemlist, IInv
<1>2. ASSUME NEW n \in Leads
      PROVE  /\ lead[n].at <= lead'[n].at /\ member'[n].step <= lead'[n].at
             /\ Gentle(n) \/ (sync = NoSync /\ Owns(n, placed))
  <2>1. /\ lead'[n].at = lead[n].at
        /\ Open(n)' => Open(n) \/ (n = request[q].lead /\ Resuming(q))
    BY <1>1, CalledLead
  <2>2. CASE Open(n)' => Open(n)
    BY <1>1, <2>1, <2>2, Now DEF Gentle
  <2>3. CASE n = request[q].lead /\ Resuming(q)
    <3>1. sync = NoSync /\ Owns(n, placed)
      BY <1>1, <2>3 DEF PendingInv, PendingOK
    <3>2. QED
      BY <1>1, <2>1, <3>1, Now
  <2>4. QED
    BY <2>1, <2>2, <2>3
<1>3. runs' = "sync" => runs = "sync" /\ campaign' = "ACTIVE"
  BY <1>1 DEF SafeInv
<1>4. QED
  BY <1>1, <1>2, <1>3, Now, AroundSafe

\* What a request writes of its recipient.
LEMMA WrittenRow ==
  ASSUME TypeOK, NEW q \in Requests, WriteStatus(q)
  PROVE  /\ request[q].lead \in Leads
         /\ member'[request[q].lead].status = request[q].to
         /\ request[q].to \in {"paused", "ready"} \cup Running
         /\ request[q].to # "paused" => Resuming(q)
         /\ \A n \in Leads : /\ member'[n].step = member[n].step
                             /\ member'[n].launched = member[n].launched
                             /\ member'[n].known = member[n].known
                             /\ n # request[q].lead => member'[n] = member[n]
<1>1. request[q].lead \in Leads /\ request[q].to \in {"paused", "ready"} \cup Running
  BY RequestFields DEF WriteStatus
<1>2. member' = WithStatus(request[q].lead, request[q].to)
  BY DEF WriteStatus, WithStatus
<1>3. request[q].to # "paused" => Resuming(q)
  BY DEF WriteStatus, Resuming
<1>4. QED
  BY <1>1, <1>2, <1>3, StatusFields

\* A resumption is written for a lead that has every email placed, or that
\* Lemlist does not hold.
LEMMA SafeWriteStatus ==
  ASSUME IInv, IInv', SafeInv, PendingInv, NEW q \in Requests, WriteStatus(q)
  PROVE  SafeInv'
<1> DEFINE l == request[q].lead
<1>1. /\ UNCHANGED <<campaign, steps, placed, lead, sync, runs, own>>
      /\ ~unseen' => ~unseen
      /\ TypeOK
  BY DEF WriteStatus, IInv, lemlist, Race
<1>2. CASE request[q].to = "paused"
  <2>1. "paused" \notin Running
    BY DEF Running
  <2>2. ASSUME NEW n \in Leads
        PROVE  /\ lead[n].at <= lead'[n].at /\ member'[n].step <= lead'[n].at
               /\ member'[n].launched = member[n].launched
               /\ member'[n].known = member[n].known
               /\ member[n].launched => member'[n].status # "ready"
               /\ Gentle(n)
    BY <1>1, <1>2, <2>1, Now, WrittenRow DEF Gentle, Open
  <2>3. runs' = "sync" => runs = "sync" /\ campaign' = "ACTIVE"
    BY <1>1 DEF SafeInv
  <2>4. QED
    BY <1>1, <2>2, <2>3, AroundSafe
<1>3. CASE request[q].to # "paused"
  <2>1. Resuming(q) /\ sync = NoSync /\ l \in Leads
    BY <1>1, <1>3, WrittenRow DEF PendingInv, PendingOK
  <2>2. request[q].to = "ready" => ~member[l].known
    BY <2>1 DEF PendingInv, PendingOK
  <2>3. request[q].to # "ready" => Owns(l, placed)
    BY <2>1 DEF PendingInv, PendingOK
  <2>4. ASSUME NEW n \in Leads
        PROVE  /\ lead[n].at <= lead'[n].at /\ member'[n].step <= lead'[n].at
               /\ member'[n].launched = member[n].launched
               /\ member'[n].known = member[n].known
               /\ member[n].launched => member'[n].status # "ready"
    <3>1. member[n].launched => member'[n].status # "ready"
      BY <1>1, <2>2, Now, WrittenRow
    <3>2. QED
      BY <1>1, <3>1, Now, WrittenRow
  <2>5. ASSUME NEW n \in Leads PROVE Gentle(n) \/ Owns(n, placed)
    <3>1. CASE n # l
      BY <1>1, <3>1, WrittenRow DEF Gentle, Open
    <3>2. CASE n = l /\ request[q].to = "ready"
      <4>1. ~member[l].launched
        BY <2>1, <2>2, <3>2, Now
      <4>2. QED
        BY <1>1, <3>2, <4>1 DEF Gentle, Open
    <3>3. QED
      BY <2>3, <3>1, <3>2
  <2>6. runs' = "sync" => runs = "sync" /\ campaign' = "ACTIVE"
    BY <1>1 DEF SafeInv
  <2>7. QED
    BY <1>1, <2>1, <2>4, <2>5, <2>6, AroundSafe
<1>4. QED
  BY <1>2, <1>3

LEMMA SafeSetStatus ==
  ASSUME IInv, IInv', SafeInv, NEW target \in {"ACTIVE", "PAUSED"}, SetStatus(target)
  PROVE  SafeInv'
<1>1. /\ UNCHANGED <<steps, placed, sync, own, member, lead, unseen>>
      /\ (runs' = runs /\ campaign' = campaign) \/ runs' \in {"agent", "no"}
  <2>1. PICK answer \in Answers :
          /\ runs' = IF answer = "failed" THEN runs
                     ELSE IF target = "ACTIVE" THEN "agent" ELSE "no"
          /\ campaign' = IF answer = "ok" THEN target ELSE campaign
    BY DEF SetStatus
  <2>2. QED
    BY <2>1 DEF SetStatus
<1>2. ASSUME NEW n \in Leads PROVE Gentle(n)
  BY <1>1 DEF Gentle, Open
<1>3. runs' = "sync" => runs = "sync" /\ campaign' = "ACTIVE"
  BY <1>1 DEF SafeInv
<1>4. QED
  BY <1>1, <1>2, <1>3, Now, AroundSafe

\* The rows loaded again are those of the database, but for what the sync wrote.
LEMMA LoadRows ==
  ASSUME TypeOK, RowsOK(member), NEW s \in Syncs, Session(s)
  PROVE  /\ Load(s) \in Syncs /\ Load(s).pc = s.pc /\ Load(s).placed = s.placed
         /\ Load(s).dirty = s.dirty
         /\ Session(Load(s)) /\ Loaded(Load(s))
         /\ \A l \in Leads : Load(s).member[l].launched /\ Status(Load(s), l) \in Running
              => s.member[l].launched /\ Status(s, l) \in Running
<1> DEFINE rows == [l \in Leads |-> IF l \in s.dirty THEN s.member[l] ELSE member[l]]
           t == [s EXCEPT !.member = rows]
<1>1. Load(s) = t
  BY DEF Load
<1>2. s.member \in [Leads -> Members] /\ member \in [Leads -> Members]
  BY SyncFields DEF TypeOK
<1> HIDE DEF Members, Renders
<1>3. /\ rows \in [Leads -> Members]
      /\ \A l \in Leads : rows[l] = IF l \in s.dirty THEN s.member[l] ELSE member[l]
  BY <1>2
<1> HIDE DEF rows
<1>4. /\ t \in Syncs /\ t.member = rows /\ t.pc = s.pc /\ t.placed = s.placed
      /\ t.dirty = s.dirty
  BY <1>3 DEF Syncs
<1> HIDE DEF t
<1>5. Session(t)
  <2>1. RowsOK(t.member)
    BY <1>3, <1>4 DEF RowsOK, Session
  <2>2. QED
    BY <1>3, <1>4, <2>1 DEF Session
<1>6. Loaded(t)
  BY <1>3, <1>4 DEF Loaded
<1>7. ASSUME NEW l \in Leads, t.member[l].launched, Status(t, l) \in Running
      PROVE  s.member[l].launched /\ Status(s, l) \in Running
  <2>1. CASE l \in s.dirty
    BY <1>3, <1>4, <1>7, <2>1 DEF Status
  <2>2. CASE l \notin s.dirty
    BY <1>3, <1>4, <1>7, <2>2 DEF Status, Session
  <2>3. QED
    BY <2>1, <2>2
<1>8. QED
  BY <1>1, <1>4, <1>5, <1>6, <1>7

\* While the steps are placed the campaign is paused, or an agent's.
LEMMA SafeHoldCompleted ==
  ASSUME IInv, IInv', SafeInv, HoldCompleted PROVE SafeInv'
<1>1. sync.pc = "append" /\ sync.pc \in Phases
  BY DEF HoldCompleted, Phases
<1>2. /\ TypeOK /\ sync \in Syncs /\ Session(sync) /\ RowsOK(member)
      /\ sync.placed <= sync.placed
  BY <1>1, SafeInSession
<1> DEFINE u == Load(sync)
<1>3. PICK failed : sync' = [u EXCEPT !.pc = "place", !.unsafe = failed # {}]
  BY DEF HoldCompleted
<1>4. /\ u \in Syncs /\ u.placed = sync.placed /\ Session(u) /\ Loaded(u)
  BY <1>2, LoadRows
<1> HIDE DEF u
<1>5. /\ sync'.member = u.member /\ sync'.placed = u.placed /\ sync'.dirty = u.dirty
      /\ sync'.pc = "place"
  <2> HIDE DEF Members, Renders
  <2>1. QED
    BY <1>3, <1>4 DEF Syncs
<1>6. sync' \in Syncs
  BY <1>5 DEF IInv, TypeOK, NoSync
<1>7. Follows(sync', sync')
  BY <1>6 DEF Follows
<1>8. /\ UNCHANGED <<campaign, steps, placed, member, unseen, own>>
      /\ runs' # "sync"
  BY DEF HoldCompleted, SafeInv
<1>9. \A l \in Leads : lead'[l].at = lead[l].at
  <2>1. PICK held : lead' = [l \in Leads |-> IF l \in held
                               THEN [lead[l] EXCEPT !.paused = TRUE] ELSE lead[l]]
    BY DEF HoldCompleted
  <2>2. \A l \in Leads : [lead[l] EXCEPT !.paused = TRUE].at = lead[l].at
    BY <1>2 DEF TypeOK, LemlistLeads
  <2>3. QED
    BY <2>1, <2>2
<1>10. PICK v : v = sync'
  OBVIOUS
<1>11. Session(v) /\ Loaded(v)
  <2>1. v.member = u.member /\ v.dirty = u.dirty
    BY <1>5, <1>10
  <2>2. QED
    BY <1>4, <2>1 DEF Session, Loaded
<1>12. Follows(v, sync') /\ sync.placed <= v.placed
  BY <1>2, <1>4, <1>5, <1>7, <1>10
<1>13. QED
  BY <1>1, <1>8, <1>9, <1>11, <1>12, SessionSafe

LEMMA SafeAppendNothing ==
  ASSUME IInv, IInv', SafeInv, AppendNothing PROVE SafeInv'
<1>1. sync.pc = "append" /\ sync.pc \in Phases
  BY DEF AppendNothing, Phases
<1>2. /\ TypeOK /\ sync \in Syncs /\ Session(sync) /\ RowsOK(member)
      /\ sync.placed <= sync.placed
  BY <1>1, SafeInSession
<1> DEFINE u == Load(sync)
<1>3. /\ u \in Syncs /\ u.pc = "append" /\ u.placed = sync.placed
      /\ Session(u) /\ Loaded(u)
      /\ \A l \in Leads : u.member[l].launched /\ Status(u, l) \in Running
           => sync.member[l].launched /\ Status(sync, l) \in Running
  BY <1>1, <1>2, LoadRows
<1>4. sync' = Refreshing(u)
  BY DEF AppendNothing
<1> HIDE DEF u
<1>5. Follows(u, sync')
  BY <1>3, <1>4, RefreshingFollows
<1>6. /\ UNCHANGED <<campaign, steps, placed, member, unseen, own, lead>>
      /\ runs' = "sync" => runs = "sync"
  BY DEF AppendNothing
<1>7. \A l \in Leads : Stood(u, l)
  BY <1>3, <1>6 DEF Stood, Open
<1>8. u.pc \notin Placing /\ sync.placed <= u.placed
  BY <1>2, <1>3 DEF Placing
<1>9. QED
  BY <1>1, <1>3, <1>5, <1>6, <1>7, <1>8, SessionSafe

LEMMA SafePlaceStep ==
  ASSUME IInv, IInv', SafeInv, PlaceStep PROVE SafeInv'
<1> DEFINE k == sync.placed + 1
           T == {l \in InFlight(sync) : sync.member[l].step < k}
           new == [sync EXCEPT !.placed = k, !.pc = "render", !.todo = T]
           x == CHOOSE l \in Leads : TRUE
<1>1. sync.pc = "place" /\ sync.pc \in Phases /\ sync.pc \in Placing
  BY DEF PlaceStep, Phases, Placing
<1>2. /\ TypeOK /\ sync \in Syncs /\ Session(sync) /\ (~unseen => Loaded(sync))
      /\ sync.placed \in Nat /\ runs # "sync"
  BY <1>1, SafeInSession
<1>3. k \in 0 .. MaxSteps /\ k > sync.placed
  <2>1. sync.placed < Len(steps) /\ Len(steps) \in 0 .. MaxSteps
    BY <1>1, <1>2, InSession, StepPositions DEF SyncPhase
  <2>2. QED
    BY <1>2, <2>1, BoundAssumption
<1>4. PICK answer : sync' = IF answer # "ok" THEN Refreshing(sync)
                            ELSE IF new.todo = {} THEN Advance(new, x) ELSE new
  BY DEF PlaceStep
<1>5. T \in SUBSET Leads
  BY DEF InFlight
<1> HIDE DEF T, k, x
<1>6. /\ new \in Syncs /\ new.placed = k /\ new.pc = "render"
      /\ new.member = sync.member /\ new.dirty = sync.dirty
  <2> HIDE DEF Members, Renders
  <2>1. QED
    BY <1>2, <1>3, <1>5 DEF Syncs
<1> HIDE DEF new
<1>7. /\ UNCHANGED <<campaign, steps, placed, member, unseen, own, lead>>
      /\ runs' # "sync"
  BY <1>2 DEF PlaceStep
<1>8. Session(new) /\ (~unseen => Loaded(new)) /\ sync.placed <= new.placed
  BY <1>2, <1>3, <1>6 DEF Session, Loaded, k
<1>9. Follows(sync, sync') \/ Follows(new, sync')
  <2>1. Follows(sync, Refreshing(sync)) /\ Follows(new, Advance(new, x)) /\ Follows(new, new)
    BY <1>2, <1>6, RefreshingFollows, AdvanceFollows DEF Follows
  <2>2. QED
    BY <1>4, <2>1
<1>10. CASE Follows(sync, sync')
  <2>1. sync.placed <= sync.placed
    BY <1>2
  <2>2. QED
    BY <1>1, <1>2, <1>7, <1>10, <2>1, SessionSafe
<1>11. CASE Follows(new, sync')
  BY <1>1, <1>7, <1>8, <1>11, SessionSafe
<1>12. QED
  BY <1>9, <1>10, <1>11

\* What a pause or a resumption at Lemlist leaves of the leads.
LEMMA PausedLeads ==
  ASSUME TypeOK, NEW l \in Leads, PauseLead(l) \/ ResumeLead(l) \/ lead' = lead
  PROVE  /\ \A n \in Leads : lead'[n].at = lead[n].at /\ (n # l => lead'[n] = lead[n])
         /\ PauseLead(l) \/ lead' = lead => (Open(l)' => Open(l))
<1>1. lead \in [Leads -> LemlistLeads]
  BY DEF TypeOK
<1>2. CASE PauseLead(l)
  <2>1. /\ lead'[l].paused = TRUE /\ lead'[l].at = lead[l].at
        /\ \A n \in Leads \ {l} : lead'[n] = lead[n]
    BY <1>1, <1>2 DEF PauseLead, LemlistLeads
  <2>2. QED
    BY <2>1 DEF Open
<1>3. CASE ResumeLead(l)
  <2>1. /\ lead'[l].paused = FALSE /\ lead'[l].at = lead[l].at
        /\ \A n \in Leads \ {l} : lead'[n] = lead[n]
    BY <1>1, <1>3 DEF ResumeLead, LemlistLeads
  <2>2. lead'[l].stage = lead[l].stage
    BY <1>1, <1>3 DEF ResumeLead, LemlistLeads
  <2>3. ASSUME PauseLead(l) \/ lead' = lead, Open(l)' PROVE Open(l)
    <3>1. CASE lead' = lead
      BY <2>3, <3>1 DEF Open
    <3>2. CASE PauseLead(l)
      <4>1. lead'[l].paused = TRUE
        BY <1>1, <3>2 DEF PauseLead, LemlistLeads
      <4>2. QED
        BY <2>3, <4>1 DEF Open
    <3>3. QED
      BY <2>3, <3>1, <3>2
  <2>4. QED
    BY <2>1, <2>3
<1>4. CASE lead' = lead
  BY <1>4 DEF Open
<1>5. QED
  BY <1>2, <1>3, <1>4

LEMMA SafeRenderNewStep ==
  ASSUME IInv, IInv', SafeInv, NEW l \in Leads, RenderNewStep(l) PROVE SafeInv'
<1>1. sync.pc = "render" /\ sync.pc \in Phases /\ l \in sync.todo
  BY DEF RenderNewStep, Phases
<1>2. /\ TypeOK /\ sync \in Syncs /\ sync.placed \in Nat /\ sync.placed <= Len(steps)
      /\ sync.placed >= 1 /\ DOMAIN steps = 1 .. Len(steps) /\ Len(steps) \in Nat
  BY <1>1, SafeInSession, InSession, StepPositions DEF SyncPhase
<1>3. UNCHANGED <<campaign, steps, placed, member, unseen, runs>>
  BY DEF RenderNewStep
<1>4. CASE /\ Personalize(l, {sync.placed})
           /\ sync' = Advance(Rendered(sync, l, {sync.placed}), l)
           /\ lead' = lead
  <2> DEFINE K == {sync.placed}
             u == Rendered(sync, l, K)
  <2>1. K \in SUBSET (1 .. sync.placed) /\ K \in SUBSET DOMAIN steps
    BY <1>2
  <2>2. Personalize(l, K) /\ sync' = Advance(Rendered(sync, l, K), l)
    BY <1>4
  <2> HIDE DEF K
  <2>3. Touches(sync, u, l) /\ sync' = Advance(u, l)
    BY <1>2, <2>1, <2>2, RenderedTouches
  <2> HIDE DEF u
  <2>4. \A n \in Leads, k \in DOMAIN steps :
          own[n][k] = steps[k] => own'[n][k] = steps[k]
    BY <1>2, <2>1, <2>2, PersonalizeKeeps
  <2>5. \A n \in Leads : lead'[n].at = lead[n].at /\ (n # l => lead'[n] = lead[n])
    BY <1>4
  <2>6. QED
    BY <1>1, <1>3, <2>3, <2>4, <2>5, OneLead
<1>5. CASE Hold(l) /\ own' = own
  <2> DEFINE failed == [sync EXCEPT !.unsafe = TRUE]
  <2>1. lead' = lead \/ PauseLead(l)
    BY <1>5 DEF Hold
  <2>2. \/ sync' = Advance(sync, l)
        \/ sync' = Advance(Mark(sync, l, "held"), l)
        \/ sync' = Advance(failed, l)
    BY <1>5 DEF Hold
  <2>3. "held" \in MemberStatuses \ {"ready"}
    BY DEF MemberStatuses, Paused
  <2>4. Touches(sync, sync, l) /\ Touches(sync, Mark(sync, l, "held"), l)
    BY <1>2, <2>3, MarkTouches, TouchesItself
  <2>5. Touches(sync, failed, l)
    <3>1. /\ failed \in Syncs /\ failed.pc = sync.pc /\ failed.placed = sync.placed
          /\ failed.member = sync.member /\ failed.dirty = sync.dirty
          /\ failed.todo = sync.todo
      <4> HIDE DEF Members, Renders
      <4>1. QED
        BY <1>2 DEF Syncs
    <3> HIDE DEF failed
    <3>2. QED
      BY <3>1 DEF Touches
  <2> HIDE DEF failed
  <2>6. PICK u : Touches(sync, u, l) /\ sync' = Advance(u, l)
    BY <2>2, <2>4, <2>5
  <2>7. \A n \in Leads : lead'[n].at = lead[n].at /\ (n # l => lead'[n] = lead[n])
    BY <1>2, <2>1, PausedLeads
  <2>8. QED
    BY <1>1, <1>3, <1>5, <2>6, <2>7, OneLead
<1>6. QED
  BY <1>4, <1>5 DEF RenderNewStep

LEMMA SafeRefreshLead ==
  ASSUME IInv, IInv', SafeInv, NEW l \in Leads, RefreshLead(l) PROVE SafeInv'
<1> DEFINE K == Missing(sync.member[l], sync.render[l], sync.placed)
<1>1. sync.pc = "refresh" /\ sync.pc \in Phases
  BY DEF RefreshLead, Phases
<1>2. /\ TypeOK /\ sync \in Syncs /\ sync.placed \in Nat /\ sync.placed <= Len(steps)
      /\ DOMAIN steps = 1 .. Len(steps) /\ Len(steps) \in Nat
  BY <1>1, SafeInSession, StepPositions
<1>3. UNCHANGED <<campaign, steps, placed, member, unseen, runs>>
  BY DEF RefreshLead
<1>4. K \in SUBSET (1 .. sync.placed)
  BY DEF Missing
<1>5. \A J : J \in SUBSET (1 .. sync.placed) => J \in SUBSET DOMAIN steps
  BY <1>2
<1>6. ASSUME Personalize(l, K) PROVE Gets(l, sync.placed)
  <2>1. \A k \in DOMAIN steps : k > sync.member[l].step /\ k <= sync.placed
          => k \in K \/ sync.render[l][k] = steps[k]
    BY <1>2 DEF Missing
  <2> HIDE DEF K
  <2>2. K \in SUBSET DOMAIN steps
    BY <1>4, <1>5
  <2>3. QED
    BY <1>1, <1>2, <1>6, <2>1, <2>2, GetsAll
<1>7. ASSUME NEW J \in SUBSET (1 .. sync.placed)
      PROVE  /\ Touches(sync, Rendered(sync, l, J), l) /\ Stands(sync, Rendered(sync, l, J), l)
             /\ Personalize(l, J) => \A n \in Leads, k \in DOMAIN steps :
                                       own[n][k] = steps[k] => own'[n][k] = steps[k]
  BY <1>2, <1>5, RenderedTouches, PersonalizeKeeps
<1>8. CASE sync' = Advance(sync, l) /\ UNCHANGED <<lead, own, faults>>
  <2>1. Touches(sync, sync, l) /\ Stands(sync, sync, l)
    BY <1>2, TouchesItself
  <2>2. Open(l)' => Open(l)
    BY <1>8 DEF Open
  <2>3. QED
    BY <1>1, <1>3, <1>8, <2>1, <2>2, OneLead
<1> HIDE DEF K
<1>9. ASSUME Personalize(l, K), NEW u, Touches(sync, u, l), sync' = Advance(u, l),
             ResumeLead(l) \/ lead' = lead
      PROVE  SafeInv'
  <2>1. \A n \in Leads : lead'[n].at = lead[n].at /\ (n # l => lead'[n] = lead[n])
    BY <1>2, <1>9, PausedLeads
  <2>2. Gets(l, sync.placed)
    BY <1>6, <1>9
  <2>3. \A n \in Leads, k \in DOMAIN steps :
          own[n][k] = steps[k] => own'[n][k] = steps[k]
    BY <1>4, <1>7, <1>9
  <2>4. QED
    BY <1>1, <1>3, <1>9, <2>1, <2>2, <2>3, OneLead
<1>10. CASE Personalize(l, K) /\ sync' = Advance(Rendered(sync, l, K), l)
            /\ UNCHANGED <<lead, faults>>
  BY <1>4, <1>7, <1>9, <1>10
<1>11. ASSUME Personalize(l, K), NEW answer \in Answers,
              IF answer = "failed" THEN UNCHANGED lead ELSE ResumeLead(l),
              sync' = Advance(IF answer = "ok" THEN Released(Rendered(sync, l, K), l)
                              ELSE Rendered(sync, l, K), l)
       PROVE  SafeInv'
  <2> DEFINE u == Rendered(sync, l, K)
  <2>1. Touches(sync, u, l) /\ u \in Syncs
    BY <1>4, <1>7 DEF Touches
  <2>2. sync' = Advance(u, l) \/ sync' = Advance(Released(u, l), l)
    BY <1>11
  <2> HIDE DEF u
  <2>3. {"active", "queued"} \subseteq MemberStatuses \ {"ready"}
    BY DEF MemberStatuses, Running
  <2>4. \E status \in {"active", "queued"} : Released(u, l) = Mark(u, l, status)
    BY DEF Released, Resumed
  <2>5. Touches(u, Released(u, l), l)
    BY <2>1, <2>3, <2>4, MarkTouches
  <2>6. Touches(sync, Released(u, l), l)
    BY <2>1, <2>5, TouchesTransitive
  <2>7. ResumeLead(l) \/ lead' = lead
    BY <1>11
  <2>8. QED
    BY <1>9, <1>11, <2>1, <2>2, <2>6, <2>7
<1>12. ASSUME NEW n \in 1 .. sync.placed, Personalize(l, K \cap 1 .. n),
              sync' = Advance(Rendered(sync, l, K \cap 1 .. n), l), UNCHANGED lead
       PROVE  SafeInv'
  <2> DEFINE J == K \cap 1 .. n
             u == Rendered(sync, l, J)
  <2>1. J \in SUBSET (1 .. sync.placed)
    BY <1>4
  <2>2. Personalize(l, J) /\ sync' = Advance(u, l)
    BY <1>12
  <2> HIDE DEF J
  <2>3. Touches(sync, u, l) /\ Stands(sync, u, l)
    BY <1>7, <2>1
  <2> HIDE DEF u
  <2>4. \A m \in Leads, k \in DOMAIN steps :
          own[m][k] = steps[k] => own'[m][k] = steps[k]
    BY <1>7, <2>1, <2>2
  <2>5. Open(l)' => Open(l)
    BY <1>12 DEF Open
  <2>6. QED
    BY <1>1, <1>3, <1>12, <2>2, <2>3, <2>4, <2>5, OneLead
<1>13. QED
  BY <1>8, <1>10, <1>11, <1>12 DEF RefreshLead, K

\* A lead is added, or launched.
LEMMA AddedLeads ==
  ASSUME TypeOK, NEW l \in Leads, NEW stage \in {"review", "launched"}, AddLead(l, stage)
  PROVE  /\ \A n \in Leads : lead'[n].at = lead[n].at /\ (n # l => lead'[n] = lead[n])
         /\ stage = "review" => (Open(l)' => Open(l))
<1> DEFINE now == IF lead[l].stage \in {"none", "review"} THEN stage ELSE lead[l].stage
<1>1. lead \in [Leads -> LemlistLeads]
  BY DEF TypeOK
<1>2. lead' = [lead EXCEPT ![l].stage = now]
  BY DEF AddLead
<1>3. stage = "review" => (now = "launched" => lead[l].stage = "launched")
  OBVIOUS
<1> HIDE DEF now
<1>4. /\ lead'[l].stage = now /\ lead'[l].at = lead[l].at
      /\ lead'[l].paused = lead[l].paused
      /\ \A n \in Leads \ {l} : lead'[n] = lead[n]
  BY <1>1, <1>2 DEF LemlistLeads
<1>5. QED
  BY <1>3, <1>4 DEF Open

LEMMA SafePushMember ==
  ASSUME IInv, IInv', SafeInv, NEW l \in Leads, PushMember(l) PROVE SafeInv'
<1> DEFINE K == {k \in DOMAIN steps : sync.render[l][k] # steps[k]}
           stops == {k \in K : k > sync.placed \/ lead[l].at >= k}
           upTo(n) == {k \in K : k <= n /\ \A j \in stops : k < j}
           Pushes(J) == Known(Rendered(sync, l, J), l)
<1>1. sync.pc = "launch" /\ sync.pc \in Phases
  BY DEF PushMember, Phases
<1>2. /\ TypeOK /\ sync \in Syncs /\ sync.placed \in Nat /\ sync.placed <= Len(steps)
      /\ DOMAIN steps = 1 .. Len(steps) /\ Len(steps) \in Nat
  BY <1>1, SafeInSession, StepPositions
<1>3. UNCHANGED <<campaign, steps, placed, member, unseen, runs>>
  BY DEF PushMember
<1>4. /\ \A n : upTo(n) \in SUBSET (1 .. sync.placed)
      /\ stops = {} => K \in SUBSET (1 .. sync.placed)
  <2>1. \A k \in K : k \in Nat /\ k >= 1
    BY <1>2
  <2>2. \A k \in K : k \notin stops => k \in 1 .. sync.placed
    BY <1>2, <2>1
  <2>3. ASSUME NEW n, NEW k \in upTo(n) PROVE k \in 1 .. sync.placed
    <3>1. k \in K /\ \A j \in stops : k < j
      OBVIOUS
    <3>2. k \notin stops
      BY <2>1, <3>1
    <3>3. QED
      BY <2>2, <3>1, <3>2
  <2>4. QED
    BY <2>2, <2>3
<1>5. \A J : J \in SUBSET (1 .. sync.placed) => J \in SUBSET DOMAIN steps
  BY <1>2
<1>6. ASSUME stops = {}, Personalize(l, K) PROVE Gets(l, sync.placed)
  <2>1. \A k \in DOMAIN steps : k \in K \/ sync.render[l][k] = steps[k]
    OBVIOUS
  <2>2. K \in SUBSET DOMAIN steps
    OBVIOUS
  <2> HIDE DEF K
  <2>3. QED
    BY <1>1, <1>2, <1>6, <2>1, <2>2, GetsAll
<1>7. ASSUME NEW J \in SUBSET (1 .. sync.placed)
      PROVE  /\ Touches(sync, Pushes(J), l) /\ Stands(sync, Pushes(J), l)
             /\ Pushes(J).member[l].known /\ Pushes(J) \in Syncs
             /\ Personalize(l, J) => \A n \in Leads, k \in DOMAIN steps :
                                       own[n][k] = steps[k] => own'[n][k] = steps[k]
  <2> DEFINE u == Rendered(sync, l, J)
  <2>1. Touches(sync, u, l) /\ Stands(sync, u, l)
    BY <1>2, RenderedTouches
  <2> HIDE DEF u
  <2>2. u \in Syncs
    BY <2>1 DEF Touches
  <2>3. /\ Touches(u, Known(u, l), l) /\ Stands(u, Known(u, l), l)
        /\ Known(u, l).member[l].known
    BY <2>2, KnownTouches
  <2>4. Touches(sync, Known(u, l), l)
    BY <2>1, <2>3, TouchesTransitive
  <2>5. Stands(sync, Known(u, l), l)
    BY <2>1, <2>3 DEF Stands
  <2>6. Known(u, l) \in Syncs
    BY <2>4 DEF Touches
  <2>7. Personalize(l, J) => \A n \in Leads, k \in DOMAIN steps :
                               own[n][k] = steps[k] => own'[n][k] = steps[k]
    BY <1>2, <1>5, PersonalizeKeeps
  <2>8. QED
    BY <2>3, <2>4, <2>5, <2>6, <2>7 DEF u
<1>8. ASSUME sync' = Advance(sync, l), own' = own, AddLead(l, "review") \/ lead' = lead
      PROVE  SafeInv'
  <2>1. Touches(sync, sync, l) /\ Stands(sync, sync, l)
    BY <1>2, TouchesItself
  <2>2. /\ \A n \in Leads : lead'[n].at = lead[n].at /\ (n # l => lead'[n] = lead[n])
        /\ Open(l)' => Open(l)
    BY <1>2, <1>8, AddedLeads DEF Open
  <2>3. QED
    BY <1>1, <1>3, <1>8, <2>1, <2>2, OneLead
<1>9. ASSUME NEW answer \in {"failed", "lost"},
             IF answer = "lost" THEN AddLead(l, "review") ELSE UNCHANGED lead,
             sync' = Advance(sync, l), UNCHANGED own
      PROVE  SafeInv'
  BY <1>8, <1>9
<1>10. ASSUME NEW n, AddLead(l, "review"), Personalize(l, upTo(n)),
              sync' = Advance(Pushes(upTo(n)), l)
       PROVE  SafeInv'
  <2> DEFINE J == upTo(n)
             u == Pushes(J)
  <2>1. J \in SUBSET (1 .. sync.placed)
    BY <1>4
  <2>2. Personalize(l, J) /\ sync' = Advance(u, l)
    BY <1>10
  <2> HIDE DEF J, Pushes
  <2>3. /\ Touches(sync, u, l) /\ Stands(sync, u, l)
        /\ \A m \in Leads, k \in DOMAIN steps :
             own[m][k] = steps[k] => own'[m][k] = steps[k]
    BY <1>7, <2>1, <2>2
  <2> HIDE DEF u
  <2>4. /\ \A m \in Leads : lead'[m].at = lead[m].at /\ (m # l => lead'[m] = lead[m])
        /\ Open(l)' => Open(l)
    BY <1>2, <1>10, AddedLeads
  <2>5. QED
    BY <1>1, <1>3, <2>2, <2>3, <2>4, OneLead
<1>11. ASSUME stops = {}, NEW answer \in {"ok", "lost"},
              sync' = Advance(IF answer = "ok" THEN Queued(Pushes(K), l) ELSE Pushes(K), l),
              AddLead(l, "launched"), Personalize(l, K)
       PROVE  SafeInv'
  <2> DEFINE u == Pushes(K)
  <2>1. K \in SUBSET (1 .. sync.placed) /\ Gets(l, sync.placed)
    BY <1>4, <1>6, <1>11
  <2>2. sync' = Advance(u, l) \/ sync' = Advance(Queued(u, l), l)
    BY <1>11
  <2>3. Personalize(l, K)
    BY <1>11
  <2> HIDE DEF K, Pushes
  <2>4. /\ Touches(sync, u, l) /\ u.member[l].known /\ u \in Syncs
        /\ \A m \in Leads, k \in DOMAIN steps :
             own[m][k] = steps[k] => own'[m][k] = steps[k]
    BY <1>7, <2>1, <2>3
  <2> HIDE DEF u
  <2>5. Touches(sync, Queued(u, l), l)
    BY <2>4, QueuedTouches, TouchesTransitive
  <2>6. \A m \in Leads : lead'[m].at = lead[m].at /\ (m # l => lead'[m] = lead[m])
    BY <1>2, <1>11, AddedLeads
  <2>7. CASE sync' = Advance(u, l)
    BY <1>1, <1>3, <2>1, <2>4, <2>6, <2>7, OneLead
  <2>8. CASE sync' = Advance(Queued(u, l), l)
    BY <1>1, <1>3, <2>1, <2>4, <2>5, <2>6, <2>8, OneLead
  <2>9. QED
    BY <2>2, <2>7, <2>8
<1>12. CASE sync' = Advance(sync, l) /\ UNCHANGED <<lead, own, faults>>
  BY <1>8, <1>12
<1>13. QED
  BY <1>9, <1>10, <1>11, <1>12 DEF PushMember

LEMMA SafeCrash ==
  ASSUME IInv, SafeInv, Crash PROVE SafeInv'
<1>1. /\ sync' = NoSync
      /\ UNCHANGED <<campaign, steps, placed, member, runs, lead, own, unseen>>
  BY DEF Crash, lemlist
<1>2. RowsOK(member)' /\ (runs = "sync" => campaign = "ACTIVE")'
  BY <1>1 DEF SafeInv, RowsOK
<1>3. ~unseen' /\ runs' = "sync" => SafeRows'
  BY <1>1 DEF SafeInv, SafeRows, Owns, Open
<1>4. QED
  BY <1>1, <1>2, <1>3 DEF SafeInv

\* A step that leaves no sync under way, and neither runs the campaign anew nor
\* moves a step a launched lead may still get.
LEMMA SafeIdle ==
  ASSUME IInv, IInv', sync' = NoSync, RowsOK(member)',
         runs' = "sync" => campaign' = "ACTIVE",
         ~unseen' /\ runs' = "sync" => SafeRows'
  PROVE  SafeInv'
  BY DEF SafeInv

\* The commit: a sync lets the campaign run when no lead it lets run misses one.
LEMMA SafeFinish ==
  ASSUME IInv, IInv', SafeInv, Finish PROVE SafeInv'
<1>1. sync.pc = "finish" /\ sync.pc \in Phases
  BY DEF Finish, Phases
<1>2. /\ TypeOK /\ sync \in Syncs /\ Session(sync) /\ sync # NoSync
      /\ sync.member \in [Leads -> Members] /\ member \in [Leads -> Members]
      /\ RowsOK(member) /\ Faithful(sync.render, own)
      /\ sync.placed \in Nat
      /\ ~unseen => Loaded(sync)
      /\ runs = "sync" => campaign = "ACTIVE"
  BY <1>1, SafeInSession, InSession, SyncFields DEF TypeOK
<1> DEFINE row(l) ==
      [sync.member[l] EXCEPT !.status = Status(sync, l),
         !.step = Larger(@, member[l].step), !.heard = Larger(@, member[l].heard)]
<1>3. /\ member' = [l \in Leads |-> row(l)]
      /\ placed' = sync.placed /\ sync' = NoSync
      /\ UNCHANGED <<campaign, steps, lead, own, unseen>>
  BY DEF Finish
<1>4. ASSUME NEW l \in Leads
      PROVE  /\ row(l).status = Status(sync, l)
             /\ row(l).known = sync.member[l].known
             /\ row(l).launched = sync.member[l].launched
             /\ row(l).step = Larger(sync.member[l].step, member[l].step)
  <2>1. sync.member[l] \in Members
    BY <1>2
  <2>2. QED
    BY <2>1 DEF Members
<1> HIDE DEF row
<1>5. ASSUME NEW l \in Leads
      PROVE  /\ member'[l].status = Status(sync, l)
             /\ member'[l].known = sync.member[l].known
             /\ member'[l].launched = sync.member[l].launched
             /\ member'[l].step = Larger(sync.member[l].step, member[l].step)
  BY <1>3, <1>4
<1>6. RowsOK(member)'
  <2>1. ASSUME NEW l \in Leads PROVE member'[l].step <= lead'[l].at
    BY <1>2, <1>3, <1>5 DEF RowsOK, Session, Larger
  <2>2. ASSUME NEW l \in Leads, member'[l].launched
        PROVE  member'[l].known /\ member'[l].status # "ready"
    <3>1. sync.member[l].launched /\ sync.member[l].known
      BY <1>2, <1>5, <2>2 DEF Session, RowsOK
    <3>2. Status(sync, l) # "ready"
      BY <1>2, <3>1 DEF Session, RowsOK, Status
    <3>3. QED
      BY <1>5, <3>1, <3>2
  <2>3. QED
    BY <2>1, <2>2 DEF RowsOK
<1>7. runs' = "sync" => campaign' = "ACTIVE"
  BY <1>2, <1>3 DEF Finish
<1>8. runs' = "sync" => runs = "sync" \/ ~Unsafe(sync)
  BY DEF Finish
<1>9. ASSUME ~unseen, runs' = "sync", NEW l \in Leads, sync.member[l].launched,
             Status(sync, l) \in Running, Open(l)
      PROVE  Owns(l, sync.placed)
  <2>1. CASE runs = "sync"
    BY <1>2, <1>9, <2>1 DEF SafeInv, SafeSession
  <2>2. CASE ~Unsafe(sync)
    <3>1. sync.member[l].known /\ sync.member[l].step <= lead[l].at
      BY <1>2, <1>9 DEF Session, RowsOK
    <3>2. sync.member[l].status \in Running
      BY <1>2, <1>9 DEF Loaded, Status
    <3>3. l \in InFlight(sync)
      BY <1>9, <3>1 DEF InFlight
    <3>4. Missing(sync.member[l], sync.render[l], sync.placed) = {}
      BY <2>2, <3>2, <3>3 DEF Unsafe
    <3>5. /\ sync.member[l].step \in Nat /\ lead[l].at \in Nat
          /\ DOMAIN steps = 1 .. Len(steps)
      BY <1>2, LeadFields, StepPositions DEF Members
    <3>6. ASSUME NEW k \in DOMAIN steps, lead[l].at < k, k <= sync.placed
          PROVE  own[l][k] = steps[k]
      <4>1. k \in 1 .. sync.placed /\ k > sync.member[l].step
        BY <1>2, <3>1, <3>5, <3>6
      <4>2. sync.render[l][k] = steps[k]
        BY <3>4, <4>1 DEF Missing
      <4>3. QED
        BY <1>2, <4>2 DEF Faithful
    <3>7. QED
      BY <3>6 DEF Owns
  <2>3. QED
    BY <1>8, <1>9, <2>1, <2>2
<1>10. ASSUME ~unseen', runs' = "sync" PROVE SafeRows'
  <2>1. ~unseen
    BY <1>3, <1>10
  <2>2. ASSUME NEW l \in Leads, member'[l].launched, member'[l].status \in Running, Open(l)'
        PROVE  Owns(l, placed)'
    <3>1. Open(l)
      BY <1>3, <2>2 DEF Open
    <3>2. Owns(l, sync.placed)
      BY <1>5, <1>9, <1>10, <2>1, <2>2, <3>1
    <3>3. QED
      BY <1>3, <3>2 DEF Owns
  <2>3. QED
    BY <2>2 DEF SafeRows
<1>11. QED
  BY <1>3, <1>6, <1>7, <1>10, SafeIdle

\* Before the campaign holds a lead, nobody is launched.
LEMMA NobodyLaunched ==
  ASSUME SafeInv, ~InUse, NEW l \in Leads
  PROVE  ~member[l].launched
  BY DEF SafeInv, RowsOK, InUse

LEMMA SafePushFails ==
  ASSUME IInv, IInv', SafeInv, NEW launching \in BOOLEAN, PushFails(launching)
  PROVE  SafeInv'
<1>1. /\ TypeOK /\ sync = NoSync /\ placed \in Nat
  BY StepPositions, Idle DEF IInv, TypeOK, PushFails
<1>2. UNCHANGED <<campaign, steps, member, sync, lead, own, unseen>>
  BY DEF PushFails
<1>3. runs' = "sync" => campaign' = "ACTIVE" /\ (runs = "sync" \/ ~InUse)
  BY <1>2 DEF PushFails, SafeInv
<1>4. InUse => placed' = placed
  <2>1. ASSUME InUse PROVE placed' = placed
    <3>1. PICK n \in 0 .. placed, dies \in BOOLEAN :
            placed' = IF dies THEN placed ELSE Larger(placed, n)
      BY <2>1 DEF PushFails
    <3>2. QED
      BY <1>1, <3>1 DEF Larger
  <2>2. QED
    BY <2>1
<1>5. RowsOK(member)'
  BY <1>2 DEF SafeInv, RowsOK
<1>6. ASSUME ~unseen', runs' = "sync" PROVE SafeRows'
  <2>1. CASE InUse
    <3>1. SafeRows
      BY <1>2, <1>3, <1>6, <2>1 DEF SafeInv
    <3>2. QED
      BY <1>2, <1>4, <2>1, <3>1 DEF SafeRows, Open, Owns
  <2>2. CASE ~InUse
    BY <1>2, <2>2, NobodyLaunched DEF SafeRows
  <2>3. QED
    BY <2>1, <2>2
<1>7. QED
  BY <1>1, <1>2, <1>3, <1>5, <1>6, SafeIdle

\* A resumption under way stays one of a recipient that has its emails.
LEMMA PendingStays ==
  ASSUME TypeOK, PendingInv, sync' \in {sync, NoSync},
         \A l \in Leads : /\ member'[l].known = member[l].known
                          /\ member[l].known /\ Owns(l, placed) => Owns(l, placed)',
         \A q \in Requests :
           Resuming(q)' => \/ PendingOK(q)'
                           \/ /\ Resuming(q)
                              /\ request'[q].lead = request[q].lead
                              /\ request'[q].to = request[q].to
                              /\ request[q].pc = "write" => request'[q].pc = "write"
  PROVE  PendingInv'
<1> SUFFICES ASSUME NEW q \in Requests, Resuming(q)', ~PendingOK(q)' PROVE FALSE
  BY DEF PendingInv, PendingOK
<1>1. /\ Resuming(q)
      /\ request'[q].lead = request[q].lead
      /\ request'[q].to = request[q].to
      /\ request[q].pc = "write" => request'[q].pc = "write"
  OBVIOUS
<1>2. PendingOK(q)
  BY DEF PendingInv
<1>3. PICK l \in Leads : l = request[q].lead
  BY <1>1, RequestFields DEF Resuming
<1>4. sync' = NoSync
  BY <1>1, <1>2 DEF PendingOK
<1>5. CASE request[q].to = "ready"
  BY <1>1, <1>2, <1>3, <1>4, <1>5 DEF PendingOK
<1>6. CASE request[q].to # "ready"
  <2>1. member[l].known /\ Owns(l, placed)
    BY <1>1, <1>2, <1>3, <1>6 DEF PendingOK
  <2>2. member'[l].known /\ Owns(l, placed)'
    BY <2>1
  <2>3. PendingOK(q)'
    BY <1>1, <1>3, <1>4, <1>6, <2>2 DEF PendingOK, Owns
  <2>4. QED
    BY <2>3
<1>7. QED
  BY <1>5, <1>6

\* A change of the sequence moves no step a launched lead may still get.
LEMMA SafeSequence ==
  ASSUME IInv, IInv', SafeInv, PendingInv, sync = NoSync,
         UNCHANGED <<campaign, sync, runs, lead, own, unseen, request>>,
         \A l \in Leads :
           /\ member'[l].launched = member[l].launched
           /\ member'[l].known = member[l].known
           /\ member'[l].step = member[l].step
           /\ member'[l].status = member[l].status \/ member'[l].status = "completed",
         InUse => /\ placed' \in Nat /\ placed' <= placed
                  /\ \A k \in DOMAIN steps' : k <= placed'
                       => k \in DOMAIN steps /\ steps'[k] = steps[k]
  PROVE  SafeInv' /\ PendingInv'
<1>1. TypeOK /\ placed \in Nat
  BY DEF IInv, TypeOK
<1>2. RowsOK(member)' /\ (runs' = "sync" => campaign' = "ACTIVE")
  BY DEF SafeInv, RowsOK
<1>3. ASSUME InUse, NEW l \in Leads, Owns(l, placed) PROVE Owns(l, placed)'
  <2>1. ASSUME NEW k \in DOMAIN steps', lead'[l].at < k, k <= placed'
        PROVE  own'[l][k] = steps'[k]
    <3>1. k \in DOMAIN steps /\ steps'[k] = steps[k]
      BY <1>3, <2>1
    <3>2. k <= placed
      <4>1. k \in Nat
        BY <1>1, <3>1, StepPositions DEF Positions
      <4>2. QED
        BY <1>1, <1>3, <2>1, <4>1
    <3>3. lead[l].at < k
      BY <2>1
    <3>4. QED
      BY <1>3, <3>1, <3>2, <3>3 DEF Owns
  <2>2. QED
    BY <2>1 DEF Owns
<1>4. ASSUME ~unseen', runs' = "sync", NEW l \in Leads,
             member'[l].launched, member'[l].status \in Running, Open(l)'
      PROVE  Owns(l, placed)'
  <2>1. InUse /\ SafeRows
    BY <1>4, NobodyLaunched DEF SafeInv
  <2>2. "completed" \notin Running
    BY DEF Running
  <2>3. member[l].launched /\ member[l].status \in Running /\ Open(l)
    BY <1>4, <2>2 DEF Open
  <2>4. Owns(l, placed)
    BY <2>1, <2>3 DEF SafeRows
  <2>5. QED
    BY <1>3, <2>1, <2>4
<1>5. ~unseen' /\ runs' = "sync" => SafeRows'
  BY <1>4 DEF SafeRows
<1>6. sync' = NoSync
  OBVIOUS
<1>7. SafeInv'
  BY <1>2, <1>5, <1>6, SafeIdle
<1>8. PendingInv'
  <2>1. \A l \in Leads : member[l].known /\ Owns(l, placed) => Owns(l, placed)'
    BY <1>3 DEF InUse
  <2>2. \A q \in Requests : Resuming(q)' => Resuming(q)
    BY DEF Resuming
  <2>3. QED
    BY <1>1, <1>6, <2>1, <2>2, PendingStays
<1>9. QED
  BY <1>7, <1>8

LEMMA SafeCreateStep ==
  ASSUME IInv, IInv', SafeInv, PendingInv, NEW k \in Positions, CreateStep(k)
  PROVE  SafeInv' /\ PendingInv'
<1>1. /\ TypeOK /\ sync = NoSync /\ steps \in Seq(Ids) /\ Len(steps) \in Nat
      /\ DOMAIN steps = 1 .. Len(steps) /\ placed \in 0 .. Len(steps)
      /\ created \in 0 .. MaxIds
  BY StepPositions, Idle DEF IInv, TypeOK, CreateStep
<1>2. /\ UNCHANGED <<campaign, placed, member, sync, runs, lead, own, unseen, request>>
      /\ steps' = InsertAt(steps, k, created + 1) /\ k \in 1 .. Len(steps) + 1
      /\ InUse => k = Len(steps) + 1
      /\ created < MaxIds
  BY DEF CreateStep, lemlist
<1>3. created + 1 \in Ids
  BY <1>1, <1>2, BoundAssumption DEF Ids
<1>4. \A j \in 1 .. Len(steps) + 1 :
        j < k => InsertAt(steps, k, created + 1)[j] = steps[j]
  <2> DEFINE x == created + 1
  <2>1. x \in Ids
    BY <1>3
  <2> HIDE DEF x
  <2>2. \A j \in 1 .. Len(steps) + 1 : j < k => InsertAt(steps, k, x)[j] = steps[j]
    BY <1>1, <1>2, <2>1, Inserted
  <2>3. QED
    BY <2>2 DEF x
<1>5. InUse => /\ placed' \in Nat /\ placed' <= placed
               /\ \A j \in DOMAIN steps' : j <= placed'
                    => j \in DOMAIN steps /\ steps'[j] = steps[j]
  <2>1. steps' \in Seq(Ids) /\ Len(steps') = Len(steps) + 1
    BY <1>1, <1>2, <1>3, Inserted
  <2>2. DOMAIN steps' = 1 .. Len(steps) + 1
    BY <2>1
  <2>3. ASSUME InUse, NEW j \in 1 .. Len(steps) + 1, j <= placed
        PROVE  j \in DOMAIN steps /\ steps'[j] = steps[j]
    BY <1>1, <1>2, <1>4, <2>3
  <2>4. QED
    BY <1>1, <1>2, <2>2, <2>3
<1>6. QED
  BY <1>1, <1>2, <1>5, SafeSequence

LEMMA SafeDeleteStep ==
  ASSUME IInv, IInv', SafeInv, PendingInv, NEW k \in Positions, DeleteStep(k)
  PROVE  SafeInv' /\ PendingInv'
<1>1. /\ TypeOK /\ sync = NoSync /\ steps \in Seq(Ids) /\ Len(steps) \in Nat
      /\ DOMAIN steps = 1 .. Len(steps) /\ placed \in 0 .. Len(steps)
      /\ member \in [Leads -> Members]
  BY StepPositions, Idle DEF IInv, TypeOK, DeleteStep
<1>2. /\ UNCHANGED <<campaign, sync, runs, lead, own, unseen, request>>
      /\ steps' = RemoveAt(steps, k) /\ k \in 1 .. Len(steps)
      /\ DropFree(k) \/ DropInUse(k)
  BY <1>1 DEF DeleteStep
<1>3. /\ RemoveAt(steps, k) \in Seq(Ids) /\ Len(RemoveAt(steps, k)) = Len(steps) - 1
      /\ \A j \in 1 .. Len(steps) - 1 :
           RemoveAt(steps, k)[j] = IF j < k THEN steps[j] ELSE steps[j + 1]
  BY <1>1, <1>2, Removed
<1>4. DOMAIN steps' = 1 .. Len(steps) - 1
  BY <1>2, <1>3
<1>5. ASSUME NEW l \in Leads
      PROVE  /\ member'[l].launched = member[l].launched
             /\ member'[l].known = member[l].known
             /\ member'[l].step = member[l].step
             /\ member'[l].status = member[l].status \/ member'[l].status = "completed"
  <2>1. member' = member \/ member' = CompleteWaiting(k - 1)
    BY <1>2 DEF DropFree, DropInUse
  <2>2. \/ CompleteWaiting(k - 1)[l] = member[l]
        \/ CompleteWaiting(k - 1)[l] = [member[l] EXCEPT !.status = "completed"]
    BY DEF CompleteWaiting
  <2>3. member[l] \in Members
    BY <1>1
  <2>4. member'[l] = member[l] \/ member'[l] = [member[l] EXCEPT !.status = "completed"]
    BY <2>1, <2>2
  <2>5. QED
    BY <2>3, <2>4 DEF Members
<1>6. ASSUME InUse
      PROVE  /\ placed' \in Nat /\ placed' <= placed
             /\ \A j \in DOMAIN steps' : j <= placed'
                  => j \in DOMAIN steps /\ steps'[j] = steps[j]
  <2>1. \/ placed' = placed /\ placed < k
        \/ placed' = placed - 1 /\ k = placed /\ k > 1
    BY <1>1, <1>2, <1>6 DEF DropFree, DropInUse
  <2>2. placed' \in Nat /\ placed' <= placed /\ placed' < k
    BY <1>1, <2>1
  <2>3. ASSUME NEW j \in 1 .. Len(steps) - 1, j <= placed'
        PROVE  j \in DOMAIN steps /\ RemoveAt(steps, k)[j] = steps[j]
    BY <1>1, <1>2, <1>3, <2>2, <2>3
  <2>4. QED
    BY <1>2, <1>4, <2>2, <2>3
<1>7. QED
  BY <1>1, <1>2, <1>5, <1>6, SafeSequence

LEMMA SafeBeginSync ==
  ASSUME IInv, IInv', SafeInv, NEW launching \in BOOLEAN, BeginSync(launching)
  PROVE  SafeInv'
<1> DEFINE n == IF InUse THEN placed ELSE Len(steps)
           inUse == InUse
           Dirty(h) == {l \in Leads : h[l] # member[l]}
           Start(h) == [pc |-> "append", inUse |-> inUse, launching |-> launching,
                        unsafe |-> FALSE, placed |-> n, member |-> h,
                        render |-> render, todo |-> {}, dirty |-> Dirty(h)]
           pulls == [l \in Leads |-> Ingested(member[l], lead[l].at)]
<1>1. /\ TypeOK /\ member \in [Leads -> Members] /\ render \in [Leads -> Renders]
      /\ placed \in Nat /\ placed <= Len(steps) /\ Len(steps) \in 0 .. MaxSteps
      /\ RowsOK(member) /\ (runs = "sync" => campaign = "ACTIVE")
      /\ sync = NoSync
  BY StepPositions, Idle DEF IInv, SafeInv, TypeOK, BeginSync
<1>2. PICK h \in {pulls, member} :
        /\ runs' = IF ~InUse /\ campaign = "ACTIVE" THEN "sync" ELSE runs
        /\ sync' = Appending(Start(h))
  BY DEF BeginSync
<1>3. UNCHANGED <<campaign, steps, placed, member, lead, own>> /\ (~unseen' => ~unseen)
  BY DEF BeginSync, Race
<1>4. /\ h \in [Leads -> Members]
      /\ \A l \in Leads :
           /\ h[l].step <= lead[l].at /\ h[l].launched = member[l].launched
           /\ h[l].known = member[l].known
           /\ member[l].launched =>
                h[l].status # "ready" /\ (h[l].status \in Running => member[l].status \in Running)
  <2>1. ASSUME NEW l \in Leads
        PROVE  LET m == Ingested(member[l], lead[l].at)
               IN /\ m \in Members
                  /\ m.step <= lead[l].at /\ m.launched = member[l].launched
                  /\ m.known = member[l].known
                  /\ member[l].launched =>
                       m.status # "ready" /\ (m.status \in Running => member[l].status \in Running)
    <3>1. /\ member[l] \in Members /\ lead[l].at \in 0 .. MaxSteps
          /\ member[l].step <= lead[l].at
          /\ member[l].launched => member[l].status # "ready"
      BY Now, LeadFields
    <3>2. QED
      BY <3>1, IngestedRow, IngestedFields
  <2>2. CASE h = member
    BY <1>1, <2>2, Now
  <2>3. CASE h = pulls
    <3> HIDE DEF Members
    <3>1. \A l \in Leads : h[l] = Ingested(member[l], lead[l].at)
      BY <2>3
    <3>2. h \in [Leads -> Members]
      BY <2>1, <2>3
    <3> HIDE DEF pulls
    <3>3. QED
      BY <2>1, <3>1, <3>2
  <2> HIDE DEF pulls
  <2>4. QED
    BY <1>2, <2>2, <2>3
<1>5. n \in 0 .. MaxSteps /\ placed <= n /\ inUse \in BOOLEAN /\ (InUse => n = placed)
  BY <1>1, BoundAssumption DEF InUse
<1> HIDE DEF n, inUse, pulls
<1> DEFINE s == Start(h)
<1>6. s \in Syncs /\ s.placed = n /\ s.member = h /\ s.pc = "append" /\ s.dirty = Dirty(h)
  <2>1. Dirty(h) \in SUBSET Leads
    OBVIOUS
  <2> HIDE DEF Members, Renders, Dirty
  <2>2. QED
    BY <1>1, <1>4, <1>5, <2>1 DEF Syncs
<1>7. sync' = Appending(s)
  BY <1>2
<1>8. \A l \in Leads : l \notin s.dirty => h[l] = member[l]
  BY <1>6
<1> HIDE DEF s
<1>9. Session(s) /\ Loaded(s)
  <2>1. RowsOK(s.member)
    BY <1>1, <1>4, <1>6 DEF RowsOK
  <2>2. \A l \in Leads : /\ member[l].launched => s.member[l].launched
                         /\ l \notin s.dirty => s.member[l].launched = member[l].launched
    BY <1>4, <1>6
  <2>3. Loaded(s)
    BY <1>6, <1>8 DEF Loaded
  <2>4. QED
    BY <2>1, <2>2, <2>3 DEF Session
<1>10. \A l \in Leads : s.member[l].launched /\ Status(s, l) \in Running
         => member[l].launched /\ member[l].status \in Running
  BY <1>4, <1>6 DEF Status
<1>11. PICK u : /\ Follows(u, sync') /\ Session(u) /\ Loaded(u)
                /\ u.placed = n /\ u.pc = "append"
                /\ \A l \in Leads : u.member[l].launched /\ Status(u, l) \in Running
                     => member[l].launched /\ member[l].status \in Running
  <2>1. CASE s.inUse /\ s.placed < Len(steps)
    <3>1. Appending(s) = Moved(s, "append", {})
          \/ Appending(s) = [s EXCEPT !.pc = "append"]
      BY <2>1 DEF Appending
    <3>2. "append" \in Phases \ Placing
      BY DEF Phases, Placing
    <3>3. [s EXCEPT !.pc = "append"] = s
      <4> HIDE DEF Members, Renders
      <4>1. QED
        BY <1>6 DEF Syncs
    <3>4. Follows(s, Appending(s))
      BY <1>6, <3>1, <3>2, <3>3, MovedFollows DEF Follows
    <3>5. QED
      BY <1>6, <1>7, <1>9, <1>10, <3>4
  <2>2. CASE ~(s.inUse /\ s.placed < Len(steps))
    <3>1. Appending(s) = Refreshing(Load(s))
      BY <2>2 DEF Appending
    <3>2. /\ Load(s) \in Syncs /\ Load(s).pc = "append" /\ Load(s).placed = n
          /\ Session(Load(s)) /\ Loaded(Load(s))
          /\ \A l \in Leads : Load(s).member[l].launched /\ Status(Load(s), l) \in Running
               => s.member[l].launched /\ Status(s, l) \in Running
      BY <1>1, <1>6, <1>9, LoadRows
    <3>3. Follows(Load(s), Refreshing(Load(s)))
      BY <3>2, RefreshingFollows
    <3>4. QED
      BY <1>7, <1>10, <3>1, <3>2, <3>3
  <2>3. QED
    BY <2>1, <2>2
<1>12. /\ sync'.member = u.member /\ sync'.placed = n /\ sync'.dirty = u.dirty
       /\ sync'.pc \notin Placing
  BY <1>11 DEF Follows, Placing
<1>13. RowsOK(member)' /\ (runs = "sync" => campaign = "ACTIVE")'
  BY <1>1, <1>2, <1>3 DEF RowsOK
<1>14. Session(sync)' /\ Loaded(sync)'
  BY <1>3, <1>11, <1>12 DEF Session, Loaded, RowsOK
<1>15. ASSUME ~unseen', runs' = "sync", NEW l \in Leads, Open(l)',
              member[l].launched, member[l].status \in Running
       PROVE  Owns(l, placed) /\ n = placed
  <2>1. InUse
    BY <1>15, NobodyLaunched
  <2>2. SafeRows
    BY <1>2, <1>3, <1>15, <2>1 DEF SafeInv
  <2>3. QED
    BY <1>3, <1>5, <1>15, <2>1, <2>2 DEF SafeRows, Open
<1>16. ~unseen' /\ runs' = "sync" => SafeRows'
  BY <1>3, <1>15 DEF SafeRows, Owns
<1>17. ASSUME ~unseen', runs' = "sync" PROVE SafeSession(sync)'
  <2>1. ASSUME NEW l \in Leads, sync'.member[l].launched, Status(sync, l)' \in Running,
               Open(l)'
        PROVE  Owns(l, sync.placed)'
    <3>1. Status(u, l) \in Running /\ u.member[l].launched
      BY <1>3, <1>12, <2>1 DEF Status
    <3>2. Owns(l, placed) /\ n = placed
      BY <1>11, <1>15, <1>17, <2>1, <3>1
    <3>3. QED
      BY <1>3, <1>12, <3>2 DEF Owns
  <2>2. QED
    BY <2>1 DEF SafeSession
<1>18. (placed <= sync.placed)'
  BY <1>3, <1>5, <1>12
<1>19. QED
  BY <1>12, <1>13, <1>14, <1>16, <1>17, <1>18 DEF SafeInv

LEMMA InitSafe == Init => SafeInv /\ PendingInv
<1> SUFFICES ASSUME Init PROVE SafeInv /\ PendingInv
  OBVIOUS
<1>1. /\ runs = "no" /\ sync = NoSync
      /\ member = [l \in Leads |-> [status |-> "ready", step |-> 0, heard |-> 0,
                                    known |-> FALSE, launched |-> FALSE]]
      /\ lead = [l \in Leads |-> [stage |-> "none", paused |-> FALSE, at |-> 0]]
      /\ request = [q \in Requests |-> NoRequest]
  BY DEF Init
<1>2. RowsOK(member)
  BY <1>1 DEF RowsOK
<1>3. PendingInv
  BY <1>1 DEF PendingInv, PendingOK, Resuming, NoRequest
<1>4. QED
  BY <1>1, <1>2, <1>3 DEF SafeInv

\* Once there was a race, there was one.
LEMMA UnseenGrows == ASSUME [Next]_vars, ~unseen' PROVE ~unseen
<1>1. ASSUME NEW l \in Leads,
             \/ Send(l) \/ EndLead(l) \/ Webhook(l)
             \/ \E paused \in BOOLEAN : MirrorPause(l, paused)
             \/ RenderNewStep(l) \/ RefreshLead(l) \/ PushMember(l)
      PROVE  ~unseen
  BY <1>1 DEF Send, EndLead, Webhook, MirrorPause, RenderNewStep, RefreshLead,
     PushMember, Race
<1>2. ASSUME NEW q \in Requests,
             \/ \E l \in Leads : BeginPause(q, l) \/ BeginResume(q, l)
             \/ CallLemlist(q) \/ WriteStatus(q)
      PROVE  ~unseen
  BY <1>2 DEF BeginPause, BeginResume, CallLemlist, WriteStatus, Race
<1>3. ASSUME NEW launching \in BOOLEAN, BeginSync(launching) \/ PushFails(launching)
      PROVE  ~unseen
  BY <1>3 DEF BeginSync, PushFails, Race
<1>4. ASSUME HoldCompleted \/ AppendNothing \/ PlaceStep \/ Finish \/ Crash
      PROVE  ~unseen
  BY <1>4 DEF HoldCompleted, AppendNothing, PlaceStep, Finish, Crash
<1>5. ASSUME NEW target \in {"ACTIVE", "PAUSED"}, SetStatus(target) PROVE ~unseen
  BY <1>5 DEF SetStatus
<1>6. ASSUME NEW k \in Positions, CreateStep(k) \/ DeleteStep(k) PROVE ~unseen
  BY <1>6 DEF CreateStep, DeleteStep
<1>7. CASE UNCHANGED vars
  BY <1>7 DEF vars
<1>8. QED
  BY <1>1, <1>2, <1>3, <1>4, <1>5, <1>6, <1>7 DEF Next

LEMMA NextSafe == ASSUME IInv, SafeInv, PendingInv, [Next]_vars, ~unseen' PROVE SafeInv'
<1>0. IInv'
  BY NextIInv
<1>1. ASSUME NEW l \in Leads,
             \/ Send(l) \/ EndLead(l) \/ Webhook(l)
             \/ \E paused \in BOOLEAN : MirrorPause(l, paused)
             \/ RenderNewStep(l) \/ RefreshLead(l) \/ PushMember(l)
      PROVE  SafeInv'
  BY <1>0, <1>1, SafeSend, SafeEndLead, SafeWebhook, SafeMirrorPause,
     SafeRenderNewStep, SafeRefreshLead, SafePushMember
<1>2. ASSUME NEW q \in Requests,
             \/ \E l \in Leads : BeginPause(q, l) \/ BeginResume(q, l)
             \/ CallLemlist(q) \/ WriteStatus(q)
      PROVE  SafeInv'
  BY <1>0, <1>2, SafeBeginPause, SafeBeginResume, SafeCallLemlist, SafeWriteStatus
<1>3. ASSUME NEW launching \in BOOLEAN, BeginSync(launching) \/ PushFails(launching)
      PROVE  SafeInv'
  BY <1>0, <1>3, SafeBeginSync, SafePushFails
<1>4. ASSUME HoldCompleted \/ AppendNothing \/ PlaceStep \/ Finish \/ Crash
      PROVE  SafeInv'
  BY <1>0, <1>4, SafeHoldCompleted, SafeAppendNothing, SafePlaceStep, SafeFinish, SafeCrash
<1>5. ASSUME NEW target \in {"ACTIVE", "PAUSED"}, SetStatus(target) PROVE SafeInv'
  BY <1>0, <1>5, SafeSetStatus
<1>6. ASSUME NEW k \in Positions, CreateStep(k) \/ DeleteStep(k) PROVE SafeInv'
  BY <1>0, <1>6, SafeCreateStep, SafeDeleteStep
<1>7. CASE UNCHANGED vars
  <2>1. UNCHANGED <<campaign, steps, placed, member, sync, runs, lead, own, unseen>>
    BY <1>7 DEF vars, lemlist
  <2>2. QED
    BY <1>0, <2>1, SafeAround
<1>8. QED
  BY <1>1, <1>2, <1>3, <1>4, <1>5, <1>6, <1>7 DEF Next

---------------------------------------------------------------------------
\* The steps, for the resumptions under way.

\* A step of others that leaves the requests as they are.
LEMMA PendingAround ==
  ASSUME TypeOK, PendingInv, UNCHANGED <<steps, own, request>>, sync' \in {sync, NoSync},
         InUse => placed' = placed,
         \A l \in Leads : /\ member'[l].known = member[l].known
                          /\ lead[l].at <= lead'[l].at
                          /\ lead'[l].at \in Nat
  PROVE  PendingInv'
<1>1. ASSUME NEW l \in Leads, member[l].known, Owns(l, placed) PROVE Owns(l, placed)'
  <2>1. placed' = placed
    BY <1>1 DEF InUse
  <2>2. lead[l].at \in Nat /\ DOMAIN steps \subseteq Nat
    BY LeadFields
  <2>3. QED
    BY <1>1, <2>1, <2>2 DEF Owns
<1>2. \A q \in Requests : Resuming(q)' => Resuming(q)
  BY DEF Resuming
<1>3. QED
  BY <1>1, <1>2, PendingStays

\* A step of a sync: no resumption is under way.
LEMMA PendingInSession ==
  ASSUME PendingInv, sync # NoSync, UNCHANGED request
  PROVE  PendingInv'
  BY DEF PendingInv, PendingOK, Resuming

LEMMA PendingSend ==
  ASSUME IInv, IInv', PendingInv, NEW l \in Leads, Send(l) PROVE PendingInv'
<1>1. /\ lead' = [lead EXCEPT ![l].at = lead[l].at + 1] /\ TypeOK
      /\ UNCHANGED <<steps, placed, member, sync, own, request>>
  BY DEF Send, IInv
<1>2. \A n \in Leads : lead[n].at \in Nat /\ lead'[n].at = lead[n].at + (IF n = l THEN 1 ELSE 0)
  BY <1>1, LeadFields DEF TypeOK, LemlistLeads
<1>3. \A n \in Leads : lead[n].at <= lead'[n].at /\ lead'[n].at \in Nat
  BY <1>2
<1>4. QED
  BY <1>1, <1>3, PendingAround

LEMMA PendingEndLead ==
  ASSUME IInv, PendingInv, NEW l \in Leads, EndLead(l) PROVE PendingInv'
<1>1. /\ lead' = [lead EXCEPT ![l].stage = "done"] /\ TypeOK
      /\ UNCHANGED <<steps, placed, member, sync, own, request>>
  BY DEF EndLead, IInv
<1>2. \A n \in Leads : lead[n].at \in Nat /\ lead'[n].at = lead[n].at
  BY <1>1, LeadFields DEF TypeOK, LemlistLeads
<1>3. \A n \in Leads : lead[n].at <= lead'[n].at /\ lead'[n].at \in Nat
  BY <1>2
<1>4. QED
  BY <1>1, <1>3, PendingAround

\* A step that writes rows, and whom Lemlist holds is not among what it writes.
LEMMA PendingRows ==
  ASSUME IInv, PendingInv, UNCHANGED <<steps, placed, sync, lead, own, request>>,
         \A l \in Leads : member'[l].known = member[l].known
  PROVE  PendingInv'
<1>1. TypeOK /\ \A n \in Leads : lead[n].at <= lead'[n].at /\ lead'[n].at \in Nat
  BY LeadFields DEF IInv
<1>2. QED
  BY <1>1, PendingAround

LEMMA PendingWebhook ==
  ASSUME IInv, SafeInv, PendingInv, NEW l \in Leads, Webhook(l) PROVE PendingInv'
<1> DEFINE m == Ingested(member[l], lead[l].at)
<1>1. /\ member' = [member EXCEPT ![l] = m] /\ TypeOK
      /\ UNCHANGED <<steps, placed, sync, lead, own, request>>
  BY DEF Webhook, lemlist, IInv
<1>2. m.known = member[l].known
  <2>1. member[l] \in Members /\ lead[l].at \in 0 .. MaxSteps /\ member[l].step <= lead[l].at
    BY <1>1, Now, LeadFields
  <2>2. QED
    BY <2>1, IngestedFields
<1> HIDE DEF m
<1>3. \A n \in Leads : member'[n].known = member[n].known
  BY <1>1, <1>2 DEF TypeOK
<1>4. QED
  BY <1>1, <1>3, PendingRows

LEMMA PendingMirrorPause ==
  ASSUME IInv, PendingInv, NEW l \in Leads, NEW paused \in BOOLEAN, MirrorPause(l, paused)
  PROVE  PendingInv'
<1>1. UNCHANGED <<steps, placed, sync, lead, own, request>> /\ TypeOK
  BY DEF MirrorPause, lemlist, IInv
<1>2. \E status : member' = WithStatus(l, status)
  BY DEF MirrorPause, WithStatus
<1>3. \A n \in Leads : member'[n].known = member[n].known
  BY <1>1, <1>2, StatusFields
<1>4. QED
  BY <1>1, <1>3, PendingRows

\* What is asked of a request, and what becomes of the others.
LEMMA BegunRequest ==
  ASSUME TypeOK, NEW q \in Requests, NEW l \in Leads, NEW to \in {"paused", "ready"} \cup Running,
         request' = [request EXCEPT ![q] = Asked(l, to)]
  PROVE  /\ request'[q] = Asked(l, to)
         /\ \A p \in Requests \ {q} : request'[p] = request[p]
<1>1. Asked(l, to) \in PendingRequests
  BY AskedType
<1>2. QED
  BY <1>1, RequestType

LEMMA PendingBeginPause ==
  ASSUME IInv, PendingInv, NEW q \in Requests, NEW l \in Leads, BeginPause(q, l)
  PROVE  PendingInv'
<1>1. /\ UNCHANGED <<steps, placed, member, sync, lead, own>> /\ TypeOK
      /\ request' = [request EXCEPT ![q] = Asked(l, "paused")]
  BY DEF BeginPause, lemlist, IInv
<1>2. /\ request'[q] = Asked(l, "paused")
      /\ \A p \in Requests \ {q} : request'[p] = request[p]
  BY <1>1, BegunRequest
<1>3. Asked(l, "paused").to = "paused"
  BY DEF Asked
<1>4. \A p \in Requests : Resuming(p)' => Resuming(p) /\ request'[p] = request[p]
  BY <1>2, <1>3 DEF Resuming
<1>5. \A n \in Leads : member[n].known /\ Owns(n, placed) => Owns(n, placed)'
  BY <1>1 DEF Owns
<1>6. QED
  BY <1>1, <1>4, <1>5, PendingStays

\* A resumption is asked for when the recipient has every email placed.
LEMMA PendingBeginResume ==
  ASSUME IInv, SafeInv, PendingInv, NEW q \in Requests, NEW l \in Leads,
         BeginResume(q, l), ~unseen'
  PROVE  PendingInv'
<1> DEFINE to == IF member[l].known THEN Resumed(member[l]) ELSE "ready"
<1>1. /\ UNCHANGED <<steps, placed, member, sync, lead, own>> /\ TypeOK
      /\ request' = [request EXCEPT ![q] = Asked(l, to)]
      /\ member[l].known => Missing(member[l], render[l], placed) = {}
      /\ sync.pc = "idle"
  BY DEF BeginResume, lemlist, IInv, Race
<1>2. to \in {"ready"} \cup Running /\ (to = "ready" <=> ~member[l].known)
  BY DEF Resumed, Running
<1> HIDE DEF to
<1>3. /\ request'[q] = Asked(l, to)
      /\ \A p \in Requests \ {q} : request'[p] = request[p]
  BY <1>1, <1>2, BegunRequest
<1>4. /\ Asked(l, to).lead = l /\ Asked(l, to).to = to
      /\ Asked(l, to).pc = "write" <=> ~member[l].known
  BY <1>2, AskedType
<1>5. sync' = NoSync
  BY <1>1, Idle
<1>6. ASSUME member[l].known PROVE Owns(l, placed)
  <2>1. /\ Faithful(render, own) /\ member[l].step <= lead[l].at
        /\ member[l].step \in Nat /\ lead[l].at \in Nat
        /\ DOMAIN steps = 1 .. Len(steps) /\ placed \in Nat
    BY <1>1, Now, StepPositions, LeadFields DEF IInv
  <2>2. ASSUME NEW k \in DOMAIN steps, lead[l].at < k, k <= placed
        PROVE  own[l][k] = steps[k]
    <3>1. k \in 1 .. placed /\ k > member[l].step
      BY <2>1, <2>2
    <3>2. render[l][k] = steps[k]
      BY <1>1, <1>6, <3>1 DEF Missing
    <3>3. QED
      BY <2>1, <2>2, <3>2 DEF Faithful
  <2>3. QED
    BY <2>2 DEF Owns
<1>7. PendingOK(q)'
  <2>1. CASE member[l].known
    <3>1. Owns(l, placed)' /\ member'[l].known
      BY <1>1, <1>6, <2>1 DEF Owns
    <3>2. request'[q].to # "ready" /\ request'[q].lead = l
      BY <1>2, <1>3, <1>4, <2>1
    <3>3. QED
      BY <1>5, <3>1, <3>2 DEF PendingOK, Owns
  <2>2. CASE ~member[l].known
    BY <1>1, <1>2, <1>3, <1>4, <1>5, <2>2 DEF PendingOK
  <2>3. QED
    BY <2>1, <2>2
<1>8. \A p \in Requests : Resuming(p)' => \/ PendingOK(p)'
                                          \/ Resuming(p) /\ request'[p] = request[p]
  BY <1>3, <1>7 DEF Resuming
<1>9. \A n \in Leads : member[n].known /\ Owns(n, placed) => Owns(n, placed)'
  BY <1>1 DEF Owns
<1>10. QED
  BY <1>1, <1>8, <1>9, PendingStays

\* A request once Lemlist has been called.
LEMMA CalledRequest ==
  ASSUME TypeOK, NEW q \in Requests, CallLemlist(q)
  PROVE  /\ request'[q] = NoRequest \/ request'[q] = [request[q] EXCEPT !.pc = "write"]
         /\ [request[q] EXCEPT !.pc = "write"].lead = request[q].lead
         /\ [request[q] EXCEPT !.pc = "write"].to = request[q].to
         /\ [request[q] EXCEPT !.pc = "write"].pc = "write"
         /\ \A p \in Requests \ {q} : request'[p] = request[p]
<1> DEFINE called == [request[q] EXCEPT !.pc = "write"]
<1>1. request[q] \in PendingRequests
  BY RequestFields DEF CallLemlist
<1>2. /\ called \in PendingRequests /\ called.lead = request[q].lead
      /\ called.to = request[q].to /\ called.pc = "write"
  BY <1>1 DEF PendingRequests
<1>3. PICK r \in {called, NoRequest} : request' = [request EXCEPT ![q] = r]
  BY DEF CallLemlist
<1> HIDE DEF called
<1>4. request'[q] = r /\ \A p \in Requests \ {q} : request'[p] = request[p]
  BY <1>2, <1>3, RequestType
<1>5. QED
  BY <1>2, <1>3, <1>4 DEF called

LEMMA PendingCallLemlist ==
  ASSUME IInv, PendingInv, NEW q \in Requests, CallLemlist(q) PROVE PendingInv'
<1>1. UNCHANGED <<steps, placed, member, sync, own>> /\ TypeOK
  BY DEF CallLemlist, IInv
<1>2. \A p \in Requests :
        Resuming(p)' => /\ Resuming(p)
                        /\ request'[p].lead = request[p].lead
                        /\ request'[p].to = request[p].to
                        /\ request[p].pc = "write" => request'[p].pc = "write"
  <2> DEFINE called == [request[q] EXCEPT !.pc = "write"]
  <2>1. request[q].pc = "call"
    BY DEF CallLemlist
  <2>2. /\ request'[q] = NoRequest \/ request'[q] = called
        /\ called.lead = request[q].lead /\ called.to = request[q].to /\ called.pc = "write"
        /\ \A p \in Requests \ {q} : request'[p] = request[p]
    BY <1>1, CalledRequest
  <2> HIDE DEF called
  <2>3. ASSUME Resuming(q)'
        PROVE  /\ Resuming(q)
               /\ request'[q].lead = request[q].lead
               /\ request'[q].to = request[q].to
               /\ request[q].pc = "write" => request'[q].pc = "write"
    <3>1. request'[q] = called
      BY <2>2, <2>3 DEF Resuming, NoRequest
    <3>2. QED
      BY <2>1, <2>2, <2>3, <3>1 DEF Resuming
  <2>4. ASSUME NEW p \in Requests \ {q}, Resuming(p)' PROVE Resuming(p)
    BY <2>2, <2>4 DEF Resuming
  <2>5. QED
    BY <2>2, <2>3, <2>4
<1>3. \A n \in Leads : lead'[n].at = lead[n].at
  BY <1>1, CalledLead
<1>4. \A n \in Leads : member[n].known /\ Owns(n, placed) => Owns(n, placed)'
  BY <1>1, <1>3 DEF Owns
<1>5. QED
  BY <1>1, <1>2, <1>4, PendingStays

\* The requests once one is over.
LEMMA EndedRequest ==
  ASSUME TypeOK, NEW q \in Requests, WriteStatus(q)
  PROVE  /\ request'[q] = NoRequest
         /\ \A p \in Requests \ {q} : request'[p] = request[p]
<1>1. request' = [request EXCEPT ![q] = NoRequest]
  BY DEF WriteStatus
<1>2. NoRequest \in PendingRequests \cup {NoRequest}
  OBVIOUS
<1>3. QED
  BY <1>1, <1>2, RequestType

LEMMA PendingWriteStatus ==
  ASSUME IInv, PendingInv, NEW q \in Requests, WriteStatus(q) PROVE PendingInv'
<1>1. UNCHANGED <<steps, placed, sync, lead, own>> /\ TypeOK
  BY DEF WriteStatus, lemlist, IInv
<1>2. \A p \in Requests : Resuming(p)' => Resuming(p) /\ request'[p] = request[p]
  BY <1>1, EndedRequest DEF Resuming, NoRequest
<1>3. \A n \in Leads : member'[n].known = member[n].known
  BY <1>1, WrittenRow
<1>4. \A n \in Leads : member[n].known /\ Owns(n, placed) => Owns(n, placed)'
  BY <1>1 DEF Owns
<1>5. QED
  BY <1>1, <1>2, <1>3, <1>4, PendingStays

LEMMA PendingPushFails ==
  ASSUME IInv, PendingInv, NEW launching \in BOOLEAN, PushFails(launching)
  PROVE  PendingInv'
<1>1. UNCHANGED <<steps, member, sync, lead, own, request>> /\ TypeOK /\ placed \in Nat
  BY DEF PushFails, IInv, TypeOK
<1>2. ASSUME InUse PROVE placed' = placed
  <2>1. PICK n \in 0 .. placed, dies \in BOOLEAN :
          placed' = IF dies THEN placed ELSE Larger(placed, n)
    BY <1>2 DEF PushFails
  <2>2. QED
    BY <1>1, <2>1 DEF Larger
<1>3. \A n \in Leads : lead[n].at <= lead'[n].at /\ lead'[n].at \in Nat
  BY <1>1, LeadFields
<1>4. QED
  BY <1>1, <1>2, <1>3, PendingAround

LEMMA NextPending ==
  ASSUME IInv, SafeInv, PendingInv, [Next]_vars, ~unseen' PROVE PendingInv'
<1>0. IInv'
  BY NextIInv
<1>1. ASSUME NEW l \in Leads,
             \/ Send(l) \/ EndLead(l) \/ Webhook(l)
             \/ \E paused \in BOOLEAN : MirrorPause(l, paused)
      PROVE  PendingInv'
  BY <1>0, <1>1, PendingSend, PendingEndLead, PendingWebhook, PendingMirrorPause
<1>2. ASSUME NEW q \in Requests,
             \/ \E l \in Leads : BeginPause(q, l) \/ BeginResume(q, l)
             \/ CallLemlist(q) \/ WriteStatus(q)
      PROVE  PendingInv'
  BY <1>2, PendingBeginPause, PendingBeginResume, PendingCallLemlist, PendingWriteStatus
<1>3. ASSUME NEW launching \in BOOLEAN, BeginSync(launching) PROVE PendingInv'
  BY <1>3 DEF BeginSync, Race, PendingInv, PendingOK, Resuming
<1>4. ASSUME NEW launching \in BOOLEAN, PushFails(launching) PROVE PendingInv'
  BY <1>4, PendingPushFails
<1>5. ASSUME \/ \E l \in Leads : RenderNewStep(l) \/ RefreshLead(l) \/ PushMember(l)
             \/ HoldCompleted \/ AppendNothing \/ PlaceStep \/ Finish \/ Crash
      PROVE  PendingInv'
  <2>1. request' = request
    BY <1>5 DEF RenderNewStep, RefreshLead, PushMember, HoldCompleted, AppendNothing,
       PlaceStep, Finish, Crash
  <2>2. ASSUME NEW l \in Leads, RenderNewStep(l) \/ RefreshLead(l) \/ PushMember(l)
        PROVE  sync.pc # "idle"
    BY <2>2 DEF RenderNewStep, RefreshLead, PushMember
  <2>3. ASSUME HoldCompleted \/ AppendNothing \/ PlaceStep \/ Finish \/ Crash
        PROVE  sync.pc # "idle"
    BY <2>3 DEF HoldCompleted, AppendNothing, PlaceStep, Finish, Crash
  <2>4. sync # NoSync
    BY <1>5, <2>2, <2>3 DEF NoSync
  <2>5. QED
    BY <2>1, <2>4, PendingInSession
<1>6. ASSUME NEW target \in {"ACTIVE", "PAUSED"}, SetStatus(target) PROVE PendingInv'
  <2>1. UNCHANGED <<steps, placed, member, sync, lead, own, request>>
    BY <1>6 DEF SetStatus
  <2>2. QED
    BY <2>1, PendingRows
<1>7. ASSUME NEW k \in Positions, CreateStep(k) \/ DeleteStep(k) PROVE PendingInv'
  BY <1>0, <1>7, SafeCreateStep, SafeDeleteStep
<1>8. CASE UNCHANGED vars
  <2>1. UNCHANGED <<steps, placed, member, sync, lead, own, request>>
    BY <1>8 DEF vars, lemlist
  <2>2. QED
    BY <2>1, PendingRows
<1>9. QED
  BY <1>1, <1>2, <1>3, <1>4, <1>5, <1>6, <1>7, <1>8 DEF Next

\* Only Lemlist moves a lead through the sequence.
LEMMA OnlySendMoves ==
  ASSUME IInv, Next, NEW l \in Leads, lead'[l].at # lead[l].at
  PROVE  Send(l)
<1>1. TypeOK /\ lead \in [Leads -> LemlistLeads]
  BY DEF IInv, TypeOK
<1>2. ASSUME NEW m \in Leads, Send(m) PROVE Send(l)
  <2>1. lead' = [lead EXCEPT ![m].at = lead[m].at + 1]
    BY <1>2 DEF Send
  <2>2. m = l
    BY <1>1, <2>1
  <2>3. QED
    BY <1>2, <2>2
<1>3. ASSUME NEW m \in Leads, EndLead(m) PROVE FALSE
  <2>1. lead' = [lead EXCEPT ![m].stage = "done"]
    BY <1>3 DEF EndLead
  <2>2. QED
    BY <1>1, <2>1 DEF LemlistLeads
<1>4. ASSUME NEW m \in Leads, Webhook(m) \/ \E paused \in BOOLEAN : MirrorPause(m, paused)
      PROVE  FALSE
  BY <1>4 DEF Webhook, MirrorPause, lemlist
<1>5. ASSUME NEW m \in Leads, RenderNewStep(m) \/ RefreshLead(m) PROVE FALSE
  <2>1. PauseLead(m) \/ ResumeLead(m) \/ lead' = lead
    BY <1>5 DEF RenderNewStep, Hold, RefreshLead
  <2>2. QED
    BY <1>1, <2>1, PausedLeads
<1>6. ASSUME NEW m \in Leads, PushMember(m) PROVE FALSE
  <2>1. AddLead(m, "review") \/ AddLead(m, "launched") \/ lead' = lead
    BY <1>6 DEF PushMember
  <2>2. QED
    BY <1>1, <2>1, AddedLeads
<1>7. ASSUME HoldCompleted PROVE FALSE
  <2>1. PICK held : lead' = [n \in Leads |-> IF n \in held
                               THEN [lead[n] EXCEPT !.paused = TRUE] ELSE lead[n]]
    BY <1>7 DEF HoldCompleted
  <2>2. [lead[l] EXCEPT !.paused = TRUE].at = lead[l].at
    BY <1>1 DEF LemlistLeads
  <2>3. QED
    BY <2>1, <2>2
<1>8. ASSUME \/ \E launching \in BOOLEAN : BeginSync(launching) \/ PushFails(launching)
             \/ AppendNothing \/ PlaceStep \/ Finish \/ Crash
             \/ \E target \in {"ACTIVE", "PAUSED"} : SetStatus(target)
             \/ \E k \in Positions : CreateStep(k) \/ DeleteStep(k)
      PROVE  FALSE
  BY <1>8 DEF BeginSync, PushFails, AppendNothing, PlaceStep, Finish, Crash, SetStatus,
         CreateStep, DeleteStep, lemlist
<1>9. ASSUME NEW q \in Requests, NEW m \in Leads, BeginPause(q, m) \/ BeginResume(q, m)
      PROVE  FALSE
  BY <1>9 DEF BeginPause, BeginResume, lemlist
<1>10. ASSUME NEW q \in Requests, CallLemlist(q) \/ WriteStatus(q) PROVE FALSE
  <2>1. CASE CallLemlist(q)
    BY <1>1, <2>1, CalledLead
  <2>2. CASE WriteStatus(q)
    BY <2>2 DEF WriteStatus, lemlist
  <2>3. QED
    BY <1>10, <2>1, <2>2
<1>11. QED
  BY <1>2, <1>3, <1>4, <1>5, <1>6, <1>7, <1>8, <1>9, <1>10 DEF Next

\* Until a race is met, the rows that run and the resumptions under way are safe.
SafeUntilRace == ~unseen => SafeInv /\ PendingInv

LEMMA SafetyHolds == Spec => []SafeUntilRace
<1>1. Init => SafeUntilRace
  BY InitSafe DEF SafeUntilRace
<1>2. IInv /\ SafeUntilRace /\ [Next]_vars => SafeUntilRace'
  BY UnseenGrows, NextSafe, NextPending DEF SafeUntilRace
<1>3. QED
  BY <1>1, <1>2, Invariance, PTL DEF Spec

\* Whichever calls fail or lose their answer and wherever a sync dies, Lemlist
\* sends a lead a sync let run its own email for the step: what _run_if_safe,
\* _render_new_step and _push_member of email_sync.py are there for.  Until one
\* of the races `unseen` tells of, which the code does not prevent: a sync beside
\* a resumption of email_manager.py, a pause written for a lead that runs again,
\* a lead somebody resumed at Lemlist.
THEOREM SafeSending == Spec => SafeLeadsGetTheirOwn
<1>1. ASSUME IInv, SafeInv, [Next]_vars, NEW l \in Leads, NEW k \in Positions,
             Sent(l, k), ~unseen
      PROVE  OwnEmail(l, k) \/ Excused(l, k)
  <2>1. lead'[l].at = k /\ lead[l].at # k
    BY <1>1 DEF Sent
  <2>2. Send(l)
    <3>1. ~UNCHANGED vars
      BY <2>1 DEF vars, lemlist
    <3>2. QED
      BY <1>1, <2>1, <3>1, OnlySendMoves
  <2>3. /\ TypeOK /\ lead \in [Leads -> LemlistLeads] /\ placed \in 0 .. Len(steps)
        /\ runs \in {"no", "sync", "agent"} /\ DOMAIN steps = 1 .. Len(steps)
        /\ Len(steps) \in Nat /\ member[l].status \in MemberStatuses
    BY <1>1, StepPositions, LeadFields DEF IInv, TypeOK, Members
  <2>4. runs # "no" /\ Open(l) /\ k = lead[l].at + 1 /\ lead[l].at \in Nat
    <3>1. lead' = [lead EXCEPT ![l].at = lead[l].at + 1] /\ runs # "no" /\ Open(l)
      BY <2>2 DEF Send, Open
    <3>2. lead'[l].at = lead[l].at + 1 /\ lead[l].at \in Nat
      BY <2>3, <3>1 DEF LemlistLeads
    <3>3. QED
      BY <2>1, <3>1, <3>2
  <2>5. CASE Excused(l, k)
    BY <2>5
  <2>6. CASE ~Excused(l, k)
    <3>1. /\ ~(k > placed) /\ member[l].launched
          /\ member[l].status \notin {"completed"} \cup Paused /\ runs # "agent"
      BY <2>6 DEF Excused
    <3>2. runs = "sync" /\ SafeRows /\ member[l].status # "ready"
      BY <1>1, <2>3, <2>4, <3>1 DEF SafeInv, RowsOK
    <3>3. member[l].status \in Running
      BY <2>3, <3>1, <3>2 DEF MemberStatuses
    <3>4. Owns(l, placed)
      BY <2>4, <3>1, <3>2, <3>3 DEF SafeRows
    <3>5. k \in DOMAIN steps /\ lead[l].at < k /\ k <= placed
      BY <2>3, <2>4, <3>1
    <3>6. QED
      BY <3>4, <3>5 DEF Owns, OwnEmail
  <2>7. QED
    BY <2>5, <2>6
<1>2. IInv /\ SafeUntilRace /\ [Next]_vars =>
        [\A l \in Leads, k \in Positions :
           Sent(l, k) /\ ~unseen => OwnEmail(l, k) \/ Excused(l, k)]_vars
  BY <1>1 DEF SafeUntilRace
<1>3. QED
  BY <1>2, SafetyHolds, Invariance, PTL DEF Spec, SafeLeadsGetTheirOwn


---------------------------------------------------------------------------
\* Who Lemlist sends to, while every call is answered.

Clean == faults = 0 /\ ~unseen

\* Whose email for the step just placed is still to come.
Exempt(s) == IF s.pc = "render" THEN s.todo ELSE {}

\* A lead, as the session of the sync has it.
LeadClean(s, l) ==
  /\ lead[l].stage # "none" => s.member[l].known
  /\ lead[l].stage = "launched" =>
       Status(s, l) # "ready" /\ (l \notin s.dirty => member[l].known)
  /\ Open(l) =>
       /\ Status(s, l) \notin Paused /\ s.member[l].status \notin Paused
       /\ s.pc \in Placing /\ Status(s, l) = "completed" => Len(steps) <= lead[l].at
       /\ Owns(l, IF l \in Exempt(s) THEN s.placed - 1 ELSE s.placed)

\* The lead runs again, and the request that asked for it has still to write it.
Awaited(l) ==
  \E q \in Requests :
    request[q].pc = "write" /\ request[q].lead = l /\ request[q].to # "paused"

\* A lead, as the database has it while no sync is under way.
RowClean(l) ==
  /\ lead[l].stage # "none" => member[l].known
  /\ lead[l].stage = "launched" => member[l].status # "ready"
  /\ Open(l) => (member[l].status \notin Paused \/ Awaited(l)) /\ Owns(l, placed)

\* No shell beyond the steps placed sends.
ShellsClean(n) == \A k \in DOMAIN remote : remote[k] = "live" => k <= n

CleanInv ==
  /\ sync # NoSync /\ sync.pc = "append" =>
       \A l \in Leads : sync.member[l].known => member[l].known
  /\ Clean =>
       /\ campaign # "ACTIVE" => runs = "no"
       /\ sync = NoSync => ShellsClean(placed) /\ \A l \in Leads : RowClean(l)
       /\ sync # NoSync => /\ ShellsClean(sync.placed)
                           /\ sync.pc \in Placing => runs = "no"
                           /\ \A l \in Leads : LeadClean(sync, l)

\* A call that goes wrong is counted.
LEMMA Answered ==
  ASSUME TypeOK, NEW answer, Call(answer), faults' = 0
  PROVE  answer = "ok" /\ faults = 0
  BY BoundAssumption DEF TypeOK, Call

\* The phase a session moves to, and who is still to be rendered in it.
LEMMA LaunchingPhase ==
  ASSUME NEW s \in Syncs
  PROVE  Launching(s).pc \in {"launch", "finish"}
<1> HIDE DEF Members, Renders
<1>1. QED
  BY DEF Launching, Finishing, Syncs

LEMMA RefreshingPhase ==
  ASSUME NEW s \in Syncs
  PROVE  Refreshing(s).pc \in {"refresh", "launch", "finish"}
<1>1. CASE Outdated(s) = {}
  BY <1>1, LaunchingPhase DEF Refreshing
<1>2. CASE Outdated(s) # {}
  <2> HIDE DEF Members, Renders
  <2>1. QED
    BY <1>2 DEF Refreshing, Syncs
<1>3. QED
  BY <1>1, <1>2

LEMMA AdvancePhase ==
  ASSUME NEW s \in Syncs, s.pc \in {"render", "refresh", "launch"}, NEW l
  PROVE  /\ Advance(s, l).pc # "append"
         /\ \A n \in Exempt(s) : n = l \/ n \in Exempt(Advance(s, l))
<1> DEFINE rest == [s EXCEPT !.todo = @ \ {l}]
<1>1. rest \in Syncs /\ rest.pc = s.pc /\ rest.todo = s.todo \ {l}
  <2>1. s.todo \ {l} \in SUBSET Leads
    BY SyncFields
  <2> HIDE DEF Members, Renders
  <2>2. QED
    BY <2>1 DEF Syncs
<1>2. Advance(s, l) =
        IF rest.todo # {} THEN rest
        ELSE CASE s.pc = "render" -> IF s.placed < Len(steps)
                                       THEN [rest EXCEPT !.pc = "place"]
                                       ELSE Refreshing(rest)
               [] s.pc = "refresh" -> Launching(rest)
               [] s.pc = "launch" -> Finishing(rest)
  BY DEF Advance
<1>3. [rest EXCEPT !.pc = "place"].pc = "place" /\ Finishing(rest).pc = "finish"
  <2> HIDE DEF Members, Renders
  <2>1. QED
    BY <1>1 DEF Syncs, Finishing
<1> HIDE DEF rest
<1>4. /\ Refreshing(rest).pc \in {"refresh", "launch", "finish"}
      /\ Launching(rest).pc \in {"launch", "finish"}
  BY <1>1, RefreshingPhase, LaunchingPhase
<1>5. CASE rest.todo # {}
  <2>1. Advance(s, l) = rest
    BY <1>2, <1>5
  <2>2. QED
    BY <1>1, <2>1 DEF Exempt
<1>6. CASE rest.todo = {}
  <2>1. \A n \in Exempt(s) : n = l
    BY <1>1, <1>6 DEF Exempt
  <2>2. \/ Advance(s, l) = [rest EXCEPT !.pc = "place"]
        \/ Advance(s, l) = Refreshing(rest)
        \/ Advance(s, l) = Launching(rest)
        \/ Advance(s, l) = Finishing(rest)
    BY <1>2, <1>6
  <2>3. Advance(s, l).pc # "append"
    BY <1>3, <1>4, <2>2
  <2>4. QED
    BY <2>1, <2>3
<1>7. QED
  BY <1>5, <1>6

\* The session moves on: what it has stays clean.
LEMMA MovesClean ==
  ASSUME NEW s \in Syncs, NEW t, NEW l \in Leads, Follows(s, t),
         DOMAIN steps' \subseteq Nat, l \in Exempt(s) => l \in Exempt(t),
         LeadClean(s, l)'
  PROVE  LeadClean(t, l)'
<1>1. s.placed \in Nat
  BY SyncFields
<1>2. /\ t.member = s.member /\ t.placed = s.placed /\ t.dirty = s.dirty
      /\ t.pc \in Placing => s.pc \in Placing
  BY DEF Follows
<1>3. Status(t, l)' = Status(s, l)'
  BY <1>2 DEF Status
<1>4. Owns(l, s.placed)' => Owns(l, s.placed - 1)'
  BY <1>1 DEF Owns
<1>5. \/ ~Open(l)'
      \/ Owns(l, IF l \in Exempt(t) THEN t.placed - 1 ELSE t.placed)'
  BY <1>1, <1>2, <1>4 DEF LeadClean
<1>6. QED
  BY <1>2, <1>3, <1>5 DEF LeadClean

\* A step of the sync leaves it clean when it leaves every lead clean.
LEMMA SessionClean ==
  ASSUME NEW t \in Syncs, sync' = t, t.pc # "append",
         Clean' => /\ campaign' # "ACTIVE" => runs' = "no"
                   /\ ShellsClean(t.placed)'
                   /\ t.pc \in Placing => runs' = "no"
                   /\ \A l \in Leads : LeadClean(t, l)'
  PROVE  CleanInv'
<1>1. t # NoSync
  <2>1. t.pc \in Phases
    BY SyncFields
  <2>2. QED
    BY <2>1 DEF NoSync, Phases
<1>2. (sync.pc = "append" => \A l \in Leads : sync.member[l].known => member[l].known)'
  OBVIOUS
<1>3. Clean' => ShellsClean(sync.placed)'
  BY DEF ShellsClean
<1>4. ASSUME NEW l \in Leads, LeadClean(t, l)' PROVE LeadClean(sync, l)'
  BY <1>4 DEF LeadClean, Status, Exempt
<1>5. QED
  BY <1>1, <1>2, <1>3, <1>4 DEF CleanInv

\* What a step leaves of a lead it does not serve.
LeftAlone(l) ==
  /\ lead'[l].at = lead[l].at
  /\ lead'[l].stage # "none" => lead[l].stage # "none"
  /\ lead'[l].stage = "launched" => lead[l].stage = "launched"
  /\ Open(l)' => Open(l)
  /\ \A k \in DOMAIN steps : own[l][k] = steps[k] => own'[l][k] = steps[k]

\* The session s has of a lead what the session t has.
AsBefore(s, t, l) ==
  /\ t.placed = s.placed
  /\ l \in t.dirty <=> l \in s.dirty
  /\ s.member[l].known => t.member[l].known
  /\ t.member[l].status = s.member[l].status
  /\ t.pc \in Placing => s.pc \in Placing
  /\ l \in Exempt(s) <=> l \in Exempt(t)

LEMMA LeftClean ==
  ASSUME UNCHANGED <<steps, member>>, NEW s, NEW t, NEW l \in Leads,
         AsBefore(s, t, l), LeftAlone(l), LeadClean(s, l)
  PROVE  LeadClean(t, l)'
<1>1. Status(t, l)' = Status(s, l)
  BY DEF Status, AsBefore
<1>2. Open(l)' => Owns(l, IF l \in Exempt(t) THEN t.placed - 1 ELSE t.placed)'
  BY DEF LeadClean, Owns, LeftAlone, AsBefore
<1>3. QED
  BY <1>1, <1>2 DEF LeadClean, LeftAlone, AsBefore

\* What a sync makes of the lead it serves.
Served(u, l) ==
  /\ lead'[l].stage # "none" => u.member[l].known
  /\ lead'[l].stage = "launched" =>
       Status(u, l) # "ready" /\ (l \notin u.dirty => member[l].known)
  /\ Open(l)' =>
       /\ Status(u, l) \notin Paused /\ u.member[l].status \notin Paused
       /\ u.pc \in Placing /\ Status(u, l) = "completed" => Len(steps) <= lead[l].at
       /\ Gets(l, u.placed)

LEMMA OneLeadClean ==
  ASSUME IInv, IInv', CleanInv, sync.pc \in {"render", "refresh", "launch"},
         NEW l \in Leads, NEW u, Touches(sync, u, l), sync' = Advance(u, l),
         UNCHANGED <<campaign, steps, member, unseen, runs, remote>>,
         \A n \in Leads \ {l} : lead'[n] = lead[n], lead'[l].at = lead[l].at,
         \A n \in Leads, k \in DOMAIN steps :
           own[n][k] = steps[k] => own'[n][k] = steps[k],
         Clean' => Clean /\ Served(u, l)
  PROVE  CleanInv'
<1> DEFINE t == Advance(u, l)
<1>1. /\ u.pc = sync.pc /\ u.placed = sync.placed /\ u \in Syncs /\ u.todo = sync.todo
      /\ \A n \in Leads \ {l} : /\ u.member[n] = sync.member[n]
                                /\ n \in u.dirty <=> n \in sync.dirty
  BY DEF Touches
<1>2. /\ Follows(u, t) /\ t.pc # "append"
      /\ \A n \in Exempt(u) : n = l \/ n \in Exempt(t)
  BY <1>1, AdvanceFollows, AdvancePhase
<1>3. t \in Syncs /\ t.placed = u.placed /\ (t.pc \in Placing => u.pc \in Placing)
      /\ t.member = u.member /\ t.dirty = u.dirty
  BY <1>2 DEF Follows
<1>4. sync' = t
  OBVIOUS
<1>5. u.placed \in Nat /\ DOMAIN steps' \subseteq Nat /\ sync # NoSync
  BY <1>1, SyncFields, LeadFields DEF IInv, NoSync
<1> HIDE DEF t
<1>6. PICK v : v = t
  OBVIOUS
<1>7. ASSUME Clean', NEW n \in Leads, n # l PROVE LeadClean(v, n)'
  <2>1. LeadClean(sync, n)
    BY <1>5, <1>7 DEF CleanInv
  <2>2. PICK s : s = sync
    OBVIOUS
  <2>3. AsBefore(s, u, n) /\ LeftAlone(n)
    BY <1>1, <1>7, <2>2 DEF AsBefore, LeftAlone, Exempt, Open
  <2>4. LeadClean(u, n)'
    BY <1>7, <2>1, <2>2, <2>3, LeftClean
  <2>5. Follows(u, v) /\ (n \in Exempt(u) => n \in Exempt(v))
    BY <1>2, <1>6, <1>7
  <2>6. QED
    BY <1>1, <1>5, <2>4, <2>5, MovesClean
<1>8. ASSUME Clean' PROVE LeadClean(v, l)'
  <2>1. Served(u, l)
    BY <1>8
  <2>2. Status(v, l)' = Status(u, l)
    BY <1>3, <1>6 DEF Status
  <2>3. Gets(l, u.placed) => Owns(l, v.placed)' /\ Owns(l, v.placed - 1)'
    BY <1>3, <1>5, <1>6 DEF Gets, Owns
  <2>4. Open(l)' => Owns(l, IF l \in Exempt(v) THEN v.placed - 1 ELSE v.placed)'
    BY <2>1, <2>3 DEF Served
  <2>5. QED
    BY <1>3, <1>6, <2>1, <2>2, <2>4 DEF LeadClean, Served
<1>9. ASSUME Clean'
      PROVE  /\ campaign' # "ACTIVE" => runs' = "no"
             /\ ShellsClean(v.placed)'
             /\ v.pc \in Placing => runs' = "no"
             /\ \A n \in Leads : LeadClean(v, n)'
  <2>1. Clean
    BY <1>9
  <2>2. /\ campaign # "ACTIVE" => runs = "no"
        /\ ShellsClean(sync.placed)
        /\ sync.pc \in Placing => runs = "no"
    BY <1>5, <2>1 DEF CleanInv
  <2>3. ShellsClean(v.placed)'
    BY <1>1, <1>3, <1>6, <2>2 DEF ShellsClean
  <2>4. QED
    BY <1>1, <1>3, <1>6, <1>7, <1>8, <1>9, <2>2, <2>3
<1>10. v \in Syncs /\ sync' = v /\ v.pc # "append"
  BY <1>2, <1>3, <1>4, <1>6
<1>11. QED
  BY <1>9, <1>10, SessionClean

\* What a step of the sync on one membership finds.
LEMMA CleanInSession ==
  ASSUME IInv, SafeInv, CleanInv, sync.pc \in Phases
  PROVE  /\ TypeOK /\ sync \in Syncs /\ sync # NoSync
         /\ sync.placed \in Nat /\ sync.placed <= Len(steps)
         /\ DOMAIN steps = 1 .. Len(steps) /\ Len(steps) \in Nat
         /\ sync.member \in [Leads -> Members] /\ sync.dirty \in SUBSET Leads
         /\ sync.todo \in SUBSET Leads
         /\ Clean => \A l \in Leads : LeadClean(sync, l)
<1>1. /\ TypeOK /\ sync \in Syncs /\ sync # NoSync
      /\ sync.placed \in Nat /\ sync.placed <= Len(steps)
  BY SafeInSession
<1>2. QED
  BY <1>1, SyncFields, StepPositions DEF CleanInv

\* An email for the step just placed completes those the lead has.
LEMMA GetsNew ==
  ASSUME IInv, SafeInv, CleanInv, sync.pc = "render", NEW l \in Leads,
         Personalize(l, {sync.placed}), Owns(l, sync.placed - 1)
  PROVE  Gets(l, sync.placed)
<1>1. /\ TypeOK /\ sync.placed \in Nat /\ sync.placed <= Len(steps)
      /\ DOMAIN steps = 1 .. Len(steps) /\ Len(steps) \in Nat /\ sync.placed >= 1
  BY CleanInSession, InSession DEF Phases, SyncPhase
<1> DEFINE K == {sync.placed}
<1>2. K \in SUBSET DOMAIN steps /\ Personalize(l, K) /\ sync.placed \in K
  BY <1>1
<1> HIDE DEF K
<1>3. /\ \A k \in DOMAIN steps : own[l][k] = steps[k] => own'[l][k] = steps[k]
      /\ \A k \in K : lead[l].at < k => own'[l][k] = steps[k]
  BY <1>1, <1>2, PersonalizeKeeps
<1>4. ASSUME NEW k \in DOMAIN steps, lead[l].at < k, k <= sync.placed
      PROVE  own'[l][k] = steps[k]
  <2>1. CASE k = sync.placed
    BY <1>2, <1>3, <1>4, <2>1
  <2>2. CASE k # sync.placed
    <3>1. k <= sync.placed - 1
      BY <1>1, <1>4, <2>2
    <3>2. QED
      BY <1>3, <1>4, <3>1 DEF Owns
  <2>3. QED
    BY <2>1, <2>2
<1>5. QED
  BY <1>4 DEF Gets

LEMMA CleanRenderNewStep ==
  ASSUME IInv, IInv', SafeInv, CleanInv, NEW l \in Leads, RenderNewStep(l)
  PROVE  CleanInv'
<1>1. sync.pc = "render" /\ sync.pc \in Phases /\ l \in sync.todo
  BY DEF RenderNewStep, Phases
<1>2. /\ TypeOK /\ sync \in Syncs /\ sync.placed \in Nat /\ sync.placed <= Len(steps)
      /\ DOMAIN steps = 1 .. Len(steps) /\ Len(steps) \in Nat
      /\ Clean => LeadClean(sync, l)
      /\ sync.placed >= 1
  BY <1>1, CleanInSession, InSession DEF SyncPhase
<1>3. UNCHANGED <<campaign, steps, member, unseen, runs, remote>>
  BY DEF RenderNewStep
<1>4. CASE /\ Personalize(l, {sync.placed})
           /\ sync' = Advance(Rendered(sync, l, {sync.placed}), l)
           /\ UNCHANGED <<lead, faults>>
  <2> DEFINE K == {sync.placed}
             u == Rendered(sync, l, K)
  <2>1. K \in SUBSET (1 .. sync.placed) /\ K \in SUBSET DOMAIN steps
    BY <1>2
  <2>2. Personalize(l, K) /\ sync' = Advance(Rendered(sync, l, K), l)
    BY <1>4
  <2> HIDE DEF K
  <2>3. Touches(sync, u, l) /\ Stands(sync, u, l) /\ sync' = Advance(u, l)
    BY <1>2, <2>1, <2>2, RenderedTouches
  <2> HIDE DEF u
  <2>4. \A n \in Leads, k \in DOMAIN steps :
          own[n][k] = steps[k] => own'[n][k] = steps[k]
    BY <1>2, <2>1, <2>2, PersonalizeKeeps
  <2>5. ASSUME Clean' PROVE Clean /\ Served(u, l)
    <3>1. Clean
      BY <1>3, <1>4, <2>5 DEF Clean
    <3>2. LeadClean(sync, l)
      BY <1>2, <3>1
    <3>3. Open(l) => Gets(l, sync.placed)
      <4>1. Open(l) => Owns(l, sync.placed - 1)
        BY <1>1, <3>2 DEF LeadClean, Exempt
      <4>2. QED
        BY <1>1, <1>4, <4>1, GetsNew
    <3>4. Status(u, l) = Status(sync, l)
      BY <2>3 DEF Stands, Status
    <3>5. u.placed = sync.placed /\ u.pc = sync.pc
      BY <2>3 DEF Touches
    <3>6. lead' = lead /\ (Open(l)' => Open(l))
      BY <1>4 DEF Open
    <3>7. QED
      BY <2>3, <3>1, <3>2, <3>3, <3>4, <3>5, <3>6 DEF Served, LeadClean, Touches, Stands
  <2>6. \A n \in Leads \ {l} : lead'[n] = lead[n]
    BY <1>4
  <2>7. QED
    BY <1>1, <1>3, <1>4, <2>3, <2>4, <2>5, <2>6, OneLeadClean
<1>5. CASE Hold(l) /\ own' = own
  <2>1. CASE sync.member[l].status \in Paused
    <3>1. sync' = Advance(sync, l) /\ UNCHANGED <<lead, faults>>
      BY <1>5, <2>1 DEF Hold
    <3>2. Touches(sync, sync, l)
      BY <1>2, TouchesItself
    <3>3. ASSUME Clean' PROVE Clean /\ Served(sync, l)
      <4>1. Clean /\ LeadClean(sync, l)
        BY <1>2, <1>3, <3>1, <3>3 DEF Clean
      <4>2. ~Open(l)'
        BY <2>1, <3>1, <4>1 DEF LeadClean, Open
      <4>3. QED
        BY <3>1, <4>1, <4>2 DEF LeadClean, Served
    <3>4. QED
      BY <1>1, <1>3, <1>5, <3>1, <3>2, <3>3, OneLeadClean
  <2>2. CASE sync.member[l].status \notin Paused
    <3>1. PICK answer \in Answers :
            /\ Call(answer)
            /\ IF answer = "failed" THEN UNCHANGED lead ELSE PauseLead(l)
            /\ sync' = Advance(IF answer = "ok" THEN Mark(sync, l, "held")
                                                ELSE [sync EXCEPT !.unsafe = TRUE], l)
      BY <1>5, <2>2 DEF Hold
    <3>2. CASE faults' # 0
      <4> DEFINE failed == [sync EXCEPT !.unsafe = TRUE]
      <4>1. /\ \A n \in Leads \ {l} : lead'[n] = lead[n]
            /\ lead'[l].at = lead[l].at
        <5>1. PauseLead(l) \/ lead' = lead
          BY <3>1
        <5>2. QED
          BY <1>2, <5>1, PausedLeads
      <4>2. /\ failed \in Syncs /\ failed.pc = sync.pc /\ failed.placed = sync.placed
            /\ failed.member = sync.member /\ failed.dirty = sync.dirty
            /\ failed.todo = sync.todo
        <5> HIDE DEF Members, Renders
        <5>1. QED
          BY <1>2 DEF Syncs
      <4> HIDE DEF failed
      <4>3. Touches(sync, failed, l)
        BY <4>2 DEF Touches
      <4>4. "held" \in MemberStatuses \ {"ready"}
        BY DEF MemberStatuses, Paused
      <4>5. Touches(sync, Mark(sync, l, "held"), l)
        BY <1>2, <4>4, MarkTouches
      <4>6. PICK u : Touches(sync, u, l) /\ sync' = Advance(u, l)
        BY <3>1, <4>3, <4>5 DEF failed
      <4>7. ~Clean'
        BY <3>2 DEF Clean
      <4>8. QED
        BY <1>1, <1>3, <1>5, <4>1, <4>6, <4>7, OneLeadClean
    <3>3. CASE faults' = 0
      <4> DEFINE u == Mark(sync, l, "held")
      <4>1. answer = "ok" /\ faults = 0
        BY <1>2, <3>1, <3>3, Answered
      <4>2. PauseLead(l) /\ sync' = Advance(u, l)
        BY <3>1, <4>1
      <4>3. "held" \in MemberStatuses \ {"ready"}
        BY DEF MemberStatuses, Paused
      <4>4. Touches(sync, u, l) /\ l \in u.dirty /\ u.member[l].status = "held"
        BY <1>2, <4>3, MarkTouches
      <4> HIDE DEF u
      <4>5. /\ lead'[l].paused = TRUE /\ lead'[l].at = lead[l].at
            /\ lead'[l].stage = lead[l].stage
            /\ \A n \in Leads \ {l} : lead'[n] = lead[n]
        BY <1>2, <4>2, PausedFields DEF PauseLead
      <4>6. ASSUME Clean' PROVE Clean /\ Served(u, l)
        <5>1. Clean /\ LeadClean(sync, l)
          BY <1>2, <1>3, <4>1, <4>6 DEF Clean
        <5>2. ~Open(l)' /\ Status(u, l) = "held"
          BY <4>4, <4>5 DEF Open, Status
        <5>3. QED
          BY <4>4, <4>5, <5>1, <5>2 DEF LeadClean, Served, Touches
      <4>7. QED
        BY <1>1, <1>3, <1>5, <4>2, <4>4, <4>5, <4>6, OneLeadClean
    <3>4. QED
      BY <3>2, <3>3
  <2>3. QED
    BY <2>1, <2>2
<1>6. QED
  BY <1>4, <1>5 DEF RenderNewStep

\* A lead that keeps its place at Lemlist, its emails and its row.
LEMMA NotServed ==
  ASSUME NEW l \in Leads, LeadClean(sync, l), NEW u, Touches(sync, u, l), Stands(sync, u, l),
         sync.pc # "render", sync.placed \in Nat,
         LeftAlone(l)
  PROVE  Served(u, l)
<1>1. /\ u.placed = sync.placed /\ u.pc = sync.pc /\ u.dirty = sync.dirty
      /\ u.member[l].status = sync.member[l].status
      /\ sync.member[l].known => u.member[l].known
  BY DEF Touches, Stands
<1>2. Status(u, l) = Status(sync, l)
  BY <1>1 DEF Status
<1>3. Open(l) => Gets(l, u.placed)
  BY <1>1 DEF LeadClean, Exempt, Owns, Gets, LeftAlone
<1>4. QED
  BY <1>1, <1>2, <1>3 DEF LeadClean, Served, LeftAlone

LEMMA CleanRefreshLead ==
  ASSUME IInv, IInv', SafeInv, CleanInv, NEW l \in Leads, RefreshLead(l)
  PROVE  CleanInv'
<1> DEFINE K == Missing(sync.member[l], sync.render[l], sync.placed)
<1>1. sync.pc = "refresh" /\ sync.pc \in Phases /\ sync.pc \notin Placing
  BY DEF RefreshLead, Phases, Placing
<1>2. /\ TypeOK /\ sync \in Syncs /\ sync.placed \in Nat /\ sync.placed <= Len(steps)
      /\ DOMAIN steps = 1 .. Len(steps) /\ Len(steps) \in Nat
      /\ Clean => LeadClean(sync, l)
  BY <1>1, CleanInSession
<1>3. UNCHANGED <<campaign, steps, member, unseen, runs, remote>>
  BY DEF RefreshLead
<1>4. K \in SUBSET (1 .. sync.placed)
  BY DEF Missing
<1>5. \A J : J \in SUBSET (1 .. sync.placed) => J \in SUBSET DOMAIN steps
  BY <1>2
<1>6. ASSUME Personalize(l, K) PROVE Gets(l, sync.placed)
  <2>1. \A k \in DOMAIN steps : k > sync.member[l].step /\ k <= sync.placed
          => k \in K \/ sync.render[l][k] = steps[k]
    BY <1>2 DEF Missing
  <2> HIDE DEF K
  <2>2. K \in SUBSET DOMAIN steps
    BY <1>4, <1>5
  <2>3. QED
    BY <1>1, <1>2, <1>6, <2>1, <2>2, GetsAll
<1>7. ASSUME NEW J \in SUBSET (1 .. sync.placed)
      PROVE  /\ Touches(sync, Rendered(sync, l, J), l) /\ Stands(sync, Rendered(sync, l, J), l)
             /\ Personalize(l, J) => \A n \in Leads, k \in DOMAIN steps :
                                       own[n][k] = steps[k] => own'[n][k] = steps[k]
  BY <1>2, <1>5, RenderedTouches, PersonalizeKeeps
<1>8. CASE sync' = Advance(sync, l) /\ UNCHANGED <<lead, own, faults>>
  <2>1. Touches(sync, sync, l) /\ Stands(sync, sync, l)
    BY <1>2, TouchesItself
  <2>2. ASSUME Clean' PROVE Clean /\ Served(sync, l)
    <3>1. Clean /\ LeadClean(sync, l)
      BY <1>2, <1>3, <1>8, <2>2 DEF Clean
    <3>2. LeftAlone(l)
      BY <1>8 DEF LeftAlone, Open
    <3>3. QED
      BY <1>1, <1>2, <2>1, <3>1, <3>2, NotServed
  <2>3. QED
    BY <1>1, <1>3, <1>8, <2>1, <2>2, OneLeadClean
<1> HIDE DEF K
<1>9. CASE Personalize(l, K) /\ sync' = Advance(Rendered(sync, l, K), l)
           /\ UNCHANGED <<lead, faults>>
  <2> DEFINE u == Rendered(sync, l, K)
  <2>1. /\ Touches(sync, u, l) /\ Stands(sync, u, l)
        /\ \A n \in Leads, k \in DOMAIN steps :
             own[n][k] = steps[k] => own'[n][k] = steps[k]
    BY <1>4, <1>7, <1>9
  <2>2. sync' = Advance(u, l)
    BY <1>9
  <2> HIDE DEF u
  <2>3. ASSUME Clean' PROVE Clean /\ Served(u, l)
    <3>1. Clean /\ LeadClean(sync, l)
      BY <1>2, <1>3, <1>9, <2>3 DEF Clean
    <3>2. LeftAlone(l)
      BY <1>9, <2>1 DEF LeftAlone, Open
    <3>3. QED
      BY <1>1, <1>2, <2>1, <3>1, <3>2, NotServed
  <2>4. QED
    BY <1>1, <1>3, <1>9, <2>1, <2>2, <2>3, OneLeadClean
<1>10. ASSUME Personalize(l, K), NEW answer \in Answers, Call(answer),
              IF answer = "failed" THEN UNCHANGED lead ELSE ResumeLead(l),
              sync' = Advance(IF answer = "ok" THEN Released(Rendered(sync, l, K), l)
                              ELSE Rendered(sync, l, K), l)
       PROVE  CleanInv'
  <2> DEFINE u == Rendered(sync, l, K)
             t == Released(u, l)
  <2>1. /\ Touches(sync, u, l) /\ u \in Syncs
        /\ \A n \in Leads, k \in DOMAIN steps :
             own[n][k] = steps[k] => own'[n][k] = steps[k]
    BY <1>4, <1>7, <1>10 DEF Touches
  <2>2. sync' = Advance(IF answer = "ok" THEN t ELSE u, l)
    BY <1>10
  <2> HIDE DEF u
  <2>3. {"active", "queued"} \subseteq MemberStatuses \ {"ready"}
    BY DEF MemberStatuses, Running
  <2>4. PICK status \in {"active", "queued"} : Released(u, l) = Mark(u, l, status)
    BY DEF Released, Resumed
  <2>5. Touches(u, t, l) /\ l \in t.dirty /\ t.member[l].status \in {"active", "queued"}
    BY <2>1, <2>3, <2>4, MarkTouches
  <2> HIDE DEF t
  <2>6. Touches(sync, t, l)
    BY <2>1, <2>5, TouchesTransitive
  <2>7. \A n \in Leads : lead'[n].at = lead[n].at /\ (n # l => lead'[n] = lead[n])
    <3>1. ResumeLead(l) \/ lead' = lead
      BY <1>10
    <3>2. QED
      BY <1>2, <3>1, PausedLeads
  <2>8. CASE faults' # 0
    <3>1. PICK v : Touches(sync, v, l) /\ sync' = Advance(v, l)
      BY <2>1, <2>2, <2>6
    <3>2. ~Clean'
      BY <2>8 DEF Clean
    <3>3. QED
      BY <1>1, <1>3, <2>1, <2>7, <3>1, <3>2, OneLeadClean
  <2>9. CASE faults' = 0
    <3>1. answer = "ok" /\ faults = 0
      BY <1>2, <1>10, <2>9, Answered
    <3>2. ResumeLead(l) /\ sync' = Advance(t, l)
      BY <1>10, <2>2, <3>1
    <3>3. lead'[l].stage = lead[l].stage
      BY <1>2, <3>2, PausedFields DEF ResumeLead
    <3>4. ASSUME Clean' PROVE Clean /\ Served(t, l)
      <4>1. Clean /\ LeadClean(sync, l)
        BY <1>2, <1>3, <3>1, <3>4 DEF Clean
      <4>2. Status(t, l) \in {"active", "queued"}
        BY <2>5 DEF Status
      <4>3. Gets(l, t.placed) /\ t.pc \notin Placing /\ (sync.member[l].known => t.member[l].known)
        BY <1>1, <1>6, <1>10, <2>6 DEF Touches
      <4>4. QED
        BY <2>5, <3>3, <4>1, <4>2, <4>3 DEF Served, LeadClean, Paused
    <3>5. QED
      BY <1>1, <1>3, <2>1, <2>6, <2>7, <3>2, <3>4, OneLeadClean
  <2>10. QED
    BY <2>8, <2>9
<1>11. ASSUME NEW n \in 1 .. sync.placed, Call("failed"), Personalize(l, K \cap 1 .. n),
              sync' = Advance(Rendered(sync, l, K \cap 1 .. n), l), UNCHANGED lead
       PROVE  CleanInv'
  <2> DEFINE J == K \cap 1 .. n
             u == Rendered(sync, l, J)
  <2>1. J \in SUBSET (1 .. sync.placed)
    BY <1>4
  <2>2. Personalize(l, J) /\ sync' = Advance(u, l)
    BY <1>11
  <2> HIDE DEF J
  <2>3. /\ Touches(sync, u, l)
        /\ \A m \in Leads, k \in DOMAIN steps :
             own[m][k] = steps[k] => own'[m][k] = steps[k]
    BY <1>7, <2>1, <2>2
  <2> HIDE DEF u
  <2>4. ~Clean'
    BY <1>2, <1>11, Answered DEF Clean
  <2>5. QED
    BY <1>1, <1>3, <1>11, <2>2, <2>3, <2>4, OneLeadClean
<1>12. QED
  BY <1>8, <1>9, <1>10, <1>11 DEF RefreshLead, K

\* A lead that is added and not launched is known, and stays as it was.
LEMMA AddedStage ==
  ASSUME TypeOK, NEW l \in Leads, NEW stage \in {"review", "launched"}, AddLead(l, stage)
  PROVE  /\ stage = "review" /\ lead'[l].stage = "launched" => lead[l].stage = "launched"
         /\ lead'[l].paused = lead[l].paused
<1>1. lead \in [Leads -> LemlistLeads]
  BY DEF TypeOK
<1> DEFINE now == IF lead[l].stage \in {"none", "review"} THEN stage ELSE lead[l].stage
<1>2. lead' = [lead EXCEPT ![l].stage = now]
  BY DEF AddLead
<1>3. stage = "review" /\ now = "launched" => lead[l].stage = "launched"
  OBVIOUS
<1> HIDE DEF now
<1>4. lead'[l].stage = now /\ lead'[l].paused = lead[l].paused
  BY <1>1, <1>2 DEF LemlistLeads
<1>5. QED
  BY <1>3, <1>4

LEMMA CleanPushMember ==
  ASSUME IInv, IInv', SafeInv, CleanInv, NEW l \in Leads, PushMember(l)
  PROVE  CleanInv'
<1> DEFINE K == {k \in DOMAIN steps : sync.render[l][k] # steps[k]}
           stops == {k \in K : k > sync.placed \/ lead[l].at >= k}
           upTo(n) == {k \in K : k <= n /\ \A j \in stops : k < j}
           Pushes(J) == Known(Rendered(sync, l, J), l)
<1>1. sync.pc = "launch" /\ sync.pc \in Phases /\ sync.pc \notin Placing
  BY DEF PushMember, Phases, Placing
<1>2. /\ TypeOK /\ sync \in Syncs /\ sync.placed \in Nat /\ sync.placed <= Len(steps)
      /\ DOMAIN steps = 1 .. Len(steps) /\ Len(steps) \in Nat
      /\ Clean => LeadClean(sync, l)
  BY <1>1, CleanInSession
<1>3. UNCHANGED <<campaign, steps, member, unseen, runs, remote>>
  BY DEF PushMember
<1>4. /\ \A n : upTo(n) \in SUBSET (1 .. sync.placed)
      /\ stops = {} => K \in SUBSET (1 .. sync.placed)
  <2>1. \A k \in K : k \in Nat /\ k >= 1
    BY <1>2
  <2>2. \A k \in K : k \notin stops => k \in 1 .. sync.placed
    BY <1>2, <2>1
  <2>3. ASSUME NEW n, NEW k \in upTo(n) PROVE k \in 1 .. sync.placed
    <3>1. k \in K /\ \A j \in stops : k < j
      OBVIOUS
    <3>2. k \notin stops
      BY <2>1, <3>1
    <3>3. QED
      BY <2>2, <3>1, <3>2
  <2>4. QED
    BY <2>2, <2>3
<1>5. \A J : J \in SUBSET (1 .. sync.placed) => J \in SUBSET DOMAIN steps
  BY <1>2
<1>6. ASSUME stops = {}, Personalize(l, K) PROVE Gets(l, sync.placed)
  <2>1. \A k \in DOMAIN steps : k \in K \/ sync.render[l][k] = steps[k]
    OBVIOUS
  <2>2. K \in SUBSET DOMAIN steps
    OBVIOUS
  <2> HIDE DEF K
  <2>3. QED
    BY <1>1, <1>2, <1>6, <2>1, <2>2, GetsAll
<1>7. ASSUME NEW J \in SUBSET (1 .. sync.placed)
      PROVE  /\ Touches(sync, Pushes(J), l) /\ Stands(sync, Pushes(J), l)
             /\ Pushes(J).member[l].known /\ Pushes(J) \in Syncs
             /\ Personalize(l, J) => \A n \in Leads, k \in DOMAIN steps :
                                       own[n][k] = steps[k] => own'[n][k] = steps[k]
  <2> DEFINE u == Rendered(sync, l, J)
  <2>1. Touches(sync, u, l) /\ Stands(sync, u, l)
    BY <1>2, RenderedTouches
  <2> HIDE DEF u
  <2>2. u \in Syncs
    BY <2>1 DEF Touches
  <2>3. /\ Touches(u, Known(u, l), l) /\ Stands(u, Known(u, l), l)
        /\ Known(u, l).member[l].known
    BY <2>2, KnownTouches
  <2>4. Touches(sync, Known(u, l), l)
    BY <2>1, <2>3, TouchesTransitive
  <2>5. Stands(sync, Known(u, l), l)
    BY <2>1, <2>3 DEF Stands
  <2>6. Known(u, l) \in Syncs
    BY <2>4 DEF Touches
  <2>7. Personalize(l, J) => \A n \in Leads, k \in DOMAIN steps :
                               own[n][k] = steps[k] => own'[n][k] = steps[k]
    BY <1>2, <1>5, PersonalizeKeeps
  <2>8. QED
    BY <2>3, <2>4, <2>5, <2>6, <2>7 DEF u
<1>8. CASE sync' = Advance(sync, l) /\ UNCHANGED <<lead, own, faults>>
  <2>1. Touches(sync, sync, l) /\ Stands(sync, sync, l)
    BY <1>2, TouchesItself
  <2>2. ASSUME Clean' PROVE Clean /\ Served(sync, l)
    <3>1. Clean /\ LeadClean(sync, l)
      BY <1>2, <1>3, <1>8, <2>2 DEF Clean
    <3>2. LeftAlone(l)
      BY <1>8 DEF LeftAlone, Open
    <3>3. QED
      BY <1>1, <1>2, <2>1, <3>1, <3>2, NotServed
  <2>3. QED
    BY <1>1, <1>3, <1>8, <2>1, <2>2, OneLeadClean
<1>9. ASSUME NEW answer \in {"failed", "lost"}, Call(answer),
             IF answer = "lost" THEN AddLead(l, "review") ELSE UNCHANGED lead,
             sync' = Advance(sync, l), UNCHANGED own
      PROVE  CleanInv'
  <2>1. Touches(sync, sync, l)
    BY <1>2, TouchesItself
  <2>2. ~Clean'
    BY <1>2, <1>9, Answered DEF Clean
  <2>3. AddLead(l, "review") \/ lead' = lead
    BY <1>9
  <2>4. \A n \in Leads : lead'[n].at = lead[n].at /\ (n # l => lead'[n] = lead[n])
    BY <1>2, <2>3, AddedLeads
  <2>5. QED
    BY <1>1, <1>3, <1>9, <2>1, <2>2, <2>4, OneLeadClean
<1>10. ASSUME NEW n, NEW answer, Call(answer), AddLead(l, "review"),
              Personalize(l, upTo(n)), sync' = Advance(Pushes(upTo(n)), l)
       PROVE  CleanInv'
  <2> DEFINE J == upTo(n)
             u == Pushes(J)
  <2>1. J \in SUBSET (1 .. sync.placed)
    BY <1>4
  <2>2. Personalize(l, J) /\ sync' = Advance(u, l)
    BY <1>10
  <2> HIDE DEF J, Pushes
  <2>3. /\ Touches(sync, u, l) /\ Stands(sync, u, l) /\ u.member[l].known
        /\ \A m \in Leads, k \in DOMAIN steps :
             own[m][k] = steps[k] => own'[m][k] = steps[k]
    BY <1>7, <2>1, <2>2
  <2> HIDE DEF u
  <2>4. /\ \A m \in Leads : lead'[m].at = lead[m].at /\ (m # l => lead'[m] = lead[m])
        /\ Open(l)' => Open(l)
        /\ lead'[l].stage = "launched" => lead[l].stage = "launched"
    BY <1>2, <1>10, AddedLeads, AddedStage
  <2>5. ASSUME Clean' PROVE Clean /\ Served(u, l)
    <3>1. Clean /\ LeadClean(sync, l)
      BY <1>2, <1>3, <1>10, <2>5, Answered DEF Clean
    <3>2. /\ u.placed = sync.placed /\ u.pc = sync.pc /\ u.dirty = sync.dirty
          /\ u.member[l].status = sync.member[l].status
      BY <2>3 DEF Touches, Stands
    <3>3. Status(u, l) = Status(sync, l)
      BY <3>2 DEF Status
    <3>4. Open(l) => Gets(l, u.placed)
      BY <1>1, <2>3, <3>1, <3>2 DEF LeadClean, Exempt, Owns, Gets
    <3>5. QED
      BY <1>1, <2>3, <2>4, <3>1, <3>2, <3>3, <3>4 DEF LeadClean, Served
  <2>6. QED
    BY <1>1, <1>3, <2>2, <2>3, <2>4, <2>5, OneLeadClean
<1>11. ASSUME stops = {}, NEW answer \in {"ok", "lost"}, Call(answer),
              sync' = Advance(IF answer = "ok" THEN Queued(Pushes(K), l) ELSE Pushes(K), l),
              AddLead(l, "launched"), Personalize(l, K)
       PROVE  CleanInv'
  <2> DEFINE u == Pushes(K)
             t == Queued(u, l)
  <2>1. K \in SUBSET (1 .. sync.placed) /\ Gets(l, sync.placed)
    BY <1>4, <1>6, <1>11
  <2>2. sync' = Advance(IF answer = "ok" THEN t ELSE u, l)
    BY <1>11
  <2>3. Personalize(l, K)
    BY <1>11
  <2> HIDE DEF K, Pushes
  <2>4. /\ Touches(sync, u, l) /\ u.member[l].known /\ u \in Syncs
        /\ \A m \in Leads, k \in DOMAIN steps :
             own[m][k] = steps[k] => own'[m][k] = steps[k]
    BY <1>7, <2>1, <2>3
  <2> HIDE DEF u
  <2>5. /\ Touches(u, t, l) /\ l \in t.dirty /\ t.member[l].status = "queued"
    BY <2>4, QueuedTouches
  <2> HIDE DEF t
  <2>6. Touches(sync, t, l) /\ t.member[l].known
    BY <2>4, <2>5, TouchesTransitive DEF Touches
  <2>7. \A m \in Leads : lead'[m].at = lead[m].at /\ (m # l => lead'[m] = lead[m])
    BY <1>2, <1>11, AddedLeads
  <2>8. PICK v : Touches(sync, v, l) /\ sync' = Advance(v, l) /\ (answer = "ok" => v = t)
    BY <2>2, <2>4, <2>6
  <2>9. ASSUME Clean' PROVE Clean /\ Served(v, l)
    <3>1. answer = "ok" /\ Clean
      BY <1>2, <1>3, <1>11, <2>9, Answered DEF Clean
    <3>2. v = t /\ Status(t, l) = "queued"
      BY <2>5, <2>8, <3>1 DEF Status
    <3>3. Gets(l, t.placed) /\ t.pc \notin Placing
      BY <1>1, <2>1, <2>6 DEF Touches
    <3>4. QED
      BY <2>5, <2>6, <3>1, <3>2, <3>3 DEF Served, Paused
  <2>10. QED
    BY <1>1, <1>3, <2>4, <2>7, <2>8, <2>9, OneLeadClean
<1>12. QED
  <2>1. ASSUME \E n \in 0 .. Len(steps) :
                 /\ Call(IF stops # {} /\ n = Len(steps) THEN "ok" ELSE "failed")
                 /\ AddLead(l, "review")
                 /\ Personalize(l, upTo(n))
                 /\ sync' = Advance(Known(Rendered(sync, l, upTo(n)), l), l)
        PROVE  CleanInv'
    BY <1>10, <2>1
  <2>2. QED
    BY <1>8, <1>9, <1>11, <2>1 DEF PushMember

\* A step of others, around the sync, that leaves a lead clean.
CleanAlone(l) ==
  /\ Open(l)' => Open(l)
  /\ lead'[l].stage = "launched" => lead[l].stage = "launched"
  /\ lead[l].stage = "launched" /\ member[l].status # "ready" => member'[l].status # "ready"
  /\ Open(l)' /\ member[l].status \notin Paused => member'[l].status \notin Paused
  /\ member'[l].status = "completed" =>
       member[l].status = "completed" \/ Len(steps) <= lead[l].at
  /\ Awaited(l) => Awaited(l)'

LEMMA AwaitedStays ==
  ASSUME UNCHANGED request, NEW l \in Leads, Awaited(l) PROVE Awaited(l)'
  BY DEF Awaited

\* What holds of a lead around the sync: a row others may write is known once
\* the lead is launched.
LEMMA AroundClean ==
  ASSUME IInv, IInv', CleanInv, UNCHANGED <<steps, placed, sync, own, remote>>,
         \A l \in Leads : /\ lead[l].at <= lead'[l].at
                          /\ lead'[l].stage # "none" => lead[l].stage # "none"
                          /\ member'[l].known = member[l].known,
         Clean' => /\ Clean
                   /\ campaign' # "ACTIVE" => runs' = "no"
                   /\ sync = NoSync \/ runs' = runs
                   /\ \A l \in Leads : CleanAlone(l) \/ (sync = NoSync /\ RowClean(l)')
  PROVE  CleanInv'
<1>1. TypeOK /\ TypeOK'
  BY DEF IInv
<1>2. (sync # NoSync /\ sync.pc = "append" =>
         \A l \in Leads : sync.member[l].known => member[l].known)'
  BY DEF CleanInv
<1>3. /\ DOMAIN steps \subseteq Nat /\ Len(steps) \in Nat /\ placed \in Nat
      /\ \A l \in Leads : lead[l].at \in Nat /\ lead'[l].at \in Nat
  <2>1. Len(steps) \in Nat /\ DOMAIN steps \subseteq Nat /\ placed \in Nat
    BY <1>1, LeadFields, StepPositions DEF TypeOK
  <2>2. ASSUME NEW l \in Leads PROVE lead[l].at \in Nat /\ lead'[l].at \in Nat
    <3>1. lead[l] \in LemlistLeads /\ lead'[l] \in LemlistLeads
      BY <1>1 DEF TypeOK
    <3>2. QED
      BY <3>1 DEF LemlistLeads
  <2>3. QED
    BY <2>1, <2>2
<1>4. ASSUME NEW l \in Leads, NEW n, Owns(l, n) PROVE Owns(l, n)'
  <2>1. \A k \in DOMAIN steps : lead'[l].at < k => lead[l].at < k
    BY <1>3
  <2>2. QED
    BY <1>4, <2>1 DEF Owns
<1>5. ASSUME Clean', sync = NoSync, NEW l \in Leads PROVE RowClean(l)'
  <2>1. CASE CleanAlone(l)
    <3>1. RowClean(l)
      BY <1>5 DEF CleanInv
    <3>2. Open(l) /\ Owns(l, placed) => Owns(l, placed)'
      BY <1>4 DEF Owns
    <3>3. QED
      BY <2>1, <3>1, <3>2 DEF RowClean, CleanAlone
  <2>2. QED
    BY <1>5, <2>1
<1>6. ASSUME Clean', sync # NoSync, NEW s, s = sync, NEW l \in Leads
      PROVE  LeadClean(s, l)'
  <2>1. LeadClean(s, l) /\ CleanAlone(l)
    BY <1>6 DEF CleanInv
  <2>2. Open(l) => Owns(l, IF l \in Exempt(s) THEN s.placed - 1 ELSE s.placed)'
    BY <1>4, <2>1 DEF LeadClean
  <2>3. lead'[l].stage = "launched" =>
          Status(s, l)' # "ready" /\ (l \notin s.dirty => member'[l].known)
    BY <2>1 DEF LeadClean, CleanAlone, Status
  <2>4. Open(l)' => Status(s, l)' \notin Paused /\ s.member[l].status \notin Paused
    BY <2>1 DEF LeadClean, CleanAlone, Status
  <2>5. ASSUME Open(l)', s.pc \in Placing, Status(s, l)' = "completed"
        PROVE  Len(steps) <= lead'[l].at
    <3>1. Status(s, l) = "completed" \/ Len(steps) <= lead[l].at
      BY <2>1, <2>5 DEF CleanAlone, Status
    <3>2. Len(steps) <= lead[l].at
      BY <2>1, <2>5, <3>1 DEF LeadClean, CleanAlone
    <3>3. QED
      BY <1>3, <3>2
  <2>6. lead'[l].stage # "none" => s.member[l].known
    BY <2>1 DEF LeadClean
  <2>7. Open(l)' => Owns(l, IF l \in Exempt(s) THEN s.placed - 1 ELSE s.placed)'
    BY <2>1, <2>2 DEF CleanAlone
  <2>8. QED
    BY <2>3, <2>4, <2>5, <2>6, <2>7 DEF LeadClean
<1>7. ASSUME Clean'
      PROVE  /\ campaign' # "ACTIVE" => runs' = "no"
             /\ sync' = NoSync => ShellsClean(placed)'
             /\ sync' # NoSync => ShellsClean(sync.placed)' /\ (sync'.pc \in Placing => runs' = "no")
  <2>1. Clean /\ (campaign' # "ACTIVE" => runs' = "no") /\ (sync = NoSync \/ runs' = runs)
    BY <1>7
  <2>2. /\ sync = NoSync => ShellsClean(placed)
        /\ sync # NoSync => ShellsClean(sync.placed) /\ (sync.pc \in Placing => runs = "no")
    BY <2>1 DEF CleanInv
  <2>3. QED
    BY <2>1, <2>2 DEF ShellsClean
<1>8. PICK s : s = sync
  OBVIOUS
<1>9. ASSUME NEW l \in Leads, LeadClean(s, l)' PROVE LeadClean(sync, l)'
  BY <1>8, <1>9 DEF LeadClean, Status, Exempt
<1>10. QED
  BY <1>2, <1>5, <1>6, <1>7, <1>8, <1>9 DEF CleanInv

LEMMA CleanSend ==
  ASSUME IInv, IInv', CleanInv, NEW l \in Leads, Send(l) PROVE CleanInv'
<1>1. /\ lead' = [lead EXCEPT ![l].at = lead[l].at + 1]
      /\ UNCHANGED <<campaign, steps, placed, member, sync, runs, own, remote, faults, unseen,
                   request>>
  BY DEF Send
<1>2. lead \in [Leads -> LemlistLeads] /\ TypeOK /\ \A n \in Leads : lead[n].at \in Nat
  BY LeadFields DEF IInv, TypeOK
<1>3. /\ lead'[l].at = lead[l].at + 1 /\ lead'[l].stage = lead[l].stage
      /\ lead'[l].paused = lead[l].paused
      /\ \A n \in Leads \ {l} : lead'[n] = lead[n]
  BY <1>1, <1>2 DEF LemlistLeads
<1>4. ASSUME NEW n \in Leads
      PROVE  /\ lead[n].at <= lead'[n].at
             /\ lead'[n].stage # "none" => lead[n].stage # "none"
             /\ CleanAlone(n)
  BY <1>1, <1>2, <1>3, AwaitedStays DEF CleanAlone, Open
<1>5. Clean' => Clean /\ (campaign' # "ACTIVE" => runs' = "no")
  BY <1>1 DEF Clean, CleanInv
<1>6. QED
  BY <1>1, <1>4, <1>5, AroundClean

LEMMA CleanEndLead ==
  ASSUME IInv, IInv', CleanInv, NEW l \in Leads, EndLead(l) PROVE CleanInv'
<1>1. /\ lead' = [lead EXCEPT ![l].stage = "done"] /\ lead[l].stage = "launched"
      /\ UNCHANGED <<campaign, steps, placed, member, sync, runs, own, remote, faults, unseen,
                   request>>
  BY DEF EndLead
<1>2. lead \in [Leads -> LemlistLeads] /\ TypeOK /\ \A n \in Leads : lead[n].at \in Nat
  BY LeadFields DEF IInv, TypeOK
<1>3. /\ lead'[l].at = lead[l].at /\ lead'[l].stage = "done"
      /\ \A n \in Leads \ {l} : lead'[n] = lead[n]
  BY <1>1, <1>2 DEF LemlistLeads
<1>4. ASSUME NEW n \in Leads
      PROVE  /\ lead[n].at <= lead'[n].at
             /\ lead'[n].stage # "none" => lead[n].stage # "none"
             /\ CleanAlone(n)
  BY <1>1, <1>2, <1>3, AwaitedStays DEF CleanAlone, Open
<1>5. Clean' => Clean /\ (campaign' # "ACTIVE" => runs' = "no")
  BY <1>1 DEF Clean, CleanInv
<1>6. QED
  BY <1>1, <1>4, <1>5, AroundClean

LEMMA CleanWebhook ==
  ASSUME IInv, IInv', SafeInv, CleanInv, NEW l \in Leads, Webhook(l) PROVE CleanInv'
<1> DEFINE m == Ingested(member[l], lead[l].at)
<1>1. /\ member' = [member EXCEPT ![l] = m]
      /\ UNCHANGED <<campaign, steps, placed, lead, sync, runs, own, remote, faults, unseen,
                   request>>
  BY DEF Webhook, lemlist
<1>2. /\ member[l] \in Members /\ lead[l].at \in 0 .. MaxSteps /\ TypeOK
      /\ member[l].step <= lead[l].at
      /\ \A n \in Leads : lead[n].at \in Nat
  BY Now, LeadFields
<1>3. /\ m.known = member[l].known
      /\ member[l].status \notin Paused => m.status \notin Paused
      /\ m.status = "completed" => member[l].status = "completed" \/ lead[l].at >= Len(steps)
      /\ member[l].status # "ready" => m.status # "ready"
  BY <1>2, IngestedFields
<1> HIDE DEF m
<1>4. member'[l] = m /\ \A n \in Leads \ {l} : member'[n] = member[n]
  BY <1>1, <1>2 DEF TypeOK
<1>5. Len(steps) \in Nat
  BY <1>2, StepPositions
<1>6. ASSUME NEW n \in Leads
      PROVE  /\ lead[n].at <= lead'[n].at /\ member'[n].known = member[n].known
             /\ CleanAlone(n)
  <2>1. member'[n].status = "completed" =>
          member[n].status = "completed" \/ Len(steps) <= lead[n].at
    BY <1>2, <1>3, <1>4, <1>5
  <2>2. QED
    BY <1>1, <1>2, <1>3, <1>4, <2>1, AwaitedStays DEF CleanAlone, Open
<1>7. Clean' => Clean /\ (campaign' # "ACTIVE" => runs' = "no")
  BY <1>1 DEF Clean, CleanInv
<1>8. QED
  BY <1>1, <1>6, <1>7, AroundClean

LEMMA CleanMirrorPause ==
  ASSUME IInv, IInv', CleanInv, NEW l \in Leads, NEW paused \in BOOLEAN,
         MirrorPause(l, paused)
  PROVE  CleanInv'
<1>1. /\ UNCHANGED <<campaign, steps, placed, lead, sync, runs, own, remote, faults,
                     request>>
      /\ TypeOK /\ \A n \in Leads : lead[n].at \in Nat
  BY LeadFields DEF MirrorPause, lemlist, IInv
<1>2. \/ member' = WithStatus(l, "paused") /\ (~unseen' => ~unseen /\ ~Open(l))
      \/ /\ member' = WithStatus(l, "active") \/ member' = WithStatus(l, "queued")
         /\ unseen'
  BY DEF MirrorPause, WithStatus, Resumed, Race
<1>3. ASSUME NEW n \in Leads
      PROVE  lead[n].at <= lead'[n].at /\ member'[n].known = member[n].known
  BY <1>1, <1>2, StatusFields
<1>4. ASSUME Clean'
      PROVE  Clean /\ (campaign' # "ACTIVE" => runs' = "no") /\ \A n \in Leads : CleanAlone(n)
  <2>1. member' = WithStatus(l, "paused") /\ ~Open(l) /\ Clean
    BY <1>1, <1>2, <1>4 DEF Clean
  <2>2. ASSUME NEW n \in Leads PROVE CleanAlone(n)
    <3>1. CASE n = l
      BY <1>1, <2>1, <3>1, StatusFields, AwaitedStays DEF CleanAlone, Open
    <3>2. CASE n # l
      <4>1. member'[n] = member[n]
        BY <1>1, <2>1, <3>2, StatusFields
      <4>2. QED
        BY <1>1, <4>1, AwaitedStays DEF CleanAlone, Open
    <3>3. QED
      BY <3>1, <3>2
  <2>3. QED
    BY <1>1, <2>1, <2>2 DEF CleanInv
<1>5. QED
  BY <1>1, <1>3, <1>4, AroundClean

\* A step that changes neither a row nor Lemlist.
LEMMA CleanAround ==
  ASSUME IInv, IInv', CleanInv, Clean' => Clean,
         UNCHANGED <<campaign, steps, placed, member, sync, runs, remote, lead, own>>,
         \A l \in Leads : Awaited(l) => Awaited(l)'
  PROVE  CleanInv'
<1>1. \A l \in Leads : lead[l].at \in Nat
  BY LeadFields DEF IInv
<1>2. \A l \in Leads : /\ lead[l].at <= lead'[l].at
                       /\ lead'[l].stage # "none" => lead[l].stage # "none"
                       /\ CleanAlone(l)
  BY <1>1 DEF CleanAlone, Open
<1>3. Clean' => Clean /\ (campaign' # "ACTIVE" => runs' = "no")
  BY DEF CleanInv
<1>4. QED
  BY <1>2, <1>3, AroundClean

\* A request that begins was none before.
LEMMA BegunAwaited ==
  ASSUME TypeOK, NEW q \in Requests, NEW l \in Leads, request[q] = NoRequest,
         NEW to \in {"paused", "ready"} \cup Running,
         request' = [request EXCEPT ![q] = Asked(l, to)]
  PROVE  \A n \in Leads : Awaited(n) => Awaited(n)'
<1>1. \A p \in Requests \ {q} : request'[p] = request[p]
  BY BegunRequest
<1>2. request[q].pc # "write"
  BY DEF NoRequest
<1>3. QED
  BY <1>1, <1>2 DEF Awaited

LEMMA CleanBeginPause ==
  ASSUME IInv, IInv', CleanInv, NEW q \in Requests, NEW l \in Leads, BeginPause(q, l)
  PROVE  CleanInv'
<1>1. /\ UNCHANGED <<campaign, steps, placed, member, sync, runs, remote, lead, own>>
      /\ request[q] = NoRequest /\ TypeOK
      /\ request' = [request EXCEPT ![q] = Asked(l, "paused")]
      /\ Clean' => Clean
  BY DEF BeginPause, lemlist, IInv, Clean
<1>2. \A n \in Leads : Awaited(n) => Awaited(n)'
  BY <1>1, BegunAwaited
<1>3. QED
  BY <1>1, <1>2, CleanAround

LEMMA CleanBeginResume ==
  ASSUME IInv, IInv', CleanInv, NEW q \in Requests, NEW l \in Leads, BeginResume(q, l)
  PROVE  CleanInv'
<1> DEFINE to == IF member[l].known THEN Resumed(member[l]) ELSE "ready"
<1>1. /\ UNCHANGED <<campaign, steps, placed, member, sync, runs, remote, lead, own>>
      /\ request[q] = NoRequest /\ TypeOK
      /\ request' = [request EXCEPT ![q] = Asked(l, to)]
      /\ Clean' => Clean
  BY DEF BeginResume, lemlist, IInv, Clean, Race
<1>2. to \in {"paused", "ready"} \cup Running
  BY DEF Resumed, Running
<1> HIDE DEF to
<1>3. \A n \in Leads : Awaited(n) => Awaited(n)'
  BY <1>1, <1>2, BegunAwaited
<1>4. QED
  BY <1>1, <1>3, CleanAround

\* Lemlist lets a lead run that has every email placed, and the request that
\* asked for it is about to write its row.
LEMMA CleanCallLemlist ==
  ASSUME IInv, IInv', SafeInv, PendingInv, CleanInv, NEW q \in Requests, CallLemlist(q)
  PROVE  CleanInv'
<1>0. PICK l \in Leads : l = request[q].lead
  BY CalledLead DEF IInv
<1>1. /\ UNCHANGED <<campaign, steps, placed, member, sync, runs, remote, own, unseen>>
      /\ request[q].pc = "call" /\ TypeOK
      /\ \A n \in Leads : lead[n].at \in Nat
  BY LeadFields DEF CallLemlist, IInv
<1>2. /\ l \in Leads
      /\ \A n \in Leads : /\ lead'[n].at = lead[n].at /\ lead'[n].stage = lead[n].stage
                          /\ n # l => lead'[n] = lead[n]
                          /\ Open(n)' => Open(n) \/ (n = l /\ Resuming(q))
  BY <1>0, <1>1, CalledLead
<1>3. PICK answer \in Answers :
        /\ Call(answer)
        /\ request' = [request EXCEPT ![q] =
             IF answer = "ok" THEN [@ EXCEPT !.pc = "write"] ELSE NoRequest]
  BY DEF CallLemlist
<1>4. ASSUME Clean' PROVE Clean /\ answer = "ok"
  BY <1>1, <1>3, <1>4, Answered DEF Clean
<1>5. \A n \in Leads : Awaited(n) => Awaited(n)'
  <2>1. \A p \in Requests \ {q} : request'[p] = request[p]
    BY <1>1, CalledRequest
  <2>2. QED
    BY <1>1, <2>1 DEF Awaited
<1>6. ASSUME NEW n \in Leads, Open(n)' => Open(n) PROVE CleanAlone(n)
  BY <1>1, <1>2, <1>5, <1>6 DEF CleanAlone
<1>7. ASSUME Clean', Resuming(q) PROVE sync = NoSync /\ RowClean(l)'
  <2>1. /\ sync = NoSync /\ member[l].known /\ Owns(l, placed)
    BY <1>0, <1>1, <1>7 DEF PendingInv, PendingOK
  <2>2. Awaited(l)'
    <3> DEFINE called == [request[q] EXCEPT !.pc = "write"]
    <3>1. /\ called.lead = l /\ called.to = request[q].to /\ called.pc = "write"
          /\ request' = [request EXCEPT ![q] = called]
      BY <1>0, <1>1, <1>3, <1>4, <1>7, CalledRequest
    <3>2. q \in DOMAIN request
      BY <1>1 DEF TypeOK
    <3> HIDE DEF called
    <3>3. request'[q] = called
      BY <3>1, <3>2
    <3>4. request'[q].pc = "write" /\ request'[q].lead = l /\ request'[q].to # "paused"
      BY <1>7, <3>1, <3>3 DEF Resuming
    <3>5. QED
      BY <3>4 DEF Awaited
  <2>3. RowClean(l)
    BY <1>2, <1>4, <1>7, <2>1 DEF CleanInv
  <2>4. Owns(l, placed)'
    BY <1>1, <1>2, <2>1 DEF Owns
  <2>5. QED
    BY <1>1, <1>2, <2>1, <2>2, <2>3, <2>4 DEF RowClean, Open
<1>8. ASSUME Clean', NEW n \in Leads PROVE CleanAlone(n) \/ (sync = NoSync /\ RowClean(n)')
  <2>1. CASE n = l /\ Resuming(q)
    BY <1>7, <1>8, <2>1
  <2>2. CASE ~(n = l /\ Resuming(q))
    BY <1>2, <1>6, <2>2
  <2>3. QED
    BY <2>1, <2>2
<1>9. Clean' => Clean /\ (campaign' # "ACTIVE" => runs' = "no")
  BY <1>1, <1>4 DEF CleanInv
<1>10. ASSUME NEW n \in Leads
       PROVE  /\ lead[n].at <= lead'[n].at /\ member'[n].known = member[n].known
              /\ lead'[n].stage # "none" => lead[n].stage # "none"
  BY <1>1, <1>2
<1>11. QED
  BY <1>1, <1>8, <1>9, <1>10, AroundClean

\* A pause is written for a lead Lemlist does not send to, a resumption for one
\* that has its emails, or that Lemlist does not hold.
LEMMA CleanWriteStatus ==
  ASSUME IInv, IInv', SafeInv, PendingInv, CleanInv, NEW q \in Requests, WriteStatus(q)
  PROVE  CleanInv'
<1>0. PICK l \in Leads : l = request[q].lead
  BY WrittenRow DEF IInv
<1>1. /\ UNCHANGED <<campaign, steps, placed, lead, sync, runs, remote, own, faults>>
      /\ TypeOK /\ \A n \in Leads : lead[n].at \in Nat
      /\ ~unseen' => ~unseen /\ ~(request[q].to = "paused" /\ Open(l))
  <2>1. UNCHANGED <<campaign, steps, placed, lead, sync, runs, remote, own, faults>>
    BY DEF WriteStatus, lemlist
  <2>2. TypeOK /\ \A n \in Leads : lead[n].at \in Nat
    BY LeadFields DEF IInv
  <2>3. unseen' = (unseen \/ (request[q].to = "paused" /\ Open(l)))
    BY <1>0 DEF WriteStatus, Race
  <2>4. QED
    BY <2>1, <2>2, <2>3
<1>2. /\ l \in Leads /\ member'[l].status = request[q].to
      /\ request[q].to \in {"paused", "ready"} \cup Running
      /\ request[q].to # "paused" => Resuming(q)
      /\ \A n \in Leads : /\ member'[n].known = member[n].known
                          /\ n # l => member'[n] = member[n]
  BY <1>0, <1>1, WrittenRow
<1>3. \A p \in Requests \ {q} : request'[p] = request[p]
  BY <1>1, EndedRequest
<1>4. ASSUME NEW n \in Leads, n # l \/ request[q].to = "paused", Awaited(n)
      PROVE  Awaited(n)'
  <2>1. PICK p \in Requests :
          request[p].pc = "write" /\ request[p].lead = n /\ request[p].to # "paused"
    BY <1>4 DEF Awaited
  <2>2. p # q
    BY <1>0, <1>4, <2>1
  <2>3. QED
    BY <1>3, <2>1, <2>2 DEF Awaited
<1>5. ASSUME Clean' PROVE Clean /\ ~(request[q].to = "paused" /\ Open(l))
  BY <1>1, <1>5 DEF Clean
<1>6. ASSUME NEW n \in Leads, n # l PROVE CleanAlone(n)
  BY <1>1, <1>2, <1>4, <1>6 DEF CleanAlone, Open
<1>7. ASSUME Clean' PROVE CleanAlone(l) \/ (sync = NoSync /\ RowClean(l)')
  <2>1. CASE request[q].to = "paused"
    <3>1. ~Open(l)' /\ (Awaited(l) => Awaited(l)') /\ member'[l].status = "paused"
      BY <1>1, <1>2, <1>4, <1>5, <1>7, <2>1 DEF Open
    <3>2. QED
      BY <1>1, <3>1 DEF CleanAlone
  <2>2. CASE request[q].to # "paused"
    <3>1. /\ sync = NoSync
          /\ request[q].to = "ready" => ~member[l].known
      BY <1>0, <1>2, <2>2 DEF PendingInv, PendingOK
    <3>2. RowClean(l)
      BY <1>2, <1>5, <1>7, <3>1 DEF CleanInv
    <3>3. Owns(l, placed) => Owns(l, placed)'
      BY <1>1 DEF Owns
    <3>4. member'[l].status \notin Paused
      BY <1>2, <2>2 DEF Paused, Running
    <3>5. QED
      BY <1>1, <1>2, <3>1, <3>2, <3>3, <3>4 DEF RowClean, Open
  <2>3. QED
    BY <2>1, <2>2
<1>8. ASSUME NEW n \in Leads
      PROVE  /\ lead[n].at <= lead'[n].at /\ member'[n].known = member[n].known
             /\ lead'[n].stage # "none" => lead[n].stage # "none"
             /\ Clean' => CleanAlone(n) \/ (sync = NoSync /\ RowClean(n)')
  BY <1>1, <1>2, <1>6, <1>7
<1>9. Clean' => Clean /\ (campaign' # "ACTIVE" => runs' = "no")
  BY <1>1, <1>5 DEF CleanInv
<1>10. QED
  BY <1>1, <1>8, <1>9, AroundClean

LEMMA CleanSetStatus ==
  ASSUME IInv, IInv', CleanInv, NEW target \in {"ACTIVE", "PAUSED"}, SetStatus(target)
  PROVE  CleanInv'
<1>1. /\ UNCHANGED <<steps, placed, sync, own, remote, member, lead, unseen,
                   request>>
      /\ TypeOK /\ sync = NoSync /\ \A n \in Leads : lead[n].at \in Nat
  BY LeadFields, Idle DEF SetStatus, IInv
<1>2. PICK answer \in Answers :
        /\ Call(answer)
        /\ runs' = IF answer = "failed" THEN runs
                   ELSE IF target = "ACTIVE" THEN "agent" ELSE "no"
        /\ campaign' = IF answer = "ok" THEN target ELSE campaign
  BY DEF SetStatus
<1>3. ASSUME NEW n \in Leads PROVE lead[n].at <= lead'[n].at /\ CleanAlone(n)
  BY <1>1, AwaitedStays DEF CleanAlone, Open
<1>4. Clean' => Clean /\ (campaign' # "ACTIVE" => runs' = "no")
  BY <1>1, <1>2, Answered DEF Clean
<1>5. QED
  BY <1>1, <1>3, <1>4, AroundClean

\* The rows loaded again, for the leads.
LEMMA LoadFields ==
  ASSUME TypeOK, NEW s \in Syncs
  PROVE  /\ Load(s) \in Syncs /\ Load(s).pc = s.pc /\ Load(s).placed = s.placed
         /\ Load(s).dirty = s.dirty
         /\ \A l \in Leads : Load(s).member[l] = IF l \in s.dirty THEN s.member[l] ELSE member[l]
<1> DEFINE rows == [l \in Leads |-> IF l \in s.dirty THEN s.member[l] ELSE member[l]]
           t == [s EXCEPT !.member = rows]
<1>1. Load(s) = t
  BY DEF Load
<1>2. s.member \in [Leads -> Members] /\ member \in [Leads -> Members]
  BY SyncFields DEF TypeOK
<1> HIDE DEF Members, Renders
<1>3. /\ rows \in [Leads -> Members]
      /\ \A l \in Leads : rows[l] = IF l \in s.dirty THEN s.member[l] ELSE member[l]
  BY <1>2
<1> HIDE DEF rows
<1>4. /\ t \in Syncs /\ t.member = rows /\ t.pc = s.pc /\ t.placed = s.placed
      /\ t.dirty = s.dirty
  BY <1>3 DEF Syncs
<1>5. QED
  BY <1>1, <1>3, <1>4

LEMMA LoadedClean ==
  ASSUME UNCHANGED <<steps, member, own>>, NEW s, NEW t, NEW l \in Leads,
         LeadClean(s, l), s.member[l].known => member[l].known,
         t.placed = s.placed, t.dirty = s.dirty, Exempt(s) = {}, Exempt(t) = {},
         t.member[l] = IF l \in s.dirty THEN s.member[l] ELSE member[l],
         lead'[l].at = lead[l].at, lead'[l].stage = lead[l].stage, Open(l)' => Open(l),
         t.pc \in Placing /\ Open(l)' => Status(s, l) # "completed"
  PROVE  LeadClean(t, l)'
<1>1. Status(t, l)' = Status(s, l)
  BY DEF Status
<1>2. t.member[l].status = Status(s, l) /\ (s.member[l].known => t.member[l].known)
  BY DEF Status
<1>3. Open(l)' => Owns(l, t.placed)'
  BY DEF LeadClean, Owns
<1>4. QED
  BY <1>1, <1>2, <1>3 DEF LeadClean

LEMMA CleanHoldCompleted ==
  ASSUME IInv, IInv', SafeInv, CleanInv, HoldCompleted PROVE CleanInv'
<1>1. sync.pc = "append" /\ sync.pc \in Phases
  BY DEF HoldCompleted, Phases
<1>2. /\ TypeOK /\ sync \in Syncs /\ sync # NoSync
      /\ Clean => \A l \in Leads : LeadClean(sync, l)
      /\ \A l \in Leads : sync.member[l].known => member[l].known
  BY <1>1, CleanInSession DEF CleanInv
<1> DEFINE u == Load(sync)
<1>3. PICK failed \in SUBSET ToHold, lost \in SUBSET ToHold :
        /\ faults' = faults + Cardinality(failed)
        /\ lead' = [l \in Leads |-> IF l \in (ToHold \ failed) \cup lost
                                      THEN [lead[l] EXCEPT !.paused = TRUE] ELSE lead[l]]
        /\ sync' = [u EXCEPT !.pc = "place", !.unsafe = failed # {}]
  <2>1. \E failed \in SUBSET ToHold : \E lost \in SUBSET failed :
          /\ faults' = faults + Cardinality(failed)
          /\ lead' = [l \in Leads |-> IF l \in (ToHold \ failed) \cup lost
                                        THEN [lead[l] EXCEPT !.paused = TRUE] ELSE lead[l]]
          /\ sync' = [u EXCEPT !.pc = "place", !.unsafe = failed # {}]
    BY Zenon DEF HoldCompleted
  <2>2. \A failed \in SUBSET ToHold : SUBSET failed \subseteq SUBSET ToHold
    OBVIOUS
  <2>3. QED
    BY <2>1, <2>2, Zenon
<1>4. /\ u \in Syncs /\ u.placed = sync.placed /\ u.dirty = sync.dirty
      /\ \A l \in Leads : u.member[l] = IF l \in sync.dirty THEN sync.member[l] ELSE member[l]
  BY <1>2, LoadFields
<1> DEFINE bad == failed # {}
           t == [u EXCEPT !.pc = "place", !.unsafe = bad]
<1> HIDE DEF u
<1>5. /\ t \in Syncs /\ t.member = u.member /\ t.placed = u.placed /\ t.dirty = u.dirty
      /\ t.pc = "place"
  <2>1. bad \in BOOLEAN
    OBVIOUS
  <2> HIDE DEF Members, Renders, bad
  <2>2. QED
    BY <1>4, <2>1 DEF Syncs
<1>6. sync' = t
  BY <1>3
<1> HIDE DEF t
<1>7. /\ UNCHANGED <<campaign, steps, placed, member, unseen, own, remote>>
      /\ runs' = IF campaign = "ACTIVE" THEN "no" ELSE runs
  BY DEF HoldCompleted
<1>8. ASSUME NEW l \in Leads
      PROVE  /\ lead'[l].at = lead[l].at /\ lead'[l].stage = lead[l].stage
             /\ Open(l)' => Open(l)
             /\ l \in ToHold \ failed => ~Open(l)'
  <2>1. lead[l] \in LemlistLeads
    BY <1>2 DEF TypeOK
  <2>2. lead'[l] = IF l \in (ToHold \ failed) \cup lost
                     THEN [lead[l] EXCEPT !.paused = TRUE] ELSE lead[l]
    BY <1>3
  <2>3. /\ lead'[l].at = lead[l].at /\ lead'[l].stage = lead[l].stage
        /\ lead'[l].paused = IF l \in (ToHold \ failed) \cup lost THEN TRUE ELSE lead[l].paused
    BY <2>1, <2>2 DEF LemlistLeads
  <2>4. QED
    BY <2>3 DEF Open
<1>9. ASSUME faults' = 0 PROVE faults = 0 /\ failed = {}
  <2>1. IsFiniteSet(failed)
    <3>1. ToHold \in SUBSET Leads
      BY DEF ToHold
    <3>2. failed \in SUBSET Leads
      BY <3>1
    <3>3. QED
      BY <3>2, LeadsAssumption, FS_Subset
  <2>2. Cardinality(failed) \in Nat /\ faults \in Nat
    BY <1>2, <2>1, FS_CardinalityType, BoundAssumption DEF TypeOK
  <2>3. Cardinality(failed) = 0 /\ faults = 0
    BY <1>3, <1>9, <2>2
  <2>4. QED
    BY <2>1, <2>3, FS_EmptySet
<1>10. PICK v : v = t
  OBVIOUS
<1>11. ASSUME Clean', NEW l \in Leads PROVE LeadClean(v, l)'
  <2>1. Clean /\ failed = {}
    BY <1>7, <1>9, <1>11 DEF Clean
  <2>2. LeadClean(sync, l)
    BY <1>2, <2>1
  <2>3. Open(l)' => Status(sync, l) # "completed"
    <3>1. ASSUME Open(l)', Status(sync, l) = "completed" PROVE FALSE
      <4>1. Open(l) /\ l \notin ToHold
        BY <1>8, <2>1, <3>1
      <4>2. sync.member[l].known /\ ~lead[l].paused /\ lead[l].stage # "done"
        BY <2>2, <4>1 DEF LeadClean, Open
      <4>3. QED
        BY <3>1, <4>1, <4>2 DEF ToHold
    <3>2. QED
      BY <3>1
  <2>4. Exempt(sync) = {} /\ Exempt(v) = {}
    BY <1>1, <1>5, <1>10 DEF Exempt
  <2>5. PICK s : s = sync
    OBVIOUS
  <2>6. /\ LeadClean(s, l) /\ (s.member[l].known => member[l].known)
        /\ v.placed = s.placed /\ v.dirty = s.dirty /\ Exempt(s) = {}
        /\ v.member[l] = IF l \in s.dirty THEN s.member[l] ELSE member[l]
        /\ Open(l)' => Status(s, l) # "completed"
    BY <1>2, <1>4, <1>5, <1>10, <2>2, <2>3, <2>4, <2>5
  <2>7. QED
    BY <1>7, <1>8, <2>4, <2>6, LoadedClean
<1>12. ASSUME Clean'
       PROVE  /\ campaign' # "ACTIVE" => runs' = "no"
              /\ ShellsClean(v.placed)'
              /\ v.pc \in Placing => runs' = "no"
  <2>1. Clean
    BY <1>7, <1>9, <1>12 DEF Clean
  <2>2. (campaign # "ACTIVE" => runs = "no") /\ ShellsClean(sync.placed)
    BY <1>2, <2>1 DEF CleanInv
  <2>3. ShellsClean(v.placed)'
    BY <1>4, <1>5, <1>7, <1>10, <2>2 DEF ShellsClean
  <2>4. QED
    BY <1>7, <2>2, <2>3
<1>13. v \in Syncs /\ sync' = v /\ v.pc # "append"
  BY <1>5, <1>6, <1>10
<1>14. QED
  BY <1>11, <1>12, <1>13, SessionClean

LEMMA CleanAppendNothing ==
  ASSUME IInv, IInv', SafeInv, CleanInv, AppendNothing PROVE CleanInv'
<1>1. sync.pc = "append" /\ sync.pc \in Phases
  BY DEF AppendNothing, Phases
<1>2. /\ TypeOK /\ sync \in Syncs /\ sync # NoSync
      /\ Clean => \A l \in Leads : LeadClean(sync, l)
      /\ \A l \in Leads : sync.member[l].known => member[l].known
      /\ DOMAIN steps \subseteq Nat
  BY <1>1, CleanInSession DEF CleanInv
<1> DEFINE u == Load(sync)
           t == Refreshing(u)
<1>3. /\ u \in Syncs /\ u.pc = "append" /\ u.placed = sync.placed /\ u.dirty = sync.dirty
      /\ \A l \in Leads : u.member[l] = IF l \in sync.dirty THEN sync.member[l] ELSE member[l]
  BY <1>1, <1>2, LoadFields
<1>4. sync' = t
  BY DEF AppendNothing
<1> HIDE DEF u
<1>5. Follows(u, t) /\ t.pc \in {"refresh", "launch", "finish"}
  BY <1>3, RefreshingFollows, RefreshingPhase
<1> HIDE DEF t
<1>6. UNCHANGED <<campaign, steps, placed, member, unseen, own, lead, remote>>
  BY DEF AppendNothing
<1>7. ASSUME faults' = 0 PROVE faults = 0 /\ runs' = runs
  <2>1. \/ Call("ok") /\ runs' = runs
        \/ Call("failed") \/ Call("lost")
    BY DEF AppendNothing
  <2>2. QED
    BY <1>2, <1>7, <2>1, Answered
<1>8. PICK v : v = t
  OBVIOUS
<1>9. ASSUME Clean', NEW l \in Leads PROVE LeadClean(v, l)'
  <2>1. LeadClean(sync, l)
    BY <1>2, <1>6, <1>7, <1>9 DEF Clean
  <2>2. Exempt(sync) = {} /\ Exempt(u) = {} /\ u.pc \notin Placing
    BY <1>1, <1>3 DEF Exempt, Placing
  <2>3. PICK s, w : s = sync /\ w = u
    OBVIOUS
  <2>4. /\ LeadClean(s, l) /\ (s.member[l].known => member[l].known)
        /\ w.placed = s.placed /\ w.dirty = s.dirty /\ Exempt(s) = {} /\ Exempt(w) = {}
        /\ w.member[l] = IF l \in s.dirty THEN s.member[l] ELSE member[l]
        /\ w.pc \notin Placing
        /\ lead'[l].at = lead[l].at /\ lead'[l].stage = lead[l].stage
        /\ Open(l)' => Open(l)
    BY <1>2, <1>3, <1>6, <2>1, <2>2, <2>3 DEF Open
  <2>5. LeadClean(w, l)'
    BY <1>6, <2>4, LoadedClean
  <2>6. w \in Syncs /\ Follows(w, v) /\ DOMAIN steps' \subseteq Nat
    BY <1>2, <1>3, <1>5, <1>6, <1>8, <2>3
  <2>7. QED
    BY <2>4, <2>5, <2>6, MovesClean
<1>10. v \in Syncs /\ sync' = v /\ v.pc \in {"refresh", "launch", "finish"} /\ v.placed = sync.placed
  BY <1>3, <1>4, <1>5, <1>8 DEF Follows
<1>11. ASSUME Clean'
       PROVE  /\ campaign' # "ACTIVE" => runs' = "no"
              /\ ShellsClean(v.placed)'
              /\ v.pc \in Placing => runs' = "no"
  <2>1. Clean /\ runs' = runs
    BY <1>6, <1>7, <1>11 DEF Clean
  <2>2. (campaign # "ACTIVE" => runs = "no") /\ ShellsClean(sync.placed)
    BY <1>2, <2>1 DEF CleanInv
  <2>3. ShellsClean(v.placed)'
    BY <1>6, <1>10, <2>2 DEF ShellsClean
  <2>4. QED
    BY <1>6, <1>10, <2>1, <2>2, <2>3 DEF Placing
<1>12. QED
  BY <1>9, <1>10, <1>11, SessionClean

\* Shells up to n, where the others that send are fewer.
LEMMA ShellsNoFurther ==
  ASSUME remote \in Seq({"live", "parked"}), NEW m \in Nat, NEW n \in Nat, m <= n,
         ShellsClean(m), remote' = ShellsUpTo(n)
  PROVE  ShellsClean(n)'
<1>1. DOMAIN remote = 1 .. Len(remote) /\ Len(remote) \in Nat
  OBVIOUS
<1>2. ASSUME NEW k \in DOMAIN remote', remote'[k] = "live" PROVE k <= n
  <2>1. k \in 1 .. Larger(Len(remote), n) /\ remote'[k] = IF k <= n THEN "live" ELSE remote[k]
    BY <1>2 DEF ShellsUpTo
  <2>2. k \in Nat /\ k >= 1
    BY <1>1, <2>1
  <2>3. CASE ~(k <= n)
    <3>1. k \in DOMAIN remote /\ remote[k] = "live"
      BY <1>1, <1>2, <2>1, <2>2, <2>3 DEF Larger
    <3>2. k <= m
      BY <3>1 DEF ShellsClean
    <3>3. QED
      BY <2>2, <3>2
  <2>4. QED
    BY <2>3
<1>3. QED
  BY <1>2 DEF ShellsClean

\* A new shell: who has not reached it and could is rendered next.
LEMMA CleanPlaceStep ==
  ASSUME IInv, IInv', SafeInv, CleanInv, PlaceStep PROVE CleanInv'
<1> DEFINE k == sync.placed + 1
           T == {l \in InFlight(sync) : sync.member[l].step < k}
           new == [sync EXCEPT !.placed = k, !.pc = "render", !.todo = T]
           x == CHOOSE l \in Leads : TRUE
<1>1. sync.pc = "place" /\ sync.pc \in Phases /\ sync.pc \in Placing
  BY DEF PlaceStep, Phases, Placing
<1>2. /\ TypeOK /\ sync \in Syncs /\ sync # NoSync /\ sync.placed \in Nat
      /\ Len(steps) \in Nat /\ DOMAIN steps = 1 .. Len(steps)
      /\ sync.member \in [Leads -> Members]
      /\ Clean => \A l \in Leads : LeadClean(sync, l)
      /\ sync.placed < Len(steps)
      /\ RowsOK(sync.member)
      /\ remote \in Seq({"live", "parked"})
  BY <1>1, CleanInSession, InSession, SafeInSession DEF SyncPhase, Session, TypeOK
<1>3. k \in 0 .. MaxSteps /\ k > sync.placed /\ k <= Len(steps) /\ k \in Nat
  <2>1. sync.placed < Len(steps) /\ Len(steps) \in 0 .. MaxSteps
    BY <1>2, StepPositions
  <2>2. QED
    BY <1>2, <2>1, BoundAssumption
<1>4. PICK answer \in Answers :
        /\ Call(answer)
        /\ remote' = IF answer = "failed" THEN remote ELSE ShellsUpTo(k)
        /\ sync' = IF answer # "ok" THEN Refreshing(sync)
                   ELSE IF new.todo = {} THEN Advance(new, x) ELSE new
  BY Zenon DEF PlaceStep
<1>5. T \in SUBSET Leads
  BY DEF InFlight
<1> HIDE DEF T, k, x
<1>6. /\ new \in Syncs /\ new.placed = k /\ new.pc = "render" /\ new.todo = T
      /\ new.member = sync.member /\ new.dirty = sync.dirty
  <2> HIDE DEF Members, Renders
  <2>1. QED
    BY <1>2, <1>3, <1>5 DEF Syncs
<1> HIDE DEF new
<1>7. UNCHANGED <<campaign, steps, placed, member, unseen, own, lead, runs>>
  BY DEF PlaceStep
<1>8. CASE faults' # 0
  <2>1. ~Clean'
    BY <1>8 DEF Clean
  <2>2. /\ Follows(sync, Refreshing(sync)) /\ Refreshing(sync).pc \in {"refresh", "launch", "finish"}
        /\ Follows(new, Advance(new, x)) /\ Advance(new, x).pc # "append"
    BY <1>2, <1>6, RefreshingFollows, RefreshingPhase, AdvanceFollows, AdvancePhase
  <2>3. PICK v : v \in Syncs /\ v.pc # "append" /\ sync' = v
    BY <1>4, <1>6, <2>2 DEF Follows
  <2>4. QED
    BY <2>1, <2>3, SessionClean
<1>9. CASE faults' = 0
  <2>1. answer = "ok" /\ faults = 0
    BY <1>2, <1>4, <1>9, Answered
  <2>2. /\ remote' = ShellsUpTo(k)
        /\ sync' = IF new.todo = {} THEN Advance(new, x) ELSE new
    BY <1>4, <2>1
  <2>3. /\ Follows(new, Advance(new, x)) /\ Advance(new, x).pc # "append"
        /\ Follows(new, new) /\ new.pc # "append"
    BY <1>6, AdvanceFollows, AdvancePhase DEF Follows
  <2>4. PICK v : /\ sync' = v /\ Follows(new, v) /\ v.pc # "append"
                 /\ \A n \in Exempt(new) : n \in Exempt(v)
    <3>1. CASE new.todo = {}
      <4>1. Exempt(new) = {}
        BY <3>1 DEF Exempt
      <4>2. QED
        BY <2>2, <2>3, <3>1, <4>1
    <3>2. CASE new.todo # {}
      BY <2>2, <2>3, <3>2
    <3>3. QED
      BY <3>1, <3>2
  <2>5. PICK w : w = new
    OBVIOUS
  <2>6. ASSUME Clean', NEW l \in Leads PROVE LeadClean(v, l)'
    <3>1. LeadClean(sync, l)
      BY <1>2, <1>7, <2>1, <2>6 DEF Clean
    <3>2. Exempt(sync) = {} /\ Exempt(w) = T
      BY <1>1, <1>6, <2>5 DEF Exempt
    <3>3. Status(w, l)' = Status(sync, l)
      BY <1>6, <1>7, <2>5 DEF Status
    <3>4. Open(l) => Owns(l, IF l \in T THEN k - 1 ELSE k)
      <4>1. ASSUME Open(l) PROVE Owns(l, sync.placed)
        BY <3>1, <3>2, <4>1 DEF LeadClean
      <4>2. k - 1 = sync.placed
        BY <1>2 DEF k
      <4>3. ASSUME Open(l), l \notin T PROVE k <= lead[l].at
        <5>1. sync.member[l].known /\ Status(sync, l) \notin {"ready"} \cup Paused
          BY <3>1, <4>3 DEF LeadClean, Open
        <5>2. /\ sync.member[l].step \in Nat /\ lead[l].at \in Nat
              /\ sync.member[l].step <= lead[l].at
              /\ Status(sync, l) \in MemberStatuses
          <6>1. sync.member[l] \in Members /\ member[l] \in Members
            BY <1>2 DEF TypeOK
          <6>2. QED
            BY <1>2, <6>1, LeadFields DEF RowsOK, Members, Status
        <5>3. CASE Status(sync, l) = "completed"
          <6>1. Len(steps) <= lead[l].at
            BY <1>1, <3>1, <4>3, <5>3 DEF LeadClean
          <6>2. QED
            BY <1>2, <1>3, <5>2, <6>1
        <5>4. CASE Status(sync, l) # "completed"
          <6>1. Status(sync, l) \in Running
            BY <5>1, <5>2, <5>4 DEF MemberStatuses
          <6>2. ~(sync.member[l].step < k)
            BY <4>3, <5>1, <6>1 DEF T, InFlight
          <6>3. QED
            BY <1>3, <5>2, <6>2
        <5>5. QED
          BY <5>3, <5>4
      <4>4. ASSUME Open(l), l \notin T PROVE Owns(l, k)
        <5>1. lead[l].at \in Nat /\ k <= lead[l].at
          BY <1>2, <4>3, <4>4, LeadFields
        <5>2. QED
          BY <1>2, <1>3, <5>1 DEF Owns
      <4>5. QED
        BY <4>1, <4>2, <4>4
    <3>5. Open(l)' => Owns(l, IF l \in Exempt(w) THEN w.placed - 1 ELSE w.placed)'
      BY <1>6, <1>7, <2>5, <3>2, <3>4 DEF Owns, Open
    <3>6. LeadClean(w, l)'
      BY <1>1, <1>6, <1>7, <2>5, <3>1, <3>3, <3>5 DEF LeadClean, Open
    <3>7. w \in Syncs /\ Follows(w, v) /\ DOMAIN steps' \subseteq Nat
      BY <1>2, <1>6, <1>7, <2>4, <2>5
    <3>8. l \in Exempt(w) => l \in Exempt(v)
      BY <2>4, <2>5
    <3>9. QED
      BY <3>6, <3>7, <3>8, MovesClean
  <2>7. ASSUME Clean'
        PROVE  /\ campaign' # "ACTIVE" => runs' = "no"
               /\ ShellsClean(v.placed)'
               /\ v.pc \in Placing => runs' = "no"
    <3>1. Clean
      BY <1>7, <2>1, <2>7 DEF Clean
    <3>2. /\ campaign # "ACTIVE" => runs = "no"
          /\ ShellsClean(sync.placed) /\ runs = "no"
      BY <1>1, <1>2, <3>1 DEF CleanInv
    <3>3. PICK m, n : m = sync.placed /\ n = k
      OBVIOUS
    <3>4. /\ m \in Nat /\ n \in Nat /\ m <= n /\ ShellsClean(m)
          /\ remote' = ShellsUpTo(n)
      BY <1>2, <1>3, <2>2, <3>2, <3>3
    <3>5. ShellsClean(n)'
      BY <1>2, <3>4, ShellsNoFurther
    <3>6. v.placed = n
      BY <1>6, <2>4, <3>3 DEF Follows
    <3>7. QED
      BY <1>7, <3>2, <3>5, <3>6
  <2>8. v \in Syncs
    BY <2>4 DEF Follows
  <2>9. QED
    BY <2>4, <2>6, <2>7, <2>8, SessionClean
<1>10. QED
  BY <1>8, <1>9

LEMMA CleanIdle ==
  ASSUME sync' = NoSync,
         Clean' => /\ campaign' # "ACTIVE" => runs' = "no"
                   /\ ShellsClean(placed)'
                   /\ \A l \in Leads : RowClean(l)'
  PROVE  CleanInv'
  BY DEF CleanInv

LEMMA CleanCrash ==
  ASSUME IInv, CleanInv, Crash PROVE CleanInv'
<1>1. sync' = NoSync /\ Call("failed")
  BY DEF Crash
<1>2. ~Clean'
  BY <1>1, Answered DEF Clean, IInv
<1>3. QED
  BY <1>1, <1>2, CleanIdle

\* The commit: the rows are those of the session.
LEMMA CleanFinish ==
  ASSUME IInv, IInv', SafeInv, CleanInv, Finish PROVE CleanInv'
<1>1. sync.pc = "finish" /\ sync.pc \in Phases
  <2>1. sync.pc = "finish"
    BY Zenon DEF Finish
  <2>2. QED
    BY <2>1 DEF Phases
<1>2. /\ TypeOK /\ sync \in Syncs /\ sync # NoSync
      /\ sync.member \in [Leads -> Members]
      /\ Clean => \A l \in Leads : LeadClean(sync, l)
  BY <1>1, CleanInSession
<1> DEFINE row(l) ==
      [sync.member[l] EXCEPT !.status = Status(sync, l),
         !.step = Larger(@, member[l].step), !.heard = Larger(@, member[l].heard)]
<1>3. /\ member' = [l \in Leads |-> row(l)]
      /\ placed' = sync.placed /\ sync' = NoSync
      /\ UNCHANGED <<campaign, steps, remote, lead, own, unseen>>
  BY Zenon DEF Finish
<1>4. ASSUME NEW l \in Leads
      PROVE  row(l).status = Status(sync, l) /\ row(l).known = sync.member[l].known
  <2>1. sync.member[l] \in Members
    BY <1>2
  <2>2. QED
    BY <2>1 DEF Members
<1> HIDE DEF row
<1>5. ASSUME NEW l \in Leads
      PROVE  /\ member'[l].status = Status(sync, l)
             /\ member'[l].known = sync.member[l].known
  BY <1>3, <1>4
<1>6. \/ \E answer \in Answers :
           /\ Call(answer)
           /\ campaign = "ACTIVE"
      \/ UNCHANGED <<runs, faults>>
  BY Zenon DEF Finish
<1>7. ASSUME Clean' PROVE Clean /\ (campaign = "ACTIVE" \/ runs' = runs)
  BY <1>2, <1>3, <1>6, <1>7, Answered DEF Clean
<1>8. ASSUME Clean', NEW l \in Leads PROVE RowClean(l)'
  <2>1. LeadClean(sync, l)
    BY <1>2, <1>7, <1>8
  <2>2. Open(l)' => Owns(l, placed)'
    BY <1>1, <1>3, <2>1 DEF LeadClean, Exempt, Owns, Open
  <2>3. QED
    BY <1>3, <1>5, <2>1, <2>2 DEF LeadClean, RowClean, Open
<1>9. ASSUME Clean'
      PROVE  (campaign' # "ACTIVE" => runs' = "no") /\ ShellsClean(placed)'
  <2>1. (campaign # "ACTIVE" => runs = "no") /\ ShellsClean(sync.placed)
    BY <1>2, <1>7, <1>9 DEF CleanInv
  <2>2. QED
    BY <1>3, <1>7, <1>9, <2>1 DEF ShellsClean
<1>10. QED
  BY <1>3, <1>8, <1>9, CleanIdle

LEMMA CleanPushFails ==
  ASSUME IInv, CleanInv, NEW launching \in BOOLEAN, PushFails(launching)
  PROVE  CleanInv'
<1>1. TypeOK /\ sync = NoSync /\ sync' = sync
  BY Idle DEF IInv, PushFails
<1>2. PICK answer \in {"failed", "lost"} : Call(answer)
  BY DEF PushFails
<1>3. ~Clean'
  BY <1>1, <1>2, Answered DEF Clean
<1>4. QED
  BY <1>1, <1>3, CleanIdle

\* Before the campaign holds a lead, Lemlist has none.
LEMMA NobodyAdded ==
  ASSUME CleanInv, Clean, sync = NoSync, ~InUse, NEW l \in Leads
  PROVE  lead[l].stage = "none"
  BY DEF CleanInv, RowClean, InUse

LEMMA CleanBeginSync ==
  ASSUME IInv, IInv', SafeInv, CleanInv, NEW launching \in BOOLEAN, BeginSync(launching)
  PROVE  CleanInv'
<1> DEFINE n == IF InUse THEN placed ELSE Len(steps)
           inUse == InUse
           Dirty(h) == {l \in Leads : h[l] # member[l]}
           Start(h) == [pc |-> "append", inUse |-> inUse, launching |-> launching,
                        unsafe |-> FALSE, placed |-> n, member |-> h,
                        render |-> render, todo |-> {}, dirty |-> Dirty(h)]
           pulls == [l \in Leads |-> Ingested(member[l], lead[l].at)]
<1>1. /\ TypeOK /\ member \in [Leads -> Members] /\ render \in [Leads -> Renders]
      /\ placed \in Nat /\ placed <= Len(steps) /\ Len(steps) \in 0 .. MaxSteps
      /\ RowsOK(member) /\ sync = NoSync
      /\ DOMAIN steps \subseteq Nat /\ remote \in Seq({"live", "parked"})
  BY StepPositions, LeadFields, Idle DEF IInv, SafeInv, TypeOK, BeginSync
<1>2. PICK h \in {pulls, member}, pulled \in {"ok", "failed"} :
        /\ Call(pulled)
        /\ remote' = ShellsUpTo(n)
        /\ runs' = IF ~InUse /\ campaign = "ACTIVE" THEN "sync" ELSE runs
        /\ sync' = Appending(Start(h))
  BY DEF BeginSync
<1>3. /\ UNCHANGED <<campaign, steps, placed, member, lead, own>>
      /\ ~unseen' => ~unseen /\ \A q \in Requests : ~Resuming(q)
  BY DEF BeginSync, Race
<1>4. /\ h \in [Leads -> Members]
      /\ \A l \in Leads :
           /\ h[l].known = member[l].known
           /\ member[l].status # "ready" => h[l].status # "ready"
           /\ member[l].status \notin Paused => h[l].status \notin Paused
  <2>1. ASSUME NEW l \in Leads
        PROVE  LET m == Ingested(member[l], lead[l].at)
               IN /\ m \in Members /\ m.known = member[l].known
                  /\ member[l].status # "ready" => m.status # "ready"
                  /\ member[l].status \notin Paused => m.status \notin Paused
    <3>1. /\ member[l] \in Members /\ lead[l].at \in 0 .. MaxSteps
          /\ member[l].step <= lead[l].at
      BY Now, LeadFields
    <3>2. QED
      BY <3>1, IngestedRow, IngestedFields
  <2>2. CASE h = member
    BY <1>1, <2>2
  <2>3. CASE h = pulls
    <3> HIDE DEF Members
    <3>1. \A l \in Leads : h[l] = Ingested(member[l], lead[l].at)
      BY <2>3
    <3>2. h \in [Leads -> Members]
      BY <2>1, <2>3
    <3> HIDE DEF pulls
    <3>3. QED
      BY <2>1, <3>1, <3>2
  <2> HIDE DEF pulls
  <2>4. QED
    BY <1>2, <2>2, <2>3
<1>5. /\ n \in 0 .. MaxSteps /\ n \in Nat /\ placed <= n /\ inUse \in BOOLEAN
      /\ InUse => n = placed
  BY <1>1, BoundAssumption DEF InUse
<1>6. inUse = InUse
  OBVIOUS
<1> HIDE DEF n, inUse, pulls
<1> DEFINE s == Start(h)
<1>7. /\ s \in Syncs /\ s.placed = n /\ s.member = h /\ s.pc = "append" /\ s.todo = {}
      /\ s.dirty = Dirty(h)
  <2>1. Dirty(h) \in SUBSET Leads
    OBVIOUS
  <2> HIDE DEF Members, Renders, Dirty
  <2>2. QED
    BY <1>1, <1>4, <1>5, <2>1 DEF Syncs
<1>8. sync' = Appending(s)
  BY <1>2
<1>9. \A l \in Leads : l \notin s.dirty => h[l] = member[l]
  BY <1>7
<1> HIDE DEF s
<1>10. PICK u, t : /\ u \in Syncs /\ Follows(u, t) /\ sync' = t
                   /\ u.placed = n /\ u.pc = "append" /\ t.pc \in Phases \ Placing
                   /\ u.dirty = s.dirty
                   /\ \A l \in Leads : u.member[l] = h[l]
  <2>1. CASE s.inUse /\ s.placed < Len(steps)
    <3>1. Appending(s) = [s EXCEPT !.pc = "append"]
      BY <2>1 DEF Appending
    <3>2. [s EXCEPT !.pc = "append"] = s
      <4> HIDE DEF Members, Renders
      <4>1. QED
        BY <1>7 DEF Syncs
    <3>3. Follows(s, s) /\ s.pc \in Phases \ Placing
      BY <1>7 DEF Follows, Phases, Placing
    <3>4. QED
      BY <1>7, <1>8, <3>1, <3>2, <3>3
  <2>2. CASE ~(s.inUse /\ s.placed < Len(steps))
    <3>1. Appending(s) = Refreshing(Load(s))
      BY <2>2 DEF Appending
    <3>2. /\ Load(s) \in Syncs /\ Load(s).pc = "append" /\ Load(s).placed = n
          /\ Load(s).dirty = s.dirty
          /\ \A l \in Leads : Load(s).member[l] = IF l \in s.dirty THEN s.member[l] ELSE member[l]
      BY <1>1, <1>7, LoadFields
    <3>3. /\ Follows(Load(s), Refreshing(Load(s)))
          /\ Refreshing(Load(s)).pc \in Phases \ Placing
      BY <3>2, RefreshingFollows, RefreshingPhase DEF Phases, Placing
    <3>4. \A l \in Leads : Load(s).member[l] = h[l]
      BY <1>7, <1>9, <3>2
    <3>5. QED
      BY <1>8, <3>1, <3>2, <3>3, <3>4
  <2>3. QED
    BY <2>1, <2>2
<1>11. /\ t \in Syncs /\ t.member = u.member /\ t.placed = n /\ t # NoSync
       /\ t.pc \notin Placing
  <2>1. t \in Syncs /\ t.member = u.member /\ t.placed = n /\ t.pc \in Phases \ Placing
    BY <1>10 DEF Follows
  <2>2. QED
    BY <2>1 DEF NoSync, Phases
<1>12. ASSUME Clean', NEW l \in Leads PROVE LeadClean(u, l)'
  <2>1. Clean
    BY <1>1, <1>2, <1>3, <1>12, Answered DEF Clean
  <2>2. CASE InUse
    <3>1. RowClean(l) /\ n = placed
      BY <1>1, <1>5, <2>1, <2>2 DEF CleanInv
    <3>2. Status(u, l)' = h[l].status /\ u.member[l] = h[l]
      BY <1>3, <1>9, <1>10 DEF Status
    <3>3. Exempt(u) = {} /\ u.pc \notin Placing
      BY <1>10 DEF Exempt, Placing
    <3>4. Open(l) => Owns(l, u.placed)'
      BY <1>3, <1>10, <3>1 DEF RowClean, Owns
    <3>5. ~Awaited(l)
      BY <1>3, <1>12 DEF Awaited, Resuming, Clean
    <3>6. QED
      BY <1>3, <1>4, <3>1, <3>2, <3>3, <3>4, <3>5 DEF LeadClean, RowClean, Open
  <2>3. CASE ~InUse
    <3>1. lead'[l].stage = "none"
      BY <1>1, <1>3, <2>1, <2>3, NobodyAdded
    <3>2. QED
      BY <3>1 DEF LeadClean, Open
  <2>4. QED
    BY <2>2, <2>3
<1>13. ASSUME Clean', NEW l \in Leads PROVE LeadClean(sync, l)'
  <2>1. LeadClean(t, l)'
    <3>1. Exempt(u) = {} /\ DOMAIN steps' \subseteq Nat
      BY <1>1, <1>3, <1>10 DEF Exempt
    <3>2. QED
      BY <1>10, <1>12, <1>13, <3>1, MovesClean
  <2>2. QED
    BY <1>10, <2>1 DEF LeadClean, Status, Exempt
<1>14. ASSUME Clean'
       PROVE  (campaign' # "ACTIVE" => runs' = "no") /\ ShellsClean(sync.placed)'
  <2>1. Clean
    BY <1>1, <1>2, <1>3, <1>14, Answered DEF Clean
  <2>2. (campaign # "ACTIVE" => runs = "no") /\ ShellsClean(placed)
    BY <1>1, <2>1 DEF CleanInv
  <2>3. PICK m, c : m = placed /\ c = n
    OBVIOUS
  <2>4. m \in Nat /\ c \in Nat /\ m <= c /\ ShellsClean(m) /\ remote' = ShellsUpTo(c)
    BY <1>1, <1>2, <1>5, <2>2, <2>3
  <2>5. ShellsClean(c)'
    BY <1>1, <2>4, ShellsNoFurther
  <2>6. sync'.placed = c
    BY <1>10, <1>11, <2>3
  <2>7. QED
    BY <1>2, <1>3, <2>2, <2>5, <2>6 DEF ShellsClean
<1>15. (sync.pc = "append" => \A l \in Leads : sync.member[l].known => member[l].known)'
  BY <1>3, <1>4, <1>10, <1>11
<1>16. sync' # NoSync /\ sync'.pc \notin Placing
  BY <1>10, <1>11
<1>17. QED
  BY <1>13, <1>14, <1>15, <1>16 DEF CleanInv

\* A change of the sequence moves no step a lead may still get.
LEMMA CleanSequence ==
  ASSUME IInv, CleanInv, sync = NoSync,
         UNCHANGED <<campaign, sync, runs, lead, own, faults, unseen, request>>,
         \A l \in Leads :
           /\ member'[l].known = member[l].known
           /\ member'[l].status = member[l].status \/ member'[l].status = "completed",
         InUse => /\ placed' \in Nat /\ placed' <= placed
                  /\ \A k \in DOMAIN steps' : k <= placed'
                       => k \in DOMAIN steps /\ steps'[k] = steps[k],
         ShellsClean(placed) => ShellsClean(placed)'
  PROVE  CleanInv'
<1>1. TypeOK /\ placed \in Nat
  BY DEF IInv, TypeOK
<1>2. Clean' => Clean
  BY DEF Clean
<1>3. ASSUME Clean', NEW l \in Leads PROVE RowClean(l)'
  <2>1. RowClean(l) /\ "completed" \notin Paused
    BY <1>2, <1>3 DEF CleanInv, Paused
  <2>2. ASSUME Open(l)' PROVE Owns(l, placed)'
    <3>1. InUse
      BY <1>2, <1>3, <2>2, NobodyAdded DEF Open
    <3>2. Owns(l, placed)
      BY <2>1, <2>2 DEF RowClean, Open
    <3>3. ASSUME NEW k \in DOMAIN steps', lead'[l].at < k, k <= placed'
          PROVE  own'[l][k] = steps'[k]
      <4>1. k \in DOMAIN steps /\ steps'[k] = steps[k]
        BY <3>1, <3>3
      <4>2. k \in Nat
        BY <1>1, <4>1, StepPositions DEF Positions
      <4>3. k <= placed
        BY <1>1, <3>1, <3>3, <4>2
      <4>4. lead[l].at < k
        BY <3>3
      <4>5. QED
        BY <3>2, <4>1, <4>3, <4>4 DEF Owns
    <3>4. QED
      BY <3>3 DEF Owns
  <2>3. Awaited(l) => Awaited(l)'
    BY AwaitedStays
  <2>4. QED
    BY <2>1, <2>2, <2>3 DEF RowClean, Open
<1>4. Clean' => (campaign' # "ACTIVE" => runs' = "no") /\ ShellsClean(placed)'
  BY <1>2 DEF CleanInv
<1>5. sync' = NoSync
  OBVIOUS
<1>6. QED
  BY <1>3, <1>4, <1>5, CleanIdle

LEMMA CleanCreateStep ==
  ASSUME IInv, CleanInv, NEW k \in Positions, CreateStep(k) PROVE CleanInv'
<1>1. /\ TypeOK /\ sync = NoSync /\ steps \in Seq(Ids) /\ Len(steps) \in Nat
      /\ DOMAIN steps = 1 .. Len(steps) /\ placed \in 0 .. Len(steps)
      /\ created \in 0 .. MaxIds
  BY StepPositions, Idle DEF IInv, TypeOK, CreateStep
<1>2. /\ UNCHANGED <<campaign, placed, member, sync, runs, remote, lead, own, faults,
                     unseen, request>>
      /\ steps' = InsertAt(steps, k, created + 1) /\ k \in 1 .. Len(steps) + 1
      /\ InUse => k = Len(steps) + 1
      /\ created < MaxIds
  BY DEF CreateStep, lemlist
<1>3. created + 1 \in Ids
  BY <1>1, <1>2, BoundAssumption DEF Ids
<1>4. /\ InsertAt(steps, k, created + 1) \in Seq(Ids)
      /\ Len(InsertAt(steps, k, created + 1)) = Len(steps) + 1
      /\ \A j \in 1 .. Len(steps) + 1 :
           j < k => InsertAt(steps, k, created + 1)[j] = steps[j]
  <2> DEFINE x == created + 1
  <2>1. x \in Ids
    BY <1>3
  <2> HIDE DEF x
  <2>2. /\ InsertAt(steps, k, x) \in Seq(Ids)
        /\ Len(InsertAt(steps, k, x)) = Len(steps) + 1
        /\ \A j \in 1 .. Len(steps) + 1 : j < k => InsertAt(steps, k, x)[j] = steps[j]
    BY <1>1, <1>2, <2>1, Inserted
  <2>3. QED
    BY <2>2 DEF x
<1>5. DOMAIN steps' = 1 .. Len(steps) + 1
  BY <1>2, <1>4
<1>6. InUse => /\ placed' \in Nat /\ placed' <= placed
               /\ \A j \in DOMAIN steps' : j <= placed'
                    => j \in DOMAIN steps /\ steps'[j] = steps[j]
  <2>1. ASSUME InUse, NEW j \in 1 .. Len(steps) + 1, j <= placed
        PROVE  j \in DOMAIN steps /\ steps'[j] = steps[j]
    <3>1. k = Len(steps) + 1
      BY <1>2, <2>1
    <3>2. j < k /\ j \in DOMAIN steps
      BY <1>1, <2>1, <3>1
    <3>3. InsertAt(steps, k, created + 1)[j] = steps[j]
      BY <1>4, <2>1, <3>2
    <3>4. QED
      BY <1>2, <3>2, <3>3
  <2>2. QED
    BY <1>1, <1>2, <1>5, <2>1
<1>7. ShellsClean(placed) => ShellsClean(placed)'
  BY <1>2 DEF ShellsClean
<1>8. QED
  BY <1>1, <1>2, <1>6, <1>7, CleanSequence

\* The shell of the step deleted is gone, or sends no more.
LEMMA CleanShells ==
  ASSUME IInv, NEW k \in 1 .. Len(steps), DropFree(k) \/ DropInUse(k),
         ShellsClean(placed)
  PROVE  ShellsClean(placed)'
<1>1. /\ remote \in Seq({"live", "parked"}) /\ placed \in Nat /\ placed <= Len(remote)
      /\ Len(remote) \in Nat /\ DOMAIN remote = 1 .. Len(remote) /\ Len(steps) \in Nat
  BY DEF IInv, TypeOK
<1>2. CASE remote' = remote /\ placed' = placed
  BY <1>2 DEF ShellsClean
<1>3. CASE /\ placed = Len(steps) /\ remote' = RemoveAt(remote, placed)
           /\ placed' = placed - 1
  <2>1. placed \in 1 .. Len(remote)
    BY <1>1, <1>3
  <2>2. /\ remote' \in Seq({"live", "parked"}) /\ Len(remote') = Len(remote) - 1
        /\ \A j \in 1 .. Len(remote) - 1 :
             remote'[j] = IF j < placed THEN remote[j] ELSE remote[j + 1]
    <3>1. /\ RemoveAt(remote, placed) \in Seq({"live", "parked"})
          /\ Len(RemoveAt(remote, placed)) = Len(remote) - 1
          /\ \A j \in 1 .. Len(remote) - 1 :
               RemoveAt(remote, placed)[j] = IF j < placed THEN remote[j] ELSE remote[j + 1]
      <4>1. remote \in Seq({"live", "parked"})
        BY <1>1
      <4>2. QED
        BY <2>1, <4>1, Removed
    <3>2. QED
      BY <1>3, <3>1
  <2>3. ASSUME NEW j \in DOMAIN remote', remote'[j] = "live" PROVE j <= placed'
    <3>1. j \in 1 .. Len(remote) - 1
      BY <1>1, <2>2
    <3>2. CASE j < placed
      BY <1>1, <1>3, <3>1, <3>2
    <3>3. CASE ~(j < placed)
      <4>1. remote[j + 1] = "live" /\ j + 1 \in DOMAIN remote
        BY <1>1, <2>2, <2>3, <3>1, <3>3
      <4>2. j + 1 <= placed
        BY <4>1 DEF ShellsClean
      <4>3. QED
        BY <1>1, <3>1, <3>3, <4>2
    <3>4. QED
      BY <3>2, <3>3
  <2>4. QED
    BY <2>3 DEF ShellsClean
<1>4. CASE /\ k = placed /\ remote' = [remote EXCEPT ![k] = "parked"]
           /\ placed' = placed - 1
  <2>1. ASSUME NEW j \in DOMAIN remote', remote'[j] = "live" PROVE j <= placed'
    <3>1. j \in DOMAIN remote /\ j # k /\ remote[j] = "live"
      BY <1>1, <1>4, <2>1
    <3>2. j <= placed
      BY <3>1 DEF ShellsClean
    <3>3. QED
      BY <1>1, <1>4, <3>1, <3>2
  <2>2. QED
    BY <2>1 DEF ShellsClean
<1>5. QED
  BY <1>2, <1>3, <1>4 DEF DropFree, DropInUse

LEMMA CleanDeleteStep ==
  ASSUME IInv, CleanInv, NEW k \in Positions, DeleteStep(k) PROVE CleanInv'
<1>1. /\ TypeOK /\ sync = NoSync /\ steps \in Seq(Ids) /\ Len(steps) \in Nat
      /\ DOMAIN steps = 1 .. Len(steps) /\ placed \in 0 .. Len(steps)
      /\ member \in [Leads -> Members]
  BY StepPositions, Idle DEF IInv, TypeOK, DeleteStep
<1>2. /\ UNCHANGED <<campaign, sync, runs, lead, own, faults, unseen, request>>
      /\ steps' = RemoveAt(steps, k) /\ k \in 1 .. Len(steps)
      /\ DropFree(k) \/ DropInUse(k)
  BY <1>1 DEF DeleteStep
<1>3. /\ RemoveAt(steps, k) \in Seq(Ids) /\ Len(RemoveAt(steps, k)) = Len(steps) - 1
      /\ \A j \in 1 .. Len(steps) - 1 :
           RemoveAt(steps, k)[j] = IF j < k THEN steps[j] ELSE steps[j + 1]
  <2>1. steps \in Seq(Ids) /\ k \in 1 .. Len(steps)
    BY <1>1, <1>2
  <2>2. QED
    BY <2>1, Removed
<1>4. DOMAIN steps' = 1 .. Len(steps) - 1
  BY <1>2, <1>3
<1>5. ASSUME NEW l \in Leads
      PROVE  /\ member'[l].known = member[l].known
             /\ member'[l].status = member[l].status \/ member'[l].status = "completed"
  <2>1. member' = member \/ member' = CompleteWaiting(k - 1)
    BY <1>2 DEF DropFree, DropInUse
  <2>2. \/ CompleteWaiting(k - 1)[l] = member[l]
        \/ CompleteWaiting(k - 1)[l] = [member[l] EXCEPT !.status = "completed"]
    BY DEF CompleteWaiting
  <2>3. member[l] \in Members
    BY <1>1
  <2>4. member'[l] = member[l] \/ member'[l] = [member[l] EXCEPT !.status = "completed"]
    BY <2>1, <2>2
  <2>5. QED
    BY <2>3, <2>4 DEF Members
<1>6. ASSUME InUse
      PROVE  /\ placed' \in Nat /\ placed' <= placed
             /\ \A j \in DOMAIN steps' : j <= placed'
                  => j \in DOMAIN steps /\ steps'[j] = steps[j]
  <2>1. \/ placed' = placed /\ placed < k
        \/ placed' = placed - 1 /\ k = placed /\ k > 1
    BY <1>1, <1>2, <1>6 DEF DropFree, DropInUse
  <2>2. placed' \in Nat /\ placed' <= placed /\ placed' < k
    BY <1>1, <2>1
  <2>3. ASSUME NEW j \in 1 .. Len(steps) - 1, j <= placed'
        PROVE  j \in DOMAIN steps /\ RemoveAt(steps, k)[j] = steps[j]
    BY <1>1, <1>2, <1>3, <2>2, <2>3
  <2>4. QED
    BY <1>2, <1>4, <2>2, <2>3
<1>7. ShellsClean(placed) => ShellsClean(placed)'
  BY <1>2, CleanShells
<1>8. QED
  BY <1>1, <1>2, <1>5, <1>6, <1>7, CleanSequence

LEMMA InitClean == Init => CleanInv
<1> SUFFICES ASSUME Init PROVE CleanInv
  OBVIOUS
<1>1. /\ runs = "no" /\ sync = NoSync /\ placed = 1 /\ remote = <<"live">>
      /\ lead = [l \in Leads |-> [stage |-> "none", paused |-> FALSE, at |-> 0]]
  BY DEF Init
<1>2. \A l \in Leads : lead[l].stage = "none"
  BY <1>1
<1>3. \A l \in Leads : RowClean(l)
  BY <1>2 DEF RowClean, Open
<1>4. ShellsClean(placed)
  BY <1>1 DEF ShellsClean
<1>5. QED
  BY <1>1, <1>3, <1>4 DEF CleanInv

LEMMA NextClean ==
  ASSUME IInv, SafeInv, PendingInv, CleanInv, [Next]_vars PROVE CleanInv'
<1>0. IInv'
  BY NextIInv
<1>1. ASSUME NEW l \in Leads,
             \/ Send(l) \/ EndLead(l) \/ Webhook(l)
             \/ \E paused \in BOOLEAN : MirrorPause(l, paused)
             \/ RenderNewStep(l) \/ RefreshLead(l) \/ PushMember(l)
      PROVE  CleanInv'
  BY <1>0, <1>1, CleanSend, CleanEndLead, CleanWebhook, CleanMirrorPause,
     CleanRenderNewStep, CleanRefreshLead, CleanPushMember
<1>2. ASSUME NEW q \in Requests,
             \/ \E l \in Leads : BeginPause(q, l) \/ BeginResume(q, l)
             \/ CallLemlist(q) \/ WriteStatus(q)
      PROVE  CleanInv'
  BY <1>0, <1>2, CleanBeginPause, CleanBeginResume, CleanCallLemlist, CleanWriteStatus
<1>3. ASSUME NEW launching \in BOOLEAN, BeginSync(launching) \/ PushFails(launching)
      PROVE  CleanInv'
  BY <1>0, <1>3, CleanBeginSync, CleanPushFails
<1>4. ASSUME HoldCompleted \/ AppendNothing \/ PlaceStep \/ Finish \/ Crash
      PROVE  CleanInv'
  BY <1>0, <1>4, CleanHoldCompleted, CleanAppendNothing, CleanPlaceStep, CleanFinish,
     CleanCrash
<1>5. ASSUME NEW target \in {"ACTIVE", "PAUSED"}, SetStatus(target) PROVE CleanInv'
  BY <1>0, <1>5, CleanSetStatus
<1>6. ASSUME NEW k \in Positions, CreateStep(k) \/ DeleteStep(k) PROVE CleanInv'
  BY <1>6, CleanCreateStep, CleanDeleteStep
<1>7. CASE UNCHANGED vars
  <2>1. UNCHANGED <<campaign, steps, placed, member, sync, runs, remote, lead, own,
                    faults, unseen, request>>
    BY <1>7 DEF vars, lemlist
  <2>2. \A l \in Leads : Awaited(l) => Awaited(l)'
    BY <2>1, AwaitedStays
  <2>3. Clean' => Clean
    BY <2>1 DEF Clean
  <2>4. QED
    BY <1>0, <2>1, <2>2, <2>3, CleanAround
<1>8. QED
  BY <1>1, <1>2, <1>3, <1>4, <1>5, <1>6, <1>7 DEF Next

CleanUntilRace == ~unseen => SafeInv /\ PendingInv /\ CleanInv

LEMMA CleannessHolds == Spec => []CleanUntilRace
<1>1. Init => CleanUntilRace
  BY InitSafe, InitClean DEF CleanUntilRace
<1>2. IInv /\ CleanUntilRace /\ [Next]_vars => CleanUntilRace'
  BY UnseenGrows, NextSafe, NextPending, NextClean DEF CleanUntilRace
<1>3. QED
  BY <1>1, <1>2, Invariance, PTL DEF Spec

\* While every call is answered, and until one of the races `unseen` names, the
\* sync of email_sync.py puts a lead's own email in place before Lemlist can
\* send it the step, whatever agents edit and Lemlist sends meanwhile:
\* _append_steps pauses the campaign and the completed leads, _render_new_step
\* and _refresh_in_flight hold who has no email yet, and a resumption that no
\* sync overlaps (email_manager.py) asks Lemlist for leads that have theirs.
THEOREM CleanSending == Spec => OwnEmailsOnly
<1>1. ASSUME IInv, SafeInv, CleanInv, [Next]_vars, NEW l \in Leads, NEW k \in Positions,
             Sent(l, k), faults = 0, ~unseen
      PROVE  OwnEmail(l, k)
  <2>1. lead'[l].at = k /\ lead[l].at # k
    BY <1>1 DEF Sent
  <2>2. Send(l)
    <3>1. ~UNCHANGED vars
      BY <2>1 DEF vars, lemlist
    <3>2. QED
      BY <1>1, <2>1, <3>1, OnlySendMoves
  <2>3. /\ TypeOK /\ lead \in [Leads -> LemlistLeads] /\ placed \in 0 .. Len(steps)
        /\ DOMAIN steps = 1 .. Len(steps) /\ Len(steps) \in Nat
        /\ remote \in Seq({"live", "parked"}) /\ DOMAIN remote = 1 .. Len(remote)
        /\ Len(remote) \in Nat
    BY <1>1, StepPositions DEF IInv, TypeOK
  <2>4. /\ runs # "no" /\ Open(l) /\ k = lead[l].at + 1 /\ lead[l].at \in Nat
        /\ k \in DOMAIN remote /\ remote[k] = "live"
    <3>1. /\ lead' = [lead EXCEPT ![l].at = lead[l].at + 1] /\ runs # "no" /\ Open(l)
          /\ lead[l].at + 1 <= Len(remote) /\ remote[lead[l].at + 1] = "live"
      BY <2>2 DEF Send, Open
    <3>2. lead'[l].at = lead[l].at + 1 /\ lead[l].at \in Nat
      BY <2>3, <3>1 DEF LemlistLeads
    <3>3. QED
      BY <2>1, <2>3, <3>1, <3>2
  <2>5. Clean
    BY <1>1 DEF Clean
  <2>6. PICK n \in 0 .. Len(steps) : k <= n /\ Owns(l, n)
    <3>1. CASE sync = NoSync
      <4>1. k <= placed /\ Owns(l, placed)
        BY <1>1, <2>4, <2>5, <3>1 DEF CleanInv, ShellsClean, RowClean
      <4>2. QED
        BY <2>3, <4>1
    <3>2. CASE sync # NoSync
      <4>1. /\ k <= sync.placed /\ sync.pc \notin Placing /\ LeadClean(sync, l)
        BY <1>1, <2>4, <2>5, <3>2 DEF CleanInv, ShellsClean
      <4>2. Exempt(sync) = {}
        BY <4>1 DEF Exempt, Placing
      <4>3. Owns(l, sync.placed)
        BY <2>4, <4>1, <4>2 DEF LeadClean
      <4>4. sync.placed \in 0 .. Len(steps)
        <5>1. sync.pc \in Phases
          <6>1. sync \in Syncs
            BY <2>3, <3>2 DEF TypeOK
          <6>2. QED
            BY <6>1, SyncFields
        <5>2. sync.placed <= Len(steps) /\ sync.placed \in 0 .. MaxSteps
          BY <1>1, <5>1, InSession
        <5>3. QED
          BY <2>3, <5>2, BoundAssumption
      <4>5. QED
        BY <4>1, <4>3, <4>4
    <3>3. QED
      BY <3>1, <3>2
  <2>7. k \in DOMAIN steps /\ lead[l].at < k
    BY <2>3, <2>4, <2>6
  <2>8. QED
    BY <2>6, <2>7 DEF Owns, OwnEmail
<1>2. IInv /\ CleanUntilRace /\ [Next]_vars =>
        [\A l \in Leads, k \in Positions :
           Sent(l, k) /\ faults = 0 /\ ~unseen => OwnEmail(l, k)]_vars
  BY <1>1 DEF CleanUntilRace
<1>3. QED
  BY <1>2, CleannessHolds, Invariance, PTL DEF Spec, OwnEmailsOnly

=============================================================================
