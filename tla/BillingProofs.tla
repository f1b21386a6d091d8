----------------------------- MODULE BillingProofs -----------------------------
(***************************************************************************)
(* Theorems about Billing, for every number of subscriptions, of webhooks  *)
(* handled at once and of changes of the purchases.                        *)
(***************************************************************************)
EXTENDS Billing, FiniteSetTheorems, TLAPS

-----------------------------------------------------------------------------
(* The inductive invariant.                                                *)

\* The trial.  A page once paid has used the offer, or its checkout is still to
\* be heard of; so the page that is opened when none is about is the first, or
\* it is no trial.
PageSpent ==
  \A s \in Sub : /\ page[s] = "none" => at[s] = "unborn"
                 /\ (page[s] # "none" /\ at[s] # "unborn" /\ <<s, "checkout">> \notin news) => row.intro

OneTrial ==
  "tabs" \notin odd => \A s, t \in Sub : page[s] = "trial" /\ page[t] = "trial" => s = t

\* Of a purchase something is still to be heard, or is being handled.
Told(p) == \E w \in news : w[1] = p
Busy(h) == work[h].pc # "idle"
Handled(p) == \E h \in Handler : Busy(h) /\ work[h].of[1] = p
Asked(h) == work[h].pc \notin {"idle", "ask"}

\* Nothing is heard of a purchase that was not made.
News ==
  /\ \A w \in news : at[w[1]] # "unborn"
  /\ \A h \in Handler : Busy(h) => at[work[h].of[1]] # "unborn"

\* What a handler knows is so, or its purchase is to be heard of again.
KnowsTrue(h) ==
  LET p == work[h].of[1]
  IN /\ Asked(h) => Told(p) \/ ((work[h].open <=> p \in Open) /\ (work[h].leaves <=> p \in leaving))
     /\ work[h].pc \in {"link", "set", "note"} => work[h].open
     /\ work[h].pc = "close" => ~work[h].open
     /\ work[h].pc = "note" /\ row.status = "active" => row.sub = p

RowIsRight == row.sub \in Open /\ (row.ends <=> row.sub \in leaving)

\* Webhooks handled one at a time leave an open account right, or there is
\* something yet to be heard of what it is open on.
OneByOne ==
  "overlap" \notin odd =>
    /\ \A g, h \in Handler : Busy(g) /\ Busy(h) => g = h
    /\ \A h \in Handler : KnowsTrue(h)
    /\ row.status = "active" => Told(row.sub) \/ Handled(row.sub) \/ RowIsRight

\* If nothing odd happened there is one purchase at a time, a handler knows it,
\* and the account is open on it unless it is yet to be heard of.
KnowsPaid(h, p) ==
  /\ Asked(h) => (work[h].open <=> work[h].of[1] = p)
  /\ work[h].pc = "close" => Told(p)
  /\ work[h].pc = "note" \/ (work[h].pc = "link" /\ ~work[h].fresh) =>
       row.status = "active" /\ row.sub = p

Paid(p) ==
  /\ \A q \in Open : q = p
  /\ \A h \in Handler : KnowsPaid(h, p)
  /\ row.status = "active" => row.sub = p
  /\ Told(p) \/ Handled(p) \/ row.status = "active"

NothingOdd ==
  odd = {} => row.status # "comped" /\ \A p \in Open : Paid(p)

BInv == BillingTypeOK /\ PageSpent /\ OneTrial /\ News /\ OneByOne /\ NothingOdd

\* The types in groups.
TillsOK ==
  /\ at \in [Purchase -> {"unborn", "open", "over"}]
  /\ leaving \subseteq {p \in Purchase : at[p] = "open"}
  /\ page \in [Sub -> {"none", "trial", "plain"}]
  /\ changes \in 0 .. MaxChanges
NewsOK == news \subseteq Webhook
RowOK == row \in Row /\ (row.status = "active" => row.sub # None)
WorkOK == work \in [Handler -> Work]
HandOK == hand \in {"nothing", "give", "take", "clear"}
OddOK == odd \subseteq {"overlap", "twice", "late", "hand", "tabs"}

LEMMA BillingTypes == BillingTypeOK <=> TillsOK /\ NewsOK /\ RowOK /\ WorkOK /\ HandOK /\ OddOK
  BY Zenon DEF BillingTypeOK, TillsOK, NewsOK, RowOK, WorkOK, HandOK, OddOK

LEMMA BillingTypesNext ==
  ASSUME TillsOK', NewsOK', RowOK', WorkOK', HandOK', OddOK' PROVE BillingTypeOK'
  BY Zenon DEF BillingTypeOK, TillsOK, NewsOK, RowOK, WorkOK, HandOK, OddOK

LEMMA BillingFrames ==
  ASSUME BillingTypeOK
  PROVE  /\ UNCHANGED tills => TillsOK'
         /\ UNCHANGED news => NewsOK'
         /\ UNCHANGED row => RowOK'
         /\ UNCHANGED work => WorkOK'
         /\ UNCHANGED hand => HandOK'
         /\ UNCHANGED odd => OddOK'
  BY BillingTypes DEF TillsOK, NewsOK, RowOK, WorkOK, HandOK, OddOK, tills

LEMMA WebhookIs ==
  ASSUME NEW w \in Webhook
  PROVE  /\ w[1] \in Purchase /\ w[2] \in {"change", "checkout"}
         /\ w = <<w[1], w[2]>> /\ (w[2] = "checkout" => w[1] \in Sub)
  BY DEF Webhook, Purchase

LEMMA WorkIs ==
  ASSUME WorkOK, NEW h \in Handler, NEW k \in Work, work' = [work EXCEPT ![h] = k]
  PROVE  /\ WorkOK' /\ work'[h] = k
         /\ \A g \in Handler : g # h => work'[g] = work[g]
  BY DEF WorkOK

LEMMA Rested ==
  ASSUME WorkOK, NEW h \in Handler, Rests(h)
  PROVE  /\ WorkOK' /\ work'[h].pc = "idle"
         /\ \A g \in Handler : g # h => work'[g] = work[g]
<1>1. <<InApp, "change">> \in Webhook
  BY DEF Webhook, Purchase
<1>2. Resting \in Work /\ Resting.pc = "idle"
  BY <1>1 DEF Resting, Work
<1>3. work' = [work EXCEPT ![h] = Resting]
  BY DEF Rests
<1> QED BY <1>2, <1>3, WorkIs

LEMMA Went ==
  ASSUME WorkOK, NEW h \in Handler,
         NEW pc \in {"idle", "ask", "read", "link", "set", "note", "close"}, Goes(h, pc)
  PROVE  /\ WorkOK' /\ work'[h].pc = pc /\ work'[h].of = work[h].of
         /\ work'[h].open = work[h].open /\ work'[h].leaves = work[h].leaves
         /\ work'[h].fresh = work[h].fresh
         /\ \A g \in Handler : g # h => work'[g] = work[g]
<1> DEFINE k == [work[h] EXCEPT !.pc = pc]
<1>1. work[h] \in Work
  BY DEF WorkOK
<1>2. /\ k \in Work /\ k.pc = pc /\ k.of = work[h].of /\ k.open = work[h].open
      /\ k.leaves = work[h].leaves /\ k.fresh = work[h].fresh
  BY <1>1 DEF Work
<1>3. work' = [work EXCEPT ![h] = k]
  BY DEF Goes
<1> HIDE DEF k
<1> QED BY <1>2, <1>3, WorkIs

\* The writes to the account's columns.
LEMMA LinkStripeIs ==
  ASSUME RowOK, NEW p \in Purchase, LinkStripe(p)
  PROVE  /\ RowOK' /\ row'.sub = p /\ row'.intro = TRUE
         /\ row'.status = row.status /\ row'.ends = row.ends
<1> DEFINE r == [[row EXCEPT !.sub = p] EXCEPT !.intro = TRUE]
<1>1. /\ r \in Row /\ r.sub = p /\ r.intro = TRUE /\ r.status = row.status /\ r.ends = row.ends
  BY DEF RowOK, Row
<1>2. row' = r
  BY DEF LinkStripe, RowOK, Row
<1>3. p # None
  BY BillingAssumption DEF Purchase
<1> HIDE DEF r
<1> QED BY <1>1, <1>2, <1>3 DEF RowOK

LEMMA SetSubscriptionIs ==
  ASSUME RowOK, NEW p \in Purchase \cup {None}, NEW status \in {"none", "active", "comped"},
         SetSubscription(status, p), status = "active" => p # None
  PROVE  /\ RowOK' /\ row'.sub = p /\ row'.status = status /\ row'.ends = FALSE
         /\ row'.intro = row.intro
<1> DEFINE r == [[[row EXCEPT !.status = status] EXCEPT !.sub = p] EXCEPT !.ends = FALSE]
<1>1. /\ r \in Row /\ r.sub = p /\ r.status = status /\ r.ends = FALSE /\ r.intro = row.intro
  BY DEF RowOK, Row
<1>2. row' = r
  BY DEF SetSubscription, RowOK, Row
<1> HIDE DEF r
<1> QED BY <1>1, <1>2 DEF RowOK

-----------------------------------------------------------------------------
(* What a step leaves alone.                                               *)

LEMMA PageSpentFrame ==
  ASSUME PageSpent, UNCHANGED <<page, at>>, news \subseteq news', row.intro => row'.intro
  PROVE  PageSpent'
  BY Zenon DEF PageSpent

LEMMA PageSpentStays ==
  ASSUME PageSpent, UNCHANGED <<page, at, news>>, row.intro => row'.intro
  PROVE  PageSpent'
  BY Zenon DEF PageSpent

LEMMA OneTrialFrame ==
  ASSUME OneTrial, UNCHANGED page, odd \subseteq odd'
  PROVE  OneTrial'
  BY Zenon DEF OneTrial

LEMMA NewsFrame == ASSUME News, UNCHANGED <<at, work>>, news' = news PROVE News'
  BY Zenon DEF News, Busy

LEMMA NewsStep ==
  ASSUME News, UNCHANGED at, news' = news, NEW h \in Handler,
         \A g \in Handler : g # h => work'[g] = work[g],
         \/ work'[h].pc = "idle"
         \/ work[h].pc # "idle" /\ work'[h].of = work[h].of
  PROVE  News'
  BY Zenon DEF News, Busy

LEMMA OneByOneFrame ==
  ASSUME OneByOne, UNCHANGED <<at, leaving, row, work>>, news \subseteq news', odd \subseteq odd'
  PROVE  OneByOne'
<1> SUFFICES ASSUME "overlap" \notin odd'
             PROVE  /\ \A g, h \in Handler : work[g].pc # "idle" /\ work[h].pc # "idle" => g = h
                    /\ \A h \in Handler : KnowsTrue(h)'
                    /\ row.status = "active" => Told(row.sub)' \/ Handled(row.sub)' \/ RowIsRight'
  BY Zenon DEF OneByOne, Busy
<1>1. "overlap" \notin odd
  BY Zenon
<1>2. \A p : Told(p) => Told(p)'
  BY Zenon DEF Told
<1>3. \A g, h \in Handler : work[g].pc # "idle" /\ work[h].pc # "idle" => g = h
  BY <1>1, Zenon DEF OneByOne, Busy
<1>4. \A h \in Handler : KnowsTrue(h)'
  BY <1>1, <1>2 DEF OneByOne, KnowsTrue, Asked, Open
<1>5. Handled(row.sub) => Handled(row.sub)'
  BY Zenon DEF Handled, Busy
<1>6. RowIsRight => RowIsRight'
  BY Zenon DEF RowIsRight, Open
<1>7. row.status = "active" => Told(row.sub)' \/ Handled(row.sub)' \/ RowIsRight'
  BY <1>1, <1>2, <1>5, <1>6 DEF OneByOne
<1> QED BY <1>3, <1>4, <1>7

LEMMA PaidFrame ==
  ASSUME NEW p, Paid(p), UNCHANGED <<at, row, work>>, news \subseteq news'
  PROVE  Paid(p)'
<1>1. Told(p) => Told(p)'
  BY Zenon DEF Told
<1>2. \A h \in Handler : KnowsPaid(h, p)'
  BY <1>1 DEF Paid, KnowsPaid, Asked
<1>3. Handled(p) => Handled(p)'
  BY Zenon DEF Handled, Busy
<1> QED BY <1>1, <1>2, <1>3 DEF Paid, Open

LEMMA NothingOddFrame ==
  ASSUME NothingOdd, UNCHANGED <<at, row, work>>, news \subseteq news', odd \subseteq odd'
  PROVE  NothingOdd'
<1> SUFFICES ASSUME odd' = {} PROVE row'.status # "comped" /\ \A p \in Open : Paid(p)'
  BY Zenon DEF NothingOdd, Open
<1>1. odd = {}
  OBVIOUS
<1> QED BY <1>1, PaidFrame DEF NothingOdd

\* A step of one handler, as far as OneByOne and NothingOdd go.
LEMMA OneByOneStep ==
  ASSUME NEW h \in Handler,
         "overlap" \notin odd' =>
           /\ \A g \in Handler : g # h => work'[g].pc = "idle"
           /\ KnowsTrue(h)'
           /\ row'.status = "active" => Told(row.sub)' \/ Handled(row.sub)' \/ RowIsRight'
  PROVE  OneByOne'
<1> SUFFICES ASSUME "overlap" \notin odd'
             PROVE  /\ \A g, k \in Handler : work'[g].pc # "idle" /\ work'[k].pc # "idle" => g = k
                    /\ \A g \in Handler : KnowsTrue(g)'
                    /\ row'.status = "active" => Told(row.sub)' \/ Handled(row.sub)' \/ RowIsRight'
  BY Zenon DEF OneByOne, Busy
<1>1. ASSUME NEW g \in Handler PROVE KnowsTrue(g)'
  <2>1. CASE g = h
    BY <2>1
  <2>2. CASE g # h
    <3>1. work'[g].pc = "idle"
      BY <2>2
    <3> QED BY <3>1 DEF KnowsTrue, Asked
  <2> QED BY <2>1, <2>2
<1> QED BY <1>1

LEMMA NothingOddStep ==
  ASSUME NEW h \in Handler, UNCHANGED at,
         odd' = {} =>
           /\ \A g \in Handler : g # h => work'[g].pc = "idle"
           /\ row'.status # "comped"
           /\ \A p \in Open :
                /\ \A q \in Open : q = p
                /\ KnowsPaid(h, p)'
                /\ row'.status = "active" => row'.sub = p
                /\ Told(p)' \/ Handled(p)' \/ row'.status = "active"
  PROVE  NothingOdd'
<1> SUFFICES ASSUME odd' = {} PROVE row'.status # "comped" /\ \A p \in Open : Paid(p)'
  BY Zenon DEF NothingOdd, Open
<1>1. ASSUME NEW p \in Open PROVE Paid(p)'
  <2>1. ASSUME NEW g \in Handler PROVE KnowsPaid(g, p)'
    <3>1. CASE g = h
      BY <3>1
    <3>2. CASE g # h
      <4>1. work'[g].pc = "idle"
        BY <3>2
      <4> QED BY <4>1 DEF KnowsPaid, Asked
    <3> QED BY <3>1, <3>2
  <2> QED BY <2>1 DEF Paid, Open
<1> QED BY <1>1

\* While one is busy the others are not.
LEMMA OthersRest ==
  ASSUME OneByOne, "overlap" \notin odd, NEW h \in Handler, work[h].pc # "idle"
  PROVE  \A g \in Handler : g # h => work[g].pc = "idle"
  BY Zenon DEF OneByOne, Busy

\* What is being handled is handled by it.
LEMMA HandledBy ==
  ASSUME OneByOne, "overlap" \notin odd, NEW h \in Handler, work[h].pc # "idle", NEW p, Handled(p)
  PROVE  work[h].of[1] = p
  BY OthersRest, Zenon DEF Handled, Busy

LEMMA BoolIs == ASSUME NEW F PROVE \E o \in BOOLEAN : o <=> F
<1>1. CASE F
  <2>1. TRUE <=> F
    BY <1>1
  <2> QED BY <2>1
<1>2. CASE ~F
  <2>1. FALSE <=> F
    BY <1>2
  <2> QED BY <2>1
<1> QED BY <1>1, <1>2

\* An answer.
LEMMA AskedIs ==
  ASSUME WorkOK, NEW h \in Handler, NEW p, Asks(h, p)
  PROVE  /\ WorkOK' /\ work'[h].pc = "read" /\ work'[h].of = work[h].of
         /\ work[h].pc = "ask" /\ work[h].of[1] = p
         /\ (work'[h].open <=> p \in Open) /\ (work'[h].leaves <=> p \in leaving)
         /\ \A g \in Handler : g # h => work'[g] = work[g]
<1> DEFINE o == p \in Open
           l == p \in leaving
           k == [[[work[h] EXCEPT !.pc = "read"] EXCEPT !.open = o] EXCEPT !.leaves = l]
<1>1. o \in BOOLEAN /\ l \in BOOLEAN
  OBVIOUS
<1>2. work' = [work EXCEPT ![h].pc = "read", ![h].open = o, ![h].leaves = l]
  BY Zenon DEF Asks
<1>3. work[h].pc = "ask" /\ work[h].of[1] = p
  BY DEF Asks
<1>4. (o <=> p \in Open) /\ (l <=> p \in leaving)
  OBVIOUS
<1> HIDE DEF o, l
<1>5. work[h] \in Work
  BY DEF WorkOK
<1>6. k \in Work /\ k.pc = "read" /\ k.of = work[h].of /\ k.open = o /\ k.leaves = l
  BY <1>1, <1>5 DEF Work
<1>7. work' = [work EXCEPT ![h] = k]
  BY <1>2 DEF WorkOK
<1> HIDE DEF k
<1>8. /\ WorkOK' /\ work'[h] = k
      /\ \A g \in Handler : g # h => work'[g] = work[g]
  BY <1>6, <1>7, WorkIs
<1> QED BY <1>3, <1>4, <1>6, <1>8

\* What is decided.
LEMMA ReadIs ==
  ASSUME WorkOK, NEW h \in Handler, NEW pc \in {"link", "set", "note", "close"}, NEW p,
         work' = [work EXCEPT ![h].pc = pc, ![h].fresh = Fresh(p)]
  PROVE  /\ WorkOK' /\ work'[h].pc = pc /\ work'[h].of = work[h].of
         /\ work'[h].open = work[h].open /\ work'[h].leaves = work[h].leaves
         /\ (work'[h].fresh <=> Fresh(p))
         /\ \A g \in Handler : g # h => work'[g] = work[g]
<1> DEFINE f == Fresh(p)
           k == [[work[h] EXCEPT !.pc = pc] EXCEPT !.fresh = f]
<1>1. f \in BOOLEAN
  BY Zenon DEF Fresh
<1>2. work' = [work EXCEPT ![h].pc = pc, ![h].fresh = f]
  OBVIOUS
<1>3. f <=> Fresh(p)
  OBVIOUS
<1> HIDE DEF f
<1>4. work[h] \in Work
  BY DEF WorkOK
<1>5. /\ k \in Work /\ k.pc = pc /\ k.of = work[h].of /\ k.open = work[h].open
      /\ k.leaves = work[h].leaves /\ k.fresh = f
  BY <1>1, <1>4 DEF Work
<1>6. work' = [work EXCEPT ![h] = k]
  BY <1>2 DEF WorkOK
<1> HIDE DEF k
<1>7. /\ WorkOK' /\ work'[h] = k
      /\ \A g \in Handler : g # h => work'[g] = work[g]
  BY <1>5, <1>6, WorkIs
<1> QED BY <1>3, <1>5, <1>7

\* A webhook that is taken up.
LEMMA TakenUpIs ==
  ASSUME BillingTypeOK, NEW h \in Handler, NEW w \in Webhook, TakesUp(h, w)
  PROVE  /\ WorkOK' /\ work'[h].pc = "ask" /\ work'[h].of = w
         /\ \A g \in Handler : g # h => work'[g] = work[g]
         /\ work[h].pc = "idle" /\ w \in news /\ news' = news \ {w} /\ odd \subseteq odd'
         /\ OddOK' /\ NewsOK'
         /\ "overlap" \notin odd' => \A g \in Handler : work[g].pc = "idle"
         /\ "late" \notin odd' => ~(w[2] = "checkout" /\ at[w[1]] = "over")
<1> DEFINE k == [[work[h] EXCEPT !.pc = "ask"] EXCEPT !.of = w]
<1>1. WorkOK /\ OddOK /\ NewsOK
  BY BillingTypes
<1>2. /\ work[h].pc = "idle" /\ w \in news /\ news' = news \ {w}
      /\ work' = [work EXCEPT ![h].pc = "ask", ![h].of = w]
      /\ odd' = odd
           \cup (IF \E g \in Handler : work[g].pc # "idle" THEN {"overlap"} ELSE {})
           \cup (IF w[2] = "checkout" /\ at[w[1]] = "over" THEN {"late"} ELSE {})
  BY DEF TakesUp
<1>3. work[h] \in Work
  BY <1>1 DEF WorkOK
<1>4. k \in Work /\ k.pc = "ask" /\ k.of = w
  BY <1>3 DEF Work
<1>5. work' = [work EXCEPT ![h] = k]
  BY <1>1, <1>2 DEF WorkOK
<1> HIDE DEF k
<1>6. /\ WorkOK' /\ work'[h] = k
      /\ \A g \in Handler : g # h => work'[g] = work[g]
  BY <1>1, <1>4, <1>5, WorkIs
<1>7. odd \subseteq odd' /\ OddOK'
  BY <1>1, <1>2 DEF OddOK
<1>8. NewsOK'
  BY <1>1, <1>2 DEF NewsOK
<1>9. /\ "overlap" \notin odd' => \A g \in Handler : work[g].pc = "idle"
      /\ "late" \notin odd' => ~(w[2] = "checkout" /\ at[w[1]] = "over")
  BY <1>2
<1> QED BY <1>2, <1>4, <1>6, <1>7, <1>8, <1>9

-----------------------------------------------------------------------------
(* The steps of a handler.                                                 *)

LEMMA AsksInv == ASSUME BInv, NEW h \in Handler, NEW p \in Purchase, Asks(h, p) PROVE BInv'
<1> USE DEF BInv
<1>1. WorkOK
  BY BillingTypes
<1>2. /\ WorkOK' /\ work'[h].pc = "read" /\ work'[h].of = work[h].of
      /\ work[h].pc = "ask" /\ work[h].of[1] = p
      /\ (work'[h].open <=> p \in Open) /\ (work'[h].leaves <=> p \in leaving)
      /\ \A g \in Handler : g # h => work'[g] = work[g]
  BY <1>1, AskedIs
<1>3. UNCHANGED <<tills, news, row, hand, odd>>
  BY DEF Asks
<1>4. BillingTypeOK'
  BY <1>2, <1>3, BillingFrames, BillingTypesNext
<1>5. PageSpent' /\ OneTrial' /\ News'
  BY <1>2, <1>3, PageSpentFrame, OneTrialFrame, NewsStep DEF tills
<1>6. OneByOne'
  <2> SUFFICES ASSUME "overlap" \notin odd
               PROVE  /\ \A g \in Handler : g # h => work'[g].pc = "idle"
                      /\ KnowsTrue(h)'
                      /\ row.status = "active" => Told(row.sub)' \/ Handled(row.sub)' \/ RowIsRight'
    BY <1>3, OneByOneStep
  <2>1. \A g \in Handler : g # h => work'[g].pc = "idle"
    BY <1>2, OthersRest
  <2>2. KnowsTrue(h)'
    BY <1>2, <1>3 DEF KnowsTrue, Asked, Open, tills
  <2>3. row.status = "active" => Told(row.sub)' \/ Handled(row.sub)' \/ RowIsRight'
    <3>1. \A q : Handled(q) => Handled(q)'
      BY <1>2 DEF Handled, Busy
    <3> QED BY <1>3, <3>1, Zenon DEF OneByOne, Told, RowIsRight, Open, tills
  <2> QED BY <2>1, <2>2, <2>3
<1>7. NothingOdd'
  <2> SUFFICES ASSUME odd = {}
               PROVE  /\ \A g \in Handler : g # h => work'[g].pc = "idle"
                      /\ row.status # "comped"
                      /\ \A q \in Open :
                           /\ \A r \in Open : r = q
                           /\ KnowsPaid(h, q)'
                           /\ row.status = "active" => row.sub = q
                           /\ Told(q)' \/ Handled(q)' \/ row.status = "active"
    BY <1>3, NothingOddStep DEF tills
  <2>1. \A g \in Handler : g # h => work'[g].pc = "idle"
    BY <1>2, OthersRest
  <2>2. ASSUME NEW q \in Open
        PROVE  /\ \A r \in Open : r = q
               /\ KnowsPaid(h, q)'
               /\ row.status = "active" => row.sub = q
               /\ Told(q)' \/ Handled(q)' \/ row.status = "active"
    <3>1. Paid(q)
      BY DEF NothingOdd
    <3>2. KnowsPaid(h, q)'
      BY <1>2, <3>1 DEF KnowsPaid, Asked, Paid
    <3>3. Told(q) => Told(q)'
      BY <1>3, Zenon DEF Told
    <3>4. Handled(q) => Handled(q)'
      BY <1>2 DEF Handled, Busy
    <3> QED BY <3>1, <3>2, <3>3, <3>4 DEF Paid
  <2> QED BY <2>1, <2>2 DEF NothingOdd
<1> QED BY <1>4, <1>5, <1>6, <1>7

\* A step after which the handler is through, and has heard of no change.
LEMMA NowIdle ==
  ASSUME NEW h \in Handler, work'[h].pc = "idle"
  PROVE  KnowsTrue(h)' /\ \A p : KnowsPaid(h, p)'
  BY DEF KnowsTrue, KnowsPaid, Asked

LEMMA LinkInv == ASSUME BInv, NEW h \in Handler, Link(h) PROVE BInv'
<1> USE DEF BInv
<1>1. WorkOK /\ RowOK
  BY BillingTypes
<1>2. PICK p \in Purchase : p = work[h].of[1]
  BY <1>1, WebhookIs DEF WorkOK, Work
<1>3. /\ work[h].pc = "link" /\ LinkStripe(p)
      /\ Goes(h, IF work[h].fresh THEN "set" ELSE "note")
      /\ UNCHANGED <<tills, news, hand, odd>>
  BY <1>2, Zenon DEF Link
<1>4. /\ RowOK' /\ row'.sub = p /\ row'.intro = TRUE
      /\ row'.status = row.status /\ row'.ends = row.ends
  BY <1>1, <1>2, <1>3, LinkStripeIs, Zenon
<1>5. /\ WorkOK' /\ work'[h].pc = (IF work[h].fresh THEN "set" ELSE "note")
      /\ work'[h].of = work[h].of /\ work'[h].open = work[h].open
      /\ work'[h].leaves = work[h].leaves
      /\ \A g \in Handler : g # h => work'[g] = work[g]
  BY <1>1, <1>3, Went
<1>6. BillingTypeOK'
  BY <1>3, <1>4, <1>5, BillingFrames, BillingTypesNext
<1>7. PageSpent' /\ OneTrial' /\ News'
  BY <1>3, <1>4, <1>5, PageSpentFrame, OneTrialFrame, NewsStep DEF tills
<1>8. Handled(p)'
  BY <1>2, <1>5 DEF Handled, Busy
<1>9. OneByOne'
  <2> SUFFICES ASSUME "overlap" \notin odd
               PROVE  /\ \A g \in Handler : g # h => work'[g].pc = "idle"
                      /\ KnowsTrue(h)'
                      /\ row'.status = "active" => Told(row.sub)' \/ Handled(row.sub)' \/ RowIsRight'
    BY <1>3, OneByOneStep
  <2>1. \A g \in Handler : g # h => work'[g].pc = "idle"
    BY <1>3, <1>5, OthersRest
  <2>2. KnowsTrue(h)
    BY Zenon DEF OneByOne
  <2>3. Told(p) => Told(p)'
    BY <1>3, Zenon DEF Told
  <2>4. KnowsTrue(h)'
    BY <1>2, <1>3, <1>4, <1>5, <2>2, <2>3 DEF KnowsTrue, Asked, Open, tills
  <2>5. Handled(row.sub)'
    BY <1>2, <1>4, <1>5 DEF Handled, Busy
  <2> QED BY <2>1, <2>4, <2>5
<1>10. NothingOdd'
  <2> SUFFICES ASSUME odd = {}
               PROVE  /\ \A g \in Handler : g # h => work'[g].pc = "idle"
                      /\ row'.status # "comped"
                      /\ \A q \in Open :
                           /\ \A r \in Open : r = q
                           /\ KnowsPaid(h, q)'
                           /\ row'.status = "active" => row'.sub = q
                           /\ Told(q)' \/ Handled(q)' \/ row'.status = "active"
    BY <1>3, NothingOddStep DEF tills
  <2>1. \A g \in Handler : g # h => work'[g].pc = "idle"
    BY <1>3, <1>5, OthersRest
  <2>2. KnowsTrue(h) /\ work[h].open
    BY <1>3 DEF OneByOne, KnowsTrue
  <2>3. ASSUME NEW q \in Open
        PROVE  /\ \A r \in Open : r = q
               /\ KnowsPaid(h, q)'
               /\ row'.status = "active" => row'.sub = q
               /\ Told(q)' \/ Handled(q)' \/ row'.status = "active"
    <3>1. Paid(q) /\ KnowsPaid(h, q)
      BY DEF NothingOdd, Paid
    <3>2. p = q
      BY <1>2, <1>3, <2>2, <3>1 DEF KnowsPaid, Asked
    <3>3. KnowsPaid(h, q)'
      BY <1>2, <1>3, <1>4, <1>5, <2>2, <3>1, <3>2 DEF KnowsPaid, Asked
    <3> QED BY <1>4, <1>8, <3>1, <3>2, <3>3 DEF Paid
  <2> QED BY <1>4, <2>1, <2>3 DEF NothingOdd
<1> QED BY <1>6, <1>7, <1>9, <1>10

\* What syncSubscription and syncStore make of an answer and the account.
LEMMA DecidedIs ==
  ASSUME WorkOK, NEW h \in Handler, Read(h), NEW p, p = work[h].of[1]
  PROVE  /\ work[h].pc = "read" /\ UNCHANGED <<tills, news, row, hand, odd>>
         /\ \/ /\ Rests(h) /\ row.sub # p
               /\ ~work[h].open \/ (Active(row) /\ p = InApp)
            \/ \E pc \in {"link", "set", "note", "close"} :
                 /\ work' = [work EXCEPT ![h].pc = pc, ![h].fresh = Fresh(p)]
                 /\ pc \in {"link", "set", "note"} => work[h].open
                 /\ pc = "note" => Active(row) /\ row.sub = p
                 /\ pc = "close" => ~work[h].open /\ row.sub \in {None, p}
<1> DEFINE open == work[h].open
           next == IF p = InApp THEN NextForStore(open) ELSE NextForStripe(p, open)
<1>1. /\ work[h].pc = "read" /\ UNCHANGED <<tills, news, row, hand, odd>>
      /\ IF next = "idle" THEN Rests(h)
         ELSE work' = [work EXCEPT ![h].pc = next, ![h].fresh = Fresh(p)]
  BY DEF Read
<1>2. CASE p = InApp /\ ~open
  <2>1. next = IF row.sub = InApp THEN "close" ELSE "idle"
    BY <1>2 DEF NextForStore
  <2> QED BY <1>1, <1>2, <2>1
<1>3. CASE p = InApp /\ open
  <2>1. next = IF Active(row) /\ row.sub # InApp THEN "idle" ELSE IF Fresh(InApp) THEN "set" ELSE "note"
    BY <1>3 DEF NextForStore
  <2> HIDE DEF next
  <2>2. CASE Active(row) /\ row.sub # InApp
    BY <1>1, <1>3, <2>1, <2>2
  <2>3. CASE ~(Active(row) /\ row.sub # InApp) /\ Fresh(InApp)
    BY <1>1, <1>3, <2>1, <2>3
  <2>4. CASE ~(Active(row) /\ row.sub # InApp) /\ ~Fresh(InApp)
    <3>1. Active(row) /\ row.sub = InApp
      BY <2>4, Zenon DEF Fresh
    <3> QED BY <1>1, <1>3, <2>1, <2>4, <3>1
  <2> QED BY <2>2, <2>3, <2>4
<1>4. CASE p # InApp
  <2>1. next = IF open THEN "link" ELSE IF row.sub \in {None, p} THEN "close" ELSE "idle"
    BY <1>4 DEF NextForStripe
  <2> QED BY <1>1, <1>4, <2>1
<1> QED BY <1>2, <1>3, <1>4

LEMMA ReadInv == ASSUME BInv, NEW h \in Handler, Read(h) PROVE BInv'
<1> USE DEF BInv
<1>1. WorkOK /\ RowOK
  BY BillingTypes
<1>2. PICK p \in Purchase : p = work[h].of[1]
  BY <1>1, WebhookIs DEF WorkOK, Work
<1>3. work[h].pc = "read" /\ UNCHANGED <<tills, news, row, hand, odd>>
  BY <1>1, <1>2, DecidedIs
<1>4. PageSpent' /\ OneTrial'
  BY <1>3, PageSpentFrame, OneTrialFrame DEF tills
<1>5. \A q : Told(q) => Told(q)'
  BY <1>3, Zenon DEF Told
<1>6. "overlap" \notin odd => \A g \in Handler : g # h => work[g].pc = "idle"
  BY <1>3, OthersRest
<1>7. CASE /\ Rests(h) /\ row.sub # p
           /\ ~work[h].open \/ (Active(row) /\ p = InApp)
  <2>1. /\ WorkOK' /\ work'[h].pc = "idle"
        /\ \A g \in Handler : g # h => work'[g] = work[g]
    BY <1>1, <1>7, Rested
  <2>2. BillingTypeOK'
    BY <1>3, <2>1, BillingFrames, BillingTypesNext
  <2>3. \A q : Handled(q) /\ q # p => Handled(q)'
    BY <1>2, <2>1 DEF Handled, Busy
  <2>4. OneByOne'
    <3> SUFFICES ASSUME "overlap" \notin odd
                 PROVE  /\ \A g \in Handler : g # h => work'[g].pc = "idle"
                        /\ KnowsTrue(h)'
                        /\ row.status = "active" => Told(row.sub)' \/ Handled(row.sub)' \/ RowIsRight'
      BY <1>3, OneByOneStep
    <3>1. row.status = "active" => Told(row.sub)' \/ Handled(row.sub)' \/ RowIsRight'
      BY <1>3, <1>5, <1>7, <2>3, Zenon DEF OneByOne, RowIsRight, Open, tills
    <3> QED BY <1>6, <2>1, <3>1, NowIdle
  <2>5. NothingOdd'
    <3> SUFFICES ASSUME odd = {}
                 PROVE  /\ \A g \in Handler : g # h => work'[g].pc = "idle"
                        /\ row.status # "comped"
                        /\ \A q \in Open :
                             /\ \A r \in Open : r = q
                             /\ KnowsPaid(h, q)'
                             /\ row.status = "active" => row.sub = q
                             /\ Told(q)' \/ Handled(q)' \/ row.status = "active"
      BY <1>3, NothingOddStep DEF tills
    <3>1. row.status # "comped"
      BY DEF NothingOdd
    <3>2. ASSUME NEW q \in Open
          PROVE  /\ \A r \in Open : r = q
                 /\ KnowsPaid(h, q)'
                 /\ row.status = "active" => row.sub = q
                 /\ Told(q)' \/ Handled(q)' \/ row.status = "active"
      <4>1. Paid(q) /\ KnowsPaid(h, q)
        BY DEF NothingOdd, Paid
      <4>2. CASE p = q
        <5>1. work[h].open
          BY <1>2, <1>3, <4>1, <4>2 DEF KnowsPaid, Asked
        <5>2. row.status = "active"
          BY <1>7, <3>1, <5>1 DEF Active
        <5> QED BY <2>1, <4>1, <5>2, NowIdle DEF Paid
      <4>3. CASE p # q
        BY <1>5, <2>1, <2>3, <4>1, <4>3, NowIdle DEF Paid
      <4> QED BY <4>2, <4>3
    <3> QED BY <1>6, <2>1, <3>1, <3>2
  <2>6. News'
    BY <1>3, <2>1, NewsStep DEF tills
  <2> QED BY <1>4, <2>2, <2>4, <2>5, <2>6
<1>8. ASSUME NEW pc \in {"link", "set", "note", "close"},
             work' = [work EXCEPT ![h].pc = pc, ![h].fresh = Fresh(p)],
             pc \in {"link", "set", "note"} => work[h].open,
             pc = "note" => Active(row) /\ row.sub = p,
             pc = "close" => ~work[h].open /\ row.sub \in {None, p}
      PROVE  BInv'
  <2>1. /\ WorkOK' /\ work'[h].pc = pc /\ work'[h].of = work[h].of
        /\ work'[h].open = work[h].open /\ work'[h].leaves = work[h].leaves
        /\ (work'[h].fresh <=> Fresh(p))
        /\ \A g \in Handler : g # h => work'[g] = work[g]
    BY <1>1, <1>8, ReadIs
  <2>2. BillingTypeOK'
    BY <1>3, <2>1, BillingFrames, BillingTypesNext
  <2>3. \A q : Handled(q) => Handled(q)'
    BY <2>1 DEF Handled, Busy
  <2>4. OneByOne'
    <3> SUFFICES ASSUME "overlap" \notin odd
                 PROVE  /\ \A g \in Handler : g # h => work'[g].pc = "idle"
                        /\ KnowsTrue(h)'
                        /\ row.status = "active" => Told(row.sub)' \/ Handled(row.sub)' \/ RowIsRight'
      BY <1>3, OneByOneStep
    <3>1. row.status = "active" => Told(row.sub)' \/ Handled(row.sub)' \/ RowIsRight'
      BY <1>3, <1>5, <2>3, Zenon DEF OneByOne, RowIsRight, Open, tills
    <3>2. KnowsTrue(h)
      BY DEF OneByOne
    <3>3. KnowsTrue(h)'
      BY <1>2, <1>3, <1>5, <1>8, <2>1, <3>2 DEF KnowsTrue, Asked, Open, tills
    <3> QED BY <1>6, <2>1, <3>1, <3>3
  <2>5. NothingOdd'
    <3> SUFFICES ASSUME odd = {}
                 PROVE  /\ \A g \in Handler : g # h => work'[g].pc = "idle"
                        /\ row.status # "comped"
                        /\ \A q \in Open :
                             /\ \A r \in Open : r = q
                             /\ KnowsPaid(h, q)'
                             /\ row.status = "active" => row.sub = q
                             /\ Told(q)' \/ Handled(q)' \/ row.status = "active"
      BY <1>3, NothingOddStep DEF tills
    <3>1. row.status # "comped"
      BY DEF NothingOdd
    <3>2. ASSUME NEW q \in Open
          PROVE  /\ \A r \in Open : r = q
                 /\ KnowsPaid(h, q)'
                 /\ row.status = "active" => row.sub = q
                 /\ Told(q)' \/ Handled(q)' \/ row.status = "active"
      <4>1. Paid(q) /\ KnowsPaid(h, q) /\ q # None
        BY BillingAssumption DEF NothingOdd, Paid, Open, Purchase
      <4>2. work[h].open <=> p = q
        BY <1>2, <1>3, <4>1 DEF KnowsPaid, Asked
      <4>3. pc = "close" => Told(q)
        <5> SUFFICES ASSUME pc = "close" PROVE Told(q)
          OBVIOUS
        <5>1. p # q /\ row.sub # q
          BY <1>8, <4>1, <4>2
        <5>2. ~Handled(q)
          BY <1>2, <1>3, <5>1, HandledBy
        <5> QED BY <4>1, <5>1, <5>2 DEF Paid
      <4>4. pc = "note" \/ (pc = "link" /\ ~Fresh(p)) => row.status = "active" /\ row.sub = q
        BY <1>8, <3>1, <4>2 DEF Fresh, Active
      <4>5. KnowsPaid(h, q)'
        BY <1>2, <1>3, <1>5, <2>1, <4>2, <4>3, <4>4 DEF KnowsPaid, Asked
      <4> QED BY <1>5, <2>3, <4>1, <4>5 DEF Paid
    <3> QED BY <1>6, <2>1, <3>1, <3>2
  <2>6. News'
    BY <1>3, <2>1, NewsStep DEF tills
  <2> QED BY <1>4, <2>2, <2>4, <2>5, <2>6
<1> QED BY <1>1, <1>2, <1>7, <1>8, DecidedIs

LEMMA SetActiveInv == ASSUME BInv, NEW h \in Handler, SetActive(h) PROVE BInv'
<1> USE DEF BInv
<1>1. WorkOK /\ RowOK
  BY BillingTypes
<1>2. PICK p \in Purchase : p = work[h].of[1]
  BY <1>1, WebhookIs DEF WorkOK, Work
<1>3. /\ work[h].pc = "set" /\ Goes(h, "note") /\ SetSubscription("active", p)
      /\ UNCHANGED <<tills, news, hand, odd>>
  BY <1>2, Zenon DEF SetActive
<1>4. RowOK' /\ row'.sub = p /\ row'.status = "active" /\ row'.intro = row.intro
  BY <1>1, <1>3, SetSubscriptionIs, BillingAssumption DEF Purchase
<1>5. /\ WorkOK' /\ work'[h].pc = "note" /\ work'[h].of = work[h].of
      /\ work'[h].open = work[h].open /\ work'[h].leaves = work[h].leaves
      /\ \A g \in Handler : g # h => work'[g] = work[g]
  BY <1>1, <1>3, Went
<1>6. BillingTypeOK'
  BY <1>3, <1>4, <1>5, BillingFrames, BillingTypesNext
<1>7. PageSpent' /\ OneTrial' /\ News'
  BY <1>3, <1>4, <1>5, PageSpentFrame, OneTrialFrame, NewsStep DEF tills
<1>8. Handled(p)'
  BY <1>2, <1>5 DEF Handled, Busy
<1>9. OneByOne'
  <2> SUFFICES ASSUME "overlap" \notin odd
               PROVE  /\ \A g \in Handler : g # h => work'[g].pc = "idle"
                      /\ KnowsTrue(h)'
                      /\ row'.status = "active" => Told(row.sub)' \/ Handled(row.sub)' \/ RowIsRight'
    BY <1>3, OneByOneStep
  <2>1. \A g \in Handler : g # h => work'[g].pc = "idle"
    BY <1>3, <1>5, OthersRest
  <2>2. KnowsTrue(h)
    BY Zenon DEF OneByOne
  <2>3. Told(p) => Told(p)'
    BY <1>3, Zenon DEF Told
  <2>4. KnowsTrue(h)'
    BY <1>2, <1>3, <1>4, <1>5, <2>2, <2>3 DEF KnowsTrue, Asked, Open, tills
  <2>5. Handled(row.sub)'
    BY <1>2, <1>4, <1>5 DEF Handled, Busy
  <2> QED BY <2>1, <2>4, <2>5
<1>10. NothingOdd'
  <2> SUFFICES ASSUME odd = {}
               PROVE  /\ \A g \in Handler : g # h => work'[g].pc = "idle"
                      /\ row'.status # "comped"
                      /\ \A q \in Open :
                           /\ \A r \in Open : r = q
                           /\ KnowsPaid(h, q)'
                           /\ row'.status = "active" => row'.sub = q
                           /\ Told(q)' \/ Handled(q)' \/ row'.status = "active"
    BY <1>3, NothingOddStep DEF tills
  <2>1. \A g \in Handler : g # h => work'[g].pc = "idle"
    BY <1>3, <1>5, OthersRest
  <2>2. work[h].open
    BY <1>3 DEF OneByOne, KnowsTrue
  <2>3. ASSUME NEW q \in Open
        PROVE  /\ \A r \in Open : r = q
               /\ KnowsPaid(h, q)'
               /\ row'.status = "active" => row'.sub = q
               /\ Told(q)' \/ Handled(q)' \/ row'.status = "active"
    <3>1. Paid(q) /\ KnowsPaid(h, q)
      BY DEF NothingOdd, Paid
    <3>2. p = q
      BY <1>2, <1>3, <2>2, <3>1 DEF KnowsPaid, Asked
    <3>3. KnowsPaid(h, q)'
      BY <1>2, <1>4, <1>5, <2>2, <3>2 DEF KnowsPaid, Asked
    <3> QED BY <1>4, <3>1, <3>2, <3>3 DEF Paid
  <2> QED BY <1>4, <2>1, <2>3
<1> QED BY <1>6, <1>7, <1>9, <1>10

LEMMA NoteEndingInv == ASSUME BInv, NEW h \in Handler, NoteEnding(h) PROVE BInv'
<1> USE DEF BInv
<1>1. WorkOK /\ RowOK
  BY BillingTypes
<1>2. PICK p \in Purchase : p = work[h].of[1]
  BY <1>1, WebhookIs DEF WorkOK, Work
<1>3. /\ work[h].pc = "note" /\ Rests(h) /\ row' = [row EXCEPT !.ends = work[h].leaves]
      /\ UNCHANGED <<tills, news, hand, odd>>
  BY DEF NoteEnding
<1>4. /\ RowOK' /\ row'.sub = row.sub /\ row'.status = row.status /\ row'.intro = row.intro
      /\ row'.ends = work[h].leaves
  <2>1. work[h].leaves \in BOOLEAN
    BY <1>1 DEF WorkOK, Work
  <2> QED BY <1>1, <1>3, <2>1 DEF RowOK, Row
<1>5. /\ WorkOK' /\ work'[h].pc = "idle"
      /\ \A g \in Handler : g # h => work'[g] = work[g]
  BY <1>1, <1>3, Rested
<1>6. BillingTypeOK'
  BY <1>3, <1>4, <1>5, BillingFrames, BillingTypesNext
<1>7. PageSpent' /\ OneTrial' /\ News'
  BY <1>3, <1>4, <1>5, PageSpentFrame, OneTrialFrame, NewsStep DEF tills
<1>8. \A q : Told(q) => Told(q)'
  BY <1>3, Zenon DEF Told
<1>9. OneByOne'
  <2> SUFFICES ASSUME "overlap" \notin odd
               PROVE  /\ \A g \in Handler : g # h => work'[g].pc = "idle"
                      /\ KnowsTrue(h)'
                      /\ row'.status = "active" => Told(row.sub)' \/ Handled(row.sub)' \/ RowIsRight'
    BY <1>3, OneByOneStep
  <2>1. \A g \in Handler : g # h => work'[g].pc = "idle"
    BY <1>3, <1>5, OthersRest
  <2>2. ASSUME row.status = "active" PROVE Told(row.sub)' \/ RowIsRight'
    <3>1. row.sub = p /\ work[h].open
      BY <1>2, <1>3, <2>2 DEF OneByOne, KnowsTrue
    <3>2. CASE Told(p)
      <4>1. \E w \in news' : w[1] = row'.sub
        BY <1>3, <1>4, <3>1, <3>2, Zenon DEF Told
      <4> QED BY <4>1, Zenon DEF Told
    <3>3. CASE ~Told(p)
      <4>1. p \in Open /\ (work[h].leaves <=> p \in leaving)
        BY <1>2, <1>3, <3>1, <3>3 DEF OneByOne, KnowsTrue, Asked
      <4> QED BY <1>3, <1>4, <3>1, <4>1 DEF RowIsRight, Open, tills
    <3> QED BY <3>2, <3>3
  <2> QED BY <1>4, <1>5, <2>1, <2>2, NowIdle
<1>10. NothingOdd'
  <2> SUFFICES ASSUME odd = {}
               PROVE  /\ \A g \in Handler : g # h => work'[g].pc = "idle"
                      /\ row'.status # "comped"
                      /\ \A q \in Open :
                           /\ \A r \in Open : r = q
                           /\ KnowsPaid(h, q)'
                           /\ row'.status = "active" => row'.sub = q
                           /\ Told(q)' \/ Handled(q)' \/ row'.status = "active"
    BY <1>3, NothingOddStep DEF tills
  <2>1. \A g \in Handler : g # h => work'[g].pc = "idle"
    BY <1>3, <1>5, OthersRest
  <2>2. ASSUME NEW q \in Open
        PROVE  /\ \A r \in Open : r = q
               /\ KnowsPaid(h, q)'
               /\ row'.status = "active" => row'.sub = q
               /\ Told(q)' \/ Handled(q)' \/ row'.status = "active"
    <3>1. Paid(q) /\ KnowsPaid(h, q)
      BY DEF NothingOdd, Paid
    <3>2. row.status = "active"
      BY <1>3, <3>1 DEF KnowsPaid
    <3> QED BY <1>4, <1>5, <3>1, <3>2, NowIdle DEF Paid
  <2> QED BY <1>4, <2>1, <2>2 DEF NothingOdd
<1> QED BY <1>6, <1>7, <1>9, <1>10

LEMMA CloseInv == ASSUME BInv, NEW h \in Handler, Close(h) PROVE BInv'
<1> USE DEF BInv
<1>1. WorkOK /\ RowOK
  BY BillingTypes
<1>2. PICK p \in Purchase : p = work[h].of[1]
  BY <1>1, WebhookIs DEF WorkOK, Work
<1>3. /\ work[h].pc = "close" /\ Rests(h) /\ SetSubscription("none", p)
      /\ UNCHANGED <<tills, news, hand, odd>>
  BY <1>2, Zenon DEF Close
<1>4. RowOK' /\ row'.sub = p /\ row'.status = "none" /\ row'.intro = row.intro
  BY <1>1, <1>3, SetSubscriptionIs, BillingAssumption DEF Purchase
<1>5. /\ WorkOK' /\ work'[h].pc = "idle"
      /\ \A g \in Handler : g # h => work'[g] = work[g]
  BY <1>1, <1>3, Rested
<1>6. BillingTypeOK'
  BY <1>3, <1>4, <1>5, BillingFrames, BillingTypesNext
<1>7. PageSpent' /\ OneTrial' /\ News'
  BY <1>3, <1>4, <1>5, PageSpentFrame, OneTrialFrame, NewsStep DEF tills
<1>8. \A q : Told(q) => Told(q)'
  BY <1>3, Zenon DEF Told
<1>9. "overlap" \notin odd => \A g \in Handler : g # h => work'[g].pc = "idle"
  BY <1>3, <1>5, OthersRest
<1>10. OneByOne'
  BY <1>3, <1>4, <1>5, <1>9, NowIdle, OneByOneStep
<1>11. NothingOdd'
  <2> SUFFICES ASSUME odd = {}
               PROVE  \A q \in Open : /\ \A r \in Open : r = q
                                      /\ KnowsPaid(h, q)'
                                      /\ Told(q)'
    BY <1>3, <1>4, <1>9, NothingOddStep DEF tills
  <2>1. \A q \in Open : Paid(q) /\ KnowsPaid(h, q)
    BY DEF NothingOdd, Paid
  <2> QED BY <1>3, <1>5, <1>8, <2>1, NowIdle DEF KnowsPaid, Paid
<1> QED BY <1>6, <1>7, <1>10, <1>11

\* The webhook comes again, so what was begun and not finished is begun again.
LEMMA FailsInv == ASSUME BInv, NEW h \in Handler, Fails(h) PROVE BInv'
<1> USE DEF BInv
<1>1. WorkOK /\ RowOK /\ NewsOK
  BY BillingTypes
<1>2. PICK w \in Webhook : w = work[h].of
  BY <1>1 DEF WorkOK, Work
<1>3. /\ work[h].pc # "idle" /\ Rests(h) /\ news' = news \cup {w}
      /\ UNCHANGED <<tills, row, hand, odd>>
  BY <1>2, Zenon DEF Fails
<1>4. NewsOK'
  BY <1>1, <1>3 DEF NewsOK
<1>5. /\ WorkOK' /\ work'[h].pc = "idle"
      /\ \A g \in Handler : g # h => work'[g] = work[g]
  BY <1>1, <1>3, Rested
<1>6. BillingTypeOK'
  BY <1>3, <1>4, <1>5, BillingFrames, BillingTypesNext
<1>7. PageSpent' /\ OneTrial'
  BY <1>3, PageSpentFrame, OneTrialFrame DEF tills
<1>8. News'
  <2>1. at[w[1]] # "unborn"
    BY <1>2, <1>3 DEF News, Busy
  <2>2. \A v \in news' : at[v[1]] # "unborn"
    BY <1>3, <2>1 DEF News
  <2>3. \A g \in Handler : work'[g].pc # "idle" => at[work'[g].of[1]] # "unborn"
    BY <1>5 DEF News, Busy
  <2> QED BY <1>3, <2>2, <2>3 DEF News, Busy, tills
<1>9. \A q : Told(q) \/ Handled(q) => Told(q)' \/ Handled(q)'
  <2>1. \A q : Told(q) => Told(q)'
    BY <1>3, Zenon DEF Told
  <2>2. ASSUME NEW q, Handled(q) PROVE Told(q)' \/ Handled(q)'
    <3>1. PICK g \in Handler : Busy(g) /\ work[g].of[1] = q
      BY <2>2 DEF Handled
    <3>2. CASE g = h
      <4>1. w \in news' /\ w[1] = q
        BY <1>2, <1>3, <3>1, <3>2
      <4> QED BY <4>1, Zenon DEF Told
    <3>3. CASE g # h
      BY <1>5, <3>1, <3>3 DEF Handled, Busy
    <3> QED BY <3>2, <3>3
  <2> QED BY <2>1, <2>2
<1>10. "overlap" \notin odd => \A g \in Handler : g # h => work'[g].pc = "idle"
  BY <1>3, <1>5, OthersRest
<1>11. OneByOne'
  <2> SUFFICES ASSUME "overlap" \notin odd, row.status = "active"
               PROVE  Told(row.sub)' \/ Handled(row.sub)' \/ RowIsRight'
    BY <1>3, <1>5, <1>10, NowIdle, OneByOneStep
  <2>1. RowIsRight => RowIsRight'
    BY <1>3, Zenon DEF RowIsRight, Open, tills
  <2>2. Told(row.sub) \/ Handled(row.sub) => Told(row.sub)' \/ Handled(row.sub)'
    BY <1>3, <1>9, Zenon
  <2> QED BY <2>1, <2>2 DEF OneByOne
<1>12. NothingOdd'
  <2> SUFFICES ASSUME odd = {}
               PROVE  /\ row.status # "comped"
                      /\ \A q \in Open :
                           /\ \A r \in Open : r = q
                           /\ KnowsPaid(h, q)'
                           /\ row.status = "active" => row.sub = q
                           /\ Told(q)' \/ Handled(q)' \/ row.status = "active"
    BY <1>3, <1>10, NothingOddStep DEF tills
  <2>1. \A q \in Open : Paid(q)
    BY DEF NothingOdd
  <2> QED BY <1>5, <1>9, <2>1, NowIdle DEF NothingOdd, Paid
<1> QED BY <1>6, <1>7, <1>8, <1>11, <1>12

\* A webhook that is taken up is being handled; a checkout has its purchase named.
LEMMA TakesUpInv ==
  ASSUME BInv, NEW h \in Handler, NEW w \in Webhook, TakesUp(h, w), RowOK',
         row.intro => row'.intro,
         \/ row' = row /\ (w[2] = "change" \/ w[1] = InApp)
         \/ w[2] = "checkout" /\ row'.sub = w[1] /\ row'.status = row.status /\ row'.intro
  PROVE  BInv'
<1> USE DEF BInv
<1>1. BillingTypeOK /\ TillsOK
  BY BillingTypes
<1>2. /\ WorkOK' /\ work'[h].pc = "ask" /\ work'[h].of = w
      /\ \A g \in Handler : g # h => work'[g] = work[g]
      /\ work[h].pc = "idle" /\ w \in news /\ news' = news \ {w} /\ odd \subseteq odd'
      /\ OddOK' /\ NewsOK'
      /\ "overlap" \notin odd' => \A g \in Handler : work[g].pc = "idle"
      /\ "late" \notin odd' => ~(w[2] = "checkout" /\ at[w[1]] = "over")
  BY <1>1, TakenUpIs
<1>3. UNCHANGED <<tills, hand>>
  BY DEF TakesUp
<1>4. BillingTypeOK'
  BY <1>2, <1>3, BillingFrames, BillingTypesNext
<1>5. PageSpent'
  <2> SUFFICES ASSUME NEW s \in Sub
               PROVE  /\ page[s] = "none" => at[s] = "unborn"
                      /\ (page[s] # "none" /\ at[s] # "unborn" /\ <<s, "checkout">> \notin news') => row'.intro
    BY <1>3, Zenon DEF PageSpent, tills
  <2>1. CASE w = <<s, "checkout">>
    <3>1. w[2] = "checkout" /\ w[1] # InApp
      BY <2>1, BillingAssumption
    <3> QED BY <3>1 DEF PageSpent
  <2>2. CASE w # <<s, "checkout">>
    BY <1>2, <2>2, Zenon DEF PageSpent
  <2> QED BY <2>1, <2>2
<1>6. OneTrial'
  BY <1>2, <1>3, OneTrialFrame DEF tills
<1>7. News'
  <2>1. at[w[1]] # "unborn"
    BY <1>2, Zenon DEF News
  <2>2. \A v \in news' : at[v[1]] # "unborn"
    BY <1>2, Zenon DEF News
  <2>3. \A g \in Handler : work'[g].pc # "idle" => at[work'[g].of[1]] # "unborn"
    BY <1>2, <2>1, Zenon DEF News, Busy
  <2> QED BY <1>3, <2>2, <2>3, Zenon DEF News, Busy, tills
<1>8. Handled(w[1])'
  BY <1>2 DEF Handled, Busy
<1>9. \A q : Told(q) => Told(q)' \/ q = w[1]
  BY <1>2, Zenon DEF Told
<1>10. "overlap" \notin odd' => /\ "overlap" \notin odd /\ \A q : ~Handled(q)
                                /\ \A g \in Handler : g # h => work'[g].pc = "idle"
  BY <1>2 DEF Handled, Busy
<1>11. OneByOne'
  <2> SUFFICES ASSUME "overlap" \notin odd'
               PROVE  KnowsTrue(h)' /\ (row'.status = "active" =>
                                          Told(row.sub)' \/ Handled(row.sub)' \/ RowIsRight')
    BY <1>10, OneByOneStep
  <2>1. KnowsTrue(h)'
    BY <1>2 DEF KnowsTrue, Asked
  <2>2. ASSUME row'.status = "active"
        PROVE  Told(row.sub)' \/ Handled(row.sub)' \/ RowIsRight'
    <3>1. CASE row'.sub = w[1]
      BY <1>2, <3>1 DEF Handled, Busy
    <3>2. CASE row' = row /\ row.sub # w[1]
      <4>1. Told(row.sub) \/ RowIsRight
        BY <1>10, <2>2, <3>2 DEF OneByOne
      <4>2. Told(row.sub) => \E v \in news' : v[1] = row'.sub
        BY <1>2, <3>2, Zenon DEF Told
      <4>3. RowIsRight => RowIsRight'
        BY <1>3, <3>2, Zenon DEF RowIsRight, Open, tills
      <4> QED BY <4>1, <4>2, <4>3, Zenon DEF Told
    <3> QED BY <3>1, <3>2
  <2> QED BY <2>1, <2>2
<1>12. NothingOdd'
  <2> SUFFICES ASSUME odd' = {}
               PROVE  /\ row'.status # "comped"
                      /\ \A q \in Open :
                           /\ \A r \in Open : r = q
                           /\ KnowsPaid(h, q)'
                           /\ row'.status = "active" => row'.sub = q
                           /\ Told(q)' \/ Handled(q)' \/ row'.status = "active"
    BY <1>3, <1>10, NothingOddStep DEF tills
  <2>1. odd = {} /\ "late" \notin odd'
    BY <1>2
  <2>2. row.status # "comped" /\ row'.status = row.status
    BY <2>1 DEF NothingOdd
  <2>3. ASSUME NEW q \in Open
        PROVE  /\ \A r \in Open : r = q
               /\ KnowsPaid(h, q)'
               /\ row'.status = "active" => row'.sub = q
               /\ Told(q)' \/ Handled(q)' \/ row'.status = "active"
    <3>1. Paid(q)
      BY <2>1 DEF NothingOdd
    <3>2. KnowsPaid(h, q)'
      BY <1>2 DEF KnowsPaid, Asked
    <3>3. row'.status = "active" => row'.sub = q
      <4>1. CASE row' = row
        BY <3>1, <4>1 DEF Paid
      <4>2. CASE w[2] = "checkout" /\ row'.sub = w[1]
        <5>1. w[1] \in Purchase /\ at[w[1]] # "unborn" /\ at[w[1]] # "over"
          BY <1>2, <2>1, <4>2, WebhookIs DEF News
        <5>2. w[1] \in Open
          BY <1>1, <5>1 DEF Open, TillsOK
        <5> QED BY <3>1, <4>2, <5>2 DEF Paid
      <4> QED BY <4>1, <4>2
    <3>4. Told(q)' \/ Handled(q)' \/ row'.status = "active"
      <4>1. ~Handled(q)
        BY <1>2, <2>1 DEF Handled, Busy
      <4>2. Handled(q)' \/ q # w[1]
        BY <1>2 DEF Handled, Busy
      <4> QED BY <1>9, <2>2, <3>1, <4>1, <4>2 DEF Paid
    <3> QED BY <3>1, <3>2, <3>3, <3>4 DEF Paid
  <2> QED BY <2>2, <2>3
<1> QED BY <1>4, <1>5, <1>6, <1>7, <1>11, <1>12

LEMMA StripeWebhookInv ==
  ASSUME BInv, NEW h \in Handler, NEW w \in Webhook, StripeWebhook(h, w) PROVE BInv'
<1>1. RowOK /\ w[1] \in Purchase /\ w[2] \in {"change", "checkout"}
  BY BillingTypes, WebhookIs DEF BInv
<1>2. TakesUp(h, w) /\ IF w[2] = "checkout" THEN LinkStripe(w[1]) ELSE UNCHANGED row
  BY Zenon DEF StripeWebhook
<1>3. CASE w[2] = "checkout"
  <2>1. /\ RowOK' /\ row'.sub = w[1] /\ row'.intro = TRUE /\ row'.status = row.status
    BY <1>1, <1>2, <1>3, LinkStripeIs
  <2> QED BY <1>2, <1>3, <2>1, TakesUpInv
<1>4. CASE w[2] # "checkout"
  <2>1. row' = row /\ RowOK' /\ w[2] = "change"
    BY <1>1, <1>2, <1>4 DEF RowOK
  <2> QED BY <1>2, <2>1, TakesUpInv
<1> QED BY <1>3, <1>4

LEMMA StoreWebhookInv ==
  ASSUME BInv, NEW h \in Handler, NEW w \in Webhook, StoreWebhook(h, w) PROVE BInv'
<1>1. TakesUp(h, w) /\ w[1] = InApp /\ row' = row
  BY DEF StoreWebhook
<1>2. RowOK'
  BY <1>1, BillingTypes DEF BInv, RowOK
<1> QED BY <1>1, <1>2, TakesUpInv

-----------------------------------------------------------------------------
(* The steps of the customer, the tills and the owner.                     *)

\* The trial is offered on the first page of all, or there is none about.
LEMMA OpenCheckoutInv == ASSUME BInv, NEW s \in Sub, OpenCheckout(s) PROVE BInv'
<1> USE DEF BInv
<1>1. TillsOK /\ OddOK /\ RowOK
  BY BillingTypes
<1>2. /\ page[s] = "none" /\ page' = [page EXCEPT ![s] = IF row.intro THEN "plain" ELSE "trial"]
      /\ odd' = (IF PageAbout THEN odd \cup {"tabs"} ELSE odd)
      /\ UNCHANGED <<at, leaving, changes, news, row, work, hand>>
  BY DEF OpenCheckout
<1>3. /\ page' \in [Sub -> {"none", "trial", "plain"}]
      /\ page'[s] \in {"trial", "plain"} /\ (page'[s] = "trial" => ~row.intro)
      /\ \A t \in Sub : t # s => page'[t] = page[t]
  BY <1>1, <1>2 DEF TillsOK
<1>4. odd \subseteq odd' /\ OddOK' /\ ("tabs" \notin odd' => ~PageAbout /\ "tabs" \notin odd)
  BY <1>1, <1>2 DEF OddOK
<1>5. TillsOK'
  BY <1>1, <1>2, <1>3 DEF TillsOK
<1>6. BillingTypeOK'
  BY <1>2, <1>4, <1>5, BillingFrames, BillingTypesNext
<1>7. at[s] = "unborn"
  BY <1>2 DEF PageSpent
<1>8. PageSpent'
  <2> SUFFICES ASSUME NEW t \in Sub
               PROVE  /\ page'[t] = "none" => at[t] = "unborn"
                      /\ (page'[t] # "none" /\ at[t] # "unborn" /\ <<t, "checkout">> \notin news) => row.intro
    BY <1>2, Zenon DEF PageSpent
  <2> QED BY <1>3, <1>7, Zenon DEF PageSpent
<1>9. OneTrial'
  <2> SUFFICES ASSUME "tabs" \notin odd', NEW t \in Sub, NEW u \in Sub,
                      page'[t] = "trial", page'[u] = "trial"
               PROVE  t = u
    BY Zenon DEF OneTrial
  <2>1. ~PageAbout /\ "tabs" \notin odd
    BY <1>4
  <2>2. ASSUME NEW v \in Sub, v # s, page[v] = "trial", ~row.intro PROVE FALSE
    <3>1. at[v] # "unborn" /\ <<v, "checkout">> \notin news
      BY <2>1, <2>2 DEF PageAbout
    <3> QED BY <2>2, <3>1 DEF PageSpent
  <2>3. CASE t # s /\ u # s
    BY <1>3, <2>1, <2>3 DEF OneTrial
  <2>4. CASE t = s /\ u # s
    BY <1>3, <2>2, <2>4
  <2>5. CASE t # s /\ u = s
    BY <1>3, <2>2, <2>5
  <2> QED BY <2>3, <2>4, <2>5
<1>10. News' /\ OneByOne' /\ NothingOdd'
  BY <1>2, <1>4, NewsFrame, OneByOneFrame, NothingOddFrame
<1> QED BY <1>6, <1>8, <1>9, <1>10

\* A webhook that comes again brings nothing that is not asked for.
LEMMA RepeatInv == ASSUME BInv, NEW w \in Webhook, Repeat(w) PROVE BInv'
<1> USE DEF BInv
<1>1. /\ at[w[1]] # "unborn" /\ news' = news \cup {w}
      /\ UNCHANGED <<tills, row, work, hand, odd>>
  BY DEF Repeat
<1>2. NewsOK'
  BY <1>1, BillingTypes DEF NewsOK
<1>3. BillingTypeOK'
  BY <1>1, <1>2, BillingFrames, BillingTypesNext
<1>4. PageSpent' /\ OneTrial' /\ OneByOne' /\ NothingOdd'
  BY <1>1, PageSpentFrame, OneTrialFrame, OneByOneFrame, NothingOddFrame DEF tills
<1>5. News'
  BY <1>1, Zenon DEF News, Busy, tills
<1> QED BY <1>3, <1>4, <1>5

LEMMA LooksInv ==
  ASSUME BInv, NEW what \in {"give", "take", "clear"}, Looks(what) PROVE BInv'
<1> USE DEF BInv
<1>1. hand' = what /\ UNCHANGED <<tills, news, row, work, odd>>
  BY DEF Looks
<1>2. HandOK'
  BY <1>1 DEF HandOK
<1>3. BillingTypeOK'
  BY <1>1, <1>2, BillingFrames, BillingTypesNext
<1>4. PageSpent' /\ OneTrial' /\ OneByOne' /\ NothingOdd' /\ News'
  BY <1>1, PageSpentFrame, OneTrialFrame, OneByOneFrame, NothingOddFrame, NewsFrame DEF tills
<1> QED BY <1>3, <1>4

\* What is written by hand closes the account or opens it without a purchase.
LEMMA HandWritesInv == ASSUME BInv, HandWrites PROVE BInv'
<1> USE DEF BInv
<1>1. RowOK /\ OddOK
  BY BillingTypes
<1>2. /\ hand' = "nothing" /\ odd' = odd \cup {"hand"} /\ UNCHANGED <<tills, news, work>>
      /\ SetSubscription("comped", None) \/ SetSubscription("none", None)
  BY DEF HandWrites
<1>3. RowOK' /\ row'.status \in {"none", "comped"} /\ row'.intro = row.intro
  BY <1>1, <1>2, SetSubscriptionIs
<1>4. HandOK' /\ OddOK'
  BY <1>1, <1>2 DEF HandOK, OddOK
<1>5. BillingTypeOK'
  BY <1>2, <1>3, <1>4, BillingFrames, BillingTypesNext
<1>6. PageSpent' /\ OneTrial' /\ News'
  BY <1>2, <1>3, PageSpentFrame, OneTrialFrame, NewsFrame DEF tills
<1>7. OneByOne'
  <2> SUFFICES ASSUME "overlap" \notin odd'
               PROVE  /\ \A g, k \in Handler : work'[g].pc # "idle" /\ work'[k].pc # "idle" => g = k
                      /\ \A g \in Handler : KnowsTrue(g)'
                      /\ row'.status # "active"
    BY Zenon DEF OneByOne, Busy
  <2>1. "overlap" \notin odd
    BY <1>2
  <2>2. \A g, k \in Handler : work'[g].pc # "idle" /\ work'[k].pc # "idle" => g = k
    BY <1>2, <2>1, Zenon DEF OneByOne, Busy
  <2>3. \A q : Told(q) => Told(q)'
    BY <1>2, Zenon DEF Told
  <2>4. \A g \in Handler : KnowsTrue(g)'
    BY <1>2, <1>3, <2>1, <2>3 DEF OneByOne, KnowsTrue, Asked, Open, tills
  <2> QED BY <1>3, <2>2, <2>4
<1>8. NothingOdd'
  BY <1>2 DEF NothingOdd
<1> QED BY <1>5, <1>6, <1>7, <1>8

\* A purchase that changed is told about.
LEMMA OneByOneTold ==
  ASSUME OneByOne, NEW p, UNCHANGED <<row, work>>, news \subseteq news', odd \subseteq odd',
         Told(p)', \A q : q # p => (q \in Open' <=> q \in Open) /\ (q \in leaving' <=> q \in leaving)
  PROVE  OneByOne'
<1> SUFFICES ASSUME "overlap" \notin odd'
             PROVE  /\ \A g, h \in Handler : work[g].pc # "idle" /\ work[h].pc # "idle" => g = h
                    /\ \A h \in Handler : KnowsTrue(h)'
                    /\ row.status = "active" => Told(row.sub)' \/ Handled(row.sub)' \/ RowIsRight'
  BY Zenon DEF OneByOne, Busy
<1>1. "overlap" \notin odd
  BY Zenon
<1>2. \A q : Told(q) => Told(q)'
  BY Zenon DEF Told
<1>3. \A g, h \in Handler : work[g].pc # "idle" /\ work[h].pc # "idle" => g = h
  BY <1>1, Zenon DEF OneByOne, Busy
<1>4. ASSUME NEW h \in Handler PROVE KnowsTrue(h)'
  <2>1. PICK q : q = work[h].of[1]
    OBVIOUS
  <2>2. KnowsTrue(h)
    BY <1>1 DEF OneByOne
  <2>3. Asked(h) => Told(q)' \/ ((work[h].open <=> q \in Open') /\ (work[h].leaves <=> q \in leaving'))
    <3>1. CASE q = p
      BY <3>1
    <3>2. CASE q # p
      BY <1>2, <2>1, <2>2, <3>2 DEF KnowsTrue
    <3> QED BY <3>1, <3>2
  <2> QED BY <2>1, <2>2, <2>3 DEF KnowsTrue, Asked
<1>5. row.status = "active" => Told(row.sub)' \/ Handled(row.sub)' \/ RowIsRight'
  <2>1. Handled(row.sub) => Handled(row.sub)'
    BY Zenon DEF Handled, Busy
  <2>2. RowIsRight /\ row.sub # p => RowIsRight'
    BY DEF RowIsRight
  <2>3. row.sub = p \/ Told(row.sub) => Told(row.sub)'
    BY <1>2
  <2> QED BY <1>1, <2>1, <2>2, <2>3 DEF OneByOne
<1> QED BY <1>3, <1>4, <1>5

LEMMA BoughtInv ==
  ASSUME BInv, NEW p \in Purchase, NEW told \in SUBSET Webhook, Bought(p, told), at[p] # "open",
         <<p, "change">> \in told, \A w \in told : w[1] = p,
         p \in Sub => page[p] # "none" /\ <<p, "checkout">> \in told
  PROVE  BInv'
<1> USE DEF BInv
<1>1. TillsOK /\ OddOK /\ NewsOK
  BY BillingTypes
<1>2. /\ changes < MaxChanges /\ changes' = changes + 1
      /\ at' = [at EXCEPT ![p] = "open"] /\ news' = news \cup told
      /\ odd' = (IF Quiet /\ Open = {} /\ ~Active(row) THEN odd ELSE odd \cup {"twice"})
      /\ UNCHANGED <<leaving, page, row, work, hand>>
  BY DEF Bought
<1>3. /\ at' \in [Purchase -> {"unborn", "open", "over"}] /\ at'[p] = "open"
      /\ \A q \in Purchase : q # p => at'[q] = at[q]
  BY <1>1, <1>2 DEF TillsOK
<1>4. TillsOK'
  <2>1. changes' \in 0 .. MaxChanges
    BY <1>1, <1>2, BillingAssumption DEF TillsOK
  <2>2. leaving' \subseteq {q \in Purchase : at'[q] = "open"}
    BY <1>1, <1>2, <1>3 DEF TillsOK
  <2> QED BY <1>1, <1>2, <1>3, <2>1, <2>2 DEF TillsOK
<1>5. OddOK' /\ odd \subseteq odd' /\ NewsOK'
  BY <1>1, <1>2 DEF OddOK, NewsOK
<1>6. BillingTypeOK'
  BY <1>2, <1>4, <1>5, BillingFrames, BillingTypesNext
<1>7. PageSpent'
  <2> SUFFICES ASSUME NEW s \in Sub
               PROVE  /\ page[s] = "none" => at'[s] = "unborn"
                      /\ (page[s] # "none" /\ at'[s] # "unborn" /\ <<s, "checkout">> \notin news') => row.intro
    BY <1>2, Zenon DEF PageSpent
  <2>1. CASE s = p
    BY <1>2, <2>1
  <2>2. CASE s # p
    <3>1. s \in Purchase /\ at'[s] = at[s]
      BY <1>3, <2>2 DEF Purchase
    <3> QED BY <1>2, <3>1 DEF PageSpent
  <2> QED BY <2>1, <2>2
<1>8. OneTrial'
  BY <1>2, <1>5, OneTrialFrame
<1>9. News'
  <2>1. \A w \in news' : at'[w[1]] # "unborn"
    <3> SUFFICES ASSUME NEW w \in news' PROVE at'[w[1]] # "unborn"
      OBVIOUS
    <3>1. CASE w[1] = p
      BY <1>3, <3>1
    <3>2. CASE w[1] # p
      BY <1>1, <1>2, <1>3, <3>2, WebhookIs DEF News, NewsOK
    <3> QED BY <3>1, <3>2
  <2>2. ASSUME NEW h \in Handler, work[h].pc # "idle" PROVE at'[work[h].of[1]] # "unborn"
    <3>1. work[h].of[1] \in Purchase /\ at[work[h].of[1]] # "unborn"
      BY <2>2, BillingTypes, WebhookIs DEF WorkOK, Work, News, Busy
    <3> QED BY <1>3, <3>1
  <2> QED BY <1>2, <2>1, <2>2, Zenon DEF News, Busy
<1>10. Told(p)'
  <2>1. <<p, "change">> \in news' /\ <<p, "change">>[1] = p
    BY <1>2
  <2> QED BY <2>1 DEF Told
<1>11. OneByOne'
  <2>1. \A q : q # p => (q \in Open' <=> q \in Open) /\ (q \in leaving' <=> q \in leaving)
    BY <1>2, <1>3 DEF Open
  <2> QED BY <1>2, <1>5, <1>10, <2>1, OneByOneTold
<1>12. NothingOdd'
  <2> SUFFICES ASSUME odd' = {} PROVE row.status # "comped" /\ \A q \in Open' : Paid(q)'
    BY <1>2, Zenon DEF NothingOdd
  <2>1. odd = {} /\ Quiet /\ Open = {} /\ ~Active(row)
    BY <1>2
  <2>2. Open' = {p}
    BY <1>3, <2>1 DEF Open
  <2>3. \A h \in Handler : KnowsPaid(h, p)'
    BY <1>2, <2>1 DEF Quiet, KnowsPaid, Asked
  <2>4. row.status \notin {"active", "comped"}
    BY <2>1 DEF Active
  <2>5. Paid(p)'
    BY <1>2, <1>10, <2>2, <2>3, <2>4 DEF Paid
  <2> QED BY <2>2, <2>4, <2>5
<1> QED BY <1>6, <1>7, <1>8, <1>9, <1>11, <1>12

LEMMA PayInv == ASSUME BInv, NEW s \in Sub, Pay(s) PROVE BInv'
<1> DEFINE told == {<<s, "checkout">>, <<s, "change">>}
<1>1. at[s] = "unborn" /\ page[s] # "none" /\ Bought(s, told)
  BY DEF Pay
<1>2. told \in SUBSET Webhook /\ s \in Purchase
  BY DEF Webhook, Purchase
<1>3. <<s, "change">> \in told /\ <<s, "checkout">> \in told /\ \A w \in told : w[1] = s
  OBVIOUS
<1> HIDE DEF told
<1> QED BY <1>1, <1>2, <1>3, BoughtInv

LEMMA BuyInAppInv == ASSUME BInv, BuyInApp PROVE BInv'
<1> DEFINE told == {<<InApp, "change">>}
<1>1. at[InApp] # "open" /\ Bought(InApp, told)
  BY DEF BuyInApp
<1>2. told \in SUBSET Webhook /\ InApp \in Purchase /\ InApp \notin Sub
  BY BillingAssumption DEF Webhook, Purchase
<1>3. <<InApp, "change">> \in told /\ \A w \in told : w[1] = InApp
  OBVIOUS
<1> HIDE DEF told
<1> QED BY <1>1, <1>2, <1>3, BoughtInv

LEMMA ChangesInv == ASSUME BInv, NEW p \in Purchase, Changes(p) PROVE BInv'
<1> USE DEF BInv
<1>1. TillsOK /\ OddOK /\ NewsOK
  BY BillingTypes
<1>2. /\ at[p] = "open" /\ changes < MaxChanges /\ changes' = changes + 1
      /\ \/ /\ leaving' = (leaving \cup {p}) \ (leaving \cap {p})
            /\ UNCHANGED at
         \/ at' = [at EXCEPT ![p] = "over"] /\ leaving' = leaving \ {p}
      /\ news' = news \cup {<<p, "change">>}
      /\ UNCHANGED <<page, row, work, hand, odd>>
  BY DEF Changes
<1>3. /\ at' \in [Purchase -> {"unborn", "open", "over"}] /\ at'[p] # "unborn"
      /\ \A q \in Purchase : q # p => at'[q] = at[q]
      /\ leaving' \subseteq {q \in Purchase : at'[q] = "open"}
      /\ \A q : q # p => (q \in leaving' <=> q \in leaving)
  <2>1. CASE /\ leaving' = (leaving \cup {p}) \ (leaving \cap {p})
             /\ UNCHANGED at
    BY <1>1, <1>2, <2>1 DEF TillsOK
  <2>2. CASE at' = [at EXCEPT ![p] = "over"] /\ leaving' = leaving \ {p}
    BY <1>1, <1>2, <2>2 DEF TillsOK
  <2> QED BY <1>2, <2>1, <2>2
<1>4. TillsOK'
  <2>1. changes' \in 0 .. MaxChanges
    BY <1>1, <1>2, BillingAssumption DEF TillsOK
  <2> QED BY <1>1, <1>2, <1>3, <2>1 DEF TillsOK
<1>5. NewsOK'
  BY <1>1, <1>2 DEF NewsOK, Webhook
<1>6. BillingTypeOK'
  BY <1>2, <1>4, <1>5, BillingFrames, BillingTypesNext
<1>7. \A q \in Purchase : at'[q] = "unborn" <=> at[q] = "unborn"
  BY <1>2, <1>3
<1>8. PageSpent'
  <2> SUFFICES ASSUME NEW s \in Sub
               PROVE  /\ page[s] = "none" => at'[s] = "unborn"
                      /\ (page[s] # "none" /\ at'[s] # "unborn" /\ <<s, "checkout">> \notin news') => row.intro
    BY <1>2, Zenon DEF PageSpent
  <2>1. s \in Purchase
    BY DEF Purchase
  <2> QED BY <1>2, <1>7, <2>1 DEF PageSpent
<1>9. OneTrial'
  BY <1>2, OneTrialFrame
<1>10. News'
  <2>1. ASSUME NEW w \in news' PROVE at'[w[1]] # "unborn"
    <3>1. CASE w \in news
      BY <1>1, <1>7, <3>1, WebhookIs DEF News, NewsOK
    <3>2. CASE w = <<p, "change">>
      BY <1>3, <3>2
    <3> QED BY <1>2, <3>1, <3>2
  <2>2. ASSUME NEW h \in Handler, work[h].pc # "idle" PROVE at'[work[h].of[1]] # "unborn"
    <3>1. work[h].of[1] \in Purchase /\ at[work[h].of[1]] # "unborn"
      BY <2>2, BillingTypes, WebhookIs DEF WorkOK, Work, News, Busy
    <3> QED BY <1>7, <3>1
  <2> QED BY <1>2, <2>1, <2>2, Zenon DEF News, Busy
<1>11. Told(p)'
  <2>1. <<p, "change">> \in news' /\ <<p, "change">>[1] = p
    BY <1>2
  <2> QED BY <2>1 DEF Told
<1>12. OneByOne'
  <2>1. \A q : q # p => (q \in Open' <=> q \in Open) /\ (q \in leaving' <=> q \in leaving)
    BY <1>3 DEF Open
  <2> QED BY <1>2, <1>11, <2>1, OneByOneTold
<1>13. NothingOdd'
  <2> SUFFICES ASSUME odd = {}, NEW q \in Open' PROVE row.status # "comped" /\ Paid(q)'
    BY <1>2 DEF NothingOdd
  <2>1. Open' \subseteq Open
    BY <1>2, <1>3 DEF Open
  <2>2. Paid(q)
    BY <2>1 DEF NothingOdd
  <2>3. Told(q) => Told(q)'
    BY <1>2, Zenon DEF Told
  <2>4. Handled(q) => Handled(q)'
    BY <1>2, Zenon DEF Handled, Busy
  <2>5. \A h \in Handler : KnowsPaid(h, q)'
    BY <1>2, <2>2, <2>3 DEF Paid, KnowsPaid, Asked
  <2> QED BY <1>2, <2>1, <2>2, <2>3, <2>4, <2>5 DEF NothingOdd, Paid
<1> QED BY <1>6, <1>8, <1>9, <1>10, <1>12, <1>13

-----------------------------------------------------------------------------

LEMMA BillingInitInv == Init => BInv
<1> SUFFICES ASSUME Init PROVE BInv
  OBVIOUS
<1>1. <<InApp, "change">> \in Webhook
  BY DEF Webhook, Purchase
<1>2. Resting \in Work /\ Resting.pc = "idle"
  BY <1>1 DEF Resting, Work
<1>3. RowOK /\ row.status = "none"
  BY DEF Init, RowOK, Row, Blank
<1>4. WorkOK /\ \A h \in Handler : work[h].pc = "idle"
  BY <1>2 DEF Init, WorkOK
<1>5. TillsOK /\ NewsOK /\ HandOK /\ OddOK
  BY BillingAssumption DEF Init, TillsOK, NewsOK, HandOK, OddOK
<1>6. BillingTypeOK
  BY <1>3, <1>4, <1>5, BillingTypes
<1>7. PageSpent /\ OneTrial
  BY DEF Init, PageSpent, OneTrial, Purchase
<1>8. News
  BY <1>4 DEF Init, News, Busy
<1>9. OneByOne
  BY <1>3, <1>4 DEF OneByOne, Busy, KnowsTrue, Asked
<1>10. NothingOdd
  BY <1>3 DEF Init, NothingOdd, Open
<1> QED BY <1>6, <1>7, <1>8, <1>9, <1>10 DEF BInv

LEMMA BillingStutterInv == ASSUME BInv, UNCHANGED vars PROVE BInv'
<1>1. UNCHANGED <<tills, news, row, work, hand, odd>>
  BY DEF vars
<1>2. BillingTypeOK'
  BY <1>1, BillingFrames, BillingTypesNext DEF BInv
<1> QED BY <1>1, <1>2, PageSpentFrame, OneTrialFrame, NewsFrame, OneByOneFrame, NothingOddFrame
        DEF BInv, tills

LEMMA BillingNextInv == BInv /\ [Next]_vars => BInv'
<1> SUFFICES ASSUME BInv, [Next]_vars PROVE BInv'
  OBVIOUS
<1>1. CASE \E s \in Sub : OpenCheckout(s) \/ Pay(s)
  BY <1>1, OpenCheckoutInv, PayInv
<1>2. CASE BuyInApp
  BY <1>2, BuyInAppInv
<1>3. CASE \E p \in Purchase : Changes(p)
  BY <1>3, ChangesInv
<1>4. CASE \E w \in Webhook :
             Repeat(w) \/ \E h \in Handler : StripeWebhook(h, w) \/ StoreWebhook(h, w)
  BY <1>4, RepeatInv, StripeWebhookInv, StoreWebhookInv
<1>5. CASE \E h \in Handler : AskStripe(h) \/ AskStore(h)
  <2>1. PICK h \in Handler : AskStripe(h) \/ AskStore(h)
    BY <1>5
  <2>2. \E p \in Purchase : Asks(h, p)
    BY <2>1 DEF AskStripe, AskStore, Purchase
  <2> QED BY <2>2, AsksInv
<1>6. CASE \E h \in Handler : \/ Read(h) \/ Link(h) \/ SetActive(h) \/ NoteEnding(h)
                              \/ Close(h) \/ Fails(h)
  BY <1>6, ReadInv, LinkInv, SetActiveInv, NoteEndingInv, CloseInv, FailsInv
<1>7. CASE Comps \/ ClearsSubscription
  BY <1>7, LooksInv DEF Comps, ClearsSubscription
<1>8. CASE HandWrites
  BY <1>8, HandWritesInv
<1>9. CASE UNCHANGED vars
  BY <1>9, BillingStutterInv
<1> QED BY <1>1, <1>2, <1>3, <1>4, <1>5, <1>6, <1>7, <1>8, <1>9, Zenon DEF Next

\* Whatever comes late, twice, out of order or not at all, and whatever fails:
\* what a handler knows is so or will be heard of again (OneByOne, NothingOdd).
THEOREM BillingInvariance == Spec => []BInv
  BY BillingInitInv, BillingNextInv, PTL DEF Spec

\* The account's columns, the tills and the handlers are what they are said to be.
THEOREM BillingTypeCorrect == Spec => []BillingTypeOK
<1>1. BInv => BillingTypeOK
  BY DEF BInv
<1> QED BY <1>1, BillingInvariance, PTL

\* No account stays open on a purchase that has ended (syncSubscription,
\* syncStore), for any number of subscriptions, handlers and changes.
THEOREM NobodyRidesFree == Spec => []NoFreeRide
<1>1. BInv => NoFreeRide
  <2> SUFFICES ASSUME BInv, Quiet, "overlap" \notin odd, row.status = "active"
               PROVE  row.sub \in Open /\ (row.ends <=> row.sub \in leaving)
    BY DEF NoFreeRide
  <2>1. Told(row.sub) \/ Handled(row.sub) \/ RowIsRight
    BY DEF BInv, OneByOne
  <2>2. ~Told(row.sub) /\ ~Handled(row.sub)
    BY DEF Quiet, Told, Handled, Busy
  <2> QED BY <2>1, <2>2 DEF RowIsRight
<1> QED BY <1>1, BillingInvariance, PTL

\* Whoever pays is let in (syncSubscription, storebilling.go).
THEOREM WhoPaysIsLetIn == Spec => []PaidIsOpen
<1>1. BInv => PaidIsOpen
  <2> SUFFICES ASSUME BInv, Quiet, odd = {}, NEW p \in Open PROVE row.status = "active"
    BY DEF PaidIsOpen
  <2>1. Told(p) \/ Handled(p) \/ row.status = "active"
    BY DEF BInv, NothingOdd, Paid
  <2>2. ~Told(p) /\ ~Handled(p)
    BY DEF Quiet, Told, Handled, Busy
  <2> QED BY <2>1, <2>2
<1> QED BY <1>1, BillingInvariance, PTL

\* The free trial is had once (handleCheckout), through any number of pages.
THEOREM OneTrialEver == Spec => []TrialOnce
<1>1. BInv => TrialOnce
  <2> SUFFICES ASSUME BInv, "tabs" \notin odd
               PROVE  Cardinality({s \in Sub : page[s] = "trial" /\ at[s] # "unborn"}) <= 1
    BY DEF TrialOnce
  <2> DEFINE had == {s \in Sub : page[s] = "trial" /\ at[s] # "unborn"}
  <2>1. \A s, t \in had : s = t
    BY DEF BInv, OneTrial
  <2>2. CASE had = {}
    BY <2>2, FS_EmptySet
  <2>3. CASE had # {}
    <3>1. PICK s \in had : TRUE
      BY <2>3
    <3>2. had = {s}
      BY <2>1, <3>1
    <3> QED BY <3>2, FS_Singleton
  <2> QED BY <2>2, <2>3
<1> QED BY <1>1, BillingInvariance, PTL

=============================================================================
