------------------------------ MODULE Referral -------------------------------
(***************************************************************************)
(* A month for whoever brings a mate (internal/relay/referral.go, and the  *)
(* columns of internal/store/referral.go).                                 *)
(*                                                                         *)
(* One account has sent some mates.  A mate who pays and has a PC earns it *)
(* a month, three in all; a banked month is handed to Stripe, which holds  *)
(* one discount per subscription and uses it up on the next invoice.       *)
(* Whoever notices does the work: the webhook that copies a payment, the   *)
(* pairing of a PC, the webhook of a renewal.  They run at once, read      *)
(* before they write, and any step may fail, which loses the rest of it.   *)
(***************************************************************************)
EXTENDS Naturals, FiniteSets

CONSTANTS
  Mate,        \* accounts with referred_by set to this one
  Worker,      \* handlers that may be at it at once
  MaxRewards   \* MaxReferralRewards, 3 in the code

ASSUME ReferralAssumption == IsFiniteSet(Mate) /\ IsFiniteSet(Worker) /\ MaxRewards \in Nat

VARIABLES
  ready,       \* mates whose own subscription is active, not given, and a PC linked
  rewarded,    \* referral_rewarded of the mates
  credits,     \* referral_credits
  earned,      \* referral_earned
  discount,    \* Stripe: a discount waits on the account's subscription
  step, mate,  \* per worker: the statement it is at, whom it is about
  spent,       \* history: months taken off the bank
  given,       \* history: discounts Stripe was told to put on
  lost,        \* history: those that replaced one still waiting
  together     \* history: two months were being handed out at once

bank == <<rewarded, credits, earned, spent>>
stripe == <<discount, given, lost, together>>
work == <<step, mate>>
refVars == <<ready, bank, stripe, work>>

RefTypeOK ==
  /\ ready \subseteq Mate /\ rewarded \subseteq Mate
  /\ credits \in Nat /\ earned \in Nat /\ spent \in Nat
  /\ given \in Nat /\ lost \in Nat
  /\ discount \in BOOLEAN /\ together \in BOOLEAN
  /\ step \in [Worker -> {"idle", "award", "bank", "ask", "spend", "apply"}]
  /\ mate \in [Worker -> Mate]

RefInit ==
  /\ ready = {} /\ rewarded = {}
  /\ credits = 0 /\ earned = 0 /\ spent = 0 /\ given = 0 /\ lost = 0
  /\ discount = FALSE /\ together = FALSE
  /\ step = [w \in Worker |-> "idle"] /\ mate \in [Worker -> Mate]

Turns(w, to) == step' = [step EXCEPT ![w] = to]

\* Ends at any statement: an answer that does not come, the relay stopping.
GivesUp(w) ==
  /\ step[w] # "idle" /\ Turns(w, "idle")
  /\ UNCHANGED <<ready, bank, stripe, mate>>

-----------------------------------------------------------------------------
(* What the mates do, and the calendar.                                    *)

\* Pays or stops, links a PC or unlinks it.
MateChanges(m) ==
  /\ ready' = (ready \cup {m}) \ (ready \cap {m})
  /\ UNCHANGED <<bank, stripe, work>>

Invoice ==
  /\ discount /\ discount' = FALSE
  /\ UNCHANGED <<ready, bank, given, lost, together, work>>

-----------------------------------------------------------------------------
(* maybeAwardReferral.                                                     *)

\* A payment or a pairing of this mate: the three looks, none of which is
\* looked at again.
Notice(w, m) ==
  /\ step[w] = "idle" /\ m \in ready \ rewarded
  /\ Turns(w, "award") /\ mate' = [mate EXCEPT ![w] = m]
  /\ UNCHANGED <<ready, bank, stripe>>

\* Mutant: the mate is marked where the look is, not in the transaction.
AwardUnmarked(w) ==
  /\ step[w] = "award"
  /\ rewarded' = rewarded \cup {mate[w]}
  /\ IF earned >= MaxRewards THEN Turns(w, "idle") /\ UNCHANGED <<credits, earned>>
     ELSE Turns(w, "bank") /\ credits' = credits + 1 /\ earned' = earned + 1
  /\ UNCHANGED <<ready, spent, stripe, mate>>

\* AwardReferral, one transaction.  At the cap the mate is marked all the same.
Award(w) ==
  /\ step[w] = "award"
  /\ rewarded' = rewarded \cup {mate[w]}
  /\ IF mate[w] \in rewarded \/ earned >= MaxRewards
     THEN Turns(w, "idle") /\ UNCHANGED <<credits, earned>>
     ELSE Turns(w, "bank") /\ credits' = credits + 1 /\ earned' = earned + 1
  /\ UNCHANGED <<ready, spent, stripe, mate>>

-----------------------------------------------------------------------------
(* applyReferralCredits.                                                   *)

\* A renewal of the account's own subscription begins here.
Renewal(w) ==
  /\ step[w] = "idle" /\ Turns(w, "bank")
  /\ UNCHANGED <<ready, bank, stripe, mate>>

LookInBank(w) ==
  /\ step[w] = "bank"
  /\ Turns(w, IF credits > 0 THEN "ask" ELSE "idle")
  /\ UNCHANGED <<ready, bank, stripe, mate>>

\* Mutant: a discount that is waiting is not looked for.
AskStripeNothing(w) ==
  /\ step[w] = "ask" /\ Turns(w, "spend")
  /\ together' = (together \/ (\E v \in Worker : step[v] \in {"spend", "apply"}))
  /\ UNCHANGED <<ready, bank, discount, given, lost, mate>>

AskStripe(w) ==
  /\ step[w] = "ask" /\ Turns(w, IF discount THEN "idle" ELSE "spend")
  /\ together' = (together \/ (~discount /\ \E v \in Worker : step[v] \in {"spend", "apply"}))
  /\ UNCHANGED <<ready, bank, discount, given, lost, mate>>

\* SpendReferralCredit, a conditional UPDATE, before Stripe is told.
Spend(w) ==
  /\ step[w] = "spend"
  /\ IF credits > 0 THEN Turns(w, "apply") /\ credits' = credits - 1 /\ spent' = spent + 1
     ELSE Turns(w, "idle") /\ UNCHANGED <<credits, spent>>
  /\ UNCHANGED <<ready, rewarded, earned, stripe, mate>>

\* ApplyCoupon replaces whatever discount is there.
ApplyCoupon(w) ==
  /\ step[w] = "apply" /\ Turns(w, "idle")
  /\ discount' = TRUE /\ given' = given + 1
  /\ lost' = IF discount THEN lost + 1 ELSE lost
  /\ UNCHANGED <<ready, bank, together, mate>>

RefStep(w) ==
  \/ \E m \in Mate : Notice(w, m)
  \/ Award(w) \/ Renewal(w) \/ LookInBank(w) \/ AskStripe(w) \/ Spend(w)
  \/ ApplyCoupon(w) \/ GivesUp(w)

RefNext ==
  \/ \E m \in Mate : MateChanges(m)
  \/ Invoice
  \/ \E w \in Worker : RefStep(w)

RefSpec == RefInit /\ [][RefNext]_refVars

-----------------------------------------------------------------------------
(* What the bank owes.                                                     *)

\* No month is made out of nothing: however many webhooks and pairings run at
\* once, and wherever they fail, Stripe is told of no more months than were
\* taken off the bank, what was taken and what is banked is what was earned,
\* and no more is earned than mates were marked, nor than the cap ("so a retry
\* cannot pay twice", AwardReferral; "cannot give two months away",
\* SpendReferralCredit).
MonthsAreEarned ==
  /\ given <= spent /\ credits + spent = earned
  /\ earned <= MaxRewards /\ earned <= Cardinality(rewarded)

\* A month is put over another that still waits only if two handlers were
\* handing one out at the same time: the look at HasDiscount is "the only
\* thing standing between" (internal/stripe/stripe.go).
MonthIsNotWasted == lost > 0 => together

=============================================================================
