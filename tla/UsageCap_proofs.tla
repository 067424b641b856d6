--------------------------- MODULE UsageCap_proofs ---------------------------
(***************************************************************************)
(* Proofs about UsageCap, for any number of calls, any prices and any       *)
(* limits: the rows of the usage page can be read, and a reported cost      *)
(* stays within the bound that was reserved for it.                         *)
(***************************************************************************)
EXTENDS UsageCap, TLAPS

CallSet == [pc : CallPcs, provider : Providers \cup {None}, consent : 0 .. MaxConsent,
            estimate : Estimates \cup {None}, report : Counts \cup {None}]
Priced == [provider : Providers, price : Prices \cup {None}]
Facts == [source : {"Reported", "Unknown"}, counts : Counts \cup {None}]
Claimed == {"claimed", "sent", "unsent", "settling"}

(* No row, of a table or still to be stored, is mistaken for the absence of  *)
(* one.                                                                     *)
Unstored == [bound : 0 .. MaxI64, day : 0 .. MaxDay, amount : Nat \cup {None},
             state : {"Reserved", "CommittedReported", "CommittedUnknown"}]
NoneIsNoRow == None \notin Counts \cup Prices \cup Priced \cup Facts \cup Unstored

LEMMA ReservationForms ==
    ASSUME UsageCapAssumption, NoneIsNoRow
    PROVE  Reservations \subseteq Unstored /\ None \notin Reservations
<1>1. 0 .. MaxI64 \subseteq Nat
  BY DEF UsageCapAssumption
<1>2. Reservations \subseteq Unstored
  BY <1>1 DEF Reservations, Unstored
<1> QED
  BY <1>2 DEF NoneIsNoRow

(* A call that is admitted or claimed carries the route and the estimate it *)
(* was admitted for; what was reported about it is consistent, and within   *)
(* the request's bounds when the provider keeps to them.                    *)
Carried(c) ==
    /\ calls[c].pc \in Claimed \cup {"admitted"} =>
          calls[c].estimate \in Estimates /\ calls[c].provider \in Providers
    /\ calls[c].report # None =>
          /\ calls[c].pc = "settling"
          /\ calls[c].report.cached <= calls[c].report.input
          /\ Honest => WithinBounds(calls[c].estimate, calls[c].report)

(* A claimed call has its attempt and no fact, and what was reserved for it  *)
(* is open and is the bound of its estimate.                                *)
Accounted(c) ==
    calls[c].pc \in Claimed =>
        /\ attempts[c] # None /\ facts[c] = None
        /\ reservations[c] # None =>
              /\ reservations[c].state = "Reserved"
              /\ reservations[c].bound =
                    UpperBound(attempts[c].price, calls[c].estimate)

(* What has no attempt has no other row.                                    *)
Rowless(c) == attempts[c] = None => facts[c] = None /\ reservations[c] = None

(* Before the host serves again nothing is under way.                       *)
StartsQuiet == host = "starting" => \A c \in Calls : calls[c].pc \in {"new", "done"}

(* The inductive invariant.                                                 *)
UsageInv ==
    /\ UsageSafe
    /\ \A c \in Calls : Carried(c) /\ Accounted(c) /\ Rowless(c)
    /\ StartsQuiet
    /\ Honest => BoundCovers

-----------------------------------------------------------------------------
(* Money: what is rounded up once for each component stays below what is     *)
(* rounded up for the whole and allows one more for the second rounding.     *)
Ceil(x) == (x + Denominator - 1) \div Denominator

LEMMA ProductsGrow ==
    ASSUME NEW a \in Nat, NEW b \in Nat, NEW k \in Nat, a <= b
    PROVE  /\ a * k \in Nat /\ b * k \in Nat /\ a * k <= b * k
           /\ k * a \in Nat /\ k * b \in Nat /\ k * a <= k * b
  BY SMT

LEMMA RoundedUp ==
    ASSUME UsageCapAssumption, NEW x \in Nat
    PROVE  /\ Ceil(x) \in Nat
           /\ x <= Denominator * Ceil(x)
           /\ Denominator * Ceil(x) < x + Denominator
  BY SMT DEF Ceil, UsageCapAssumption

LEMMA Divided ==
    ASSUME NEW d \in Nat \ {0}, NEW a \in Int, NEW b \in Int, d * a < d * b + d
    PROVE  a <= b
  BY SMT

LEMMA CeilGrows ==
    ASSUME UsageCapAssumption, NEW x \in Nat, NEW y \in Nat, x <= y
    PROVE  Ceil(x) <= Ceil(y)
<1>1. /\ Denominator \in Nat \ {0}
      /\ Ceil(x) \in Nat /\ Ceil(y) \in Nat
      /\ Denominator * Ceil(x) < x + Denominator /\ y <= Denominator * Ceil(y)
  BY RoundedUp DEF UsageCapAssumption
<1>2. Denominator * Ceil(x) \in Nat /\ Denominator * Ceil(y) \in Nat
  BY <1>1
<1>3. Denominator * Ceil(x) < Denominator * Ceil(y) + Denominator
  BY <1>1, <1>2
<1> QED
  BY <1>1, <1>3, Divided

LEMMA CeilOfParts ==
    ASSUME UsageCapAssumption, NEW x \in Nat, NEW y \in Nat
    PROVE  Ceil(x) + Ceil(y) <= Ceil(x + y) + 1
<1> DEFINE D == Denominator
<1>1. /\ D \in Nat \ {0} /\ Ceil(x) \in Nat /\ Ceil(y) \in Nat /\ Ceil(x + y) \in Nat
      /\ D * Ceil(x) < x + D /\ D * Ceil(y) < y + D /\ x + y <= D * Ceil(x + y)
  BY RoundedUp DEF UsageCapAssumption
<1>2. /\ D * Ceil(x) \in Nat /\ D * Ceil(y) \in Nat /\ D * Ceil(x + y) \in Nat
      /\ D * (Ceil(x) + Ceil(y)) = D * Ceil(x) + D * Ceil(y)
      /\ D * (Ceil(x + y) + 1) = D * Ceil(x + y) + D
  BY <1>1
<1>3. D * (Ceil(x) + Ceil(y)) < D * (Ceil(x + y) + 1) + D
  BY <1>1, <1>2
<1> HIDE DEF D
<1> QED
  BY <1>1, <1>3, Divided

LEMMA CostOfToken ==
    ASSUME UsageCapAssumption, NEW rate \in Nat, NEW tokens \in Nat
    PROVE  /\ rate * tokens \in Nat
           /\ TokenCost(rate, tokens) = IF Ceil(rate * tokens) > MaxU64 THEN None
                                        ELSE Ceil(rate * tokens)
           /\ TokenCost(rate, tokens) \in Nat \cup {None}
<1>1. rate * tokens \in Nat
  BY ProductsGrow
<1>2. Ceil(rate * tokens) \in Nat
  BY <1>1, RoundedUp
<1> QED
  BY <1>1, <1>2 DEF TokenCost, Ceil

LEMMA TotalOfThree ==
    ASSUME UsageCapAssumption, NEW a \in Nat \cup {None}, NEW b \in Nat \cup {None},
           NEW c \in Nat \cup {None}
    PROVE  /\ Total(<<a, b, c>>) \in Nat \cup {None}
           /\ Total(<<a, b, c>>) # None =>
                 /\ a \in Nat /\ b \in Nat /\ c \in Nat
                 /\ Total(<<a, b, c>>) = a + b + c
  BY DEF Total, UsageCapAssumption

LEMMA Amounts ==
    ASSUME UsageCapAssumption
    PROVE  /\ \A price \in Prices :
                 price.input \in Nat /\ price.cached \in Nat /\ price.output \in Nat
           /\ \A estimate \in Estimates : estimate.input \in Nat /\ estimate.output \in Nat
           /\ \A counts \in Counts :
                 counts.input \in Nat /\ counts.cached \in Nat /\ counts.output \in Nat
<1>1. Rates \subseteq Nat /\ 0 .. MaxTokens \subseteq Nat /\ 1 .. MaxTokens \subseteq Nat
  BY DEF UsageCapAssumption
<1>2. \A price \in Prices :
          price.input \in Rates /\ price.cached \in Rates /\ price.output \in Rates
  BY DEF Prices
<1>3. \A estimate \in Estimates :
          estimate.input \in 1 .. MaxTokens /\ estimate.output \in 1 .. MaxTokens
  BY DEF Estimates
<1>4. \A counts \in Counts :
          /\ counts.input \in 0 .. MaxTokens /\ counts.cached \in 0 .. MaxTokens
          /\ counts.output \in 0 .. MaxTokens
  BY DEF Counts
<1> QED
  BY <1>1, <1>2, <1>3, <1>4

LEMMA ReportedTyped ==
    ASSUME UsageCapAssumption, NEW price \in Prices, NEW counts \in Counts,
           counts.cached <= counts.input
    PROVE  ReportedCost(price, counts) \in Nat \cup {None}
<1>1. /\ price.input \in Nat /\ price.cached \in Nat /\ price.output \in Nat
      /\ counts.input \in Nat /\ counts.cached \in Nat /\ counts.output \in Nat
  BY Amounts
<1>2. counts.input - counts.cached \in Nat
  BY <1>1
<1> QED
  BY <1>1, <1>2, CostOfToken, TotalOfThree DEF ReportedCost

LEMMA BoundTyped ==
    ASSUME UsageCapAssumption, NEW price \in Prices, NEW estimate \in Estimates
    PROVE  UpperBound(price, estimate) \in Nat \cup {None}
<1> DEFINE rate == IF price.input >= price.cached THEN price.input ELSE price.cached
<1>1. rate \in Nat /\ price.output \in Nat /\ estimate.input \in Nat /\ estimate.output \in Nat
  BY Amounts
<1>2. UpperBound(price, estimate) =
          Total(<<TokenCost(rate, estimate.input), 1, TokenCost(price.output, estimate.output)>>)
  BY DEF UpperBound
<1> HIDE DEF rate
<1>3. /\ TokenCost(rate, estimate.input) \in Nat \cup {None}
      /\ TokenCost(price.output, estimate.output) \in Nat \cup {None}
  BY <1>1, CostOfToken
<1> QED
  BY <1>2, <1>3, TotalOfThree

(* What is reported within the bounds of a request costs at most the bound   *)
(* that was reserved for it (UsageEstimate::upper_bound_cost).               *)
LEMMA BoundCoversReport ==
    ASSUME UsageCapAssumption, NEW price \in Prices, NEW estimate \in Estimates,
           NEW counts \in Counts, counts.cached <= counts.input,
           WithinBounds(estimate, counts),
           ReportedCost(price, counts) # None, UpperBound(price, estimate) # None
    PROVE  ReportedCost(price, counts) <= UpperBound(price, estimate)
<1> DEFINE rate == IF price.input >= price.cached THEN price.input ELSE price.cached
           fresh == counts.input - counts.cached
<1>1. /\ price.input \in Nat /\ price.cached \in Nat /\ price.output \in Nat
      /\ estimate.input \in Nat /\ estimate.output \in Nat
      /\ counts.input \in Nat /\ counts.cached \in Nat /\ counts.output \in Nat
      /\ counts.input <= estimate.input /\ counts.output <= estimate.output
  BY Amounts DEF WithinBounds
<1>2. /\ fresh \in Nat /\ fresh + counts.cached = counts.input
      /\ rate \in Nat /\ price.input <= rate /\ price.cached <= rate
  BY <1>1
<1>3. /\ ReportedCost(price, counts) =
            Total(<<TokenCost(price.input, fresh), TokenCost(price.cached, counts.cached),
                    TokenCost(price.output, counts.output)>>)
      /\ UpperBound(price, estimate) =
            Total(<<TokenCost(rate, estimate.input), 1,
                    TokenCost(price.output, estimate.output)>>)
  BY DEF ReportedCost, UpperBound
<1> HIDE DEF rate, fresh
<1>4. ReportedCost(price, counts) =
          Ceil(price.input * fresh) + Ceil(price.cached * counts.cached)
              + Ceil(price.output * counts.output)
  <2> DEFINE a == TokenCost(price.input, fresh)
             b == TokenCost(price.cached, counts.cached)
             c == TokenCost(price.output, counts.output)
  <2>1. /\ a \in Nat \cup {None} /\ (a # None => a = Ceil(price.input * fresh))
        /\ b \in Nat \cup {None} /\ (b # None => b = Ceil(price.cached * counts.cached))
        /\ c \in Nat \cup {None} /\ (c # None => c = Ceil(price.output * counts.output))
    BY <1>1, <1>2, CostOfToken
  <2>2. ReportedCost(price, counts) = Total(<<a, b, c>>)
    BY <1>3
  <2> HIDE DEF a, b, c
  <2>3. /\ a \in Nat /\ b \in Nat /\ c \in Nat /\ ReportedCost(price, counts) = a + b + c
    BY <2>1, <2>2, TotalOfThree
  <2>4. a # None /\ b # None /\ c # None
    BY <2>3 DEF UsageCapAssumption
  <2> QED
    BY <2>1, <2>3, <2>4
<1>5. UpperBound(price, estimate) =
          Ceil(rate * estimate.input) + 1 + Ceil(price.output * estimate.output)
  <2> DEFINE a == TokenCost(rate, estimate.input)
             c == TokenCost(price.output, estimate.output)
  <2>1. /\ a \in Nat \cup {None} /\ (a # None => a = Ceil(rate * estimate.input))
        /\ c \in Nat \cup {None} /\ (c # None => c = Ceil(price.output * estimate.output))
    BY <1>1, <1>2, CostOfToken
  <2>2. UpperBound(price, estimate) = Total(<<a, 1, c>>)
    BY <1>3
  <2> HIDE DEF a, c
  <2>3. a \in Nat /\ c \in Nat /\ UpperBound(price, estimate) = a + 1 + c
    BY <2>1, <2>2, TotalOfThree
  <2>4. a # None /\ c # None
    BY <2>3 DEF UsageCapAssumption
  <2> QED
    BY <2>1, <2>3, <2>4
<1>6. Ceil(price.output * counts.output) <= Ceil(price.output * estimate.output)
  BY <1>1, ProductsGrow, CeilGrows
<1>7. Ceil(price.input * fresh) + Ceil(price.cached * counts.cached)
          <= Ceil(rate * estimate.input) + 1
  <2>1. /\ price.input * fresh \in Nat /\ rate * fresh \in Nat
        /\ price.input * fresh <= rate * fresh
    BY <1>1, <1>2, ProductsGrow
  <2>2. /\ price.cached * counts.cached \in Nat /\ rate * counts.cached \in Nat
        /\ price.cached * counts.cached <= rate * counts.cached
    BY <1>1, <1>2, ProductsGrow
  <2>3. /\ rate * counts.input \in Nat /\ rate * estimate.input \in Nat
        /\ rate * counts.input <= rate * estimate.input
    BY <1>1, <1>2, ProductsGrow
  <2>4. rate * fresh + rate * counts.cached = rate * counts.input
    BY <1>1, <1>2
  <2>5. /\ Ceil(price.input * fresh) <= Ceil(rate * fresh)
        /\ Ceil(price.cached * counts.cached) <= Ceil(rate * counts.cached)
        /\ Ceil(rate * counts.input) <= Ceil(rate * estimate.input)
    BY <2>1, <2>2, <2>3, CeilGrows
  <2>6. Ceil(rate * fresh) + Ceil(rate * counts.cached) <= Ceil(rate * counts.input) + 1
    BY <2>1, <2>2, <2>4, CeilOfParts
  <2>7. /\ Ceil(price.input * fresh) \in Nat /\ Ceil(price.cached * counts.cached) \in Nat
        /\ Ceil(rate * fresh) \in Nat /\ Ceil(rate * counts.cached) \in Nat
        /\ Ceil(rate * counts.input) \in Nat /\ Ceil(rate * estimate.input) \in Nat
    BY <2>1, <2>2, <2>3, RoundedUp
  <2> QED
    BY <2>5, <2>6, <2>7
<1>8. /\ Ceil(price.output * counts.output) \in Nat
      /\ Ceil(price.output * estimate.output) \in Nat
      /\ Ceil(price.input * fresh) \in Nat /\ Ceil(price.cached * counts.cached) \in Nat
      /\ Ceil(rate * estimate.input) \in Nat
  BY <1>1, <1>2, ProductsGrow, RoundedUp
<1> QED
  BY <1>4, <1>5, <1>6, <1>7, <1>8

-----------------------------------------------------------------------------
(* The invariant, part by part.                                             *)
Underway == {"claimed", "sent", "unsent", "settling", "lost"}

RowTypes ==
    /\ attempts \in [Calls -> Priced \cup {None}]
    /\ facts \in [Calls -> Facts \cup {None}]
    /\ reservations \in [Calls -> Reservations \cup {None}]
    /\ \A c \in Calls : reservations[c] # None =>
          attempts[c] # None /\ attempts[c].price # None
WorldTypes ==
    /\ host \in {"up", "starting"} /\ crashes \in 0 .. MaxCrashes /\ day \in 0 .. MaxDay
    /\ catalog \in [Providers -> Prices \cup {None}]
    /\ consent \in 0 .. MaxConsent /\ covered \in BOOLEAN
    /\ caps \in [CapIds -> [limit : Limits, revision : 1 .. MaxRevision] \cup {None}]

LEMMA Types ==
    /\ TypeOK <=> WorldTypes /\ RowTypes /\ calls \in [Calls -> CallSet]
    /\ TypeOK' <=> WorldTypes' /\ RowTypes' /\ calls' \in [Calls -> CallSet]
  BY DEF TypeOK, WorldTypes, RowTypes, CallSet, Priced, Facts

LEMMA InitUsage ==
    ASSUME UsageCapAssumption, Init
    PROVE  UsageInv
<1>1. /\ Idle \in CallSet /\ Idle.pc = "new" /\ Idle.report = None
  BY DEF Idle, CallSet, CallPcs, UsageCapAssumption
<1>2. WorldTypes
  <2>1. 0 \in 0 .. MaxCrashes /\ 0 \in 0 .. MaxDay /\ 0 \in 0 .. MaxConsent
    BY DEF UsageCapAssumption
  <2> QED
    BY <2>1 DEF Init, WorldTypes
<1>3. TypeOK
  BY <1>1, <1>2, Types DEF Init, RowTypes
<1>4. SummaryReadable /\ OpenWhileCalled /\ BoundCovers /\ StartsQuiet
  BY DEF Init, SummaryReadable, OpenWhileCalled, Orphans, BoundCovers, StartsQuiet
<1>5. \A c \in Calls : Carried(c) /\ Accounted(c) /\ Rowless(c)
  BY <1>1 DEF Init, Carried, Accounted, Rowless, Claimed
<1> QED
  BY <1>3, <1>4, <1>5 DEF UsageInv, UsageSafe, AccountsKept

(* When only the record of one call changes, the new record decides.        *)
LEMMA OnlyTheCall ==
    ASSUME UsageInv, host = "up", UNCHANGED <<host, crashes, day, worldVars, tableVars>>,
           NEW c \in Calls, NEW f \in CallSet, calls' = [calls EXCEPT ![c] = f],
           f.pc \in Claimed \cup {"admitted"} => f.estimate \in Estimates /\ f.provider \in Providers,
           f.report # None =>
              /\ f.pc = "settling" /\ f.report.cached <= f.report.input
              /\ Honest => WithinBounds(f.estimate, f.report),
           f.pc \in Claimed => calls[c].pc \in Claimed /\ f.estimate = calls[c].estimate,
           c \in Orphans => f.pc \in Underway
    PROVE  UsageInv'
<1>1. /\ calls \in [Calls -> CallSet] /\ WorldTypes /\ RowTypes
      /\ SummaryReadable /\ OpenWhileCalled /\ StartsQuiet
      /\ \A d \in Calls : Carried(d) /\ Accounted(d) /\ Rowless(d)
      /\ Honest => BoundCovers
  BY Types DEF UsageInv, UsageSafe, AccountsKept
<1>2. /\ calls' \in [Calls -> CallSet] /\ calls'[c] = f
      /\ \A d \in Calls : d # c => calls'[d] = calls[d]
  BY <1>1
<1>3. /\ host' = host /\ crashes' = crashes /\ day' = day
      /\ catalog' = catalog /\ consent' = consent /\ covered' = covered
      /\ caps' = caps /\ attempts' = attempts /\ facts' = facts
      /\ reservations' = reservations
  BY DEF worldVars, tableVars
<1>4. TypeOK'
  BY <1>1, <1>2, <1>3, Types DEF WorldTypes, RowTypes
<1>5. SummaryReadable'
  BY <1>1, <1>3 DEF SummaryReadable, RowReadable
<1>6. OpenWhileCalled'
  BY <1>1, <1>2, <1>3 DEF OpenWhileCalled, Orphans, Underway
<1>7. \A d \in Calls : Carried(d)'
  BY <1>1, <1>2, <1>3 DEF Carried
<1>8. \A d \in Calls : Accounted(d)' /\ Rowless(d)'
  BY <1>1, <1>2, <1>3 DEF Accounted, Rowless
<1>9. StartsQuiet' /\ (Honest => BoundCovers')
  BY <1>1, <1>3 DEF StartsQuiet, BoundCovers
<1> QED
  BY <1>4, <1>5, <1>6, <1>7, <1>8, <1>9 DEF UsageInv, UsageSafe, AccountsKept

LEMMA EndedForms ==
    ASSUME UsageCapAssumption, NEW pc \in CallPcs
    PROVE  Ended(pc) \in CallSet /\ Ended(pc).pc = pc /\ Ended(pc).report = None
  BY DEF Ended, Idle, CallSet, UsageCapAssumption

LEMMA AdmitKeeps ==
    ASSUME UsageCapAssumption, UsageInv, NEW c \in Calls, NEW p \in Providers, Admit(c, p)
    PROVE  UsageInv'
<1>1. PICK e \in Estimates :
         calls' = [calls EXCEPT ![c] = [pc |-> "admitted", provider |-> p,
                      consent |-> consent, estimate |-> e, report |-> None]]
  BY DEF Admit
<1> DEFINE f == [pc |-> "admitted", provider |-> p, consent |-> consent,
                 estimate |-> e, report |-> None]
<1>2. consent \in 0 .. MaxConsent
  BY DEF UsageInv, UsageSafe, AccountsKept, TypeOK
<1>3. /\ f \in CallSet /\ f.pc = "admitted" /\ f.report = None
      /\ f.estimate = e /\ f.provider = p
  BY <1>2 DEF CallSet, CallPcs
<1>5. c \notin Orphans
  BY DEF Admit, UsageInv, UsageSafe, AccountsKept, OpenWhileCalled
<1>6. calls' = [calls EXCEPT ![c] = f] /\ host = "up"
  BY <1>1 DEF Admit
<1>7. UNCHANGED <<host, crashes, day, worldVars, tableVars>>
  BY DEF Admit
<1> HIDE DEF f
<1> QED
  BY <1>3, <1>5, <1>6, <1>7, OnlyTheCall DEF Claimed

LEMMA ClaimNothingKeeps ==
    ASSUME UsageCapAssumption, UsageInv, NEW c \in Calls, ClaimNothing(c)
    PROVE  UsageInv'
<1>1. Ended("done") \in CallSet /\ Ended("done").pc = "done" /\ Ended("done").report = None
  BY EndedForms DEF CallPcs
<1>2. c \notin Orphans
  BY DEF ClaimNothing, UsageInv, UsageSafe, AccountsKept, OpenWhileCalled
<1> QED
  BY <1>1, <1>2, OnlyTheCall DEF ClaimNothing, Ends, Claimed

LEMMA RecordFailsKeeps ==
    ASSUME UsageCapAssumption, UsageInv, NEW c \in Calls, RecordFails(c)
    PROVE  UsageInv'
<1>1. Ended("lost") \in CallSet /\ Ended("lost").pc = "lost" /\ Ended("lost").report = None
  BY EndedForms DEF CallPcs
<1> QED
  BY <1>1, OnlyTheCall DEF RecordFails, Claimed, Underway

LEMMA SendKeeps ==
    ASSUME UsageCapAssumption, UsageInv, NEW c \in Calls, Send(c)
    PROVE  UsageInv'
<1> DEFINE f == [calls[c] EXCEPT !.pc = "sent"]
<1>1. calls[c] \in CallSet /\ Carried(c)
  BY Types DEF UsageInv, UsageSafe, AccountsKept
<1>2. /\ f \in CallSet /\ f.pc = "sent" /\ f.report = calls[c].report
      /\ f.estimate = calls[c].estimate /\ f.provider = calls[c].provider
  BY <1>1 DEF CallSet, CallPcs
<1>3. calls' = [calls EXCEPT ![c] = f] /\ host = "up" /\ calls[c].pc = "claimed"
  BY DEF Send
<1>4. UNCHANGED <<host, crashes, day, worldVars, tableVars>>
  BY DEF Send
<1> HIDE DEF f
<1>5. f.report = None /\ f.estimate \in Estimates /\ f.provider \in Providers
  BY <1>1, <1>2, <1>3 DEF Carried, Claimed
<1> QED
  BY <1>2, <1>3, <1>4, <1>5, OnlyTheCall DEF Claimed, Underway

LEMMA UnreportedKeeps ==
    ASSUME UsageCapAssumption, UsageInv, NEW c \in Calls, Unreported(c)
    PROVE  UsageInv'
<1> DEFINE pc == IF calls[c].pc = "claimed" THEN "unsent" ELSE "settling"
           f == [calls[c] EXCEPT !.pc = pc]
<1>1. calls[c] \in CallSet /\ Carried(c)
  BY Types DEF UsageInv, UsageSafe, AccountsKept
<1>2. /\ f \in CallSet /\ f.pc = pc /\ f.report = calls[c].report
      /\ f.estimate = calls[c].estimate /\ f.provider = calls[c].provider
  BY <1>1 DEF CallSet, CallPcs
<1>3. calls' = [calls EXCEPT ![c] = f] /\ host = "up" /\ calls[c].pc \in {"claimed", "sent"}
  BY <1>1 DEF Unreported, CallSet
<1>4. UNCHANGED <<host, crashes, day, worldVars, tableVars>>
  BY DEF Unreported
<1>5. pc \in {"unsent", "settling"}
  OBVIOUS
<1> HIDE DEF f, pc
<1>6. f.report = None /\ f.estimate \in Estimates /\ f.provider \in Providers
  BY <1>1, <1>2, <1>3 DEF Carried, Claimed
<1> QED
  BY <1>2, <1>3, <1>4, <1>5, <1>6, OnlyTheCall DEF Claimed, Underway

LEMMA AnswerKeeps ==
    ASSUME UsageCapAssumption, UsageInv, NEW c \in Calls, NEW counts \in Counts,
           Answer(c, counts)
    PROVE  UsageInv'
<1> DEFINE f == [calls[c] EXCEPT !.pc = "settling", !.report = counts]
<1>1. calls \in [Calls -> CallSet] /\ calls[c] \in CallSet /\ Carried(c)
  BY Types DEF UsageInv, UsageSafe, AccountsKept
<1>2. /\ f \in CallSet /\ f.pc = "settling" /\ f.report = counts
      /\ f.estimate = calls[c].estimate /\ f.provider = calls[c].provider
  BY <1>1 DEF CallSet, CallPcs
<1>3. calls' = [calls EXCEPT ![c] = f] /\ host = "up" /\ calls[c].pc = "sent"
  BY <1>1 DEF Answer
<1>4. /\ counts.cached <= counts.input
      /\ Honest => WithinBounds(calls[c].estimate, counts)
  BY DEF Answer
<1>5. UNCHANGED <<host, crashes, day, worldVars, tableVars>>
  BY DEF Answer
<1> HIDE DEF f
<1>6. f.estimate \in Estimates /\ f.provider \in Providers
  BY <1>1, <1>2, <1>3 DEF Carried, Claimed
<1> QED
  BY <1>2, <1>3, <1>4, <1>5, <1>6, OnlyTheCall DEF Claimed, Underway

-----------------------------------------------------------------------------
(* The steps that write rows.                                               *)
(* What is reserved is a bound that fits its column.                        *)
LEMMA BoundOfClaim ==
    ASSUME UsageCapAssumption, NoneIsNoRow, UsageInv, NEW c \in Calls, Claim(c),
           Admission(calls[c].provider, ClaimBound(c)) = "Reserved"
    PROVE  /\ catalog[calls[c].provider] \in Prices
           /\ ClaimBound(c) = UpperBound(catalog[calls[c].provider], calls[c].estimate)
           /\ ClaimBound(c) \in 0 .. MaxI64
<1>1. /\ calls[c].provider \in Providers /\ calls[c].estimate \in Estimates
      /\ catalog \in [Providers -> Prices \cup {None}]
  BY DEF Claim, UsageInv, UsageSafe, AccountsKept, TypeOK, Carried
<1>2. ClaimBound(c) # None
  BY DEF Admission
<1>3. /\ catalog[calls[c].provider] \in Prices
      /\ ClaimBound(c) = UpperBound(catalog[calls[c].provider], calls[c].estimate)
  BY <1>1, <1>2 DEF ClaimBound
<1>4. ClaimBound(c) \in Nat
  BY <1>1, <1>2, <1>3, BoundTyped
<1>5. ClaimBound(c) <= MaxI64
  BY DEF Claim
<1> QED
  BY <1>3, <1>4, <1>5 DEF UsageCapAssumption

LEMMA ClaimKeeps ==
    ASSUME UsageCapAssumption, NoneIsNoRow, UsageInv, NEW c \in Calls, Claim(c)
    PROVE  UsageInv'
<1> DEFINE price == catalog[calls[c].provider]
           row == [provider |-> calls[c].provider, price |-> price]
           reserved == [bound |-> ClaimBound(c), state |-> "Reserved", amount |-> None,
                        day |-> day]
           f == [calls[c] EXCEPT !.pc = "claimed"]
<1>1. /\ calls \in [Calls -> CallSet] /\ calls[c] \in CallSet /\ WorldTypes /\ RowTypes
      /\ SummaryReadable /\ OpenWhileCalled /\ StartsQuiet
      /\ \A d \in Calls : Carried(d) /\ Accounted(d) /\ Rowless(d)
      /\ Honest => BoundCovers
  BY Types DEF UsageInv, UsageSafe, AccountsKept
<1>2. /\ host = "up" /\ calls[c].pc = "admitted" /\ attempts[c] = None
      /\ host' = host /\ crashes' = crashes /\ day' = day
      /\ catalog' = catalog /\ consent' = consent /\ covered' = covered
      /\ caps' = caps /\ facts' = facts
  BY DEF Claim, worldVars
<1>3. calls[c].provider \in Providers /\ calls[c].estimate \in Estimates /\ calls[c].report = None
  BY <1>1, <1>2 DEF Carried
<1>4. /\ f \in CallSet /\ f.pc = "claimed" /\ f.report = None
      /\ f.estimate = calls[c].estimate /\ f.provider = calls[c].provider
  BY <1>1, <1>3 DEF CallSet, CallPcs
<1>5. row \in Priced /\ row # None /\ row.price = price
  BY <1>1, <1>3 DEF Priced, WorldTypes, NoneIsNoRow
<1>6. \/ reservations' = [reservations EXCEPT ![c] = None]
      \/ /\ reservations' = [reservations EXCEPT ![c] = reserved]
         /\ reserved \in Reservations /\ reserved # None /\ price \in Prices
         /\ reserved.state = "Reserved" /\ reserved.amount = None
         /\ reserved.bound = UpperBound(price, calls[c].estimate)
  <2>1. CASE Admission(calls[c].provider, ClaimBound(c)) = "NoCap"
    BY <2>1 DEF Claim
  <2>2. CASE Admission(calls[c].provider, ClaimBound(c)) = "Reserved"
    <3>1. /\ price \in Prices /\ ClaimBound(c) \in 0 .. MaxI64
          /\ ClaimBound(c) = UpperBound(price, calls[c].estimate)
      BY <2>2, BoundOfClaim
    <3>2. reserved \in Reservations
      BY <3>1, <1>1 DEF Reservations, WorldTypes
    <3>3. reservations' = [reservations EXCEPT ![c] = reserved]
      BY <2>2 DEF Claim
    <3> QED
      BY <3>1, <3>2, <3>3, ReservationForms
  <2> QED
    BY <2>1, <2>2 DEF Claim
<1>7. /\ calls' = [calls EXCEPT ![c] = f]
      /\ attempts' = [attempts EXCEPT ![c] = row]
  BY DEF Claim
<1> HIDE DEF f, row, reserved, price
<1>8. /\ calls' \in [Calls -> CallSet] /\ calls'[c] = f
      /\ attempts' \in [Calls -> Priced \cup {None}] /\ attempts'[c] = row
      /\ \A d \in Calls : d # c => /\ calls'[d] = calls[d] /\ attempts'[d] = attempts[d]
                                   /\ reservations'[d] = reservations[d]
  BY <1>1, <1>4, <1>5, <1>6, <1>7 DEF RowTypes
<1>9. /\ reservations' \in [Calls -> Reservations \cup {None}]
      /\ \/ reservations'[c] = None
         \/ /\ reservations'[c] = reserved /\ reserved # None /\ price \in Prices
            /\ reserved.state = "Reserved" /\ reserved.amount = None
            /\ reserved.bound = UpperBound(price, calls[c].estimate)
  BY <1>1, <1>6 DEF RowTypes
<1>10. RowTypes'
  <2>1. price \in Prices => price # None
    BY DEF NoneIsNoRow
  <2> QED
    BY <1>1, <1>2, <1>5, <1>8, <1>9, <2>1 DEF RowTypes
<1>11. TypeOK'
  BY <1>1, <1>2, <1>8, <1>10, Types DEF WorldTypes
<1>12. facts[c] = None
  BY <1>1, <1>2 DEF Rowless
<1>13. SummaryReadable'
  <2>1. RowReadable(c)'
    BY <1>2, <1>9, <1>12 DEF RowReadable
  <2>2. ASSUME NEW d \in Calls, d # c, attempts[d] # None PROVE RowReadable(d)'
    BY <1>1, <1>2, <1>8, <2>2 DEF SummaryReadable, RowReadable
  <2> QED
    BY <1>8, <2>1, <2>2 DEF SummaryReadable
<1>14. OpenWhileCalled'
  BY <1>1, <1>2, <1>4, <1>8 DEF OpenWhileCalled, Orphans
<1>15. \A d \in Calls : Carried(d)'
  BY <1>1, <1>3, <1>4, <1>8 DEF Carried
<1>16. \A d \in Calls : Accounted(d)' /\ Rowless(d)'
  BY <1>1, <1>2, <1>4, <1>5, <1>8, <1>9, <1>12 DEF Accounted, Rowless
<1>17. StartsQuiet' /\ (Honest => BoundCovers')
  BY <1>1, <1>2, <1>8, <1>9 DEF StartsQuiet, BoundCovers
<1> QED
  BY <1>11, <1>13, <1>14, <1>15, <1>16, <1>17 DEF UsageInv, UsageSafe, AccountsKept

(* An open reservation is settled as the fact says: without a cost it counts *)
(* its bound for good, with one it counts the cost.                         *)
LEMMA SettledForms ==
    ASSUME UsageCapAssumption, NoneIsNoRow, NEW r \in Reservations, r.state = "Reserved",
           NEW price \in Prices, NEW report \in Counts \cup {None},
           report # None => report.cached <= report.input,
           Settled(r, price, report) # None /\ Settled(r, price, report).amount # None =>
               Settled(r, price, report).amount <= MaxI64
    PROVE  LET s == Settled(r, price, report) IN
           /\ s \in Reservations /\ s.bound = r.bound
           /\ \/ s.state = "CommittedUnknown" /\ s.amount = None
              \/ /\ s.state = "CommittedReported" /\ s.amount # None
                 /\ report # None /\ s.amount = ReportedCost(price, report)
<1> DEFINE cost == IF report = None \/ price = None THEN None ELSE ReportedCost(price, report)
           s == [r EXCEPT !.state = IF cost = None THEN "CommittedUnknown"
                                    ELSE "CommittedReported", !.amount = cost]
<1>1. Settled(r, price, report) = s
  BY ReservationForms DEF Settled
<1>2. cost \in Nat \cup {None} /\ (cost # None => report # None /\ cost = ReportedCost(price, report))
  <2>1. CASE report = None \/ price = None
    BY <2>1
  <2>2. CASE report # None /\ price # None
    <3>1. ReportedCost(price, report) \in Nat \cup {None}
      BY <2>2, ReportedTyped
    <3> QED
      BY <2>2, <3>1
  <2> QED
    BY <2>1, <2>2
<1> HIDE DEF cost
<1>3. /\ s.bound = r.bound /\ s.amount = cost /\ s.day = r.day
      /\ s.state = IF cost = None THEN "CommittedUnknown" ELSE "CommittedReported"
  BY DEF Reservations
<1>4. cost \in 0 .. MaxI64 \cup {None}
  <2>1. CASE cost = None
    BY <2>1
  <2>2. CASE cost # None
    <3>1. s \in Unstored
      BY <1>2 DEF Reservations, Unstored
    <3>2. s # None
      BY <3>1 DEF NoneIsNoRow
    <3> QED
      BY <1>1, <1>2, <1>3, <2>2, <3>2 DEF UsageCapAssumption
  <2> QED
    BY <2>1, <2>2
<1>5. s \in Reservations
  BY <1>4 DEF Reservations
<1> HIDE DEF s
<1> QED
  BY <1>1, <1>2, <1>3, <1>5

LEMMA RecordKeeps ==
    ASSUME UsageCapAssumption, NoneIsNoRow, UsageInv, NEW c \in Calls, Record(c)
    PROVE  UsageInv'
<1> DEFINE report == calls[c].report
           price == attempts[c].price
           old == reservations[c]
           s == Settled(old, price, report)
           fact == FactOf(report)
<1>1. /\ calls \in [Calls -> CallSet] /\ calls[c] \in CallSet /\ WorldTypes /\ RowTypes
      /\ SummaryReadable /\ OpenWhileCalled /\ StartsQuiet
      /\ \A d \in Calls : Carried(d) /\ Accounted(d) /\ Rowless(d)
      /\ Honest => BoundCovers
  BY Types DEF UsageInv, UsageSafe, AccountsKept
<1>2. /\ host = "up" /\ calls[c].pc \in {"unsent", "settling"}
      /\ host' = host /\ crashes' = crashes /\ day' = day
      /\ catalog' = catalog /\ consent' = consent /\ covered' = covered
      /\ caps' = caps /\ attempts' = attempts
  BY DEF Record, worldVars
<1>3. /\ attempts[c] # None /\ facts[c] = None
      /\ old # None => /\ old \in Reservations /\ old.state = "Reserved" /\ price \in Prices
                       /\ old.bound = UpperBound(price, calls[c].estimate)
      /\ calls[c].estimate \in Estimates
  BY <1>1, <1>2 DEF Accounted, Carried, Claimed, RowTypes, Priced
<1>4. /\ report \in Counts \cup {None}
      /\ report # None => /\ report.cached <= report.input
                          /\ Honest => WithinBounds(calls[c].estimate, report)
  BY <1>1 DEF Carried, CallSet
<1>5. \/ old = None /\ s = None
      \/ /\ old # None /\ s \in Reservations /\ s # None
         /\ \/ s.state = "CommittedUnknown" /\ s.amount = None
            \/ /\ s.state = "CommittedReported" /\ s.amount # None
               /\ report # None /\ s.amount = ReportedCost(price, report)
               /\ Honest => s.amount <= s.bound
  <2>1. CASE old = None
    BY <2>1 DEF Settled
  <2>2. CASE old # None
    <3>1. s # None /\ s.amount # None => s.amount <= MaxI64
      BY DEF Record
    <3> HIDE DEF s
    <3>2. /\ s \in Reservations /\ s.bound = old.bound
          /\ \/ s.state = "CommittedUnknown" /\ s.amount = None
             \/ /\ s.state = "CommittedReported" /\ s.amount # None
                /\ report # None /\ s.amount = ReportedCost(price, report)
      BY <1>3, <1>4, <2>2, <3>1, SettledForms DEF s
    <3>3. old.bound # None
      BY <1>3, <2>2 DEF Reservations, UsageCapAssumption
    <3>4. ASSUME s.amount # None, report # None, Honest,
                 s.amount = ReportedCost(price, report)
          PROVE  s.amount <= s.bound
      BY <1>3, <1>4, <2>2, <3>2, <3>3, <3>4, BoundCoversReport
    <3> QED
      BY <2>2, <3>2, <3>4, ReservationForms
  <2> QED
    BY <2>1, <2>2
<1>6. /\ fact \in Facts /\ fact # None /\ fact.counts = report
      /\ fact.source = IF report = None THEN "Unknown" ELSE "Reported"
  BY <1>4 DEF FactOf, Facts, NoneIsNoRow
<1>7. /\ facts' = [facts EXCEPT ![c] = fact]
      /\ reservations' = [reservations EXCEPT ![c] = s]
      /\ calls' = [calls EXCEPT ![c] = Ended("done")]
  BY DEF Record, Ends
<1>8. Ended("done") \in CallSet /\ Ended("done").pc = "done" /\ Ended("done").report = None
  BY EndedForms DEF CallPcs
<1> HIDE DEF report, price, old, s, fact
<1>9. /\ calls' \in [Calls -> CallSet] /\ calls'[c] = Ended("done")
      /\ facts' \in [Calls -> Facts \cup {None}] /\ facts'[c] = fact
      /\ reservations' \in [Calls -> Reservations \cup {None}] /\ reservations'[c] = s
      /\ \A d \in Calls : d # c => /\ calls'[d] = calls[d] /\ facts'[d] = facts[d]
                                   /\ reservations'[d] = reservations[d]
  BY <1>1, <1>5, <1>6, <1>7, <1>8 DEF RowTypes
<1>10. TypeOK'
  <2>1. RowTypes'
    BY <1>1, <1>2, <1>3, <1>5, <1>9 DEF RowTypes, old
  <2> QED
    BY <1>1, <1>2, <1>9, <2>1, Types DEF WorldTypes
<1>11. SummaryReadable'
  <2>1. RowReadable(c)'
    BY <1>2, <1>4, <1>5, <1>6, <1>9 DEF RowReadable, price
  <2>2. ASSUME NEW d \in Calls, d # c, attempts[d] # None PROVE RowReadable(d)'
    BY <1>1, <1>2, <1>9, <2>2 DEF SummaryReadable, RowReadable
  <2> QED
    BY <1>2, <2>1, <2>2 DEF SummaryReadable
<1>12. OpenWhileCalled'
  BY <1>1, <1>2, <1>5, <1>9 DEF OpenWhileCalled, Orphans
<1>13. \A d \in Calls : Carried(d)'
  BY <1>1, <1>8, <1>9 DEF Carried, Claimed
<1>14. \A d \in Calls : Accounted(d)' /\ Rowless(d)'
  BY <1>1, <1>2, <1>3, <1>8, <1>9 DEF Accounted, Rowless, Claimed
<1>15. StartsQuiet' /\ (Honest => BoundCovers')
  BY <1>1, <1>2, <1>5, <1>9 DEF StartsQuiet, BoundCovers
<1> QED
  BY <1>10, <1>11, <1>12, <1>13, <1>14, <1>15 DEF UsageInv, UsageSafe, AccountsKept

-----------------------------------------------------------------------------
(* The owner, the clock and the host.                                       *)
LEMMA WorldKeeps ==
    ASSUME UsageInv, WorldTypes', host' = host, UNCHANGED <<attempts, facts, reservations, calls>>
    PROVE  UsageInv'
<1>1. /\ calls \in [Calls -> CallSet] /\ RowTypes
      /\ SummaryReadable /\ OpenWhileCalled /\ StartsQuiet
      /\ \A d \in Calls : Carried(d) /\ Accounted(d) /\ Rowless(d)
      /\ Honest => BoundCovers
  BY Types DEF UsageInv, UsageSafe, AccountsKept
<1>2. TypeOK'
  BY <1>1, Types DEF RowTypes
<1>3. SummaryReadable'
  BY <1>1 DEF SummaryReadable, RowReadable
<1>4. OpenWhileCalled' /\ StartsQuiet' /\ (Honest => BoundCovers')
  BY <1>1 DEF OpenWhileCalled, Orphans, StartsQuiet, BoundCovers
<1>5. \A d \in Calls : Carried(d)' /\ Accounted(d)' /\ Rowless(d)'
  BY <1>1 DEF Carried, Accounted, Rowless
<1> QED
  BY <1>2, <1>3, <1>4, <1>5 DEF UsageInv, UsageSafe, AccountsKept

LEMMA SetCapKeeps ==
    ASSUME UsageCapAssumption, UsageInv, NEW id \in CapIds, NEW limit \in Limits,
           SetCap(id, limit)
    PROVE  UsageInv'
<1> DEFINE cap == [limit |-> limit,
                   revision |-> IF caps[id] = None THEN 1 ELSE caps[id].revision + 1]
<1>1. WorldTypes
  BY Types DEF UsageInv, UsageSafe, AccountsKept
<1>2. CASE caps[id] # None
  <2>1. /\ caps[id] \in [limit : Limits, revision : 1 .. MaxRevision]
        /\ caps[id].revision < MaxRevision
    BY <1>1, <1>2 DEF WorldTypes, SetCap
  <2>2. caps[id].revision + 1 \in 1 .. MaxRevision
    BY <2>1 DEF UsageCapAssumption
  <2>3. cap \in [limit : Limits, revision : 1 .. MaxRevision]
    BY <1>2, <2>2
  <2> QED
    BY <1>1, <2>3, WorldKeeps DEF SetCap, WorldTypes, worldVars
<1>3. CASE caps[id] = None
  <2>1. cap \in [limit : Limits, revision : 1 .. MaxRevision]
    BY <1>3 DEF UsageCapAssumption
  <2> QED
    BY <1>1, <2>1, WorldKeeps DEF SetCap, WorldTypes, worldVars
<1> QED
  BY <1>2, <1>3

LEMMA OtherWorldKeeps ==
    ASSUME UsageCapAssumption, UsageInv, ChangeConsent \/ Cover \/ NextDay
    PROVE  UsageInv'
<1>1. WorldTypes
  BY Types DEF UsageInv, UsageSafe, AccountsKept
<1>2. CASE ChangeConsent
  <2>1. consent + 1 \in 0 .. MaxConsent
    BY <1>1, <1>2 DEF WorldTypes, ChangeConsent, UsageCapAssumption
  <2> QED
    BY <1>1, <1>2, <2>1, WorldKeeps DEF ChangeConsent, WorldTypes, tableVars
<1>3. CASE Cover
  BY <1>1, <1>3, WorldKeeps DEF Cover, WorldTypes, tableVars
<1>4. CASE NextDay
  <2>1. day + 1 \in 0 .. MaxDay
    BY <1>1, <1>4 DEF WorldTypes, NextDay, UsageCapAssumption
  <2> QED
    BY <1>1, <1>4, <2>1, WorldKeeps DEF NextDay, WorldTypes, worldVars, tableVars
<1> QED
  BY <1>2, <1>3, <1>4

(* The process ends: what was under way is forgotten, its rows stay.        *)
LEMMA CrashKeeps ==
    ASSUME UsageCapAssumption, UsageInv, Crash
    PROVE  UsageInv'
<1>1. /\ calls \in [Calls -> CallSet] /\ WorldTypes /\ RowTypes /\ SummaryReadable
      /\ \A d \in Calls : Carried(d) /\ Accounted(d) /\ Rowless(d)
      /\ Honest => BoundCovers
  BY Types DEF UsageInv, UsageSafe, AccountsKept
<1>2. /\ host' = "starting" /\ day' = day /\ catalog' = catalog /\ consent' = consent
      /\ covered' = covered /\ caps' = caps /\ attempts' = attempts /\ facts' = facts
      /\ reservations' = reservations
  BY DEF Crash, worldVars, tableVars
<1>3. Ended("done") \in CallSet /\ Ended("done").pc = "done" /\ Ended("done").report = None
  BY EndedForms DEF CallPcs
<1>4. /\ calls' \in [Calls -> CallSet]
      /\ \A d \in Calls : calls'[d].pc \in {"new", "done"} /\ calls'[d].report = None
  BY <1>1, <1>3 DEF Crash, Carried
<1>5. TypeOK'
  <2>1. crashes' \in 0 .. MaxCrashes
    BY <1>1 DEF Crash, WorldTypes, UsageCapAssumption
  <2> QED
    BY <1>1, <1>2, <1>4, <2>1, Types DEF WorldTypes, RowTypes
<1>6. SummaryReadable'
  BY <1>1, <1>2 DEF SummaryReadable, RowReadable
<1>7. OpenWhileCalled' /\ StartsQuiet' /\ (Honest => BoundCovers')
  BY <1>1, <1>2, <1>4 DEF OpenWhileCalled, StartsQuiet, BoundCovers
<1>8. \A d \in Calls : Carried(d)' /\ Accounted(d)' /\ Rowless(d)'
  BY <1>1, <1>2, <1>4 DEF Carried, Accounted, Rowless, Claimed
<1> QED
  BY <1>5, <1>6, <1>7, <1>8 DEF UsageInv, UsageSafe, AccountsKept

(* The startup pass: every open reservation counts its bound for good.      *)
LEMMA StartupKeeps ==
    ASSUME UsageCapAssumption, NoneIsNoRow, UsageInv, Startup
    PROVE  UsageInv'
<1>1. /\ calls \in [Calls -> CallSet] /\ WorldTypes /\ RowTypes /\ SummaryReadable /\ StartsQuiet
      /\ \A d \in Calls : Carried(d) /\ Accounted(d) /\ Rowless(d)
      /\ Honest => BoundCovers
  BY Types DEF UsageInv, UsageSafe, AccountsKept
<1>2. /\ host = "starting" /\ host' = "up" /\ crashes' = crashes /\ day' = day
      /\ catalog' = catalog /\ consent' = consent /\ covered' = covered
      /\ caps' = caps /\ attempts' = attempts /\ calls' = calls
  BY DEF Startup, worldVars
<1>3. /\ FactOf(None) \in Facts /\ FactOf(None) # None
      /\ FactOf(None).source = "Unknown" /\ FactOf(None).counts = None
  BY DEF FactOf, Facts, NoneIsNoRow
<1>4. ASSUME NEW d \in Calls, d \notin Orphans
      PROVE  facts'[d] = facts[d] /\ reservations'[d] = reservations[d]
  BY <1>4 DEF Startup
<1>5. ASSUME NEW d \in Calls, d \in Orphans
      PROVE  /\ attempts[d] # None /\ reservations[d] # None
             /\ facts'[d] = FactOf(None)
             /\ reservations'[d] \in Reservations /\ reservations'[d] # None
             /\ reservations'[d].state = "CommittedUnknown" /\ reservations'[d].amount = None
  <2>1. /\ reservations[d] \in Reservations /\ reservations[d].state = "Reserved"
        /\ reservations[d] # None /\ attempts[d] # None
    BY <1>1, <1>5 DEF Orphans, RowTypes
  <2>2. reservations[d].amount = None
    BY <1>1, <2>1 DEF SummaryReadable, RowReadable
  <2>3. /\ reservations'[d] = [reservations[d] EXCEPT !.state = "CommittedUnknown"]
        /\ facts'[d] = FactOf(None)
    BY <1>5 DEF Startup
  <2>4. /\ reservations'[d] \in Reservations
        /\ reservations'[d].state = "CommittedUnknown" /\ reservations'[d].amount = None
    BY <2>1, <2>2, <2>3 DEF Reservations
  <2> QED
    BY <2>1, <2>3, <2>4, ReservationForms
<1>6. RowTypes'
  <2>1. /\ \A d \in Calls : facts'[d] \in Facts \cup {None}
        /\ \A d \in Calls : reservations'[d] \in Reservations \cup {None}
        /\ \A d \in Calls : reservations'[d] # None =>
              attempts[d] # None /\ attempts[d].price # None
    BY <1>1, <1>3, <1>4, <1>5 DEF RowTypes
  <2>2. /\ facts' = [d \in Calls |-> facts'[d]]
        /\ reservations' = [d \in Calls |-> reservations'[d]]
    BY DEF Startup
  <2> QED
    BY <1>1, <1>2, <2>1, <2>2 DEF RowTypes
<1>7. TypeOK'
  BY <1>1, <1>2, <1>6, Types DEF WorldTypes
<1>8. SummaryReadable'
  <2>1. ASSUME NEW d \in Calls, d \in Orphans PROVE RowReadable(d)'
    BY <1>3, <1>5, <2>1 DEF RowReadable
  <2>2. ASSUME NEW d \in Calls, d \notin Orphans, attempts[d] # None PROVE RowReadable(d)'
    BY <1>1, <1>2, <1>4, <2>2 DEF SummaryReadable, RowReadable
  <2> QED
    BY <1>2, <2>1, <2>2 DEF SummaryReadable
<1>9. OpenWhileCalled' /\ StartsQuiet'
  <2>1. \A d \in Calls : d \notin Orphans'
    BY <1>4, <1>5 DEF Orphans
  <2> QED
    BY <1>2, <2>1 DEF OpenWhileCalled, StartsQuiet, Orphans
<1>10. Honest => BoundCovers'
  BY <1>1, <1>4, <1>5 DEF BoundCovers
<1>11. \A d \in Calls : Carried(d)' /\ Accounted(d)' /\ Rowless(d)'
  BY <1>1, <1>2, <1>4, <1>5 DEF Carried, Accounted, Rowless, Claimed, StartsQuiet
<1> QED
  BY <1>7, <1>8, <1>9, <1>10, <1>11 DEF UsageInv, UsageSafe, AccountsKept

-----------------------------------------------------------------------------
LEMMA StepUsage ==
    ASSUME UsageCapAssumption, NoneIsNoRow, UsageInv, [Next]_vars
    PROVE  UsageInv'
<1>1. CASE UNCHANGED vars
  BY <1>1, WorldKeeps, Types
     DEF vars, worldVars, tableVars, UsageInv, UsageSafe, AccountsKept, WorldTypes
<1>2. ASSUME NEW c \in Calls, Dispatch(c) \/ \E p \in Providers : Admit(c, p)
      PROVE  UsageInv'
  BY <1>2, AdmitKeeps, ClaimNothingKeeps, ClaimKeeps, SendKeeps, UnreportedKeeps, AnswerKeeps,
     RecordKeeps, RecordFailsKeeps
     DEF Dispatch
<1> QED
  BY <1>1, <1>2, SetCapKeeps, OtherWorldKeeps, CrashKeeps, StartupKeeps DEF Next

LEMMA UsageInductive ==
    ASSUME UsageCapAssumption, NoneIsNoRow
    PROVE  Spec => []UsageInv
  BY InitUsage, StepUsage, PTL DEF Spec

(* Whatever calls, settlements, failures and restarts happened, the rows of  *)
(* every call are readable together, and what is open is under way or will   *)
(* be swept (inference.rs, decode_usage_summary, settle_reservation and      *)
(* reconcile_orphaned_usage_reservations).                                   *)
THEOREM PageReadable ==
    ASSUME UsageCapAssumption, NoneIsNoRow
    PROVE  Spec => [](TypeOK /\ AccountsKept)
<1>1. UsageInv => TypeOK /\ AccountsKept
  BY DEF UsageInv, UsageSafe
<1> QED
  BY <1>1, UsageInductive, PTL

(* A reported cost stays within the bound that was reserved, as long as the  *)
(* provider keeps to the bounds of the request: the one unit upper_bound_cost*)
(* adds is what the separate rounding of cached and fresh input may cost.    *)
THEOREM CostWithinBound ==
    ASSUME UsageCapAssumption, NoneIsNoRow, Honest
    PROVE  Spec => []BoundCovers
<1>1. UsageInv => BoundCovers
  BY DEF UsageInv
<1> QED
  BY <1>1, UsageInductive, PTL
=============================================================================
