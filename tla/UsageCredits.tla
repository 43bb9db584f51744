------------------------------ MODULE UsageCredits ------------------------------
(* JetBrains credits (tintaview/stats/providers/jetbrains.py, stats/junie_usage.py):  *)
(* a balance shared by IDEs, each of which writes what it knew in one of two files,   *)
(* and by Junie's sessions, whose cost is added while no IDE has seen it; and an      *)
(* allowance that starts anew every period, whether or not anybody writes that down.  *)
EXTENDS Integers, FiniteSets, FiniteSetsExt

CONSTANTS
    Sessions,       \* Junie's sessions on disk
    OwnKey,         \* those billed to somebody else's provider
    Allowance,      \* tariffQuota.maximum
    Period,         \* nextRefill.tariff.duration
    MaxDay

VARIABLES
    day,
    used,           \* the server's truth: credits used in this period
    quota,          \* AIAssistantQuotaManager2.xml: when it was written, if ever, and its figures
    balance,        \* other.xml, which knows what is left only
    junie,          \* each session's summary.json: its cost and updatedAt
    seen,           \* history: each session's cost when an IDE last wrote
    credits         \* the last poll's figures, and the truth at that moment

creditVars == <<day, used, quota, balance, junie, seen, credits>>

\* Assumed in Tray.tla.
CreditAssumption ==
    /\ IsFiniteSet(Sessions) /\ OwnKey \subseteq Sessions
    /\ Allowance \in Nat /\ Period \in Nat \ {0} /\ MaxDay \in Nat

Never == -1
Costs == [s \in Sessions |-> junie[s].cost]
SumCosts(S, cost) == MapThenSumSet(LAMBDA s : cost[s], S)

Init ==
    /\ day = 0 /\ used = 0
    /\ quota = [at |-> Never, used |-> 0, refill |-> Period]
    /\ balance = [at |-> Never, left |-> Allowance]
    /\ junie = [s \in Sessions |-> [cost |-> 0, updated |-> Never]]
    /\ seen = Costs
    /\ credits = [used |-> 0, stale |-> FALSE, dated |-> FALSE, truth |-> 0]

--------------------------------------------------------------------------------
(* The account.  No two events share an instant.                                  *)

Advance == day < MaxDay /\ day' = day + 1
Carried == IF day' % Period = 0 THEN 0 ELSE used

DayPasses ==
    /\ Advance /\ used' = Carried
    /\ UNCHANGED <<quota, balance, junie, seen, credits>>

\* Junie's next turn in a session, which rewrites the session's whole cost.
JunieWorks ==
    /\ Advance
    /\ \E s \in Sessions :
          /\ junie' = [junie EXCEPT ![s] = [cost |-> junie[s].cost + 1, updated |-> day']]
          /\ used' = Carried + (IF s \in OwnKey THEN 0 ELSE 1)
    /\ UNCHANGED <<quota, balance, seen, credits>>

\* An IDE spends or not, talks to the server, and writes what it learnt: an older one the
\* quota file with the next refill, a newer one the balance alone.
IdeWrites ==
    /\ Advance
    /\ \E spent \in {0, 1} : used' = Carried + spent
    /\ seen' = Costs
    /\ \/ /\ quota' = [at |-> day', used |-> used', refill |-> (day' \div Period + 1) * Period]
          /\ UNCHANGED balance
       \/ balance' = [at |-> day', left |-> Allowance - used'] /\ UNCHANGED quota
    /\ UNCHANGED <<junie, credits>>

--------------------------------------------------------------------------------
(* A poll (_fetch).                                                               *)

\* _period: where the period that now falls in began, from a refill long past.
PeriodStart ==
    LET end == IF quota.refill > day THEN quota.refill
               ELSE quota.refill + ((day - quota.refill) \div Period + 1) * Period
    IN  end - Period

\* credits_since: every session updated since, at its whole cost, if the account is billed.
CreditsSince(at) ==
    SumCosts({s \in Sessions \ OwnKey : junie[s].updated >= at}, Costs)

\* _with_live: what is left, against the maximum the quota file gave.
WithLive == Max({0, Allowance - balance.left})

\* The newest of the two sources.  Without a quota file nothing dates the period.
NewestIsBalance == balance.at # Never /\ balance.at >= quota.at
SourceAt == IF NewestIsBalance THEN balance.at ELSE quota.at
Stale == quota.at # Never /\ SourceAt < PeriodStart
FetchCredits ==
    /\ SourceAt # Never
    /\ credits' = [used |-> (IF NewestIsBalance THEN WithLive ELSE quota.used)
                            + (IF Stale THEN 0 ELSE CreditsSince(SourceAt)),
                   stale |-> Stale, dated |-> quota.at # Never, truth |-> used]
    /\ UNCHANGED <<day, used, quota, balance, junie, seen>>

Next == DayPasses \/ JunieWorks \/ IdeWrites \/ FetchCredits
Spec == Init /\ [][Next]_creditVars

--------------------------------------------------------------------------------
TypeOK ==
    /\ day \in 0..MaxDay /\ used \in 0..MaxDay
    /\ quota.at \in Never..MaxDay /\ balance.at \in Never..MaxDay
    /\ \A s \in Sessions : junie[s].cost \in Nat /\ junie[s].updated \in Never..MaxDay

\* Figures that are not marked as last period's never promise credits that are gone,
\* whichever file is newest and whoever spent since; and they are exact unless a session
\* has gone on after an IDE had seen a part of its cost.
CreditsAddUp ==
    [][credits' # credits /\ credits'.dated /\ ~credits'.stale =>
          /\ credits'.used >= credits'.truth
          /\ (\A s \in Sessions : junie[s].updated >= SourceAt => seen[s] = 0)
                => credits'.used = credits'.truth]_creditVars

================================================================================
