----------------------------- MODULE UsageMoney -----------------------------
(***************************************************************************)
(* What a run cost (usage_ledger.py): a pricing snapshot is applied to the *)
(* tokens a producer observed, and whoever reads the record applies it     *)
(* again before trusting the figure beside it.                             *)
(*                                                                         *)
(* A producer may state anything; `claim` is the record it hands in.  One  *)
(* million tokens are one unit of tokens, so a price is count times rate.  *)
(***************************************************************************)
EXTENDS Naturals, FiniteSets, FiniteSetsExt

CONSTANTS
    Component,  \* token components: input, output, cache reads and writes
    Count,      \* token counts a provider may report
    Rate,       \* dollars per unit
    Money,      \* the figures a producer may state
    Units,      \* plan capacity units a producer may state
    None        \* null: not known, or not given

VARIABLES
    claim,  \* the record: its tokens, its snapshot and what it says they cost
    entry   \* "submitted", "recorded" or "refused"

moneyVars == <<claim, entry>>

Tokens == [Component -> Count \cup {None}]
Mode == {"payg", "subscription"}
Pricing == [mode : Mode, rate : [Component -> Rate \cup {None}], perUnit : Rate \cup {None}]
Status == Mode \cup {"unknown"}
Figures == [status : Status, usd : Money \cup {None}, billed : Money \cup {None}]

\* Without a snapshot there is nothing to name: "unpriced".
Claim == [tokens : Tokens, pricing : Pricing \cup {None}, units : Units \cup {None},
          figures : Figures]

-----------------------------------------------------------------------------
Total(tokens, parts) == MapThenSumSet(LAMBDA c : tokens[c], parts)

Priced(pricing) == {c \in Component : pricing.rate[c] # None}

\* Mutation: an unknown count costs nothing.
UsdForKnown(pricing, tokens) ==
    IF Priced(pricing) = {} THEN None
    ELSE MapThenSumSet(LAMBDA c : IF tokens[c] = None THEN 0 ELSE tokens[c] * pricing.rate[c],
                       Priced(pricing))

\* The tokens at their rates.
Cost(pricing, tokens) ==
    MapThenSumSet(LAMBDA c : tokens[c] * pricing.rate[c], Priced(pricing))

\* `usd_for`: unknown as soon as one priced component is.
UsdFor(pricing, tokens) ==
    IF Priced(pricing) = {} \/ \E c \in Priced(pricing) : tokens[c] = None THEN None
    ELSE Cost(pricing, tokens)

\* Capacity is observed, or follows from a total that is known in full.
Capacity(pricing, tokens, units) ==
    IF units # None THEN units
    ELSE IF pricing.perUnit = None \/ \E c \in Component : tokens[c] = None THEN None
    ELSE Total(tokens, Component) * pricing.perUnit

\* `monetary_equivalent`: what it builds, or nothing where it raises.
Equivalent(tokens, pricing, units) ==
    IF pricing = None
    THEN {e \in {[status |-> "unknown", usd |-> None, billed |-> None, units |-> units]} : units = None}
    ELSE LET usd == UsdFor(pricing, tokens) IN
         IF pricing.mode = "subscription"
         THEN {[status |-> "subscription", usd |-> usd, billed |-> None,
                units |-> Capacity(pricing, tokens, units)]}
         ELSE IF units # None THEN {}
         ELSE {[status |-> IF usd = None THEN "unknown" ELSE "payg",
                usd |-> usd, billed |-> usd, units |-> None]}

\* `_load_monetary`: the status fits the snapshot and the figures it allows.
WellFormed(c) ==
    /\ c.figures.status = "payg" =>
          c.pricing # None /\ c.pricing.mode = "payg" /\ c.figures.billed # None
    /\ c.figures.status = "subscription" =>
          c.pricing # None /\ c.pricing.mode = "subscription" /\ c.figures.billed = None
    /\ c.figures.status = "unknown" => c.figures.billed = None /\ c.figures.usd = None

\* `_require_reproducible_money`: the snapshot and the tokens give the figures.
Reproducible(c) ==
    c.pricing = None \/
    \E e \in Equivalent(c.tokens, c.pricing, c.units) :
       e.status = c.figures.status /\ e.usd = c.figures.usd /\ e.billed = c.figures.billed

-----------------------------------------------------------------------------
\* Forge's own records: the figures are built from the tokens, and written with
\* the capacity that was observed or derived.
Built(c) ==
    \E given \in Units \cup {None} : \E e \in Equivalent(c.tokens, c.pricing, given) :
       /\ c.figures = [status |-> e.status, usd |-> e.usd, billed |-> e.billed]
       /\ c.units = e.units

MoneyInit == claim \in Claim /\ entry = "submitted"

\* `load_usage_record`, as far as money goes.
Load ==
    /\ entry = "submitted"
    /\ entry' = IF WellFormed(claim) /\ Reproducible(claim) THEN "recorded" ELSE "refused"
    /\ UNCHANGED claim

MoneyNext == Load

MoneySpec == MoneyInit /\ [][MoneyNext]_moneyVars

-----------------------------------------------------------------------------
\* "Unknown is unknown", "subscriptions are not pay-as-you-go": dollars beside a
\* snapshot are recorded only where every count they rest on is known, and billed
\* only if they were.  What Forge builds is accepted by the ledger that reads it,
\* though the capacity it derived is read back as one that was observed.
HonestMoney ==
    /\ entry = "recorded" /\ claim.figures.usd # None =>
          /\ claim.pricing # None
          /\ \A c \in Priced(claim.pricing) : claim.tokens[c] # None
          /\ claim.figures.usd = Cost(claim.pricing, claim.tokens)
    /\ entry = "recorded" /\ claim.figures.billed # None => claim.pricing.mode = "payg"
    /\ entry = "refused" => ~Built(claim)
=============================================================================
