------------------------------- MODULE UsageSignIn -------------------------------
(* The providers that ask a vendor's server with a token the agent itself keeps   *)
(* (tintaview/stats/providers/claude.py, cursor.py and copilot.py): the agent may *)
(* renew it, sign out or be refused while a fetch is under way, and what the      *)
(* fetch answers decides whether the panel asks the user to sign in.              *)
EXTENDS Integers

CONSTANTS
    MaxRenewals       \* bound on the tokens the agent goes through

VARIABLES
    provider,       \* which of the three is fetching
    store,          \* the agent's token store: a token, or why there is none
    accepted,       \* the token the server honours, 0 for none
    issued,
    ask,            \* the fetch: its phase, the token it read, whether it has retried
    verdict,        \* what the last fetch made of it
    signedIn,       \* history: the stored token was honoured all through the fetch
    renewed         \* history: how often it was renewed meanwhile

signInVars == <<provider, store, accepted, issued, ask, verdict, signedIn, renewed>>

\* Assumed in Tray.tla.
SignInAssumption == MaxRenewals \in Nat \ {0}

\* No token; a store that cannot be read; a token nothing here can decrypt.
NoToken == {"absent", "locked", "sealed"}
Resting == [phase |-> "idle", token |-> 0, retried |-> FALSE]
\* A result: "rows", or no rows and the error's kind.
Results == {"none", "rows", "activity", "transient", "auth"}

SignedIn == store.why = "token" /\ store.token = accepted
Stored(n) == [why |-> "token", token |-> n]
Without(why) == [why |-> why, token |-> 0]

Init ==
    /\ provider \in {"claude", "cursor", "copilot"}
    /\ store = Stored(1) /\ accepted = 1 /\ issued = 1
    /\ ask = Resting /\ verdict = "none" /\ signedIn = TRUE /\ renewed = 0

--------------------------------------------------------------------------------
(* The agent and the server.                                                      *)

\* A new token, of a renewal or of signing in again; the one before is refused from now on.
Renew ==
    /\ issued < MaxRenewals /\ issued' = issued + 1
    /\ store' = Stored(issued + 1) /\ accepted' = issued + 1
    /\ renewed' = renewed + 1
    /\ UNCHANGED <<provider, ask, verdict, signedIn>>

\* Signed out, or the store is locked by another program or sealed anew.
TokenGoes ==
    /\ \E why \in NoToken : store' = Without(why)
    /\ signedIn' = FALSE
    /\ UNCHANGED <<provider, accepted, issued, ask, verdict, renewed>>

Expire ==
    /\ accepted' = 0 /\ signedIn' = FALSE
    /\ UNCHANGED <<provider, store, issued, ask, verdict, renewed>>

--------------------------------------------------------------------------------
(* A fetch.                                                                       *)

Ends(result) == verdict' = result /\ ask' = Resting
Asks(token, again) ==
    ask' = [phase |-> "posting", token |-> token, retried |-> again] /\ UNCHANGED verdict

\* _fetch_token_totals: Copilot's own database, or a plain failure.
Totals == {"activity", "transient"}

\* What no usable token means: Claude's is a login, whatever kept it from being read;
\* Cursor tells a missing one from one it cannot read; Copilot has another source.
Untokened(why) ==
    CASE provider = "claude" -> {"auth"}
      [] provider = "cursor" -> IF why = "absent" THEN {"auth"} ELSE {"transient"}
      [] provider = "copilot" -> Totals

Begin ==
    /\ ask.phase = "idle"
    /\ signedIn' = SignedIn /\ renewed' = 0
    /\ IF store.why = "token" THEN Asks(store.token, FALSE)
       ELSE \E result \in Untokened(store.why) : Ends(result)
    /\ UNCHANGED <<provider, store, accepted, issued>>

\* Mutant: a refusal is final for Cursor too.
RefusedAtOnce ==
    /\ ask.phase = "posting" /\ ask.token # accepted
    /\ IF provider = "copilot" THEN \E result \in Totals : Ends(result) ELSE Ends("auth")
    /\ UNCHANGED <<provider, store, accepted, issued, signedIn, renewed>>

\* 401 or 403: Cursor, which renews its token while it runs, is asked once more with
\* whatever its store holds by then.
Refused ==
    /\ ask.phase = "posting" /\ ask.token # accepted
    /\ CASE provider = "cursor" /\ ~ask.retried /\ store.why = "token" -> Asks(store.token, TRUE)
         [] provider = "copilot" -> \E result \in Totals : Ends(result)
         [] OTHER -> Ends("auth")
    /\ UNCHANGED <<provider, store, accepted, issued, signedIn, renewed>>

\* Rows, or a payload without any.
Honoured ==
    /\ ask.phase = "posting" /\ ask.token = accepted
    /\ \/ Ends("rows")
       \/ IF provider = "copilot" THEN \E result \in Totals : Ends(result) ELSE Ends("transient")
    /\ UNCHANGED <<provider, store, accepted, issued, signedIn, renewed>>

\* Any other status, no network, a timeout, a body that is no JSON.
Fails ==
    /\ ask.phase = "posting"
    /\ IF provider = "copilot" THEN \E result \in Totals : Ends(result) ELSE Ends("transient")
    /\ UNCHANGED <<provider, store, accepted, issued, signedIn, renewed>>

Next == Renew \/ TokenGoes \/ Expire \/ Begin \/ Refused \/ Honoured \/ Fails
Spec == Init /\ [][Next]_signInVars

--------------------------------------------------------------------------------
TypeOK ==
    /\ provider \in {"claude", "cursor", "copilot"}
    /\ store.why \in {"token"} \cup NoToken /\ store.token \in 0..MaxRenewals
    /\ accepted \in 0..MaxRenewals /\ issued \in 1..MaxRenewals /\ verdict \in Results
    /\ ask.phase \in {"idle", "posting"}

\* Nobody who was signed in all along is told to sign in, also when Cursor renewed its
\* token between the read and the request; Claude's fetch does not look again, so only a
\* login that was left alone meanwhile is promised anything.
SignedInIsNotAskedTo ==
    [][verdict' = "auth" /\ ask' = Resting /\ ask # Resting /\ signedIn =>
          renewed > IF provider = "cursor" THEN 1 ELSE 0]_signInVars
================================================================================
