---------------------------- MODULE FallbackChain ----------------------------
(***************************************************************************)
(* What a walk over a chain of CLI platforms promises, whichever walker    *)
(* does it: the chain is fixed before the first platform is tried, the     *)
(* cursor moves forward one platform at a time, a platform is tried again  *)
(* fewer than Cap times, and the walk ends once: answered by the platform  *)
(* under the cursor, or failed.                                            *)
(***************************************************************************)
EXTENDS Naturals, Sequences

CONSTANTS Platforms, Cap

VARIABLES chain,     \* the platforms to try, in order
          pos,       \* the cursor: 0 before the walk, Len(chain) + 1 past its end
          retries,   \* failed tries on the platform under the cursor that were repeated
          outcome    \* "open", "answered" or "failed"

walk == <<chain, pos, retries, outcome>>

Init == /\ chain \in Seq(Platforms)
        /\ pos = 0 /\ retries = 0 /\ outcome = "open"

FixChain == /\ outcome = "open" /\ pos = 0
            /\ chain' \in Seq(Platforms) /\ pos' \in {0, 1}
            /\ UNCHANGED <<retries, outcome>>

MoveOn == /\ outcome = "open" /\ pos <= Len(chain)
          /\ pos' = pos + 1 /\ retries' = 0
          /\ UNCHANGED <<chain, outcome>>

TryAgain == /\ outcome = "open" /\ pos \in 1..Len(chain) /\ retries + 1 < Cap
            /\ retries' = retries + 1
            /\ UNCHANGED <<chain, pos, outcome>>

Answer == /\ outcome = "open" /\ pos \in 1..Len(chain)
          /\ outcome' = "answered"
          /\ UNCHANGED <<chain, pos, retries>>

GiveUp == /\ outcome = "open"
          /\ outcome' = "failed"
          /\ UNCHANGED <<chain, pos, retries>>

Next == FixChain \/ MoveOn \/ TryAgain \/ Answer \/ GiveUp

Spec == Init /\ [][Next]_walk
=============================================================================
