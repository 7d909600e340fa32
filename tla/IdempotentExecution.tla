------------------------ MODULE IdempotentExecution ------------------------
(***************************************************************************)
(* What an idempotency key promises, whatever executes it: the first claim *)
(* of the key, a run and the input it was given, stands for good, and the  *)
(* effect is started once, after the claim.                                *)
(* packages/action-runtime/src/index.ts                                    *)
(* (claimFor, IdempotencyLedger) over packages/event-store/src.            *)
(***************************************************************************)
EXTENDS Naturals

CONSTANTS Keys, Claims, None

VARIABLES owner,   \* key -> the claim that owns it, or None
          starts   \* key -> how often its effect has been started

ivars == <<owner, starts>>

IInit == /\ owner = [k \in Keys |-> None]
         /\ starts = [k \in Keys |-> 0]

Own(k, claim) == /\ owner[k] = None
                 /\ owner' = [owner EXCEPT ![k] = claim]
                 /\ UNCHANGED starts

Start(k) == /\ owner[k] # None
            /\ starts[k] = 0
            /\ starts' = [starts EXCEPT ![k] = 1]
            /\ UNCHANGED owner

INext == \E k \in Keys : Start(k) \/ \E claim \in Claims : Own(k, claim)

ISpec == IInit /\ [][INext]_ivars
=============================================================================
