---------------------------- MODULE MemoryPromise ----------------------------
(***************************************************************************)
(* What the memory service promises a writer, without tables, transactions  *)
(* or audit: a memory is a register with a life of four phases, and each    *)
(* idempotency key takes effect at most once per window of length TTL.      *)
(***************************************************************************)
EXTENDS Integers

CONSTANTS Items, Payloads, Slots, TTL, None

VARIABLES
  clock,
  phase,     \* item -> absent, live, forgotten or erased
  current,   \* item -> the content served for it, None when there is none
  residue,   \* items of which some content is still stored
  executed   \* idempotency slot -> instant of its latest effect, or None

vars == <<clock, phase, current, residue, executed>>

Phases == {"absent", "live", "forgotten", "erased"}

Init ==
  /\ clock = 0
  /\ phase = [i \in Items |-> "absent"]
  /\ current = [i \in Items |-> None]
  /\ residue = {}
  /\ executed = [s \in Slots |-> None]

\* The one effect of slot s in its window, decided at instant t.
TakeEffect(s, t) ==
  /\ (executed[s] # None => executed[s] + TTL <= t)
  /\ executed' = [executed EXCEPT ![s] = t]
  /\ UNCHANGED clock

Save(i, p, s, t) ==
  /\ phase[i] = "absent"
  /\ phase' = [phase EXCEPT ![i] = "live"]
  /\ current' = [current EXCEPT ![i] = p]
  /\ residue' = residue \cup {i}
  /\ TakeEffect(s, t)

Revise(i, p, s, t) ==
  /\ phase[i] = "live"
  /\ current' = [current EXCEPT ![i] = p]
  /\ TakeEffect(s, t)
  /\ UNCHANGED <<phase, residue>>

Forget(i, s, t) ==
  /\ phase[i] = "live"
  /\ phase' = [phase EXCEPT ![i] = "forgotten"]
  /\ current' = [current EXCEPT ![i] = None]
  /\ TakeEffect(s, t)
  /\ UNCHANGED residue

Erase(i) ==
  /\ phase[i] = "forgotten"
  /\ phase' = [phase EXCEPT ![i] = "erased"]
  /\ residue' = residue \ {i}
  /\ UNCHANGED <<clock, current, executed>>

Tick == clock' = clock + 1 /\ UNCHANGED <<phase, current, residue, executed>>

Next ==
  \/ \E i \in Items, s \in Slots, t \in 0..clock :
       (\E p \in Payloads : Save(i, p, s, t) \/ Revise(i, p, s, t)) \/ Forget(i, s, t)
  \/ \E i \in Items : Erase(i)
  \/ Tick

Spec == Init /\ [][Next]_vars
=============================================================================
