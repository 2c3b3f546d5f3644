-------------------------- MODULE SessionLifecycle --------------------------
(***************************************************************************)
(* What the session service promises, without requests, rows or locks: a   *)
(* session is opened once and closed once, and while it is open exactly    *)
(* one refresh token is good for it.  A token that was replaced, or whose  *)
(* session was closed, is never good again.                                *)
(***************************************************************************)
CONSTANTS
  Sessions,   \* session ids
  Tokens,     \* refresh tokens that can ever be minted
  NoToken     \* not in Tokens: "no token is good for this session"

VARIABLES
  phase,      \* where each session is in its life
  current,    \* the one refresh token that is good for it
  minted      \* every token minted so far

lifecycleVars == <<phase, current, minted>>

LifecycleInit ==
  /\ phase = [s \in Sessions |-> "absent"]
  /\ current = [s \in Sessions |-> NoToken]
  /\ minted = {}

Mint(t) ==
  /\ t \notin minted
  /\ minted' = minted \cup {t}

Open(s, t) ==
  /\ phase[s] = "absent"
  /\ Mint(t)
  /\ phase' = [phase EXCEPT ![s] = "open"]
  /\ current' = [current EXCEPT ![s] = t]

Rotate(s, t) ==
  /\ phase[s] = "open"
  /\ Mint(t)
  /\ current' = [current EXCEPT ![s] = t]
  /\ UNCHANGED phase

(***************************************************************************)
(* A rotation that loses the race with the closing of its session mints a  *)
(* token that is never good for anything.                                  *)
(***************************************************************************)
MintDead(t) ==
  /\ Mint(t)
  /\ UNCHANGED <<phase, current>>

Close(S) ==
  /\ \A s \in S : phase[s] = "open"
  /\ phase' = [s \in Sessions |-> IF s \in S THEN "closed" ELSE phase[s]]
  /\ current' = [s \in Sessions |-> IF s \in S THEN NoToken ELSE current[s]]
  /\ UNCHANGED minted

LifecycleNext ==
  \/ \E s \in Sessions, t \in Tokens : Open(s, t) \/ Rotate(s, t)
  \/ \E t \in Tokens : MintDead(t)
  \/ \E S \in SUBSET Sessions : Close(S)

LifecycleSpec == LifecycleInit /\ [][LifecycleNext]_lifecycleVars

=============================================================================
