----------------------------- MODULE DurableWork -----------------------------
(***************************************************************************)
(* What a continuity ledger promises of the work it keeps, without agents, *)
(* leases, clocks or rows.  Work waits until it is begun.  Interrupted work *)
(* waits again, a bounded number of times and only while its effect is not *)
(* in the log.  Submitted work never runs again: it succeeds, or is held   *)
(* for an operator, and may then still succeed when a late worker brings   *)
(* the effect.  Work succeeds only with its effect in the log, and effects *)
(* are only made for work that somebody began.                             *)
(***************************************************************************)
EXTENDS Integers

CONSTANTS
    Work,      \* pieces of work
    MaxRetries \* interruptions after which work is still taken up again

VARIABLES
    stage, \* stage[w]: how far w has come
    tries, \* tries[w]: interruptions of w
    done   \* work whose effect has been made

vars == <<stage, tries, done>>

Stages == {"waiting", "running", "submitted", "held", "succeeded", "closed"}

Init ==
    /\ stage = [w \in Work |-> "waiting"]
    /\ tries = [w \in Work |-> 0]
    /\ done = {}

\* Somebody began w, though it may be waiting again or settled by now.
Begun(w) ==
    \/ stage[w] \in {"running", "submitted", "held", "succeeded"}
    \/ tries[w] > 0

\* The effect of work that was begun, once; whoever makes it may be late.
MakeEffect(w) ==
    /\ Begun(w)
    /\ w \notin done
    /\ done' = done \cup {w}
    /\ UNCHANGED <<stage, tries>>

Goes(w, to) == stage'[w] = to /\ tries'[w] = tries[w]
GoesInterrupted(w, to) == stage'[w] = to /\ tries'[w] = tries[w] + 1

Begin(w) == stage[w] = "waiting" /\ Goes(w, "running")
Refuse(w) == stage[w] = "waiting" /\ Goes(w, "closed")
Submit(w) == stage[w] = "running" /\ Goes(w, "submitted")

Interrupt(w) ==
    /\ stage[w] = "running" /\ w \notin done
    /\ tries[w] < MaxRetries
    /\ GoesInterrupted(w, "waiting")

GiveUp(w) ==
    /\ stage[w] = "running" /\ w \notin done
    /\ tries[w] = MaxRetries
    /\ GoesInterrupted(w, "closed")

Hold(w) == stage[w] = "submitted" /\ w \notin done /\ Goes(w, "held")

Succeed(w) ==
    /\ stage[w] \in {"running", "submitted", "held"} /\ w \in done
    /\ Goes(w, "succeeded")

Moves(w) ==
    \/ Begin(w) \/ Refuse(w) \/ Submit(w)
    \/ Interrupt(w) \/ GiveUp(w) \/ Hold(w) \/ Succeed(w)

\* One pass of recovery moves several pieces of work at once.
MoveSome ==
    /\ stage' \in [Work -> Stages]
    /\ tries' \in [Work -> 0..(MaxRetries + 1)]
    /\ \A w \in Work : Moves(w) \/ Goes(w, stage[w])
    /\ UNCHANGED done

Next == (\E w \in Work : MakeEffect(w)) \/ MoveSome

Spec == Init /\ [][Next]_vars
=============================================================================
