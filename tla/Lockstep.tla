------------------------------ MODULE Lockstep ------------------------------
(***************************************************************************)
(* What a sync-step monitor promises.  Programs take steps, each an event  *)
(* it says; none says its next event before its last one is accounted for, *)
(* and events are accounted for together, when all of them agree with the  *)
(* first program's, or alone, when the monitor is told to skip them.  The  *)
(* verdict tells whether the programs said the same.  A program may break  *)
(* loose, or be killed; nothing is promised of it then.                    *)
(***************************************************************************)
EXTENDS Naturals, Sequences

CONSTANTS
    Programs,           \* 1 .. n, the oracle is 1
    Agrees(_, _, _),    \* does program p's event agree with the oracle's?
    Skippable(_)        \* may this event be skipped?

VARIABLES said, pos, loose, killed, verdict
lvars == <<said, pos, loose, killed, verdict>>

NoVerdict == 4

Open  == verdict = NoVerdict
Owes(p) == Len(said[p]) > pos[p]     \* p has said an event that is not accounted for
Held(p) == said[p][pos[p] + 1]

Init ==
    /\ said = [p \in Programs |-> <<>>] /\ pos = [p \in Programs |-> 0]
    /\ loose = {} /\ killed = {} /\ verdict = NoVerdict

\* p says one more event.
Says(p) ==
    /\ Len(said'[p]) = Len(said[p]) + 1
    /\ said' = [said EXCEPT ![p] = Append(@, said'[p][Len(said[p]) + 1])]

Say(p) ==
    /\ Says(p)
    /\ ~Owes(p) \/ p \in loose
    /\ UNCHANGED <<pos, loose, killed, verdict>>

\* A program stops waiting for its answers; it may say an event meanwhile.
BreakLoose(p) ==
    /\ loose' = loose \cup {p}
    /\ \/ UNCHANGED said
       \/ Says(p)
    /\ UNCHANGED <<pos, killed, verdict>>

Kill(p) ==
    /\ killed' = killed \cup {p}
    /\ UNCHANGED <<said, pos, loose, verdict>>

Mismatch(p) == Owes(p) /\ Owes(1) /\ ~Agrees(p, Held(p), Held(1))

\* The barrier: everyone's next event is there, and all agree with the oracle's.
Agree ==
    /\ Open
    /\ \A p \in Programs \ loose : Owes(p)
    /\ 1 \notin loose => \A p \in Programs \ (loose \cup {1}) : ~Mismatch(p)
    /\ pos' = [p \in Programs |-> pos[p] + 1]
    /\ UNCHANGED <<said, loose, killed, verdict>>

Skip(p) ==
    /\ Open
    /\ p \notin loose => Owes(p) /\ Skippable(Held(p))
    /\ pos' = [pos EXCEPT ![p] = @ + 1]
    /\ UNCHANGED <<said, loose, killed, verdict>>

\* 0: every event of every program is accounted for.
Pass ==
    /\ Open /\ verdict' = 0
    /\ \A p \in Programs \ loose : ~Owes(p)
    /\ UNCHANGED <<said, pos, loose, killed>>

\* 1: some program really said something else, or did not get to say it.
Diverge ==
    /\ Open /\ verdict' = 1
    /\ killed # {} \/ loose # {} \/ \E p \in Programs : Mismatch(p)
    /\ UNCHANGED <<said, pos, loose, killed>>

\* 2, 3: only when a program was killed or broke loose.
GiveUp ==
    /\ Open /\ verdict' \in {2, 3}
    /\ killed # {} \/ loose # {}
    /\ UNCHANGED <<said, pos, loose, killed>>

Next == \/ Agree \/ Pass \/ Diverge \/ GiveUp
        \/ \E p \in Programs : Say(p) \/ BreakLoose(p) \/ Kill(p) \/ Skip(p)

Spec == Init /\ [][Next]_lvars
=============================================================================
