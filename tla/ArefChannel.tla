----------------------------- MODULE ArefChannel -----------------------------
(***************************************************************************)
(* What an aref promises to the partitions of a warp_specialize: a ring of *)
(* Depth[a] slots.  Every producer puts its part of an item in each round, *)
(* every consumer gets the item of each round.  A producer enters round n  *)
(* when every consumer is done with the item that had its slot, round      *)
(* n - Depth[a]; a consumer enters it when every producer is done with it. *)
(* An access ends in its own time after its exit, and two accesses of one  *)
(* partition, in different slots, may end in any order.                    *)
(***************************************************************************)
EXTENDS Naturals

CONSTANTS
    Arefs,
    Depth,      \* Depth[a]: number of slots
    Producers,  \* Producers[a], Consumers[a]: the partitions that put and get
    Consumers

VARIABLES
    entered,  \* entered[a][p]: rounds partition p has entered on a
    done      \* done[a][p]: the rounds whose access is over

Users(a) == Producers[a] \cup Consumers[a]

Init ==
    /\ entered = [a \in Arefs |-> [p \in Users(a) |-> 0]]
    /\ done = [a \in Arefs |-> [p \in Users(a) |-> {}]]

Enter(a, p) ==
    /\ entered' = [entered EXCEPT ![a][p] = @ + 1]
    /\ UNCHANGED done

Put(a, p) ==
    LET round == entered[a][p] + 1 IN
    /\ p \in Producers[a]
    /\ round > Depth[a] => \A c \in Consumers[a] : round - Depth[a] \in done[a][c]
    /\ Enter(a, p)

Get(a, p) ==
    /\ p \in Consumers[a]
    /\ \A q \in Producers[a] : entered[a][p] + 1 \in done[a][q]
    /\ Enter(a, p)

End(a, p) ==
    \E round \in 1 .. entered[a][p] :
        /\ round \notin done[a][p]
        /\ done' = [done EXCEPT ![a][p] = @ \cup {round}]
        /\ UNCHANGED entered

Next == \E a \in Arefs : \E p \in Users(a) : Put(a, p) \/ Get(a, p) \/ End(a, p)

Spec == Init /\ [][Next]_<<entered, done>>
=============================================================================
