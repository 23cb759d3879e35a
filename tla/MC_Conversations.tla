-------------------------- MODULE MC_Conversations --------------------------
(* Small instances of Conversations for TLC. *)
EXTENDS Conversations, TLC

CONSTANTS c1, c2

Scope(person, device, room) ==
    [room |-> room, owner |-> "owner", realm |-> "realm", policy |-> "p",
     memory |-> TRUE, person |-> person, epoch |-> "e", session |-> "s",
     device |-> device]

Start(t, c, s) == [turn |-> t, conv |-> c, scope |-> s, crisis |-> t = 3]

Anonymous == Scope(None, "d1", FALSE)
Kitchen   == Scope(None, "d2", FALSE)
Ada       == Scope("ada", "d1", FALSE)
Room      == Scope("ada", "d1", TRUE)

\* The anonymous default may change its device; a person and a room of the
\* same owner try the same conversation, and one turn id is used twice.
MCInputs == {Start(1, c1, Anonymous), Start(2, c1, Kitchen), Start(3, c1, Anonymous),
             Start(2, c1, Ada), Start(1, c2, Room)}

Symmetric == Permutations(Runs)

=============================================================================
