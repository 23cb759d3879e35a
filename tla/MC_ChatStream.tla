---------------------------- MODULE MC_ChatStream ----------------------------
(* Small instances of ChatStream for TLC. *)
EXTENDS ChatStream, TLC

OneConversation == [t \in Turns |-> CHOOSE c \in Convs : TRUE]

Symmetric == Permutations(Turns)

=============================================================================
