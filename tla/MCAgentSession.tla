--------------------------- MODULE MCAgentSession ---------------------------
(* Instances of AgentSession for TLC. *)
EXTENDS AgentSession, TLC

Gaps == {0, 1}
Homes == Collection \cup {None}

Proposed(id, kind, key) ==
    [id |-> id, kind |-> kind, field |-> key, value |-> id, status |-> "pending"]

TwoOrNone ==
    {<<>>, <<Proposed(1, "profile", "topic"), Proposed(2, "progress", "focus")>>}

Symmetric == Permutations(Client)

=============================================================================
