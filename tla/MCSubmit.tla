------------------------------ MODULE MCSubmit ------------------------------
(* Two viewers, two workers: one viewer clicks a gated statement in two    *)
(* tabs and an ungated one, the other a gated one.                         *)
EXTENDS Submit, TLC

CONSTANTS t1, t2

MCThread == {t1, t2}
MCUser == {"alice", "bob"}
MCId == {1, 2, 3}
MCBody == {"quiz", "comment"}
MCOnce == {"quiz"}
MCClick == {[user |-> "alice", id |-> 1, body |-> "quiz"],
            [user |-> "alice", id |-> 2, body |-> "quiz"],
            [user |-> "alice", id |-> 3, body |-> "comment"],
            [user |-> "bob", id |-> 1, body |-> "quiz"]}
MCArc == 1..3

Symmetry == Permutations(MCThread)
=============================================================================
