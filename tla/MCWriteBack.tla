----------------------------- MODULE MCWriteBack -----------------------------
(* Two writers, two tabs: alice saves a graph (every row of the table) and *)
(* a field of its row 1, bob another field of row 1.                       *)
EXTENDS WriteBack, TLC

CONSTANTS t1, t2

MCThread == {t1, t2}
MCReader == {"panel"}
MCUser == {"alice", "bob"}
MCId == {1, 2}
MCTable == {"plan"}
MCKey == {1, 2}
MCField == {"qty", "note"}

Graph == <<[table |-> "plan", op |-> "replace",
            cells |-> {<<1, "qty">>, <<2, "qty">>}]>>
Form(k, f) == <<[table |-> "plan", op |-> "upsert", cells |-> {<<k, f>>}]>>

MCBody == {Graph, Form(1, "qty"), Form(1, "note")}
MCClick == {[user |-> "alice", id |-> 1, body |-> Graph],
            [user |-> "alice", id |-> 2, body |-> Form(1, "qty")],
            [user |-> "bob", id |-> 1, body |-> Form(1, "note")]}
MCBase == 0..1

Symmetry == Permutations(MCThread)
=============================================================================
