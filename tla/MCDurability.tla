---------------------------- MODULE MCDurability ----------------------------
(* Two submissions, two workers. *)
EXTENDS Durability

MCWorker == {"w1", "w2"}
MCUser == {"alice", "bob"}
MCId == {1}
MCBody == {"quiz"}
MCClick == [user : MCUser, id : MCId, body : MCBody]
=============================================================================
