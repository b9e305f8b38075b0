----------------------------- MODULE MCSavePage -----------------------------
(* Alice's tab edits a graph, drawn from the saved tables, and elsewhere   *)
(* on the page a form of another table whose values are constants; bob's   *)
(* edits the same graph.                                                   *)
EXTENDS SavePage

MCThread == {"t1"}
MCReader == {}
MCUser == {"alice", "bob"}
MCId == {1, 2}
MCTable == {"plan", "params"}
MCKey == {1}
MCField == {"qty"}

Change1(t, o) == <<[table |-> t, op |-> o, cells |-> {<<1, "qty">>}]>>
MCBody == {Change1("plan", "replace"), Change1("params", "upsert")}
Graph(u) == [user |-> u, id |-> 1, body |-> Change1("plan", "replace")]
Form == [user |-> "alice", id |-> 2, body |-> Change1("params", "upsert")]
MCClick == {Graph("alice"), Form, Graph("bob")}
MCBase == 0..3
MCPage == {"alice's tab", "bob's tab"}
MCTabOf == [c \in MCClick |-> IF c.user = "alice" THEN "alice's tab"
                              ELSE "bob's tab"]
MCReading == {Graph("alice"), Graph("bob")}
=============================================================================
