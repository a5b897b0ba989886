----------------------------- MODULE MCTaskApi -----------------------------
(* The instance of TaskApi for TLC.                                        *)
EXTENDS TaskApi, TLC

CONSTANTS c1, c2, c3, old, new

MCClients == {c1, c2, c3}
MCTitles == {old, new, Blank}
MCSymmetry == Permutations(MCClients)

F(op, id, title, done) == [op |-> op, id |-> id, title |-> title, done |-> done]
List2 == F("tasks", 0, Nil, Nil)
Read1 == F("task", 1, Nil, Nil)
Retitle1 == F("update", 1, new, Nil)
Finish1 == F("update", 1, Nil, TRUE)
Change1 == F("update", 1, new, TRUE)
Delete1 == F("delete", 1, Nil, Nil)
Delete2 == F("delete", 2, Nil, Nil)
Make == F("create", 0, new, Nil)
MakeBlank == F("create", 0, Blank, Nil)

A(via, token, fields) == [via |-> via, token |-> token, json |-> TRUE, fields |-> fields]
NotJson(field) == [via |-> "rest", token |-> FALSE, json |-> FALSE, fields |-> <<field>>]

MCAsks ==
    { A("query", FALSE, <<List2, Read1>>),
      A("mutation", FALSE, <<Make>>),
      A("mutation", TRUE, <<Retitle1, Finish1>>),
      A("mutation", TRUE, <<Delete1, Change1>>),
      A("mutation", TRUE, <<Make, Delete2>>),
      A("mutation", TRUE, <<MakeBlank>>),
      A("rest", FALSE, <<List2>>),
      A("rest", FALSE, <<Read1>>),
      A("rest", FALSE, <<Change1>>),
      A("rest", FALSE, <<MakeBlank>>),
      A("rest", FALSE, <<Make>>),
      NotJson(Change1) }
=============================================================================
