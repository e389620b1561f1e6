----------------------------- MODULE MCUploads -----------------------------
(* A photo (one file), papers (several files) and a ledger (several files, *)
(* versioned), and two contents a file can have.                           *)
EXTENDS Uploads, TLC

CONSTANTS photo, papers, ledger, a, b

MCSections == {photo, papers, ledger}
MCMultiple == {papers, ledger}
MCVersioned == {ledger}
MCContents == {a, b}

Up(op, how, s, files) == [op |-> op, how |-> how, sec |-> s, files |-> files,
                          admitted |-> TRUE, ok |-> TRUE]
Del(op, s, files) == [op |-> op, how |-> "delete", sec |-> s, files |-> files,
                      admitted |-> TRUE, ok |-> TRUE]
MCJobs ==
  { Up("uploadFile", "create", photo, {a}),
    Up("uploadFile", "update", photo, {a}),
    Up("uploadFile", "update", photo, {b}),
    [Up("uploadFile", "update", photo, {a}) EXCEPT !.ok = FALSE],
    [Up("uploadFile", "update", photo, {b}) EXCEPT !.admitted = FALSE],
    Up("uploadFiles", "create", papers, {a, b}),
    [Up("uploadFiles", "create", papers, {a, b}) EXCEPT !.ok = FALSE],
    Up("uploadFiles", "update", papers, {a}),
    Up("uploadFiles", "create", ledger, {a}),
    Del("deleteDocument", papers, {a}),
    [Del("deleteDocument", papers, {a}) EXCEPT !.ok = FALSE],
    Del("deleteDocument", ledger, {a}),
    Del("deleteSection", photo, {}),
    Del("deleteSection", papers, {}),
    Del("deleteSection", ledger, {}) }

Nothing == [s \in Sections |-> Absent]
MCStartDocs == { Nothing,
                 [Nothing EXCEPT ![photo] = {a}, ![papers] = {a, b}],
                 [Nothing EXCEPT ![papers] = {b}, ![ledger] = {a}] }

Symmetry == Permutations(Requests)
=============================================================================
