---------------------- MODULE MCSecDocumentCollection ----------------------
(* Two filings, the first naming one document, two workers. *)
EXTENDS SecDocumentCollection, TLC

CONSTANTS f1, f2, d1

MCFilings == {f1, f2}
MCDocuments == {d1}
MCDocumentsOf == (f1 :> {d1}) @@ (f2 :> {})
Seconds == {[form |-> "none", wait |-> 0], [form |-> "seconds", wait |-> 2]}
Date == {[form |-> "date", wait |-> 2]}
=============================================================================
