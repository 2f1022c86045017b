------------------------------ MODULE DocTable ------------------------------
(***************************************************************************)
(* hw2/DocTable.c: the names of the documents and their ids, as two tables *)
(* that are each other's inverse.                                          *)
(***************************************************************************)
EXTENDS FileParser

INVALID_DOCID == 0

DocTable_Allocate ==
    [docid_to_docname |-> <<>>, docname_to_docid |-> <<>>, max_id |-> 1]

DocTable_NumDocs(table) == Cardinality(DOMAIN table.docid_to_docname)

DocTable_GetDocID(table, docname) ==
    IF FNVHash64(docname) \in DOMAIN table.docname_to_docid
    THEN table.docname_to_docid[FNVHash64(docname)] ELSE INVALID_DOCID

DocTable_GetDocName(table, docid) ==
    IF docid \in DOMAIN table.docid_to_docname THEN table.docid_to_docname[docid] ELSE NULL

(* The table with the document in it; DocTable_Add returns the id that     *)
(* DocTable_GetDocID then finds.                                           *)
DocTable_Add(table, docname) ==
    IF DocTable_GetDocID(table, docname) # INVALID_DOCID THEN table
    ELSE [docid_to_docname |-> Extended(table.docid_to_docname, table.max_id, docname),
          docname_to_docid |-> Extended(table.docname_to_docid, FNVHash64(docname), table.max_id),
          max_id |-> table.max_id + 1]
=============================================================================
